# Event booker: a TLA+ model of the booking service

The program is a Go service in front of PostgreSQL. Users book seats of events
and must confirm (pay for) a booking before a deadline; a scheduler cancels the
bookings that were not confirmed and delivers notices from an outbox table.
This directory holds the TLA+ modules that model it, the TLC configurations
that check them and the TLAPS proofs about them. There is no prose
documentation in the repository: everything below is read from the source.

## 1. Inventory

| component | source | state it keeps | operations |
|---|---|---|---|
| Booking transactions | `internal/repository/postgres/event.go`, `internal/service/event.go` | rows of `events`, `bookings`, `notification_outbox`; row locks; the transaction of each call | `CreateEvent`, `Book`, `Confirm`, `CancelExpired` |
| Scheduler | `internal/scheduler/scheduler.go` | a ticker; one tick at a time | `Run`, `tick`: a sweep (`CancelExpired`), then a dispatch (`DispatchNotifications`) |
| Outbox and dispatcher | the same repository and service files | status, attempts, lease and next attempt of each outbox row; the batch a dispatcher works on | `FetchDueNotifications`, `MarkNotificationSent`, `RescheduleNotification`, `MarkNotificationFailed` |
| Notifiers | `internal/notifier/*.go` | the table of channels; sends still under way in goroutines | `Notify`, email and Telegram sends with a time limit |
| Telegram chat registry | `internal/notifier/telegram.go`, `internal/repository/postgres/telegram_chat.go` | rows of `telegram_chats` | the updates listener's `rememberChat`, lookups |
| Start and shutdown | `internal/app`, `internal/di`, `pkg/closer` | the list of close functions; what is open | `NewContainer`, `Run`, `CloseAll` |
| HTTP API and authorisation | `internal/api/http/*.go`, `internal/service/auth.go` | rows of `users`; the tokens in the hands of clients, which carry user and role until they expire | `Login`, `Parse`, the routes, `RequireRole`, `handleError` |
| Web page | `web/index.html` | `state`: token, events, `loading`, the poll timer | `loadEvents`, `renderEvents`, `syncPolling`, `login`, `logout`, `bookEvent` |
| Read queries | the repository file | none | `ListEvents`, `GetEvent`, `ListBookingsByOwner` |
| Metrics | `internal/metrics/metrics.go`, `internal/service/event.go` | counters | increments after the calls return |
| Schema | `migrations/*.sql` | the constraints, above all `idx_bookings_one_active_per_owner` | none |
| Configuration, logging, build | `internal/config`, `pkg/logger`, `Dockerfile` | none after the start | none |

How they interact: an HTTP request is one call of the service and at most one
database transaction. Requests meet each other and the scheduler only in
PostgreSQL, through row locks, the unique index and what is committed. A change
of a booking's status and its outbox rows are written by one transaction; the
dispatcher reads those rows later, possibly in another process, and reaches the
outside world through the notifiers. Shutdown closes the parts one after
another while requests and a tick may still be running.

What is hard about it:

- transactions of several statements under READ COMMITTED, serialised only by
  `lockEvent`, row locks and SKIP LOCKED; statements that see rows committed
  since their transaction began, while `now()` stays at its beginning;
- two clock readings in one request (`now()` in SQL, `time.Now()` in Go) that
  disagree about what has expired;
- commits whose answer is lost, statements that fail half-way;
- delivery with leases and no fencing: a slow dispatcher, a crash between the
  send and its mark, a send that ends after its time limit;
- a shutdown that closes the pool under running work, within a limit of time
  that handlers need not keep;
- roles that a token goes on asserting after the table has lost them, and a row
  that changes between the two halves of a login;
- names on Telegram that change hands, spelled in several ways, while a process
  that polls for them stops, starts and loses writes;
- a page whose loads, clicks and timer overlap.

What makes each part correct: no event is overbooked and nobody holds two
active bookings of one event; a booking changes its status at most once and is
not cancelled before its deadline; every change of status owes its owner exactly
one notice for each channel; an answer is true of the database; expired seats
are released and every request ends; every notice is settled, a settled notice
stays settled, and notices are repeated only after a fault; a shutdown ends,
answers what it had accepted when it says that all went well, and repeats at
most one notice; a booking belongs to whoever authenticated, and no role
outlives a login and a token; a notice goes to a chat its addressee wrote in;
the page never goes back in time and comes to show what it waits for.

## 2. The modules

| module | what it is |
|---|---|
| `BookingDomain` | the tables as functions from identifiers to rows, the constants and their assumptions, and one operator for each predicate the SQL uses |
| `SeatLedger` | the abstract specification: a request is submitted, takes effect in one atomic step and is answered |
| `BookingStore` | the transactions of `EventRepository`, one action per SQL statement, interleaved |
| `BookingStoreProofs`, `BookingLedgerProofs` | the theorems about `BookingStore` |
| `BookingMetrics` | `BookingStore` with the counter of booking state changes beside it |
| `NotificationOutbox` | the outbox table and the dispatchers of several processes that empty it |
| `NoticeDelivery` | the abstract specification: notices that wait, are tried, told and settled, without processes, leases or clocks |
| `NotificationOutboxProofs`, `NotificationLeaseProofs` | the theorems about `NotificationOutbox` |
| `Shutdown` | one process from its start to its end: the closer, the pool, and the goroutines it stops |
| `ShutdownProofs` | the theorems about `Shutdown` |
| `Access` | logins, tokens, `RequireRole` and what handlers make of them |
| `AccessProofs` | the theorems about `Access` |
| `TelegramChats` | the updates listener, the table of chats and the lookup of a recipient |
| `TelegramChatsProofs` | the theorems about `TelegramChats` |
| `WebPage` | the page of one user beside the bookings of one event |
| `WebPageProofs` | the theorems about `WebPage` |
| `MC*` | values, symmetry and bounds for TLC |

### `BookingStore` and the code

One action stands for one SQL statement and the Go code up to the next one.
`writes[p]` and `queued[p]` are the uncommitted rows of transaction `p`,
`View(p)` is what its statements read (committed rows with its own writes over
them), and `Publish(p)` is COMMIT. `eventLock` and `bookingLock` are the row
locks of FOR UPDATE, UPDATE and INSERT. `pc[r]` names the statement that
follows:

    Book:     Begin, LockEvent, CancelExpiredOfEvent, CountFreeSeats, InsertBooking, Commit
    Confirm:  Begin, LockEvent, ConfirmBooking, Commit
    sweep:    SweepBegin, SweepPick, SweepCommit

An early return with an error is `Rollback`, a failure at any point (a broken
connection, a cancelled context, a crash of the process, which PostgreSQL turns
into a rollback) is `Fail` or `SweepFail`. `Commit` may be applied and still be
answered with an error. `now[p]` is the start of the transaction, which is what
`now()` means in all of its statements; `clock` is read wherever Go calls
`time.Now()`.

Some points where the translation is not literal:

- `INSERT` against the partial unique index: a conflicting committed row refuses
  it; a conflicting row whose cancellation is uncommitted makes it wait. A
  conflicting row is locked exactly in the second case, hence `InsertBooking`.
- The `UPDATE` of `Book` takes its row locks one at a time in the code and all
  at once in the model. The transactions it can meet are sweeps, which never
  wait, so the order in which it takes them cannot matter.
- A request is one call: `Requests` are call instances, not users. A user who
  retries is two requests with the same `user`.
- What is validated before the transaction (lengths, formats) only shrinks the
  set of calls; `Call` ranges over all that remain.
- Events have at most `MaxCapacity` seats and start at most `MaxEventFuture`
  ahead, as `CreateEvent` of the service demands; both are constants because the
  theorems hold for every value of them.

### `NotificationOutbox` and the code

`BookingStore` publishes a status and its outbox rows in one commit; here that
commit is one action (`Book`, `Confirm`, `Cancel`), and the rest of the booking
logic is the environment. `outbox` is the table, a row's id its position. Each
process has one scheduler goroutine, a *dispatcher* `d`, and `pc[d]` is where
its loop stands:

    idle -Fetch-> next -NextItem-> send -Send*-> mark -Mark-> next ... idle

| action | code |
|---|---|
| `Fetch`, `FetchNothing` | a tick of `Scheduler.Run` reaches `FetchDueNotifications`: one UPDATE over a SELECT ... FOR UPDATE SKIP LOCKED, one statement in a transaction of its own; the rows are leased, the attempt is counted, and the status of the booking is read with them. Its answer may be lost after the commit |
| `NextItem` | the loop of `DispatchNotifications`: a stale notice goes straight to its mark |
| `SendAccepted`, `SendRefused`, `SendTimesOut`, `SendPanics` | `MultiNotifier.Notify` and the send of the row's channel, as the dispatcher sees it end |
| `LateSendEnds` | the goroutine of a send whose timer fired first goes on and ends on its own |
| `Mark`, `MarkFails` | `MarkNotificationSent`, `MarkNotificationFailed` or `RescheduleNotification`, all of which ask for the state `processing` and nothing else; an error ends `DispatchNotifications` and leaves the rest of the batch leased |
| `Crash`, `Restart` | the process ends at any point and is started again (`restart: unless-stopped`); a start may leave Telegram without a notifier |
| `Tick` | time passes |

A shutdown cancels the scheduler's context: what a dispatcher sees of it is a
mark that fails, or the end of the process between two steps. The dispatcher
does not wait for another one's row locks (SKIP LOCKED), and each of its
statements is one transaction, so one statement is one action.

`told`, `unsure`, `lapsed` and `faults` are history variables: how often a notice
was accepted by the outside world, which rows had a send whose end the program
cannot know, how often a row was claimed because a lease had ended, and how many
faults there were. A *fault* is a crash, a failed or
unanswered statement, a failed start of Telegram, or a dispatcher that is slow
(`Slow`): one that lets time pass between two statements, or beyond the timer
of a send. Properties that need the absence of faults say `faults = 0`.

`NoticeDelivery` is what the rest of the program may expect of all this. It
knows the notices only as the table shows them (`Notices`: booking, type,
channel, attempts, and `waiting`, `sent` or `failed`) and how often each was
told. `Fetch` is its `Try`, an accepted send its `Tell`, a mark that holds its
`Settle` (or nothing, when the row goes back to `pending`), a change of a booking
its `Change`; ticks, timeouts, crashes and restarts it does not see.

### `Shutdown` and the code

`pc` is where each goroutine stands: the handlers of `Handlers`, the scheduler's
loop and the Telegram listener. `conn` holds those that have a connection of the
pool, `items` is the length of `closer.items`, and `Registered` its order.

| action | code |
|---|---|
| `NewContainer`, `InitPostgres`, `StartListener`, `StartScheduler`, `StartServer`, `StartFails` | `Run` and `NewContainer`: what is started, what is registered with the closer and in which order; a start that fails returns without closing anything |
| `ServerBreaks` | `ListenAndServe` fails in its goroutine; a line is logged |
| `Acquire`, `QueryReturns`, `SweepReturns`, `FetchReturns`, `RecordReturns`, `StoreReturns` | a statement waits for a connection, has it, and ends; it fails only by a cancelled context or a closed pool, and a failed commit may have been applied |
| `Arrives`, `Queries`, `Answers` | a request with any number of statements |
| `TickFires`, `Send`, `LoopEnds` | `tick` is a sweep, then a dispatch, in one goroutine; after a cancellation `select` may still choose the ticker once |
| `UpdateComes`, `ListenerEnds` | the listener's loop |
| `Signal`, `BeginDrain`, `Drained`, `DrainTimesOut`, `StopScheduler`, `BeginPoolClose`, `PoolClosed`, `StopListener`, `Exit` | `WaitAndClose` and `CloseAll`, last registered first; an error does not keep the rest from being closed |
| `Killed` | the process ends at once |

This is where the `MarkFails` and the `Crash` of `NotificationOutbox` come from:
a mark whose context is cancelled, and an exit in the middle of a tick.

### `Access` and the code

`roleOf` is the table of users, `login[c]` what `AuthService.Login` has read for
client `c` and not yet signed (bcrypt's comparison lies in between), `wallet[c]`
the tokens `c` was given. A token has a remaining life and a login an age, which
`Tick` moves; so time needs no bound. `RequireRole` is `NotAuthenticated` and
`Authenticated`, `RolesOf` the table of the router, `Refusals` the errors that
the service and the repository give each route (`StoreErrors` those that come of
its statements), `Status` is `handleError` with the answers of the handlers and
the middleware. No property judges that table: nothing in the repository says
which status an error ought to have. `Book` takes the owner from the token,
`Confirm` decides by owner or role. `ChangeUser` is an operator's statement: no
code of the service changes a user. `lapsed`, `admins`, `maker` and `confirmer`
are history variables: how long ago a user last had a role, who ever was an
administrator, and which client made and confirmed a booking.

### `TelegramChats` and the code

`inbox` and `given` are what Telegram keeps and has handed out, `buffer` is the
channel between the poller of the library and `startUpdatesListener`, `chats` is
the table (each row as the message it was written from), `mail` is the send
under way. `Poll` confirms the previous batch by its offset; `RememberChat` is
`rememberChat` with `UpsertTelegramChat`, `RememberFails` its logged error;
`BuildMessage` is `buildTelegramMessage` with the lookup, `Send` the end of the
send. A handle is a name with or without its `@` and in either case, and
`Normalize` is `normalizeTelegramUsername`. `Rename` and `Write` are the people.

- `Book` of the service admits only a name with an `@` or a number
  (`telegramRe`). A number too long for 64 bits is taken for a name and, as
  nobody has it, refused at `telegram.go:109`; `Recipients` leaves it out, since
  a notice that is refused there changes neither the table nor what is sent.
- The code remembers the chat of a message whatever its kind, a group's too.
- A name that changes hands keeps the chat of its old holder until the new one
  writes. `OnlyToWriters` says exactly what is left: a chat in which somebody
  wrote who had that name then.

### `WebPage` and the code

A load is the chain of fetches of `loadEvents`: `ListArrives`, `EventRead` (the
service reads the event) and `Render`, which is also `syncPolling`. It can fail
in two ways. An error in the list, a fetch without an answer or a body that is
not JSON is an exception, and `LoadFails` is its catch. An error response to the
fetch of the event is none (`EventFails`): the status is not looked at, so
`{error}` is drawn as a card in place of the event's, and as it has no pending
bookings the timer stops. `LoadEvents` is the guard at the head, and every
caller of `loadEvents` (`Login`, `Refresh`, `TimerFires`, `BookingTold`) is one
action with it. The store is cut down to the status of each booking and a
version. Logging out does not stop a load under way: it renders all the same.

## 3. The runs

| run | question | instance |
|---|---|---|
| `booking_safety` | can any interleaving of statements overbook an event, book a user twice, lose or invent an outbox row, cancel early, change a status twice, make the answer of a Confirm untrue, or do what no atomic step of `SeatLedger` does? | 2 requests of 2 users (one an administrator), 2 booking ids, 2 events with 2 seats between them, 1 sweeper, 1 fault, time 0..2 |
| `booking_liveness` | is every request answered, and every expired seat released? Is every state inside the invariant of the proofs? | 2 requests of 1 user, 1 event of 1 or 2 seats, 1 sweeper, 1 fault |
| `metrics_cancellations` | does the counter count "booking state changes"? It does not: see section 6 | 3 requests, 1 event of 1 seat, no faults |
| `outbox_safety` | are rows settled truly and for good, with one sender and a repeat only after trouble? Does the table ever do what `NoticeDelivery` does not? Is every state inside the invariant of the proofs? | 2 dispatchers, the notices of 1 booking over Telegram, 2 attempts, 2 faults, time 0..4 |
| `outbox_liveness` | is every notice settled after any fault, at the price of one attempt, and the order of a booking's notices kept without one? | 1 dispatcher, Telegram, 1 fault, time 0..10 |
| `outbox_telegram_down` | does a Telegram that could not start disable only itself? It does not: see section 6 | 1 dispatcher, 1 fault |
| `shutdown` | what is lost, left behind or repeated by a shutdown at any moment, and does it end? | 2 requests, 2 notices, a pool of 2 connections for 4 goroutines |
| `access_roles` | how long is a lost role believed, and is everybody who lost one locked out in the end? | 1 client, every route, tokens of life 2, logins that take up to 1 |
| `access_ownership` | whose bookings can a client make and confirm? | 2 clients with a password each, 1 request, 1 booking, both roles changing |
| `telegram_chats` | where do notices go while names change hands, and does a row ever go back to an older message? | 2 people, 2 names in every spelling, 2 messages, 1 stop or failed write |
| `page_views` | does the page go back in time, or stay behind? Is every state inside the invariant of the proofs? | 2 own bookings, 1 of others, 2 seats, 1 fetch that fails |
| `page_own` | does a booking that was just made get onto the page? Not always: see section 6 | 1 own booking, no failures |

What the properties say is in the comment above each of them; `IInv` is in each
module the inductive invariant of its own proofs. The ones that are
least obvious from the code:

- `AnswerMatchesStore`: what `Confirm` answered stays true of the table. The
  late `Confirm` commits a cancellation and then answers with an error, so its
  "expired" is a promise too.
- `ImplementsLedger` relates each request's answer to one moment between its
  submission and its answer. `SeatLedger` lets time be read twice in a request,
  as `now()` and `time.Now()` are: both readings lie in that interval.
- `SettledTruly`: marks are not fenced, so a dispatcher whose lease is long gone
  may mark a row that another one has claimed again. It is still true that a
  sent row was accepted and that a failed one has had its attempts, because the
  late mark rests on its own send and on an attempt count that only grows.
- `ImplementsDelivery`: no step of any process does to a notice what
  `NoticeDelivery` does not allow. The guards of its steps are what leases,
  states and attempt counts are for: a notice is tried only while it waits, it
  was told less often than tried when it is told again, and when it is settled
  there is a reason. A late send may tell a notice that is settled already.
- `AttemptsBounded`: an attempt is counted by the claim and compared only after
  a refused send, so a claim that no mark follows adds one. After a stall a stale
  mark may even return a row to `pending` under a dispatcher that has claimed it
  again, which then abandons its batch without a fault of its own. Still the
  attempts exceed their maximum only by the claims of leases that had ended; and
  while nothing has gone wrong, or with one dispatcher, these are no more than
  the faults.
- `OrderKept`: rows are claimed by due time and then id, but sent by id, and a
  refused notice comes back later. It is the check for staleness, on the status
  read with the claim, that keeps a creation from being told after the end.
- `AtMostOneRepeated`: the tick a shutdown interrupts may lose the mark of the
  notice it has just delivered, and no more, although after the cancellation one
  more tick may begin.
- `RoleNotStale`: a login reads the row, compares the password and signs what it
  has read; a change of the row in between starts a whole life of a token late.
- `TableSettles`: in the table of chats the last message wins, because one
  goroutine takes the updates in their order.
- `ViewSettles`: a load that ends with an exception leaves the timer as it is and
  gives `state.loading` back, so that the next one is not refused for ever. An
  error response does stop the timer, but takes the event's card away with it:
  the property is that no card with pending bookings stays behind as it was, not
  that the page always shows the event.

### Bounds, and why they are enough

- `Requests` are one-shot, so their number bounds the calls of a behaviour. Two
  suffice for each race of two transactions, and the sweep is a third. A full
  event needs only one seat; `BookingIds` are two, one for each request.
- `MaxTime` bounds the clock. With `Deadline = 1` and time 0..2 a booking is
  made, meets its deadline and passes it. `MCBookingStore` explores only the
  events that start at one of `StartTimes`: starting at 2 (or 3), an event
  accepts bookings, sees one expire and then starts (or does not). The
  constraint looks at an event only when it is created, and nothing else ever
  changes an event's start, so it cuts whole behaviours and no suffix: the
  liveness run stays sound. `MaxSeats` bounds the seats of all events together
  in the same way: one event of two seats, or two of one each, as two requests
  can take no more.
- `SweepLimit` is 1 (100 in the code), so that a sweep does leave rows behind.
- `MaxFaults` bounds what goes wrong. Faults are independent of one another
  except through the state they leave; a second one in `outbox_safety` lets both
  dispatchers fail, or one fail twice. With one alone no dispatcher ever marks a
  row that another one has claimed again. `AttemptsBounded`, which counts them,
  is proved for any number.
- `outbox_safety` leaves out cancellations (`NoneCancelled`): a confirmation and a
  cancellation differ in the name of their notice only, which is compared with
  the status it was made of, and neither follows the other. `outbox_liveness`
  has both. Time 0..4 is enough for a lease to end, for the late mark to give
  the row back, and for it to be due and claimed once more.
- In the outbox a time unit is the limit of a send. The code has a batch of 10,
  a limit of 10 s and a lease of 300 s; the instances keep the order of these
  numbers (a batch of 2, limit 1, lease 3). The liveness run makes a send take
  no time at all (limit 0, lease 1), which leaves its outcomes as they are and
  makes the retries fit the clock. There `Tick` is enabled only while a row is unsettled and
  `MaxTime` is larger than any behaviour needs: a smaller bound of 8 gives
  exactly the same states, and a row left behind would stop the clock and be
  reported.
- An instance of the outbox has one channel. Rows of different channels meet
  only in a batch, which rows of different types already do.
- `BaseBackoff` 1 makes the jitter 0: `0..BaseBackoff \div 2`. The code's
  jitter moves a due time by less than half of the first delay, and the proofs
  cover every value.
- `Shutdown` needs no clock: a time limit is a step that may come at any time.
  Four goroutines over two connections leave somebody waiting; two notices make
  a batch that a failed mark cuts short.
- `Access` counts time in ages and remaining lives, so its behaviours are
  infinite and its states few. `access_roles` has
  `TTL` 2 and `MaxLogin` 1: a token that expires, a login that is slow and a
  change of role between its halves; `access_ownership`, where ages do not
  matter, has 1 and 0. The code sets no
  limit on a login; `MaxLogin` names the one the property is about.
- In `TelegramChats` two messages are the fewest that can be overtaken or
  repeated, and two names for two people the fewest that can be exchanged.
  `MaxTroubles` bounds stops and failed writes together. Groups are left out of
  the instance: with a message in a group its table differs from the others only
  in the chat a row names. The proofs cover them.
- `WebPage` ends when every booking is settled and the version has counted at
  most two changes of each booking; the loads go on.

`CHECK_DEADLOCK FALSE` stands in the configurations of the outbox because the
system really stops there: when every notice is settled and no booking changes,
nothing is left but idle ticks, which the model does not count (`Tick` is
disabled and `FetchNothing` needs time to have passed). It stands in that of
`Shutdown` because a process that has ended takes no step.

### Fairness

`LiveSpec` of `BookingStore`: `WF(Tick)`, weak fairness of the next statement of
each transaction and of the sweep. PostgreSQL queues the waiters of a row, so a
lock that is released is granted; the scheduler's loop is restarted by its
ticker for ever; no request has to arrive and nothing has to fail. Weak fairness
is enough because in the instances a transaction that waits stays enabled once
the lock is free, or the next holder ends in its turn.

`LiveSpec` of `NotificationOutbox`: `WF(Tick)` and weak fairness of each
dispatcher's next step, restart included, which `restart: unless-stopped` of
`docker-compose.yml` justifies. `Crash`, `MarkFails` and the bookings are not
fair. Nothing makes a send succeed: a notice that is refused each time is
settled as `failed`.

`LiveSpec` of `Shutdown`: weak fairness of the closer and of every statement
that has a connection or can no longer get one (Postgres answers, contexts end
it otherwise), and strong fairness of getting a connection, because `pgxpool`
serves its waiters in turn. Sends, clients that read their answers, and signals
are not fair: a shutdown ends without them.

`LiveSpec` of `Access`: time passes, a login that has begun ends and so does a
request. `LiveSpec` of `TelegramChats`: the poller polls, the listener takes
what comes, a stopped process is started again; nobody has to write. `LiveSpec`
of `WebPage`: fetches are answered or fail, the timer fires and a POST comes
back; nobody has to click.

## 4. The proofs

All theorems hold for every number of users, requests, events, bookings,
processes, channels and faults, under the named assumptions of the modules
(`DomainAssumption`, `StoreAssumption`, `OutboxAssumption`,
`ShutdownAssumption`, `AccessAssumption`, `TelegramAssumption`,
`PageAssumption`).
`OutboxAssumption` contains the one fact about the constants of the program that
matters: `LockTTL > BatchSize * SendTimeout` (300 s against 10 times 10 s).

`BookingStoreProofs`, `BookingLedgerProofs`:

- `TypeCorrect`: `TypeOK` and `CallsMade`, by which a statement only reads a
  call that was made.
- `StatusFinal`: `StatusMonotone`. It follows from `WritesLocked`: an
  uncommitted row version is locked by its transaction and is either a new
  status of a row that is still pending or the row that Book has inserted.
- `NeverOverbooked`, `NeverBookedTwice`: `CapacityRespected` and
  `OneActivePerOwner`. Neither is inductive: between the count of `freeSeats`
  and the commit a Book depends on what others may publish. The strengthening
  is `SeatInv` (`SeatInvariance`). `EventsLocked` says that a request holds the lock of its event from
  `lockEvent` to its end, so no two Books of one event are between these points;
  `SeatsCounted` says that what a Book has counted, and what it has inserted, is
  still true of what it reads. The step that matters is the publication of
  another transaction: by `WritesLocked` it can only confirm or cancel a pending
  row, or insert a row of another event, and none of these takes a seat.
- `Inductive`: `IInv`, that is `SeatInv` and what transactions owe to the clock,
  the caller and the outbox. `StoreStep` sums up what any step does to the store
  (nothing, a transaction's end, rows marked with a status, a row added), and
  the histories are proved over these four.
- `CancellationsNotEarly`: `NeverCancelledEarly`. A cancellation, while it is
  uncommitted too, is of a row whose deadline lies behind the clock
  (`CancelledOverdue`): `now()` is the start of the transaction and so never
  ahead of the clock (`BegunBefore`).
- `AnswersStayTrue`: `AnswerMatchesStore`. What is about to be answered is true
  of the rows the transaction holds (`VerdictsTrue`), and a true answer stays
  true because a status is final.
- `NoticesOwed`: `OutboxMatchesStatus`. A transaction has queued exactly the
  notices of what it has written (`QueuedMatchesWrites`), and it inserts only
  pending rows (`InsertedPending`); so a commit adds exactly what is owed.
- `Refinement`: `ImplementsLedger`, every run of `BookingStore` is one of
  `SeatLedger`. The effect of a request is its commit, a refusal is its
  rollback, and all other statements stutter. What has to be shown is that the
  decisions a transaction took from the rows it read are still true at its
  commit (`LedgerInv`): the rows it writes are locked; its event had not started
  when the request was submitted (`Timed`); the deadline it writes was computed
  between its submission and its end (`Set`); and the seats and the
  owner's bookings it counted change only in its favour, as others can only
  release them while it holds the event. The notices of the ledger are computed
  from the outbox, and `OwedMore` says by how much a commit increases them.

`NotificationOutboxProofs`, `NotificationLeaseProofs`:

- `OutboxTypeCorrect`: `TypeOK`, and that a dispatcher works on rows that exist
  while the table grows.
- `SettledIsFinal`: `SettledFinal`; only a due row is claimed and only a row in
  `processing` is marked.
- `SettledIsTrue`: `SettledTruly`, through `TruthInv`. A dispatcher remembers
  three things of a row (`BatchesKnown`): that it exists, an attempt count that
  is a lower bound of the row's, and that it is stale; the last stays true
  because a booking never goes back to a status (`NoticesFollow`). `OkEarned`
  says that an "ok" about to be marked was earned.
- `LeaseOutlastsBatch`: `OneSender`, through `LeaseInv` (`LeaseInvariance`).
  `DoneBy(d)` is the latest moment at which a
  dispatcher that is not slow is done with its batch; `LeaseHeld` says that its
  rows are in `processing` and leased beyond that moment. A send, a mark and the
  passing of time do not move `DoneBy` forward, and a row that is leased beyond
  the present is not due, so nobody else claims it.
- `RepeatsExplained`: `RepeatedOnlyAfterTrouble`, through `IInv`
  (`OutboxInvariance`), which the run `outbox_safety` checks too. `ClaimsCover`:
  the acceptances of a row, the dispatchers that may still send it and its sends
  that go on after their timer together are no more than its claims. `ToldOnce`:
  without a fault and an unclear send, a row that was told is sent or about to
  be marked so by the one dispatcher that holds it.
- `AttemptsAreBounded`: `AttemptsBounded`, through the rest of `IInv`. Every claim
  counts one attempt more than each before it, so no two dispatchers hold the
  same one (`ClaimsDistinct`), and it can be used once to give the row back,
  if its count is below the maximum. `RetriesCover` adds up a row's attempts,
  the next one if it waits, and the claims that may still give it back, those to
  come and those in somebody's hands (`Retries`): the sum never passes the
  maximum by more than `lapsed`. A claim of a waiting row leaves the sum, one of
  a row whose lease had ended adds to both sides, and a mark that gives a row
  back uses up its claim, also when the row is by then somebody else's. For the
  second part, in a calm a row of a batch is as it was claimed (`BatchesExact`),
  so its mark does not fail, and a row that may be claimed again has an attempt
  left (`AttemptsLeft`). A failed start counts as a fault when it happens and
  costs an attempt only when the process ends over it; `Spent` keeps the two
  apart.
- `OrderIsKept`: `OrderKept`. What is sent was not stale when it was claimed
  (`SendsFresh`), and while a single dispatcher may still send a creation, no
  later notice of the booking was claimed (`CreationFirst`).
- `OutboxDelivers`: `ImplementsDelivery`, every run of `NotificationOutbox` is one
  of `NoticeDelivery`. One lemma for each kind of step says what is seen of it
  (`FetchSeen`, `MarkSeen`, `ChangeSeen`, `AcceptedSeen`, `NothingSeen`). The
  guard of an abstract step is the invariant after the concrete one: what was
  told is still no more than what was claimed (`RepeatedOnlyAfterTrouble`), and
  what is settled is settled truly (`SettledTruly`).

`ShutdownProofs` (`ShutdownInvariance` is `IInv` itself):

- `CleanExitCorrect`, `ExitQuiet`: `CleanExitAnswersAll`, `NoStatementAtExit`.
  `ClosedFromTheLast` ties how far the closer has come to what can still be
  going on: the pool is closed only after the server has stopped, and a server
  that has stopped without an error serves nobody.
- `RepeatsBounded`: `AtMostOneRepeated`. A notice stays without its mark only
  when the scheduler's context was cancelled (`UnrecordedOnce`), and after that
  no send follows.

`AccessProofs` (`AccessInvariance`):

- `OwnersAuthenticated`, `ConfirmationsEntitled`: `OwnerAuthenticated`,
  `ConfirmedByEntitled`; logins, tokens and requests are always of a user whose
  password the client knows, and an administrator's role of one who has been it.
- `AdmissionsFresh`: `RoleNotStale`; the age of a login, then the part of a
  token's life that is over, bounds how long ago its role was lost
  (`LoginsFresh`, `TokensFresh`).

`TelegramChatsProofs` (`TelegramInvariance`):

- `NoticesToWriters`, `KnownNamesFound`: `OnlyToWriters`, `KnownIsFound`. What is
  on its way to the table was written, the keys of the table are normalized and
  a row's message was sent under the row's name (`WritersKnown`).
- `TableMovesOn`: `RowsMoveOn`. Until a process stops, what is still to come to
  the table (`Coming`: the channel, then what Telegram has not handed out) is in
  the order it was written and younger than every row (`InOrder`). A stop breaks
  the order, since Telegram hands out again what was not confirmed; the property
  says nothing of that case.

`WebPageProofs` (`PageInvariance`, which the run `page_views` checks too):

- `PageMovesOn`: `ViewMovesOn`. There is one load at a time (`OneLoad`), and what
  it carries is no older than the card and no newer than the store
  (`AnswersDated`); for that the version must grow with every change of a booking
  (`ChangesCounted`). No change gives away a seat twice (`SeatsKept`).

Every safety and action property of a passing run is a theorem. Only
model-checked are the liveness properties, which need fairness and `ENABLED`:
`EveryRequestAnswered`, `ExpiredEventuallyReleased`, `EveryNoticeSettled`,
`ShutdownEnds`, `EveryQueryEnds`, `DismissedLockedOut`, `TableSettles` and
`ViewSettles`.

## 5. Assumptions and what is not modelled

- One clock. The processes' clocks and PostgreSQL's may differ in reality; the
  deadline is written with the one and compared with the other. The code bounds
  no skew, so a model with two clocks would have no property to check but the
  skew itself.
- A send's outcome is chosen freely (accepted, refused, refused after it was
  accepted, timed out); SMTP and the Telegram API are not modelled further.
- Time does not pass inside a statement. A statement that waits for a lock is an
  action that is not enabled yet, so time does pass while it waits.
- A row of `bookings` is never deleted, as in the code.
- Read queries change nothing. `GetEvent` reads the summary and the list of
  bookings in two statements without a transaction, but no client sees both of
  one answer: the public answer carries the summary only, and the list of the
  bookings of an event is answered alone. The summary is what `WebPage` reads.
- The health probes, the shape of answers, the login form, the form that creates
  events and the layout of the page; the table of users, which an operator fills
  (no code does), other than as `ChangeUser`; configuration, logging and the build, which have no state after the
  start; running the migrations, which is goose's work.
- Counters other than `event_booker_bookings_total` follow no state.

## 6. Where the code and its texts disagree

- `metrics_cancellations`: `event_booker_bookings_total` is "Total number of
  booking state changes.", but only the sweep increments its label `cancelled`.
  Cancellations by `Book` and by a late `Confirm` are not counted.
- `outbox_telegram_down`: when `NewTelegram` fails the container logs "telegram
  notifier disabled" and goes on. The nil `*TelegramNotifier` sits in a non-nil
  interface, so `MultiNotifier` does not recognise it; the first Telegram notice
  dereferences it in the scheduler's goroutine and the process ends.
- `page_own`: the page says that auto-update is on for pending bookings. A load
  that is called for after a booking is dropped while an older one is under way;
  when that one read the event before the booking, it shows no pending booking
  and stops the timer. The booking appears when the user next clicks.

Not disagreements, but worth knowing:

- Confirming a confirmed booking again is answered like the first time, and
  increments the counter's label `confirmed` again.
- The scheduler's close function cancels its context and does not wait for the
  tick: the notice being sent at that moment may go out again after the next
  start (`AtMostOneRepeated` bounds it to one).
- A write to `telegram_chats` that fails is logged and its update dropped, so the
  person stays unknown until writing again.
- An error response to `GET /events/{id}` is drawn as a card "#undefined" in place
  of the event's and, unless another event has pending bookings, ends the polling
  until the user clicks (`EventFails`).
- `handleError` does not list `ErrInvalidState`, and a value that only the store
  refuses (an `offset` above 2^63 - 1, a text with a NUL) comes back as an error
  of no kind it knows: both are answered 500 (`StoreErrors`, `Status`).
- Tokens are not revoked: a role lasts as long as its token (`RoleNotStale`).
- The public answer carries no bookings, so the page says of every event that it
  has none and never offers its button for confirming one.
- When `ListenAndServe` fails the process goes on sweeping and dispatching
  without an HTTP server.

## 7. What is left

In the order in which they would add most:

1. Two clocks, of the service and of PostgreSQL, with a bound on their
   difference as a constant: `NeverCancelledEarly` and the guard of `ConfirmPending`
   would then hold up to that bound.
2. The counters of notifications and of HTTP requests, which follow no state and
   say nothing about the rest.
