---------------------------- MODULE BookingStore ----------------------------
(***************************************************************************)
(* EventRepository's booking transactions, interleaved.                    *)
(*                                                                         *)
(* Book, Confirm and the scheduler's CancelExpired are READ COMMITTED      *)
(* transactions of several SQL statements; one action is one statement     *)
(* together with the Go code up to the next one.  A transaction sees the   *)
(* committed rows and its own writes; FOR UPDATE and UPDATE lock rows until *)
(* it ends; a commit publishes everything it wrote, a rollback nothing.    *)
(* pc names the call a transaction makes next.                             *)
(***************************************************************************)
EXTENDS BookingDomain

CONSTANTS
  Sweepers,    \* the scheduler loops, one for each running instance
  Nobody,      \* the holder of a lock that is free
  SweepLimit,  \* LIMIT of the sweep's SELECT
  MaxTime,     \* bound on the clock
  MaxFaults    \* bound on failed statements and lost answers

Procs == Requests \cup Sweepers

ASSUME StoreAssumption ==
  /\ Requests \cap Sweepers = {}
  /\ Nobody \notin Procs
  /\ SweepLimit \in Nat \ {0}
  /\ MaxTime \in Nat
  /\ MaxFaults \in Nat

VARIABLES
  clock,        \* time.Now() of the service and the clock of Postgres
  events,       \* the committed rows of events
  bookings,     \* the committed rows of bookings
  outbox,       \* the committed rows of notification_outbox
  eventLock,    \* the transaction that holds the lock of an events row
  bookingLock,  \* the transaction that holds the lock of a bookings row
  pc,           \* the next call of each transaction
  now,          \* now() of its SQL statements: when it began
  writes,       \* its uncommitted rows of bookings
  queued,       \* its uncommitted rows of notification_outbox
  expiry,       \* expiresAt of Book
  verdict,      \* what a request answers once its commit has succeeded
  call,         \* what each request asks for
  answer,       \* what its caller was answered
  faults        \* failures so far

tables  == <<events, bookings, outbox>>
locks   == <<eventLock, bookingLock>>
pending == <<writes, queued>>
private == <<now, pending, expiry, verdict>>
vars    == <<clock, tables, locks, pc, private, call, answer, faults>>

Untouched == [b \in BookingIds |-> NoBooking]

RequestPcs == {"idle", "lockEvent", "cancelExpired", "freeSeats", "insert",
               "getBooking", "commit", "done"}
SweeperPcs == {"idle", "pick", "commit"}

TypeOK ==
  /\ clock \in Nat
  /\ events \in EventTable
  /\ bookings \in BookingTable
  /\ outbox \in SUBSET OutboxRow
  /\ eventLock \in [Events -> Requests \cup {Nobody}]
  /\ bookingLock \in [BookingIds -> Procs \cup {Nobody}]
  /\ pc \in [Procs -> RequestPcs \cup SweeperPcs]
  /\ \A s \in Sweepers : pc[s] \in SweeperPcs
  /\ now \in [Procs -> Nat]
  /\ writes \in [Procs -> BookingTable]
  /\ queued \in [Procs -> SUBSET OutboxRow]
  /\ expiry \in [Procs -> Nat]
  /\ verdict \in [Procs -> Answers]
  /\ call \in [Requests -> Call(Nat) \cup {NoCall}]
  /\ answer \in [Requests -> Answers]
  /\ faults \in Nat

Init ==
  /\ clock = 0
  /\ events = [e \in Events |-> NoEvent]
  /\ bookings = Untouched
  /\ outbox = {}
  /\ eventLock = [e \in Events |-> Nobody]
  /\ bookingLock = [b \in BookingIds |-> Nobody]
  /\ pc = [p \in Procs |-> "idle"]
  /\ now = [p \in Procs |-> 0]
  /\ writes = [p \in Procs |-> Untouched]
  /\ queued = [p \in Procs |-> {}]
  /\ expiry = [p \in Procs |-> 0]
  /\ verdict = [p \in Procs |-> "none"]
  /\ call = [r \in Requests |-> NoCall]
  /\ answer = [r \in Requests |-> "none"]
  /\ faults = 0

-----------------------------------------------------------------------------
(* What a statement of transaction p reads.                                *)
View(p) == [b \in BookingIds |-> IF writes[p][b] = NoBooking THEN bookings[b] ELSE writes[p][b]]

(* The writes of p after it has also written row[b] to each b of S.        *)
Written(p, S, row) ==
  [writes EXCEPT ![p] = [b \in BookingIds |-> IF b \in S THEN row[b] ELSE writes[p][b]]]

(* Locks that make a statement wait.                                       *)
Bug_EventNotWaitedFor(e) == TRUE
EventFree(e) == eventLock[e] = Nobody

Bug_RowNotWaitedFor(b) == TRUE
RowFree(b) == bookingLock[b] = Nobody

LockRows(S, p) == bookingLock' = [b \in BookingIds |-> IF b \in S THEN p ELSE bookingLock[b]]

Goto(p, from, to) == pc[p] = from /\ pc' = [pc EXCEPT ![p] = to]

(* The end of a transaction, either way: its locks and its locals go.      *)
ForgetTx(p) ==
  /\ now' = [now EXCEPT ![p] = 0]
  /\ writes' = [writes EXCEPT ![p] = Untouched]
  /\ queued' = [queued EXCEPT ![p] = {}]
  /\ expiry' = [expiry EXCEPT ![p] = 0]
  /\ verdict' = [verdict EXCEPT ![p] = "none"]

Bug_EventLockKept(p) ==
  /\ eventLock' = eventLock
  /\ bookingLock' = [b \in BookingIds |-> IF bookingLock[b] = p THEN Nobody ELSE bookingLock[b]]
  /\ ForgetTx(p)
Bug_RowLocksKept(p) ==
  /\ eventLock' = [e \in Events |-> IF eventLock[e] = p THEN Nobody ELSE eventLock[e]]
  /\ bookingLock' = bookingLock
  /\ ForgetTx(p)
EndTx(p) ==
  /\ eventLock' = [e \in Events |-> IF eventLock[e] = p THEN Nobody ELSE eventLock[e]]
  /\ bookingLock' = [b \in BookingIds |-> IF bookingLock[b] = p THEN Nobody ELSE bookingLock[b]]
  /\ ForgetTx(p)

(* fn returned an error: executeInTx rolls back and the caller hears it.   *)
Rollback(r, reason) ==
  /\ pc' = [pc EXCEPT ![r] = "done"]
  /\ answer' = [answer EXCEPT ![r] = reason]
  /\ EndTx(r)
  /\ UNCHANGED <<clock, tables, call, faults>>

-----------------------------------------------------------------------------
Tick ==
  /\ clock < MaxTime
  /\ clock' = clock + 1
  /\ UNCHANGED <<tables, locks, pc, private, call, answer, faults>>

CreateEvent(e) ==
  /\ events[e] = NoEvent
  /\ \E cap \in 1..MaxCapacity, start \in clock..(clock + MaxEventFuture) :
       events' = [events EXCEPT ![e] = [capacity |-> cap, startsAt |-> start]]
  /\ UNCHANGED <<clock, bookings, outbox, locks, pc, private, call, answer, faults>>

Begin(r) ==
  /\ Goto(r, "idle", "lockEvent")
  /\ \E c \in Call({clock}) : call' = [call EXCEPT ![r] = c]
  /\ now' = [now EXCEPT ![r] = clock]
  /\ UNCHANGED <<clock, tables, locks, pending, expiry, verdict, answer, faults>>

(* SELECT ... FOR UPDATE of the event, and the check that it lies ahead.   *)
LockEvent(r) ==
  LET e == call[r].event
  IN  /\ pc[r] = "lockEvent"
      /\ \/ /\ events[e] = NoEvent
            /\ Rollback(r, "event_not_found")
         \/ /\ events[e] # NoEvent
            /\ EventFree(e)
            /\ IF events[e].startsAt <= clock
               THEN Rollback(r, "event_started")
               ELSE /\ eventLock' = [eventLock EXCEPT ![e] = r]
                    /\ pc' = [pc EXCEPT ![r] =
                         IF call[r].op = "book" THEN "cancelExpired" ELSE "getBooking"]
                    /\ UNCHANGED <<clock, tables, bookingLock, private, call, answer, faults>>

-----------------------------------------------------------------------------
(* Book cancels the expired bookings of its event; the UPDATE waits for    *)
(* rows another transaction holds.                                         *)
CancelExpiredOfEvent(r) ==
  LET due == {b \in DueRows(View(r), now[r]) : View(r)[b].event = call[r].event}
  IN  /\ Goto(r, "cancelExpired", "freeSeats")
      /\ \A b \in due : RowFree(b)
      /\ writes' = Written(r, due, WithStatus(View(r), due, "cancelled"))
      /\ LockRows(due, r)
      /\ queued' = [queued EXCEPT ![r] = Enqueued(due, "booking_cancelled")]
      /\ UNCHANGED <<clock, tables, eventLock, now, expiry, verdict, call, answer, faults>>

Bug_SeatLeft(r) == FreeSeats(events, View(r), call[r].event) >= 0
SeatLeft(r) == FreeSeats(events, View(r), call[r].event) > 0

Bug_ExpiresAt == clock - Deadline
ExpiresAt == clock + Deadline

CountFreeSeats(r) ==
  /\ pc[r] = "freeSeats"
  /\ IF SeatLeft(r)
     THEN /\ pc' = [pc EXCEPT ![r] = "insert"]
          /\ expiry' = [expiry EXCEPT ![r] = ExpiresAt]
          /\ UNCHANGED <<clock, tables, locks, now, pending, verdict, call, answer, faults>>
     ELSE Rollback(r, "no_seats")

(* The rows that conflict with r's INSERT in the unique index.             *)
Bug_RivalsConfirmed(r) ==
  {b \in ActiveOwnedBy(View(r), call[r].event, call[r].user) : View(r)[b].status = "confirmed"}
Rivals(r) == ActiveOwnedBy(View(r), call[r].event, call[r].user)

(* INSERT.  A rival whose row is locked has an uncommitted cancellation:   *)
(* the index makes the INSERT wait for that transaction.                   *)
InsertBooking(r) ==
  /\ pc[r] = "insert"
  /\ \/ /\ \E b \in Rivals(r) : RowFree(b)
        /\ Rollback(r, "already_booked")
     \/ /\ Rivals(r) = {}
        /\ \E b \in BookingIds :
             /\ bookings[b] = NoBooking /\ bookingLock[b] = Nobody
             /\ writes' = [writes EXCEPT
                  ![r][b] = NewBooking(call[r].event, call[r].user, expiry[r])]
             /\ bookingLock' = [bookingLock EXCEPT ![b] = r]
             /\ queued' = [queued EXCEPT ![r] = @ \cup Enqueued({b}, "booking_created")]
        /\ pc' = [pc EXCEPT ![r] = "commit"]
        /\ verdict' = [verdict EXCEPT ![r] = "ok"]
        /\ UNCHANGED <<clock, tables, eventLock, now, expiry, call, answer, faults>>

-----------------------------------------------------------------------------
(* getBookingForUpdate and the rest of Confirm: the row is locked, checked *)
(* and, unless it is confirmed already, given its new status.              *)
WriteStatus(r, b, status, type, result) ==
  /\ writes' = Written(r, {b}, WithStatus(bookings, {b}, status))
  /\ queued' = [queued EXCEPT ![r] = Enqueued({b}, type)]
  /\ verdict' = [verdict EXCEPT ![r] = result]

Bug_DeadlinePassed(row) == clock + 1 > row.expiresAt
DeadlinePassed(row) == clock > row.expiresAt

ConfirmLocked(r, b) ==
  LET row == bookings[b]
  IN  /\ pc' = [pc EXCEPT ![r] = "commit"]
      /\ LockRows({b}, r)
      /\ \/ /\ row.status = "confirmed"
            /\ verdict' = [verdict EXCEPT ![r] = "ok"]
            /\ UNCHANGED pending
         \/ /\ row.status = "pending"
            /\ IF DeadlinePassed(row)
               THEN WriteStatus(r, b, "cancelled", "booking_cancelled", "expired")
               ELSE WriteStatus(r, b, "confirmed", "booking_confirmed", "ok")
      /\ UNCHANGED <<clock, tables, eventLock, now, expiry, call, answer, faults>>

ConfirmBooking(r) ==
  LET b   == call[r].booking
      row == bookings[b]
  IN  /\ pc[r] = "getBooking"
      /\ \/ /\ \/ row = NoBooking
               \/ row # NoBooking /\ row.event # call[r].event
            /\ Rollback(r, "booking_not_found")
         \/ /\ row # NoBooking
            /\ row.event = call[r].event
            /\ RowFree(b)
            /\ \/ ~MayConfirm(call[r], row) /\ Rollback(r, "forbidden")
               \/ /\ MayConfirm(call[r], row)
                  /\ \/ row.status = "cancelled" /\ Rollback(r, "not_pending")
                     \/ row.status # "cancelled" /\ ConfirmLocked(r, b)

-----------------------------------------------------------------------------
(* COMMIT.  The caller hears the verdict, or an error when the commit was  *)
(* applied and its acknowledgement was lost.                               *)
Publish(p) ==
  /\ bookings' = View(p)
  /\ outbox' = outbox \cup queued[p]
  /\ EndTx(p)

Commit(r) ==
  /\ Goto(r, "commit", "done")
  /\ Publish(r)
  /\ \/ answer' = [answer EXCEPT ![r] = verdict[r]] /\ UNCHANGED faults
     \/ /\ faults < MaxFaults /\ faults' = faults + 1
        /\ answer' = [answer EXCEPT ![r] = "error"]
  /\ UNCHANGED <<clock, events, call>>

(* A statement fails, the request's context is cancelled, its connection   *)
(* breaks, or the process dies: Postgres rolls the transaction back.       *)
Fail(r) ==
  /\ pc[r] \notin {"idle", "done"}
  /\ faults < MaxFaults /\ faults' = faults + 1
  /\ pc' = [pc EXCEPT ![r] = "done"]
  /\ answer' = [answer EXCEPT ![r] = "error"]
  /\ EndTx(r)
  /\ UNCHANGED <<clock, tables, call>>

-----------------------------------------------------------------------------
(* The scheduler's CancelExpired.                                          *)
SweepBegin(s) ==
  /\ Goto(s, "idle", "pick")
  /\ now' = [now EXCEPT ![s] = clock]
  /\ UNCHANGED <<clock, tables, locks, pending, expiry, verdict, call, answer, faults>>

(* FOR UPDATE SKIP LOCKED leaves out the rows of other transactions.       *)
Bug_LockedNotSkipped(s) == DueRows(bookings, now[s])
Pickable(s) == {b \in DueRows(bookings, now[s]) : RowFree(b)}

(* The SweepLimit oldest of S.                                             *)
Oldest(S) ==
  {T \in SUBSET S :
     /\ Cardinality(T) <= SweepLimit
     /\ T = S \/ Cardinality(T) = SweepLimit
     /\ \A b \in T, c \in S \ T : bookings[b].expiresAt <= bookings[c].expiresAt}

SweepPick(s) ==
  /\ Goto(s, "pick", "commit")
  /\ \E T \in Oldest(Pickable(s)) :
       /\ LockRows(T, s)
       /\ writes' = Written(s, T, WithStatus(bookings, T, "cancelled"))
       /\ queued' = [queued EXCEPT ![s] = Enqueued(T, "booking_cancelled")]
  /\ UNCHANGED <<clock, tables, eventLock, now, expiry, verdict, call, answer, faults>>

SweepCommit(s) ==
  /\ Goto(s, "commit", "idle")
  /\ Publish(s)
  /\ UNCHANGED <<clock, events, call, answer, faults>>

SweepFail(s) ==
  /\ pc[s] # "idle"
  /\ faults < MaxFaults /\ faults' = faults + 1
  /\ pc' = [pc EXCEPT ![s] = "idle"]
  /\ EndTx(s)
  /\ UNCHANGED <<clock, tables, call, answer>>

-----------------------------------------------------------------------------
Statement(r) ==
  \/ LockEvent(r)
  \/ CancelExpiredOfEvent(r) \/ CountFreeSeats(r) \/ InsertBooking(r)
  \/ ConfirmBooking(r)

RequestStep(r) == Statement(r) \/ Commit(r)

SweepStatement(s) == SweepBegin(s) \/ SweepPick(s)

SweepStep(s) == SweepStatement(s) \/ SweepCommit(s)

(* The steps that commit no booking.                                       *)
Unpublished ==
  \/ Tick
  \/ \E e \in Events : CreateEvent(e)
  \/ \E r \in Requests : Begin(r) \/ Statement(r) \/ Fail(r)
  \/ \E s \in Sweepers : SweepStatement(s) \/ SweepFail(s)

Next ==
  \/ Unpublished
  \/ \E r \in Requests : Commit(r)
  \/ \E s \in Sweepers : SweepCommit(s)

Spec == Init /\ [][Next]_vars

(* Postgres grants a lock that has become free, statements return, the     *)
(* scheduler's ticker keeps firing and time passes.  No request has to     *)
(* arrive, and nothing has to fail.                                        *)
Fairness ==
  /\ WF_vars(Tick)
  /\ \A r \in Requests : WF_vars(RequestStep(r))
  /\ \A s \in Sweepers : WF_vars(SweepStep(s))

LiveSpec == Spec /\ Fairness

-----------------------------------------------------------------------------
(* No event is ever overbooked, whatever Books, Confirms and sweeps        *)
(* interleave: the count of freeSeats is still true at the INSERT's commit *)
(* because lockEvent serialises the Books of one event.                    *)
CapacityRespected ==
  \A e \in Events : events[e] # NoEvent =>
    Cardinality(ActiveOf(bookings, e)) <= events[e].capacity

(* A user holds at most one active booking of an event                     *)
(* (idx_bookings_one_active_per_owner), also while a sweep's cancellation  *)
(* of the previous one is still uncommitted.                               *)
OneActivePerOwner ==
  \A e \in Events, u \in Users :
    \A b, c \in ActiveOwnedBy(bookings, e, u) : b = c

(* Every booking owes its owner one row for each channel and each change   *)
(* of its status, and no other: enqueueNotification runs in the            *)
(* transaction that changes the status.                                    *)
NoticeOf(status) ==
  CASE status = "pending"   -> "booking_created"
    [] status = "confirmed" -> "booking_confirmed"
    [] status = "cancelled" -> "booking_cancelled"

RowsOf(table) == {b \in BookingIds : table[b] # NoBooking}

OneEach(S, type) == S \X {type} \X Channels

NoticesOf(table) == UNION {OneEach({b}, NoticeOf(table[b].status)) : b \in RowsOf(table)}

OutboxMatchesStatus ==
  outbox = NoticesOf(bookings) \cup OneEach(RowsOf(bookings), "booking_created")

(* No booking is cancelled before its payment deadline, by a sweep, by     *)
(* another user's Book or by its own late Confirm.                         *)
NeverCancelledEarly ==
  \A b \in BookingIds :
    bookings[b] # NoBooking /\ bookings[b].status = "cancelled" => bookings[b].expiresAt <= clock

(* What Confirm answered stays true: nothing takes a booking back once its *)
(* owner was told "ok", and one told "expired" or "not_pending" finds the  *)
(* seat released.                                                          *)
Confirms(r) == call[r] # NoCall /\ call[r].op = "confirm"

Justifies(row, result) ==
  /\ result = "ok" => row # NoBooking /\ row.status = "confirmed"
  /\ result \in {"expired", "not_pending"} => row # NoBooking /\ row.status = "cancelled"

AnswerMatchesStore ==
  \A r \in Requests : Confirms(r) => Justifies(bookings[call[r].booking], answer[r])

(* A status changes at most once: confirmed and cancelled are final, and   *)
(* the row keeps its owner, event and deadline.                            *)
StatusMonotone ==
  [][\A b \in BookingIds : bookings[b] # NoBooking =>
       /\ bookings'[b] # NoBooking
       /\ bookings'[b] # bookings[b] =>
            /\ bookings[b].status = "pending"
            /\ bookings'[b] = [bookings[b] EXCEPT !.status = bookings'[b].status]]_vars

(* Every request is answered: a lock it waits for is given back.           *)
EveryRequestAnswered == \A r \in Requests : pc[r] # "idle" ~> pc[r] = "done"

(* A seat is not held past its deadline for ever: every booking that is    *)
(* due gets cancelled by the sweep, or was confirmed at the last moment.   *)
ExpiredEventuallyReleased ==
  \A b \in BookingIds :
    (bookings[b] # NoBooking /\ Due(bookings[b], clock))
      ~> (bookings[b] # NoBooking /\ bookings[b].status # "pending")

-----------------------------------------------------------------------------
(* Why no event is overbooked: the parts of an inductive invariant.        *)

BookPcs   == {"cancelExpired", "freeSeats", "insert"}
HolderPcs == BookPcs \cup {"getBooking", "commit"}

(* A transaction under way knows its call, and is at a step of it.         *)
CallsMade ==
  \A r \in Requests :
    /\ pc[r] # "idle" => call[r] \in Call(Nat)
    /\ pc[r] \in BookPcs => call[r].op = "book"
    /\ pc[r] = "getBooking" => call[r].op = "confirm"

(* From lockEvent to its end a request holds the lock of its event.        *)
EventsLocked ==
  \A r \in Requests : pc[r] \in HolderPcs =>
    /\ eventLock[call[r].event] = r
    /\ events[call[r].event] # NoEvent

(* A row of bookings belongs to an existing event.                         *)
EventsExist ==
  \A b \in BookingIds : bookings[b] # NoBooking => events[bookings[b].event] # NoEvent

(* The transaction r is a Book that has inserted its booking.              *)
HasInserted(r) == r \in Requests /\ pc[r] = "commit" /\ call[r].op = "book"

(* What a transaction has written is locked by it; it is the new status of *)
(* a row that is still pending, or the row Book has inserted.              *)
WritesLocked ==
  \A p \in Procs, b \in BookingIds : writes[p][b] # NoBooking =>
    /\ bookingLock[b] = p
    /\ \/ /\ bookings[b] # NoBooking
          /\ bookings[b].status = "pending"
          /\ \E s \in {"confirmed", "cancelled"} :
               writes[p][b] = [bookings[b] EXCEPT !.status = s]
       \/ /\ bookings[b] = NoBooking
          /\ HasInserted(p)
          /\ writes[p][b].event = call[p].event

(* The seats a Book has counted stay free until it inserts, and what it is *)
(* about to commit fits the event and gives nobody a second booking.       *)
SeatsCounted ==
  \A r \in Requests :
    LET e == call[r].event
        n == Cardinality(ActiveOf(View(r), e))
    IN  /\ pc[r] = "insert" => n < events[e].capacity
        /\ HasInserted(r) =>
             /\ n <= events[e].capacity
             /\ \A u \in Users : \A b, c \in ActiveOwnedBy(View(r), e, u) : b = c

SeatInv ==
  /\ TypeOK
  /\ CallsMade
  /\ EventsLocked
  /\ EventsExist
  /\ WritesLocked
  /\ SeatsCounted
  /\ CapacityRespected
  /\ OneActivePerOwner

-----------------------------------------------------------------------------
(* Why cancellations are not early, answers stay true and notices match.   *)

(* No transaction began later than now.                                    *)
BegunBefore == \A p \in Procs : now[p] <= clock

(* A row that is cancelled, committed or not, is past its deadline.        *)
Overdue(row) == row # NoBooking /\ row.status = "cancelled" => row.expiresAt <= clock

CancelledOverdue ==
  /\ \A b \in BookingIds : Overdue(bookings[b])
  /\ \A p \in Procs, b \in BookingIds : Overdue(writes[p][b])

(* What Confirm is about to answer is true of what it is about to commit,  *)
(* and nobody is answered before the end.                                  *)
VerdictsTrue ==
  \A r \in Requests :
    /\ pc[r] # "done" => answer[r] = "none"
    /\ pc[r] = "commit" /\ Confirms(r) => Justifies(View(r)[call[r].booking], verdict[r])

(* Before its first UPDATE or INSERT a transaction has written nothing;    *)
(* from then on it has queued the notices of what it has written.          *)
WritingPcs == {"freeSeats", "insert", "commit"}

QueuedMatchesWrites ==
  \A p \in Procs :
    /\ pc[p] \notin WritingPcs => writes[p] = Untouched
    /\ queued[p] = NoticesOf(writes[p])

(* A row that is not committed yet is pending.                             *)
InsertedPending ==
  \A p \in Procs, b \in BookingIds :
    writes[p][b] # NoBooking /\ bookings[b] = NoBooking => writes[p][b].status = "pending"

IInv ==
  /\ SeatInv
  /\ BegunBefore
  /\ CancelledOverdue
  /\ VerdictsTrue
  /\ AnswerMatchesStore
  /\ QueuedMatchesWrites
  /\ InsertedPending
  /\ OutboxMatchesStatus

-----------------------------------------------------------------------------
(* The owner is owed a notice once all of its channels have a row.         *)
Notices == {x \in BookingIds \X NotificationTypes : Enqueued({x[1]}, x[2]) \subseteq outbox}

Ledger == INSTANCE SeatLedger WITH notices <- Notices

(* Transactions are atomic and answer truthfully: this module implements   *)
(* SeatLedger.                                                             *)
ImplementsLedger == Ledger!Spec
=============================================================================
