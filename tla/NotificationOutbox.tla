------------------------- MODULE NotificationOutbox -------------------------
(***************************************************************************)
(* The outbox table and the dispatchers that empty it.                     *)
(*                                                                         *)
(* A change of a booking's status appends rows to the outbox.  Each        *)
(* process has one scheduler goroutine whose ticks claim a batch of due    *)
(* rows under a lease, send them one by one and mark each one.  There is   *)
(* no fencing: a mark asks only whether the row is still "processing".     *)
(* An action is one statement or one send; between two of them a process   *)
(* may crash, and a slow one may lose its lease.                           *)
(***************************************************************************)
EXTENDS Integers, FiniteSets, Sequences

CONSTANTS
  Dispatchers,  \* the processes, each with its scheduler goroutine
  Bookings,     \* bookings whose owners are notified
  Channels,     \* the channels enqueueNotification inserts, in its order
  Enabled,      \* the channels that are switched on (EMAIL_ENABLED, TG_ENABLED)
  MaxAttempts,  \* DEFAULT of max_attempts
  BatchSize,    \* outboxBatchSize
  LockTTL,      \* notificationLockTTL
  Interval,     \* APP_SCHEDULER_INTERVAL
  SendTimeout,  \* emailSendTimeout, and the limit of sendTelegramMessage
  BaseBackoff,  \* outboxBaseBackoff
  MaxBackoff,   \* outboxMaxBackoff
  MaxTime,      \* bound on the clock
  MaxFaults     \* bound on crashes, failed statements, stalls and failed starts

ASSUME OutboxAssumption ==
  /\ IsFiniteSet(Dispatchers)
  /\ Channels \in Seq({"log", "email", "telegram"})
  /\ Enabled \subseteq {"email", "telegram"}
  /\ {MaxAttempts, BatchSize, BaseBackoff, MaxBackoff} \subseteq Nat \ {0}
  /\ {Interval, SendTimeout, MaxTime, MaxFaults} \subseteq Nat
  /\ LockTTL \in Nat
  /\ LockTTL > BatchSize * SendTimeout

VARIABLES
  clock,     \* the clock of the processes and of Postgres
  status,    \* the committed status of each booking
  outbox,    \* the rows of notification_outbox; a row's id is its position
  telegram,  \* how NewTelegram ended when the process started
  pc,        \* what a dispatcher does next
  waited,    \* how long an idle dispatcher has waited for its ticker
  batch,     \* the claimed rows it has not marked yet
  result,    \* what Notify returned for the row it is to mark
  sendBy,    \* when the timer of the send under way fires
  inflight,  \* sends that go on after their timer fired
  told,      \* history: how often a row's notice was accepted
  unsure,    \* history: the rows one of whose sends ended without a clear answer
  lapsed,    \* history: how often a row was claimed because a lease had ended
  faults     \* faults so far

dispatch == <<batch, result, sendBy, waited>>
history  == <<told, unsure, lapsed>>
vars     == <<clock, status, outbox, telegram, pc, dispatch, inflight, history, faults>>

Types == {"booking_created", "booking_confirmed", "booking_cancelled"}

Row  == [booking : Bookings, type : Types, channel : {"log", "email", "telegram"},
         state : {"pending", "processing", "sent", "failed"},
         attempts : Nat, nextAttemptAt : Nat, lockedUntil : Nat]

(* What FetchDueNotifications returns of a row: the attempts it has counted *)
(* and whether the booking's status still was the notice's.                *)
Item == [id : Nat \ {0}, attempts : Nat \ {0}, stale : BOOLEAN]

TypeOK ==
  /\ clock \in Nat
  /\ status \in [Bookings -> {"none", "pending", "confirmed", "cancelled"}]
  /\ outbox \in Seq(Row)
  /\ telegram \in [Dispatchers -> {"ready", "failed"}]
  /\ pc \in [Dispatchers -> {"idle", "next", "send", "mark", "down", "panicked"}]
  /\ batch \in [Dispatchers -> SUBSET Item]
  /\ result \in [Dispatchers -> {"ok", "error"}]
  /\ sendBy \in [Dispatchers -> Nat]
  /\ waited \in [Dispatchers -> Nat]
  /\ inflight \subseteq [by : Dispatchers, id : DOMAIN outbox, attempts : Nat]
  /\ told \in [DOMAIN outbox -> Nat]
  /\ unsure \subseteq DOMAIN outbox
  /\ lapsed \in [DOMAIN outbox -> Nat]
  /\ faults \in Nat

Fault == faults < MaxFaults /\ faults' = faults + 1

(* NewTelegram fails, for want of a token or because the bot's service     *)
(* cannot be reached; the process goes on with a nil notifier.             *)
Start ==
  IF "telegram" \in Enabled THEN {"ready", "failed"} ELSE {"ready"}

Init ==
  /\ clock = 0
  /\ status = [b \in Bookings |-> "none"]
  /\ outbox = <<>>
  /\ telegram = [d \in Dispatchers |-> "ready"]
  /\ pc = [d \in Dispatchers |-> "down"]
  /\ batch = [d \in Dispatchers |-> {}]
  /\ result = [d \in Dispatchers |-> "ok"]
  /\ sendBy = [d \in Dispatchers |-> 0]
  /\ waited = [d \in Dispatchers |-> 0]
  /\ inflight = {}
  /\ told = <<>>
  /\ unsure = {}
  /\ lapsed = <<>>
  /\ faults = 0

-----------------------------------------------------------------------------
(* The bookings.                                                           *)
NewRow(b, type, channel) ==
  [booking |-> b, type |-> type, channel |-> channel, state |-> "pending",
   attempts |-> 0, nextAttemptAt |-> clock, lockedUntil |-> 0]

Enqueue(b, type) ==
  /\ outbox' = outbox \o [c \in DOMAIN Channels |-> NewRow(b, type, Channels[c])]
  /\ told' = told \o [c \in DOMAIN Channels |-> 0]
  /\ lapsed' = lapsed \o [c \in DOMAIN Channels |-> 0]

(* The type of the notice that tells of a status.                          *)
NoticeOf == [pending   |-> "booking_created",
             confirmed |-> "booking_confirmed",
             cancelled |-> "booking_cancelled"]

(* A transaction of BookingStore commits: Book, or Confirm or a            *)
(* cancellation.                                                           *)
Change(b, from, to) ==
  /\ status[b] = from
  /\ status' = [status EXCEPT ![b] = to]
  /\ Enqueue(b, NoticeOf[to])
  /\ UNCHANGED <<clock, telegram, pc, dispatch, inflight, unsure, faults>>

Book(b)    == Change(b, "none", "pending")
Confirm(b) == Change(b, "pending", "confirmed")
Cancel(b)  == Change(b, "pending", "cancelled")

-----------------------------------------------------------------------------
(* FetchDueNotifications.                                                  *)
Bug_LeaseNeverEnds(row) == row.state = "pending" /\ row.nextAttemptAt <= clock
Due(row) ==
  \/ row.state = "pending" /\ row.nextAttemptAt <= clock
  \/ row.state = "processing" /\ row.lockedUntil <= clock

DueIds == {i \in DOMAIN outbox : Due(outbox[i])}

Before(i, j) ==
  \/ outbox[i].nextAttemptAt < outbox[j].nextAttemptAt
  \/ outbox[i].nextAttemptAt = outbox[j].nextAttemptAt /\ i < j

(* ORDER BY next_attempt_at, id LIMIT: the BatchSize first of the due rows. *)
Picked ==
  {T \in SUBSET DueIds :
     /\ Cardinality(T) <= BatchSize
     /\ T = DueIds \/ Cardinality(T) = BatchSize
     /\ \A i \in T, j \in DueIds \ T : Before(i, j)}

Bug_Claimed(row) ==
  [row EXCEPT !.state = "processing", !.attempts = @ + 1, !.lockedUntil = clock]
Bug_AttemptNotCounted(row) ==
  [row EXCEPT !.state = "processing", !.lockedUntil = clock + LockTTL]
Claimed(row) ==
  [row EXCEPT !.state = "processing", !.attempts = @ + 1, !.lockedUntil = clock + LockTTL]

Bug_NeverStale(row) == FALSE
Stale(row) == row.type # NoticeOf[status[row.booking]]

Snapshot(i) == [id |-> i, attempts |-> outbox[i].attempts + 1, stale |-> Stale(outbox[i])]

(* The ticker fires.  The rows are leased when the statement commits; the  *)
(* dispatcher knows of them unless the answer is lost.                     *)
Fetch(d) ==
  /\ pc[d] = "idle"
  /\ DueIds # {}
  /\ \E T \in Picked :
       /\ outbox' = [i \in DOMAIN outbox |-> IF i \in T THEN Claimed(outbox[i]) ELSE outbox[i]]
       /\ \/ /\ pc' = [pc EXCEPT ![d] = "next"]
             /\ batch' = [batch EXCEPT ![d] = {Snapshot(i) : i \in T}]
             /\ UNCHANGED faults
          \/ Fault /\ UNCHANGED <<pc, batch>>
       /\ lapsed' = [i \in DOMAIN outbox |->
            IF i \in T /\ outbox[i].state = "processing" THEN lapsed[i] + 1 ELSE lapsed[i]]
  /\ waited' = [waited EXCEPT ![d] = 0]
  /\ UNCHANGED <<clock, status, telegram, result, sendBy, inflight, told, unsure>>

FetchNothing(d) ==
  /\ pc[d] = "idle"
  /\ DueIds = {} /\ waited[d] > 0
  /\ waited' = [waited EXCEPT ![d] = 0]
  /\ UNCHANGED <<clock, status, outbox, telegram, pc, batch, result, sendBy, inflight, history, faults>>

-----------------------------------------------------------------------------
(* The loop of DispatchNotifications over the batch, in the order of ids.  *)
First(d, x) == x \in batch[d] /\ \A y \in batch[d] : x.id <= y.id

(* A stale notice is marked sent without being sent.                       *)
NextItem(d) ==
  /\ pc[d] = "next"
  /\ \E x \in batch[d] :
       /\ First(d, x)
       /\ pc' = [pc EXCEPT ![d] = IF x.stale THEN "mark" ELSE "send"]
       /\ sendBy' = [sendBy EXCEPT ![d] = IF x.stale THEN 0 ELSE clock + SendTimeout]
  /\ UNCHANGED <<clock, status, outbox, telegram, batch, result, waited, inflight, history, faults>>

(* What sending over a channel can come to.  A channel that is switched    *)
(* off accepts everything; a Telegram notifier that did not start is a nil *)
(* pointer inside a non-nil interface.                                     *)
Outcomes(d, channel) ==
  IF channel = "telegram" /\ telegram[d] = "failed" THEN {"panic"}
  ELSE IF channel \in Enabled THEN {"ok", "error", "timeout"} ELSE {"ok"}

Sending(d, x, outcome) ==
  /\ pc[d] = "send"
  /\ First(d, x)
  /\ outcome \in Outcomes(d, outbox[x.id].channel)

(* Notify returns and its timer is stopped.                                *)
Returns(d, r) ==
  /\ pc' = [pc EXCEPT ![d] = "mark"]
  /\ result' = [result EXCEPT ![d] = r]
  /\ sendBy' = [sendBy EXCEPT ![d] = 0]

SendAccepted(d) ==
  /\ \E x \in batch[d] :
       /\ Sending(d, x, "ok")
       /\ told' = [told EXCEPT ![x.id] = @ + 1]
  /\ Returns(d, "ok")
  /\ UNCHANGED <<clock, status, outbox, telegram, batch, waited, inflight, unsure, lapsed, faults>>

(* The send returns an error, perhaps after the message was accepted.      *)
Bug_SendRefused(d) ==
  /\ \E x \in batch[d] : Sending(d, x, "error")
  /\ Returns(d, "ok")
  /\ UNCHANGED <<clock, status, outbox, telegram, batch, waited, inflight, history, faults>>
SendRefused(d) ==
  /\ \E x \in batch[d] :
       /\ Sending(d, x, "error")
       /\ \/ UNCHANGED history
          \/ /\ told' = [told EXCEPT ![x.id] = @ + 1]
             /\ unsure' = unsure \cup {x.id}
             /\ UNCHANGED lapsed
  /\ Returns(d, "error")
  /\ UNCHANGED <<clock, status, outbox, telegram, batch, waited, inflight, faults>>

(* The timer fires first: Notify returns an error and the goroutine of the *)
(* send goes on.                                                           *)
SendTimesOut(d) ==
  /\ clock >= sendBy[d]
  /\ \E x \in batch[d] :
       /\ Sending(d, x, "timeout")
       /\ inflight' = inflight \cup {[by |-> d, id |-> x.id, attempts |-> x.attempts]}
       /\ unsure' = unsure \cup {x.id}
  /\ Returns(d, "error")
  /\ UNCHANGED <<clock, status, outbox, telegram, batch, waited, told, lapsed, faults>>

(* It ends some time later, accepted or not.                               *)
LateSendEnds ==
  /\ \E s \in inflight :
       /\ inflight' = inflight \ {s}
       /\ \/ told' = [told EXCEPT ![s.id] = @ + 1]
          \/ UNCHANGED told
  /\ UNCHANGED <<clock, status, outbox, telegram, pc, dispatch, unsure, lapsed, faults>>

-----------------------------------------------------------------------------
(* MarkNotificationSent, MarkNotificationFailed, RescheduleNotification.   *)
Doublings == <<1, 2, 4, 8, 16, 32>>

Smaller(m, n) == IF m <= n THEN m ELSE n

Backoff(attempts) == Smaller(BaseBackoff * Doublings[Smaller(attempts - 1, 5) + 1], MaxBackoff)

Bug_ExhaustedLate(x)  == x.attempts > MaxAttempts
Bug_ExhaustedEarly(x) == x.attempts >= MaxAttempts - 1
Exhausted(x) == x.attempts >= MaxAttempts

Marked(d, x, row) ==
  LET free == [row EXCEPT !.lockedUntil = 0]
  IN  IF result[d] = "ok" THEN {[free EXCEPT !.state = "sent"]}
      ELSE IF Exhausted(x) THEN {[free EXCEPT !.state = "failed"]}
      ELSE {[free EXCEPT !.state = "pending", !.nextAttemptAt = clock + Backoff(x.attempts) + jitter] :
              jitter \in 0..(BaseBackoff \div 2)}

(* An error ends DispatchNotifications: what is left of the batch stays    *)
(* leased.                                                                 *)
Abandon(d) ==
  /\ batch' = [batch EXCEPT ![d] = {}]
  /\ pc' = [pc EXCEPT ![d] = "idle"]

Bug_MarkHolds(row) == TRUE
MarkHolds(row) == row.state = "processing"

(* A mark that finds another state, or fails, gives up the whole batch.    *)
Mark(d) ==
  /\ pc[d] = "mark"
  /\ \E x \in batch[d] :
       /\ First(d, x)
       /\ \/ /\ MarkHolds(outbox[x.id])
             /\ \E row \in Marked(d, x, outbox[x.id]) : outbox' = [outbox EXCEPT ![x.id] = row]
             /\ \/ /\ batch' = [batch EXCEPT ![d] = @ \ {x}]
                   /\ pc' = [pc EXCEPT ![d] = IF batch[d] = {x} THEN "idle" ELSE "next"]
                   /\ UNCHANGED faults
                \/ Abandon(d) /\ Fault
          \/ /\ ~MarkHolds(outbox[x.id])
             /\ Abandon(d)
             /\ UNCHANGED <<outbox, faults>>
  /\ result' = [result EXCEPT ![d] = "ok"]
  /\ UNCHANGED <<clock, status, telegram, sendBy, waited, inflight, history>>

(* The mark fails without having been applied: a broken connection, or the *)
(* context the shutdown has cancelled.                                     *)
MarkFails(d) ==
  /\ pc[d] = "mark"
  /\ Abandon(d) /\ Fault
  /\ result' = [result EXCEPT ![d] = "ok"]
  /\ UNCHANGED <<clock, status, outbox, telegram, sendBy, waited, inflight, history>>

-----------------------------------------------------------------------------
(* The process ends: its batch is forgotten and its sends are cut off,     *)
(* each one possibly after it was accepted.                                *)
Die(d, how) ==
  /\ pc' = [pc EXCEPT ![d] = how]
  /\ batch' = [batch EXCEPT ![d] = {}]
  /\ result' = [result EXCEPT ![d] = "ok"]
  /\ sendBy' = [sendBy EXCEPT ![d] = 0]
  /\ inflight' = {s \in inflight : s.by # d}

Crash(d) ==
  /\ pc[d] \notin {"down", "panicked"}
  /\ Fault
  /\ Die(d, "down")
  /\ \/ UNCHANGED told
     \/ /\ pc[d] = "send"
        /\ \E x \in batch[d] :
             /\ Sending(d, x, "ok")
             /\ told' = [told EXCEPT ![x.id] = @ + 1]
  /\ UNCHANGED <<clock, status, outbox, telegram, waited, unsure, lapsed>>

(* send reads n.cfg of a nil *TelegramNotifier; nothing recovers in the    *)
(* scheduler's goroutine, and the whole process ends.                      *)
SendPanics(d) ==
  /\ \E x \in batch[d] : Sending(d, x, "panic")
  /\ Die(d, "panicked")
  /\ UNCHANGED <<clock, status, outbox, telegram, waited, history, faults>>

(* The process starts, the first time or again (restart: unless-stopped).  *)
Restart(d) ==
  /\ pc[d] \in {"down", "panicked"}
  /\ pc' = [pc EXCEPT ![d] = "idle"]
  /\ \E t \in Start :
       /\ telegram' = [telegram EXCEPT ![d] = t]
       /\ IF t = "failed" THEN Fault ELSE UNCHANGED faults
  /\ UNCHANGED <<clock, status, outbox, dispatch, inflight, history>>

-----------------------------------------------------------------------------
Settled(row) == row.state \in {"sent", "failed"}

(* Statements return at once, timers and the ticker fire on time, and a    *)
(* process that ended is started again; otherwise the dispatcher is slow,  *)
(* which is a fault.                                                       *)
Slow(d) ==
  \/ pc[d] \in {"next", "mark", "down", "panicked"}
  \/ pc[d] = "send" /\ clock >= sendBy[d]
  \/ pc[d] = "idle" /\ waited[d] >= Interval

(* Time matters only while a row waits.                                    *)
Tick ==
  /\ clock < MaxTime
  /\ \E i \in DOMAIN outbox : ~Settled(outbox[i])
  /\ clock' = clock + 1
  /\ waited' = [d \in Dispatchers |->
       IF pc[d] = "idle" /\ waited[d] < Interval THEN waited[d] + 1 ELSE waited[d]]
  /\ IF \E d \in Dispatchers : Slow(d) THEN Fault ELSE UNCHANGED faults
  /\ UNCHANGED <<status, outbox, telegram, pc, batch, result, sendBy, inflight, history>>

Send(d) == SendAccepted(d) \/ SendRefused(d) \/ SendTimesOut(d) \/ SendPanics(d)

Step(d) == Fetch(d) \/ FetchNothing(d) \/ NextItem(d) \/ Send(d) \/ Mark(d) \/ Restart(d)

Next ==
  \/ \E b \in Bookings : Book(b) \/ Confirm(b) \/ Cancel(b)
  \/ \E d \in Dispatchers : Step(d) \/ MarkFails(d) \/ Crash(d)
  \/ LateSendEnds
  \/ Tick

Spec == Init /\ [][Next]_vars

(* The ticker fires, statements and sends return, a process that ended is  *)
(* started again, and time passes.                                         *)
Fairness == WF_vars(Tick) /\ \A d \in Dispatchers : WF_vars(Step(d))

LiveSpec == Spec /\ Fairness

-----------------------------------------------------------------------------
(* A row marked sent was accepted by its notifier at least once, unless    *)
(* the booking had moved on; a row marked failed has had all its attempts. *)
SettledTruly ==
  \A i \in DOMAIN outbox :
    /\ outbox[i].state = "sent" => told[i] > 0 \/ Stale(outbox[i])
    /\ outbox[i].state = "failed" => outbox[i].attempts >= MaxAttempts

(* A settled row is never touched again, also not by a dispatcher that has *)
(* lost its lease.                                                         *)
SettledFinal ==
  [][\A i \in DOMAIN outbox : Settled(outbox[i]) => outbox'[i] = outbox[i]]_vars

(* Without a fault no row is in the hands of two dispatchers: the lease    *)
(* outlasts the batch.                                                     *)
OneSender ==
  faults = 0 => \A d, e \in Dispatchers : d # e =>
    \A x \in batch[d], y \in batch[e] : x.id # y.id

(* Delivery is repeated only after a fault or a send that timed out, and   *)
(* never more often than the row was claimed.                              *)
RepeatedOnlyAfterTrouble ==
  \A i \in DOMAIN outbox :
    /\ told[i] <= outbox[i].attempts
    /\ told[i] > 1 => faults > 0 \/ i \in unsure

(* Nobody gets in the way of a dispatcher: nothing has gone wrong, or it   *)
(* is the only one.                                                        *)
Calm == faults = 0 \/ Cardinality(Dispatchers) = 1

(* The attempts exceed their maximum only by the claims of leases that had *)
(* ended, also when dispatchers mark rows whose lease they have lost; and  *)
(* these are no more than the faults, as long as there are no such marks.  *)
AttemptsBounded ==
  \A i \in DOMAIN outbox :
    /\ outbox[i].attempts <= MaxAttempts + lapsed[i]
    /\ Calm => outbox[i].attempts <= MaxAttempts + faults

(* One process alone, undisturbed, tells a user nothing out of order: once *)
(* the end of a booking was told, its creation is not.                     *)
OrderKept ==
  [][\A i, j \in DOMAIN outbox :
       /\ Cardinality(Dispatchers) = 1 /\ faults = 0 /\ unsure = {}
       /\ outbox[i].booking = outbox[j].booking
       /\ outbox[i].type = "booking_created" /\ outbox[j].type # "booking_created"
       /\ told[j] > 0
       => told'[i] = told[i]]_vars

(* Every notice is settled in the end, whatever crashes, stalls, lost      *)
(* answers and refused sends come before.                                  *)
EveryNoticeSettled ==
  \A b \in Bookings, t \in Types, c \in {"log", "email", "telegram"} :
    LET rows == {i \in DOMAIN outbox :
                   outbox[i].booking = b /\ outbox[i].type = t /\ outbox[i].channel = c}
    IN  rows # {} ~> (rows # {} /\ \A i \in rows : Settled(outbox[i]))

(* A Telegram notifier that could not start disables its channel and       *)
(* nothing else: the process goes on.                                      *)
OnlyTelegramDisabled == \A d \in Dispatchers : pc[d] # "panicked"

-----------------------------------------------------------------------------
(* The parts of an inductive invariant.                                    *)

(* What a dispatcher remembers of a row is still true of it, as far as a   *)
(* mark relies on it.                                                      *)
BatchesKnown ==
  \A d \in Dispatchers : \A x \in batch[d] :
    /\ x.id \in DOMAIN outbox
    /\ x.attempts <= outbox[x.id].attempts
    /\ x.stale => Stale(outbox[x.id])

(* A booking has only rows of statuses it has had, so that a stale notice  *)
(* stays stale.                                                            *)
NoticesFollow ==
  \A i \in DOMAIN outbox :
    LET s == status[outbox[i].booking]
    IN  s # "none" /\ (s = "pending" => outbox[i].type = "booking_created")

(* A dispatcher about to mark a row sent has had it accepted, or it is     *)
(* stale.                                                                  *)
OkEarned ==
  \A d \in Dispatchers : pc[d] = "mark" /\ result[d] = "ok" =>
    \A x \in batch[d] : First(d, x) => told[x.id] > 0 \/ Stale(outbox[x.id])

TruthInv == TypeOK /\ BatchesKnown /\ NoticesFollow /\ OkEarned /\ SettledTruly

(* When a dispatcher that is not slow has done its batch at the latest.    *)
DoneBy(d) ==
  LET n == Cardinality(batch[d])
  IN  CASE pc[d] = "send" -> sendBy[d] + (n - 1) * SendTimeout
        [] pc[d] = "mark" -> clock + (n - 1) * SendTimeout
        [] OTHER          -> clock + n * SendTimeout

(* A batch is a finite set of distinct rows.                               *)
BatchesDistinct ==
  \A d \in Dispatchers :
    /\ IsFiniteSet(batch[d])
    /\ \A x, y \in batch[d] : x.id = y.id => x = y
    /\ pc[d] \notin {"next", "send", "mark"} => batch[d] = {}

(* Without a fault every row of a batch is leased until after DoneBy.      *)
Held(d) ==
  /\ pc[d] = "send" => clock <= sendBy[d]
  /\ \A x \in batch[d] :
       /\ outbox[x.id].state = "processing"
       /\ DoneBy(d) < outbox[x.id].lockedUntil

LeaseHeld == faults = 0 => \A d \in Dispatchers : Held(d)

LeaseInv == TruthInv /\ BatchesDistinct /\ LeaseHeld /\ OneSender

(* Who may still send row i, and the sends of it that go on.               *)
Owing(i)  == {d \in Dispatchers : \E x \in batch[d] :
                x.id = i /\ ~(pc[d] = "mark" /\ First(d, x))}
Flying(i) == {s \in inflight : s.id = i}

(* Each acceptance, past or still possible, is backed by a claim.          *)
ClaimsCover ==
  /\ IsFiniteSet(inflight)
  /\ \A i \in DOMAIN outbox :
       told[i] + Cardinality(Owing(i)) + Cardinality(Flying(i)) <= outbox[i].attempts

(* A row is in the hands of a dispatcher that is about to mark it sent.    *)
AboutToBeSent(i) ==
  \E d \in Dispatchers : /\ pc[d] = "mark" /\ result[d] = "ok"
                         /\ \E x \in batch[d] : First(d, x) /\ x.id = i

(* Without a fault a row whose sends all ended clearly is not claimed      *)
(* again once it was told.                                                 *)
ToldOnce ==
  /\ \A s \in inflight : s.id \in unsure
  /\ faults = 0 => \A i \in DOMAIN outbox \ unsure :
       \/ told[i] = 0
       \/ told[i] = 1 /\ (outbox[i].state = "sent" \/ AboutToBeSent(i))

(* The faults that can have cost an attempt: the failed start of a process *)
(* that is still up has not cost one yet.                                  *)
Live(d) == pc[d] \notin {"down", "panicked"}
Spent   == IF \E d \in Dispatchers : Live(d) /\ telegram[d] = "failed" THEN faults - 1 ELSE faults

InHand(i) == \E d \in Dispatchers : \E x \in batch[d] : x.id = i

FailedStarts == \A d \in Dispatchers : telegram[d] = "failed" => faults # 0

(* In a calm, a row of a batch is as it was claimed.                       *)
BatchesExact ==
  Calm => \A d \in Dispatchers : \A x \in batch[d] :
    outbox[x.id].state = "processing" /\ outbox[x.id].attempts = x.attempts

(* A row that may be claimed again has an attempt left.                    *)
AttemptsLeft ==
  Calm => \A i \in DOMAIN outbox :
    outbox[i].attempts + (IF Settled(outbox[i]) \/ InHand(i) THEN 0 ELSE 1) <= MaxAttempts + Spent

AttemptsInv == FailedStarts /\ BatchesExact /\ AttemptsLeft

(* No two dispatchers hold the same claim of a row.                        *)
ClaimsDistinct ==
  \A d, e \in Dispatchers : \A x \in batch[d], y \in batch[e] :
    x.id = y.id /\ x.attempts = y.attempts => d = e

(* The claims of a row, below the last one it is allowed, after which it   *)
(* may still be retried: those to come and those in the hands of a         *)
(* dispatcher.  Each gives the row back to be claimed once at most.        *)
Retries(i) ==
  {n \in 1..(MaxAttempts - 1) :
     \/ n > outbox[i].attempts
     \/ \E d \in Dispatchers : \E x \in batch[d] : x.id = i /\ x.attempts = n}

RetriesCover ==
  \A i \in DOMAIN outbox :
    outbox[i].attempts + (IF outbox[i].state = "pending" THEN 1 ELSE 0) + Cardinality(Retries(i))
      <= MaxAttempts + lapsed[i]

IInv == LeaseInv /\ ClaimsCover /\ ToldOnce /\ AttemptsInv /\ ClaimsDistinct /\ RetriesCover

-----------------------------------------------------------------------------
(* What the table shows of a notice, apart from leases and times.          *)
Standing(row) == IF Settled(row) THEN row.state ELSE "waiting"

Notice(row, accepted) ==
  [booking |-> row.booking, type |-> row.type, channel |-> row.channel,
   standing |-> Standing(row), tries |-> row.attempts, told |-> accepted]

Notices == [i \in DOMAIN outbox |-> Notice(outbox[i], told[i])]

Delivery == INSTANCE NoticeDelivery WITH notices <- Notices

(* Whatever dispatchers and processes do, crash or lose, the table keeps   *)
(* the promises of NoticeDelivery.                                         *)
ImplementsDelivery == Delivery!Spec
=============================================================================
