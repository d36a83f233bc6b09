------------------------- MODULE BookingStoreProofs -------------------------
(***************************************************************************)
(* BookingStore is type correct, no event is overbooked, no user holds two *)
(* active bookings of one event, no status changes twice, cancellations    *)
(* are never early, what Confirm answered stays true and the outbox holds  *)
(* exactly the notices that are owed, for every number of requests,        *)
(* sweeps, events, users and seats.                                        *)
(*                                                                         *)
(* The argument: the locks keep the writes of a transaction apart from     *)
(* those of the others (LockInv); so what another transaction publishes    *)
(* never adds an active booking to the event a Book has locked, and the    *)
(* seats it has counted are still free when it commits (SeatInv).  A step  *)
(* of the store leaves the data alone, ends a transaction, gives pending   *)
(* rows a new status or inserts a row (StoreStep); the locks make what a   *)
(* transaction decided from the rows it read still true when it is         *)
(* published (IInv).                                                       *)
(***************************************************************************)
EXTENDS BookingStore, TLAPS, FiniteSetTheorems

(* The fields of a call.                                                   *)
LEMMA CallFields ==
  ASSUME NEW T, NEW c \in Call(T)
  PROVE  /\ c.op \in {"book", "confirm"}
         /\ c.event \in Events
         /\ c.user \in Users
         /\ c.op = "confirm" => c.booking \in BookingIds
BY DEF Call, BookCall, ConfirmCall

(* A row keeps its type when its status is written.                        *)
LEMMA StatusWritten ==
  ASSUME NEW row \in Booking, NEW s \in Statuses
  PROVE  [row EXCEPT !.status = s] \in Booking
BY DEF Booking

(* A row that exists is a booking.                                         *)
LEMMA RowExists ==
  ASSUME NEW table \in BookingTable, NEW b \in BookingIds, table[b] # NoBooking
  PROVE  table[b] \in Booking
BY DEF BookingTable

(* A transaction sees a table.                                             *)
LEMMA ViewType ==
  ASSUME TypeOK, NEW p \in Procs
  PROVE  View(p) \in BookingTable
BY DEF TypeOK, View, BookingTable

(* Cancelling rows of a table gives a table.                               *)
LEMMA CancelType ==
  ASSUME NEW table \in BookingTable, NEW S \in SUBSET BookingIds, NEW s \in Statuses,
         \A b \in S : table[b] # NoBooking
  PROVE  WithStatus(table, S, s) \in BookingTable
<1>1. ASSUME NEW b \in S PROVE [table[b] EXCEPT !.status = s] \in Booking
  BY <1>1, StatusWritten, RowExists
<1> QED BY <1>1 DEF WithStatus, BookingTable

(* What a transaction writes is a table again.                             *)
LEMMA WrittenType ==
  ASSUME TypeOK, NEW p \in Procs, NEW S \in SUBSET BookingIds, NEW row \in BookingTable
  PROVE  Written(p, S, row) \in [Procs -> BookingTable]
BY DEF TypeOK, Written, BookingTable

(* The locals and locks of a transaction keep their types when it ends.    *)
LEMMA EndTxType ==
  ASSUME TypeOK, NEW p \in Procs, EndTx(p)
  PROVE  /\ eventLock' \in [Events -> Requests \cup {Nobody}]
         /\ bookingLock' \in [BookingIds -> Procs \cup {Nobody}]
         /\ now' \in [Procs -> Nat]
         /\ writes' \in [Procs -> BookingTable]
         /\ queued' \in [Procs -> SUBSET OutboxRow]
         /\ expiry' \in [Procs -> Nat]
         /\ verdict' \in [Procs -> Answers]
BY DEF TypeOK, EndTx, ForgetTx, Untouched, BookingTable, Answers

(* What is enqueued are rows of the outbox.                                *)
LEMMA EnqueuedType ==
  ASSUME NEW S \in SUBSET BookingIds, NEW type \in NotificationTypes
  PROVE  Enqueued(S, type) \in SUBSET OutboxRow
BY DEF Enqueued, OutboxRow

-----------------------------------------------------------------------------
(* TypeOK is inductive together with CallsMade: a statement reads the      *)
(* fields of a call that has been made.                                    *)

TypeInv == TypeOK /\ CallsMade

(* The initial state has the right types.                                  *)
LEMMA TypeInit == Init => TypeInv
BY DomainAssumption, StoreAssumption
   DEF Init, TypeInv, TypeOK, CallsMade, EventTable, BookingTable, Untouched, Procs, Answers,
       RequestPcs, SweeperPcs, BookPcs

(* A rollback keeps the types.                                             *)
LEMMA RollbackType ==
  ASSUME TypeInv, NEW r \in Requests, NEW reason \in Answers,
         pc[r] # "idle", Rollback(r, reason)
  PROVE  TypeInv'
<1>1. r \in Procs /\ r \notin Sweepers
  BY StoreAssumption DEF Procs
<1>2. TypeOK'
  BY <1>1, EndTxType DEF TypeInv, TypeOK, Rollback, tables, RequestPcs
<1>3. CallsMade'
  BY <1>1 DEF TypeInv, TypeOK, CallsMade, Rollback, BookPcs, Procs
<1> QED BY <1>2, <1>3 DEF TypeInv

(* Beginning a call.                                                       *)
LEMMA BeginType ==
  ASSUME TypeInv, NEW r \in Requests, Begin(r)
  PROVE  TypeInv'
<1>1. r \in Procs /\ r \notin Sweepers
  BY StoreAssumption DEF Procs
<1>2. PICK c \in Call({clock}) : call' = [call EXCEPT ![r] = c]
  BY DEF Begin
<1>3. c \in Call(Nat)
  BY DEF Call, BookCall, ConfirmCall, TypeInv, TypeOK
<1>4. TypeOK'
  BY <1>1, <1>2, <1>3 DEF TypeInv, TypeOK, Begin, Goto, tables, locks, pending, RequestPcs
<1>5. CallsMade'
  BY <1>1, <1>2, <1>3 DEF TypeInv, TypeOK, CallsMade, Begin, Goto, BookPcs, Procs
<1> QED BY <1>4, <1>5 DEF TypeInv

(* Locking the event.                                                      *)
LEMMA LockEventType ==
  ASSUME TypeInv, NEW r \in Requests, LockEvent(r)
  PROVE  TypeInv'
<1>1. r \in Procs /\ r \notin Sweepers /\ call[r] \in Call(Nat)
  BY StoreAssumption DEF Procs, LockEvent, TypeInv, CallsMade
<1> DEFINE e == call[r].event
<1>2. e \in Events /\ call[r].op \in {"book", "confirm"}
  BY <1>1, CallFields
<1>3. CASE \E reason \in {"event_not_found", "event_started"} : Rollback(r, reason)
  BY <1>3, RollbackType DEF Answers, LockEvent
<1>4. CASE /\ eventLock' = [eventLock EXCEPT ![e] = r]
           /\ pc' = [pc EXCEPT ![r] =
                 IF call[r].op = "book" THEN "cancelExpired" ELSE "getBooking"]
           /\ UNCHANGED <<clock, tables, bookingLock, private, call, answer, faults>>
  <2>1. TypeOK'
    BY <1>1, <1>2, <1>4 DEF TypeInv, TypeOK, tables, private, pending, RequestPcs
  <2>2. CallsMade'
    BY <1>1, <1>2, <1>4 DEF TypeInv, TypeOK, CallsMade, BookPcs, Procs
  <2> QED BY <2>1, <2>2 DEF TypeInv
<1> QED BY <1>3, <1>4 DEF LockEvent

(* The rows a statement at time t finds due.                               *)
LEMMA DueRowsExist ==
  ASSUME NEW table, NEW t
  PROVE  /\ DueRows(table, t) \in SUBSET BookingIds
         /\ \A b \in DueRows(table, t) : table[b] # NoBooking /\ table[b].status = "pending"
BY DEF DueRows, Due

(* Book cancels the expired bookings of its event.                         *)
LEMMA CancelExpiredType ==
  ASSUME TypeInv, NEW r \in Requests, CancelExpiredOfEvent(r)
  PROVE  TypeInv'
<1> DEFINE due == {b \in DueRows(View(r), now[r]) : View(r)[b].event = call[r].event}
<1>1. r \in Procs /\ r \notin Sweepers /\ pc[r] = "cancelExpired"
  BY StoreAssumption DEF Procs, CancelExpiredOfEvent, Goto
<1>2. due \in SUBSET BookingIds /\ \A b \in due : View(r)[b] # NoBooking
  BY DueRowsExist
<1>3. writes' \in [Procs -> BookingTable]
  <2>1. WithStatus(View(r), due, "cancelled") \in BookingTable
    BY <1>1, <1>2, ViewType, CancelType DEF Statuses, TypeInv
  <2> QED BY <1>1, <1>2, <2>1, WrittenType DEF CancelExpiredOfEvent, TypeInv
<1>4. queued' \in [Procs -> SUBSET OutboxRow]
  BY <1>1, <1>2, EnqueuedType DEF CancelExpiredOfEvent, TypeInv, TypeOK, NotificationTypes
<1>5. bookingLock' \in [BookingIds -> Procs \cup {Nobody}]
  BY <1>1, <1>2 DEF CancelExpiredOfEvent, TypeInv, TypeOK, LockRows
<1>6. /\ pc' = [pc EXCEPT ![r] = "freeSeats"]
      /\ UNCHANGED <<clock, events, bookings, outbox, eventLock, now, expiry, verdict, call,
                     answer, faults>>
  BY DEF CancelExpiredOfEvent, Goto, tables
<1>7. TypeOK'
  BY <1>1, <1>3, <1>4, <1>5, <1>6 DEF TypeInv, TypeOK, RequestPcs
<1>8. CallsMade'
  BY <1>1, <1>6 DEF TypeInv, TypeOK, CallsMade, BookPcs, Procs
<1> QED BY <1>7, <1>8 DEF TypeInv

(* Book counts the free seats and computes the deadline.                   *)
LEMMA CountFreeSeatsType ==
  ASSUME TypeInv, NEW r \in Requests, CountFreeSeats(r)
  PROVE  TypeInv'
<1>1. r \in Procs /\ r \notin Sweepers /\ pc[r] = "freeSeats"
  BY StoreAssumption DEF Procs, CountFreeSeats
<1>2. CASE SeatLeft(r)
  <2>1. /\ pc' = [pc EXCEPT ![r] = "insert"]
        /\ expiry' = [expiry EXCEPT ![r] = clock + Deadline]
        /\ UNCHANGED <<clock, events, bookings, outbox, eventLock, bookingLock, now, writes,
                       queued, verdict, call, answer, faults>>
    BY <1>2 DEF CountFreeSeats, ExpiresAt, tables, locks, pending
  <2>2. clock + Deadline \in Nat
    BY DomainAssumption DEF TypeInv, TypeOK
  <2>3. TypeOK'
    BY <1>1, <2>1, <2>2 DEF TypeInv, TypeOK, RequestPcs
  <2>4. CallsMade'
    BY <1>1, <2>1 DEF TypeInv, TypeOK, CallsMade, BookPcs, Procs
  <2> QED BY <2>3, <2>4 DEF TypeInv
<1>3. CASE ~SeatLeft(r)
  BY <1>1, <1>3, RollbackType DEF CountFreeSeats, Answers
<1> QED BY <1>2, <1>3

(* Book inserts its booking.                                               *)
LEMMA InsertBookingType ==
  ASSUME TypeInv, NEW r \in Requests, InsertBooking(r)
  PROVE  TypeInv'
<1>1. r \in Procs /\ r \notin Sweepers /\ pc[r] = "insert" /\ call[r] \in Call(Nat)
  BY StoreAssumption DEF Procs, InsertBooking, TypeInv, CallsMade
<1>2. CASE Rollback(r, "already_booked")
  BY <1>1, <1>2, RollbackType DEF Answers
<1> DEFINE new == NewBooking(call[r].event, call[r].user, expiry[r])
<1>3. ASSUME NEW b \in BookingIds,
             writes' = [writes EXCEPT ![r][b] = new],
             bookingLock' = [bookingLock EXCEPT ![b] = r],
             queued' = [queued EXCEPT ![r] = @ \cup Enqueued({b}, "booking_created")],
             pc' = [pc EXCEPT ![r] = "commit"],
             verdict' = [verdict EXCEPT ![r] = "ok"],
             UNCHANGED <<clock, tables, eventLock, now, expiry, call, answer, faults>>
      PROVE  TypeInv'
  <2>1. new \in Booking
    BY <1>1, CallFields DEF NewBooking, Booking, Statuses, TypeInv, TypeOK
  <2>2. writes' \in [Procs -> BookingTable]
    BY <1>1, <1>3, <2>1 DEF TypeInv, TypeOK, BookingTable
  <2>3. queued' \in [Procs -> SUBSET OutboxRow]
    BY <1>1, <1>3, EnqueuedType DEF TypeInv, TypeOK, NotificationTypes
  <2>4. bookingLock' \in [BookingIds -> Procs \cup {Nobody}]
    BY <1>1, <1>3 DEF TypeInv, TypeOK
  <2>5. verdict' \in [Procs -> Answers]
    BY <1>1, <1>3 DEF TypeInv, TypeOK, Answers
  <2>6. /\ pc' = [pc EXCEPT ![r] = "commit"]
        /\ UNCHANGED <<clock, events, bookings, outbox, eventLock, now, expiry, call, answer,
                       faults>>
    BY <1>3 DEF tables
  <2>7. TypeOK'
    BY <1>1, <2>2, <2>3, <2>4, <2>5, <2>6 DEF TypeInv, TypeOK, RequestPcs
  <2>8. CallsMade'
    BY <1>1, <2>6 DEF TypeInv, TypeOK, CallsMade, BookPcs, Procs
  <2> QED BY <2>7, <2>8 DEF TypeInv
<1> QED BY <1>2, <1>3 DEF InsertBooking

(* Confirm locks the row and may write its new status.                     *)
LEMMA ConfirmBookingType ==
  ASSUME TypeInv, NEW r \in Requests, ConfirmBooking(r)
  PROVE  TypeInv'
<1> DEFINE b == call[r].booking
<1>1. /\ r \in Procs /\ r \notin Sweepers
      /\ pc[r] = "getBooking" /\ call[r] \in Call(Nat)
      /\ b \in BookingIds
  BY StoreAssumption, CallFields DEF Procs, ConfirmBooking, TypeInv, CallsMade
<1>2. CASE \E reason \in {"booking_not_found", "forbidden", "not_pending"} : Rollback(r, reason)
  BY <1>1, <1>2, RollbackType DEF Answers
<1>3. CASE bookings[b] # NoBooking /\ ConfirmLocked(r, b)
  <2>1. /\ pc' = [pc EXCEPT ![r] = "commit"]
        /\ UNCHANGED <<clock, events, bookings, outbox, eventLock, now, expiry, call, answer,
                       faults>>
    BY <1>3 DEF ConfirmLocked, tables
  <2>2. bookingLock' \in [BookingIds -> Procs \cup {Nobody}]
    BY <1>1, <1>3 DEF ConfirmLocked, LockRows, TypeInv, TypeOK
  <2>3. ASSUME NEW status \in Statuses, NEW type \in NotificationTypes, NEW result \in Answers,
               WriteStatus(r, b, status, type, result)
        PROVE  /\ writes' \in [Procs -> BookingTable]
               /\ queued' \in [Procs -> SUBSET OutboxRow]
               /\ verdict' \in [Procs -> Answers]
    <3>1. WithStatus(bookings, {b}, status) \in BookingTable
      BY <1>1, <1>3, CancelType DEF TypeInv, TypeOK
    <3>2. writes' \in [Procs -> BookingTable]
      BY <1>1, <2>3, <3>1, WrittenType DEF WriteStatus, TypeInv
    <3>3. queued' \in [Procs -> SUBSET OutboxRow]
      BY <1>1, <2>3, EnqueuedType DEF WriteStatus, TypeInv, TypeOK
    <3>4. verdict' \in [Procs -> Answers]
      BY <1>1, <2>3 DEF WriteStatus, TypeInv, TypeOK
    <3> QED BY <3>2, <3>3, <3>4
  <2>4. /\ writes' \in [Procs -> BookingTable]
        /\ queued' \in [Procs -> SUBSET OutboxRow]
        /\ verdict' \in [Procs -> Answers]
    <3>1. CASE /\ verdict' = [verdict EXCEPT ![r] = "ok"]
               /\ UNCHANGED pending
      BY <3>1 DEF TypeInv, TypeOK, pending, Answers
    <3>2. CASE \/ WriteStatus(r, b, "cancelled", "booking_cancelled", "expired")
               \/ WriteStatus(r, b, "confirmed", "booking_confirmed", "ok")
      BY <2>3, <3>2 DEF Statuses, NotificationTypes, Answers
    <3>3. \/ /\ verdict' = [verdict EXCEPT ![r] = "ok"]
             /\ UNCHANGED pending
          \/ WriteStatus(r, b, "cancelled", "booking_cancelled", "expired")
          \/ WriteStatus(r, b, "confirmed", "booking_confirmed", "ok")
      BY <1>3 DEF ConfirmLocked
    <3> QED BY <3>1, <3>2, <3>3
  <2>5. TypeOK'
    <3>1. r \in Procs /\ r \notin Sweepers
      BY <1>1
    <3>2. pc' \in [Procs -> RequestPcs \cup SweeperPcs] /\ \A s \in Sweepers : pc'[s] \in SweeperPcs
      BY <2>1, <3>1 DEF TypeInv, TypeOK, RequestPcs
    <3>3. writes' \in [Procs -> BookingTable] BY <2>4
    <3>4. queued' \in [Procs -> SUBSET OutboxRow] BY <2>4
    <3>5. verdict' \in [Procs -> Answers] BY <2>4
    <3> QED BY <3>2, <3>3, <3>4, <3>5, <2>1, <2>2 DEF TypeInv, TypeOK
  <2>6. CallsMade'
    BY <1>1, <2>1 DEF TypeInv, TypeOK, CallsMade, BookPcs, Procs
  <2> QED BY <2>5, <2>6 DEF TypeInv
<1> QED BY <1>2, <1>3 DEF ConfirmBooking

(* The tables keep their types when a transaction commits.                 *)
LEMMA PublishType ==
  ASSUME TypeInv, NEW p \in Procs, Publish(p)
  PROVE  bookings' \in BookingTable /\ outbox' \in SUBSET OutboxRow
BY ViewType DEF TypeInv, TypeOK, Publish

(* A request commits.                                                      *)
LEMMA CommitType ==
  ASSUME TypeInv, NEW r \in Requests, Commit(r)
  PROVE  TypeInv'
<1>1. r \in Procs /\ r \notin Sweepers /\ pc[r] = "commit"
  BY StoreAssumption DEF Procs, Commit, Goto
<1>2. pc' = [pc EXCEPT ![r] = "done"] /\ UNCHANGED <<clock, events, call>>
  BY DEF Commit, Goto
<1>3. answer' \in [Requests -> Answers] /\ faults' \in Nat
  BY <1>1 DEF Commit, TypeInv, TypeOK, Answers
<1>4. EndTx(r) /\ bookings' \in BookingTable /\ outbox' \in SUBSET OutboxRow
  BY <1>1, PublishType DEF Commit, Publish
<1>5. TypeOK'
  BY <1>1, <1>2, <1>3, <1>4, EndTxType DEF TypeInv, TypeOK, RequestPcs
<1>6. CallsMade'
  BY <1>1, <1>2 DEF TypeInv, TypeOK, CallsMade, BookPcs, Procs
<1> QED BY <1>5, <1>6 DEF TypeInv

(* A request fails.                                                        *)
LEMMA FailType ==
  ASSUME TypeInv, NEW r \in Requests, Fail(r)
  PROVE  TypeInv'
<1>1. r \in Procs /\ r \notin Sweepers /\ pc[r] # "idle"
  BY StoreAssumption DEF Procs, Fail
<1>2. /\ pc' = [pc EXCEPT ![r] = "done"]
      /\ answer' = [answer EXCEPT ![r] = "error"]
      /\ faults' = faults + 1
      /\ UNCHANGED <<clock, events, bookings, outbox, call>>
      /\ EndTx(r)
  BY DEF Fail, tables
<1>3. TypeOK'
  BY <1>1, <1>2, EndTxType DEF TypeInv, TypeOK, RequestPcs, Answers
<1>4. CallsMade'
  BY <1>1, <1>2 DEF TypeInv, TypeOK, CallsMade, BookPcs, Procs
<1> QED BY <1>3, <1>4 DEF TypeInv

(* No step of a sweep moves a request.                                     *)
LEMMA SweeperCallsMade ==
  ASSUME TypeInv, NEW s \in Sweepers, NEW next, pc' = [pc EXCEPT ![s] = next], call' = call
  PROVE  CallsMade'
BY StoreAssumption DEF TypeInv, TypeOK, CallsMade, BookPcs, Procs

(* The steps of a sweep.                                                   *)
LEMMA SweepType ==
  ASSUME TypeInv, NEW s \in Sweepers, SweepStep(s) \/ SweepFail(s)
  PROVE  TypeInv'
<1>1. s \in Procs /\ s \notin Requests
  BY StoreAssumption DEF Procs
<1>2. CASE SweepBegin(s)
  <2>1. /\ pc' = [pc EXCEPT ![s] = "pick"]
        /\ now' = [now EXCEPT ![s] = clock]
        /\ UNCHANGED <<clock, events, bookings, outbox, eventLock, bookingLock, writes, queued,
                       expiry, verdict, call, answer, faults>>
    BY <1>2 DEF SweepBegin, Goto, tables, locks, pending
  <2>2. TypeOK'
    BY <1>1, <2>1 DEF TypeInv, TypeOK, SweeperPcs
  <2> QED BY <2>1, <2>2, SweeperCallsMade DEF TypeInv
<1>3. CASE SweepPick(s)
  <2>1. PICK T \in Oldest(Pickable(s)) :
          /\ LockRows(T, s)
          /\ writes' = Written(s, T, WithStatus(bookings, T, "cancelled"))
          /\ queued' = [queued EXCEPT ![s] = Enqueued(T, "booking_cancelled")]
    BY <1>3 DEF SweepPick
  <2>2. T \in SUBSET BookingIds /\ \A b \in T : bookings[b] # NoBooking
    BY DueRowsExist DEF Oldest, Pickable
  <2>3. writes' \in [Procs -> BookingTable]
    <3>1. WithStatus(bookings, T, "cancelled") \in BookingTable
      BY <2>2, CancelType DEF TypeInv, TypeOK, Statuses
    <3> QED BY <1>1, <2>1, <2>2, <3>1, WrittenType DEF TypeInv
  <2>4. queued' \in [Procs -> SUBSET OutboxRow]
    BY <1>1, <2>1, <2>2, EnqueuedType DEF TypeInv, TypeOK, NotificationTypes
  <2>5. bookingLock' \in [BookingIds -> Procs \cup {Nobody}]
    BY <1>1, <2>1, <2>2 DEF TypeInv, TypeOK, LockRows
  <2>6. /\ pc' = [pc EXCEPT ![s] = "commit"]
        /\ UNCHANGED <<clock, events, bookings, outbox, eventLock, now, expiry, verdict, call,
                       answer, faults>>
    BY <1>3 DEF SweepPick, Goto, tables
  <2>7. TypeOK'
    BY <1>1, <2>3, <2>4, <2>5, <2>6 DEF TypeInv, TypeOK, SweeperPcs
  <2> QED BY <2>6, <2>7, SweeperCallsMade DEF TypeInv
<1>4. CASE SweepCommit(s)
  <2>1. /\ pc' = [pc EXCEPT ![s] = "idle"]
        /\ UNCHANGED <<clock, events, call, answer, faults>>
        /\ EndTx(s)
    BY <1>4 DEF SweepCommit, Goto, Publish
  <2>2. bookings' \in BookingTable /\ outbox' \in SUBSET OutboxRow
    BY <1>1, <1>4, PublishType DEF SweepCommit
  <2>3. TypeOK'
    BY <1>1, <2>1, <2>2, EndTxType DEF TypeInv, TypeOK, SweeperPcs
  <2> QED BY <2>1, <2>3, SweeperCallsMade DEF TypeInv
<1>5. CASE SweepFail(s)
  <2>1. /\ pc' = [pc EXCEPT ![s] = "idle"]
        /\ UNCHANGED <<clock, events, bookings, outbox, call, answer>>
        /\ faults' = faults + 1
        /\ EndTx(s)
    BY <1>5 DEF SweepFail, tables
  <2>2. TypeOK'
    BY <1>1, <2>1, EndTxType DEF TypeInv, TypeOK, SweeperPcs
  <2> QED BY <2>1, <2>2, SweeperCallsMade DEF TypeInv
<1> QED BY <1>2, <1>3, <1>4, <1>5 DEF SweepStep, SweepStatement

(* The steps of the environment.                                           *)
LEMMA EnvironmentType ==
  ASSUME TypeInv, Tick \/ \E e \in Events : CreateEvent(e)
  PROVE  TypeInv'
<1>1. CASE Tick
  BY <1>1 DEF Tick, TypeInv, TypeOK, CallsMade, tables, locks, private, pending
<1>2. ASSUME NEW e \in Events, CreateEvent(e) PROVE TypeInv'
  <2>1. PICK cap \in 1..MaxCapacity, start \in clock..(clock + MaxEventFuture) :
          events' = [events EXCEPT ![e] = [capacity |-> cap, startsAt |-> start]]
    BY <1>2 DEF CreateEvent
  <2>2. start \in Nat
    BY DEF TypeInv, TypeOK
  <2>3. events' \in EventTable
    BY <2>1, <2>2 DEF TypeInv, TypeOK, EventTable, Event
  <2> QED BY <1>2, <2>3 DEF CreateEvent, TypeInv, TypeOK, CallsMade, locks, private, pending
<1> QED BY <1>1, <1>2

(* Every step keeps the types.                                             *)
LEMMA TypeNext == TypeInv /\ [Next]_vars => TypeInv'
<1> SUFFICES ASSUME TypeInv, [Next]_vars PROVE TypeInv'
  OBVIOUS
<1>1. CASE Tick \/ \E e \in Events : CreateEvent(e)
  BY <1>1, EnvironmentType
<1>2. ASSUME NEW r \in Requests, Begin(r) \/ Statement(r) \/ Fail(r) \/ Commit(r)
      PROVE  TypeInv'
  BY <1>2, BeginType, LockEventType, CancelExpiredType, CountFreeSeatsType, InsertBookingType,
     ConfirmBookingType, FailType, CommitType DEF Statement
<1>3. ASSUME NEW s \in Sweepers, SweepStep(s) \/ SweepFail(s) PROVE TypeInv'
  BY <1>3, SweepType
<1>4. CASE UNCHANGED vars
  BY <1>4 DEF vars, tables, locks, private, pending, TypeInv, TypeOK, CallsMade
<1> QED BY <1>1, <1>2, <1>3, <1>4 DEF Next, Unpublished, SweepStep

(* Every reachable state has the right types, and a transaction under way  *)
(* has a call whose fields its statements may read.                        *)
THEOREM TypeCorrect == Spec => []TypeOK
<1>1. TypeInv => TypeOK
  BY DEF TypeInv
<1> QED BY <1>1, TypeInit, TypeNext, PTL DEF Spec

-----------------------------------------------------------------------------
(* The locks, and who has written what.                                    *)

LockInv == TypeInv /\ EventsLocked /\ EventsExist /\ WritesLocked

(* Nothing is locked or written in the initial state.                      *)
LEMMA LockInit == Init => LockInv
<1> SUFFICES ASSUME Init PROVE LockInv
  OBVIOUS
<1>1. EventsLocked /\ EventsExist
  BY DEF Init, EventsLocked, EventsExist, HolderPcs, BookPcs, Procs, Untouched
<1>2. WritesLocked
  BY DEF Init, WritesLocked, Untouched
<1> QED BY <1>1, <1>2, TypeInit DEF LockInv

(* A row nobody has locked has no uncommitted version.                     *)
LEMMA FreeRowUnwritten ==
  ASSUME WritesLocked, NEW p \in Procs, NEW b \in BookingIds, RowFree(b)
  PROVE  writes[p][b] = NoBooking /\ View(p)[b] = bookings[b]
BY StoreAssumption DEF WritesLocked, RowFree, View

(* A transaction that ends, published or not, leaves the writes of the     *)
(* others as they were.                                                    *)
LEMMA EndTxWrites ==
  ASSUME TypeInv, WritesLocked, NEW p \in Procs, NEW next,
         EndTx(p), pc' = [pc EXCEPT ![p] = next], call' = call,
         bookings' = bookings \/ bookings' = View(p)
  PROVE  WritesLocked'
<1> SUFFICES ASSUME NEW q \in Procs, NEW b \in BookingIds, writes'[q][b] # NoBooking
             PROVE  /\ bookingLock'[b] = q
                    /\ \/ /\ bookings'[b] # NoBooking
                          /\ bookings'[b].status = "pending"
                          /\ \E s \in {"confirmed", "cancelled"} :
                               writes'[q][b] = [bookings'[b] EXCEPT !.status = s]
                       \/ /\ bookings'[b] = NoBooking
                          /\ HasInserted(q)'
                          /\ writes'[q][b].event = call'[q].event
  BY DEF WritesLocked
<1>1. q # p /\ writes'[q] = writes[q]
  BY DEF EndTx, ForgetTx, Untouched, TypeInv, TypeOK
<1>2. bookingLock[b] = q /\ bookingLock'[b] = q
  <2>1. bookingLock[b] = q
    BY <1>1 DEF WritesLocked
  <2> QED BY <1>1, <2>1 DEF EndTx
<1>3. writes[p][b] = NoBooking
  BY <1>1, <1>2 DEF WritesLocked
<1>4. bookings'[b] = bookings[b]
  BY <1>3 DEF View
<1>5. HasInserted(q)' <=> HasInserted(q)
  BY <1>1 DEF HasInserted, TypeInv, TypeOK
<1> QED BY <1>1, <1>2, <1>4, <1>5 DEF WritesLocked

(* A transaction that gives new statuses to pending rows it has just       *)
(* locked.                                                                 *)
LEMMA StatusWrites ==
  ASSUME TypeInv, WritesLocked, NEW p \in Procs, NEW next, pc[p] # "commit",
         NEW S \in SUBSET BookingIds, NEW s \in {"confirmed", "cancelled"}, NEW table,
         \A b \in S : /\ RowFree(b)
                      /\ table[b] = bookings[b]
                      /\ bookings[b] # NoBooking
                      /\ bookings[b].status = "pending",
         LockRows(S, p), writes' = Written(p, S, WithStatus(table, S, s)),
         pc' = [pc EXCEPT ![p] = next], UNCHANGED <<bookings, call>>
  PROVE  WritesLocked'
<1> SUFFICES ASSUME NEW q \in Procs, NEW b \in BookingIds, writes'[q][b] # NoBooking
             PROVE  /\ bookingLock'[b] = q
                    /\ \/ /\ bookings[b] # NoBooking
                          /\ bookings[b].status = "pending"
                          /\ \E t \in {"confirmed", "cancelled"} :
                               writes'[q][b] = [bookings[b] EXCEPT !.status = t]
                       \/ /\ bookings[b] = NoBooking
                          /\ HasInserted(q)'
                          /\ writes'[q][b].event = call[q].event
  BY DEF WritesLocked
<1>1. CASE q = p /\ b \in S
  <2>1. writes'[q][b] = [bookings[b] EXCEPT !.status = s]
    BY <1>1 DEF Written, WithStatus, TypeInv, TypeOK
  <2> QED BY <1>1, <2>1 DEF LockRows
<1>2. CASE q = p /\ b \notin S
  <2>1. writes'[q][b] = writes[q][b] /\ bookingLock'[b] = bookingLock[b]
    BY <1>2 DEF Written, LockRows, TypeInv, TypeOK
  <2> QED BY <1>2, <2>1 DEF WritesLocked, HasInserted
<1>3. CASE q # p
  <2>1. writes'[q][b] = writes[q][b]
    BY <1>3 DEF Written, TypeInv, TypeOK
  <2>2. b \notin S
    BY <2>1, FreeRowUnwritten
  <2>3. HasInserted(q)' <=> HasInserted(q)
    BY <1>3 DEF HasInserted, TypeInv, TypeOK
  <2> QED BY <2>1, <2>2, <2>3 DEF WritesLocked, LockRows
<1> QED BY <1>1, <1>2, <1>3

(* A step that touches no booking and does not leave "commit".             *)
LEMMA OtherWrites ==
  ASSUME TypeInv, WritesLocked, UNCHANGED <<bookings, writes, bookingLock>>,
         \A q \in Requests : HasInserted(q) => HasInserted(q)' /\ call'[q] = call[q]
  PROVE  WritesLocked'
BY DEF WritesLocked, HasInserted

-----------------------------------------------------------------------------
(* The locks of a request's event, when a transaction ends.                *)
LEMMA EndTxEvents ==
  ASSUME TypeInv, EventsLocked, NEW p \in Procs, NEW next, next \notin HolderPcs,
         EndTx(p), pc' = [pc EXCEPT ![p] = next], UNCHANGED <<events, call>>
  PROVE  EventsLocked'
<1> SUFFICES ASSUME NEW r \in Requests, pc'[r] \in HolderPcs
             PROVE  eventLock'[call[r].event] = r /\ events[call[r].event] # NoEvent
  BY DEF EventsLocked
<1>1. r # p /\ pc[r] = pc'[r] /\ r \in Procs
  BY DEF TypeInv, TypeOK, Procs
<1>2. call[r].event \in Events /\ eventLock[call[r].event] = r /\ events[call[r].event] # NoEvent
  BY <1>1, CallFields DEF EventsLocked, TypeInv, CallsMade, HolderPcs, BookPcs
<1> QED BY <1>1, <1>2 DEF EndTx

(* A transaction keeps its event locked from one statement to the next.    *)
LEMMA HeldEvents ==
  ASSUME TypeInv, EventsLocked, NEW p \in Procs, NEW next, pc[p] \in HolderPcs \/ next \notin HolderPcs,
         pc' = [pc EXCEPT ![p] = next], UNCHANGED <<events, eventLock>>,
         \A r \in Requests : r # p \/ next \in HolderPcs => call'[r] = call[r]
  PROVE  EventsLocked'
BY DEF EventsLocked, TypeInv, TypeOK, Procs

(* A rollback.                                                             *)
LEMMA RollbackLocks ==
  ASSUME LockInv, NEW r \in Requests, NEW reason, Rollback(r, reason)
  PROVE  EventsLocked' /\ EventsExist' /\ WritesLocked'
<1>1. /\ r \in Procs /\ EndTx(r)
      /\ pc' = [pc EXCEPT ![r] = "done"]
      /\ UNCHANGED <<events, bookings, call>>
  BY DEF Rollback, Procs, tables
<1>2. EventsLocked'
  BY <1>1, EndTxEvents DEF LockInv, HolderPcs, BookPcs
<1>3. EventsExist'
  BY <1>1 DEF LockInv, EventsExist
<1>4. WritesLocked'
  BY <1>1, EndTxWrites DEF LockInv
<1> QED BY <1>2, <1>3, <1>4

(* Tick, CreateEvent.                                                      *)
LEMMA EnvironmentLocks ==
  ASSUME LockInv, Tick \/ \E e \in Events : CreateEvent(e)
  PROVE  EventsLocked' /\ EventsExist' /\ WritesLocked'
<1>1. UNCHANGED <<bookings, writes, bookingLock, eventLock, pc, call>>
  BY DEF Tick, CreateEvent, tables, locks, private, pending
<1>2. \A e \in Events : events[e] # NoEvent => events'[e] # NoEvent
  <2>1. CASE Tick
    BY <2>1 DEF Tick, tables
  <2>2. ASSUME NEW e \in Events, CreateEvent(e)
        PROVE  \A d \in Events : events[d] # NoEvent => events'[d] # NoEvent
    BY <2>2 DEF CreateEvent, LockInv, TypeInv, TypeOK, EventTable
  <2> QED BY <2>1, <2>2
<1>3. WritesLocked'
  BY <1>1, OtherWrites DEF LockInv, HasInserted
<1>4. EventsLocked'
  BY <1>1, <1>2, CallFields DEF LockInv, EventsLocked, TypeInv, CallsMade, HolderPcs, BookPcs
<1>5. EventsExist'
  BY <1>1, <1>2, RowExists DEF LockInv, EventsExist, TypeInv, TypeOK, Booking
<1> QED BY <1>3, <1>4, <1>5

(* Begin.                                                                  *)
LEMMA BeginLocks ==
  ASSUME LockInv, NEW r \in Requests, Begin(r)
  PROVE  EventsLocked' /\ EventsExist' /\ WritesLocked'
<1>1. /\ r \in Procs /\ pc[r] = "idle"
      /\ pc' = [pc EXCEPT ![r] = "lockEvent"]
      /\ UNCHANGED <<events, bookings, writes, bookingLock, eventLock>>
      /\ \A q \in Requests : q # r => call'[q] = call[q]
  <2>1. /\ r \in Procs /\ pc[r] = "idle"
        /\ pc' = [pc EXCEPT ![r] = "lockEvent"]
        /\ UNCHANGED <<events, bookings, writes, bookingLock, eventLock>>
    BY DEF Begin, Goto, Procs, tables, locks, pending
  <2>2. \A q \in Requests : q # r => call'[q] = call[q]
    BY DEF Begin, LockInv, TypeInv, TypeOK
  <2> QED BY <2>1, <2>2
<1>2. EventsLocked'
  <2>1. "lockEvent" \notin HolderPcs
    BY DEF HolderPcs, BookPcs
  <2> QED BY <1>1, <2>1, HeldEvents DEF LockInv
<1>3. EventsExist'
  BY <1>1 DEF LockInv, EventsExist
<1>4. \A q \in Requests : HasInserted(q) => HasInserted(q)' /\ call'[q] = call[q]
  <2> SUFFICES ASSUME NEW q \in Requests, HasInserted(q)
               PROVE  HasInserted(q)' /\ call'[q] = call[q]
    OBVIOUS
  <2>1. q # r
    BY <1>1 DEF HasInserted
  <2>2. pc'[q] = pc[q] /\ call'[q] = call[q]
    BY <1>1, <2>1 DEF LockInv, TypeInv, TypeOK, Procs
  <2> QED BY <2>2 DEF HasInserted
<1>5. WritesLocked'
  BY <1>1, <1>4, OtherWrites DEF LockInv
<1> QED BY <1>2, <1>3, <1>5

(* LockEvent.                                                              *)
LEMMA LockEventLocks ==
  ASSUME LockInv, NEW r \in Requests, LockEvent(r)
  PROVE  EventsLocked' /\ EventsExist' /\ WritesLocked'
<1> DEFINE e == call[r].event
           next == IF call[r].op = "book" THEN "cancelExpired" ELSE "getBooking"
<1>1. r \in Procs /\ pc[r] = "lockEvent" /\ e \in Events
  BY CallFields DEF LockEvent, Procs, LockInv, TypeInv, CallsMade
<1>2. CASE \E reason \in {"event_not_found", "event_started"} : Rollback(r, reason)
  BY <1>2, RollbackLocks
<1>3. CASE /\ events[e] # NoEvent
           /\ eventLock[e] = Nobody
           /\ eventLock' = [eventLock EXCEPT ![e] = r]
           /\ pc' = [pc EXCEPT ![r] = next]
           /\ UNCHANGED <<clock, tables, bookingLock, private, call, answer, faults>>
  <2>1. UNCHANGED <<events, bookings, writes, bookingLock, call>>
    BY <1>3 DEF tables, private, pending
  <2>2. ASSUME NEW q \in Requests, pc'[q] \in HolderPcs
        PROVE  eventLock'[call[q].event] = q /\ events[call[q].event] # NoEvent
    <3>1. CASE q = r
      BY <1>1, <1>3, <3>1 DEF LockInv, TypeInv, TypeOK
    <3>2. CASE q # r
      <4>1. eventLock[call[q].event] = q /\ events[call[q].event] # NoEvent
        BY <1>3, <2>2, <3>2 DEF LockInv, TypeInv, TypeOK, EventsLocked, Procs
      <4>2. call[q].event # e
        BY <1>3, <4>1, StoreAssumption DEF Procs
      <4> QED BY <1>3, <4>1, <4>2 DEF LockInv, TypeInv, TypeOK
    <3> QED BY <3>1, <3>2
  <2>3. EventsLocked'
    BY <2>1, <2>2 DEF EventsLocked
  <2>4. EventsExist'
    BY <2>1 DEF LockInv, EventsExist
  <2>5. \A q \in Requests : HasInserted(q) => HasInserted(q)'
    BY <1>1, <1>3, <2>1 DEF HasInserted, LockInv, TypeInv, TypeOK, Procs
  <2>6. WritesLocked'
    BY <2>1, <2>5, OtherWrites DEF LockInv
  <2> QED BY <2>3, <2>4, <2>6
<1> QED BY <1>2, <1>3 DEF LockEvent, EventFree

(* CancelExpiredOfEvent.                                                   *)
LEMMA CancelExpiredLocks ==
  ASSUME LockInv, NEW r \in Requests, CancelExpiredOfEvent(r)
  PROVE  EventsLocked' /\ EventsExist' /\ WritesLocked'
<1> DEFINE due == {b \in DueRows(View(r), now[r]) : View(r)[b].event = call[r].event}
<1>1. /\ r \in Procs /\ pc[r] = "cancelExpired"
      /\ pc' = [pc EXCEPT ![r] = "freeSeats"]
      /\ UNCHANGED <<events, bookings, eventLock, call>>
  BY DEF CancelExpiredOfEvent, Goto, Procs, tables
<1>2. EventsLocked'
  BY <1>1, HeldEvents DEF LockInv, HolderPcs, BookPcs
<1>3. EventsExist'
  BY <1>1 DEF LockInv, EventsExist
<1>4. due \in SUBSET BookingIds
  BY DueRowsExist
<1>5. \A b \in due : /\ RowFree(b)
                     /\ View(r)[b] = bookings[b]
                     /\ bookings[b] # NoBooking
                     /\ bookings[b].status = "pending"
  <2> SUFFICES ASSUME NEW b \in due
               PROVE  /\ RowFree(b)
                      /\ View(r)[b] = bookings[b]
                      /\ bookings[b] # NoBooking
                      /\ bookings[b].status = "pending"
    OBVIOUS
  <2>1. RowFree(b)
    BY DEF CancelExpiredOfEvent
  <2>2. View(r)[b] = bookings[b]
    BY <1>1, <1>4, <2>1, FreeRowUnwritten DEF LockInv
  <2>3. View(r)[b] # NoBooking /\ View(r)[b].status = "pending"
    BY DueRowsExist
  <2> QED BY <2>1, <2>2, <2>3
<1>6. WritesLocked'
  BY <1>1, <1>4, <1>5, StatusWrites DEF LockInv, CancelExpiredOfEvent
<1> QED BY <1>2, <1>3, <1>6

(* CountFreeSeats.                                                         *)
LEMMA CountFreeSeatsLocks ==
  ASSUME LockInv, NEW r \in Requests, CountFreeSeats(r)
  PROVE  EventsLocked' /\ EventsExist' /\ WritesLocked'
<1>1. CASE ~SeatLeft(r)
  BY <1>1, RollbackLocks DEF CountFreeSeats
<1>2. CASE SeatLeft(r)
  <2>1. /\ r \in Procs /\ pc[r] = "freeSeats"
        /\ pc' = [pc EXCEPT ![r] = "insert"]
        /\ UNCHANGED <<events, bookings, writes, bookingLock, eventLock, call>>
    BY <1>2 DEF CountFreeSeats, Procs, tables, locks, pending
  <2>2. EventsLocked'
    BY <2>1, HeldEvents DEF LockInv, HolderPcs, BookPcs
  <2>3. EventsExist'
    BY <2>1 DEF LockInv, EventsExist
  <2>4. \A q \in Requests : HasInserted(q) => HasInserted(q)'
    BY <2>1 DEF HasInserted, LockInv, TypeInv, TypeOK, Procs
  <2>5. WritesLocked'
    BY <2>1, <2>4, OtherWrites DEF LockInv
  <2> QED BY <2>2, <2>3, <2>5
<1> QED BY <1>1, <1>2

(* What InsertBooking does when it does not refuse.                        *)
Inserts(r, b) ==
  /\ Rivals(r) = {}
  /\ bookings[b] = NoBooking /\ bookingLock[b] = Nobody
  /\ writes' = [writes EXCEPT ![r][b] = NewBooking(call[r].event, call[r].user, expiry[r])]
  /\ bookingLock' = [bookingLock EXCEPT ![b] = r]
  /\ pc' = [pc EXCEPT ![r] = "commit"]
  /\ UNCHANGED <<events, bookings, eventLock, call>>

(* InsertBooking refuses or inserts.                                       *)
LEMMA InsertCases ==
  ASSUME NEW r \in Requests, InsertBooking(r)
  PROVE  Rollback(r, "already_booked") \/ \E b \in BookingIds : Inserts(r, b)
BY DEF InsertBooking, Inserts, tables

(* InsertBooking.                                                          *)
LEMMA InsertBookingLocks ==
  ASSUME LockInv, NEW r \in Requests, InsertBooking(r)
  PROVE  EventsLocked' /\ EventsExist' /\ WritesLocked'
<1>1. /\ r \in Procs /\ pc[r] = "insert" /\ call[r].op = "book"
  BY DEF InsertBooking, Procs, LockInv, TypeInv, CallsMade, BookPcs
<1>2. CASE Rollback(r, "already_booked")
  BY <1>2, RollbackLocks
<1>3. ASSUME NEW b \in BookingIds, Inserts(r, b)
      PROVE  EventsLocked' /\ EventsExist' /\ WritesLocked'
  <2> DEFINE new == NewBooking(call[r].event, call[r].user, expiry[r])
  <2>1. EventsLocked'
    BY <1>1, <1>3, HeldEvents DEF LockInv, HolderPcs, BookPcs, Inserts
  <2>2. EventsExist'
    BY <1>3 DEF LockInv, EventsExist, Inserts
  <2>3. ASSUME NEW q \in Procs, NEW c \in BookingIds, writes'[q][c] # NoBooking
        PROVE  /\ bookingLock'[c] = q
               /\ \/ /\ bookings[c] # NoBooking
                     /\ bookings[c].status = "pending"
                     /\ \E s \in {"confirmed", "cancelled"} :
                          writes'[q][c] = [bookings[c] EXCEPT !.status = s]
                  \/ /\ bookings[c] = NoBooking
                     /\ HasInserted(q)'
                     /\ writes'[q][c].event = call[q].event
    <3>1. CASE q = r /\ c = b
      <4>1. writes'[q][c] = new /\ bookingLock'[c] = q /\ pc'[q] = "commit"
        BY <1>1, <1>3, <3>1 DEF Inserts, LockInv, TypeInv, TypeOK, BookingTable
      <4> QED BY <1>1, <1>3, <3>1, <4>1 DEF Inserts, HasInserted, NewBooking
    <3>2. CASE ~(q = r /\ c = b)
      <4>1. writes'[q][c] = writes[q][c]
        BY <1>1, <1>3, <3>2 DEF Inserts, LockInv, TypeInv, TypeOK, BookingTable
      <4>2. bookingLock[c] = q
        BY <2>3, <4>1 DEF LockInv, WritesLocked
      <4>3. c # b /\ bookingLock'[c] = q
        BY <1>3, <4>2, StoreAssumption DEF Inserts, LockInv, TypeInv, TypeOK
      <4>4. HasInserted(q) => HasInserted(q)'
        BY <1>1, <1>3 DEF HasInserted, Inserts, LockInv, TypeInv, TypeOK
      <4> QED BY <1>3, <2>3, <4>1, <4>3, <4>4 DEF Inserts, LockInv, WritesLocked
    <3> QED BY <3>1, <3>2
  <2>4. WritesLocked'
    BY <1>3, <2>3 DEF WritesLocked, Inserts
  <2> QED BY <2>1, <2>2, <2>4
<1> QED BY <1>2, <1>3, InsertCases

(* ConfirmBooking.                                                         *)
LEMMA ConfirmBookingLocks ==
  ASSUME LockInv, NEW r \in Requests, ConfirmBooking(r)
  PROVE  EventsLocked' /\ EventsExist' /\ WritesLocked'
<1> DEFINE b == call[r].booking
<1>1. /\ r \in Procs /\ pc[r] = "getBooking" /\ b \in BookingIds
  BY CallFields DEF ConfirmBooking, Procs, LockInv, TypeInv, CallsMade
<1>2. CASE \E reason \in {"booking_not_found", "forbidden", "not_pending"} : Rollback(r, reason)
  BY <1>2, RollbackLocks
<1>3. CASE bookings[b] # NoBooking /\ RowFree(b) /\ ConfirmLocked(r, b)
  <2>1. /\ pc' = [pc EXCEPT ![r] = "commit"]
        /\ LockRows({b}, r)
        /\ UNCHANGED <<events, bookings, eventLock, call>>
    BY <1>3 DEF ConfirmLocked, tables
  <2>2. EventsLocked'
    BY <1>1, <2>1, HeldEvents DEF LockInv, HolderPcs, BookPcs
  <2>3. EventsExist'
    BY <2>1 DEF LockInv, EventsExist
  <2>4. ASSUME UNCHANGED writes PROVE WritesLocked'
    <3> SUFFICES ASSUME NEW q \in Procs, NEW c \in BookingIds, writes[q][c] # NoBooking
                 PROVE  /\ bookingLock'[c] = q
                        /\ HasInserted(q) => HasInserted(q)'
      BY <2>1, <2>4 DEF LockInv, WritesLocked
    <3>1. c # b
      BY <1>1, <1>3, FreeRowUnwritten DEF LockInv
    <3>2. bookingLock'[c] = q
      BY <2>1, <3>1 DEF LockRows, LockInv, WritesLocked
    <3>3. HasInserted(q) => HasInserted(q)'
      BY <1>1, <2>1 DEF HasInserted, LockInv, TypeInv, TypeOK
    <3> QED BY <3>2, <3>3
  <2>5. ASSUME NEW s \in {"confirmed", "cancelled"},
               bookings[b].status = "pending",
               writes' = Written(r, {b}, WithStatus(bookings, {b}, s))
        PROVE  WritesLocked'
    <3>1. pc[r] # "commit" /\ {b} \in SUBSET BookingIds
      BY <1>1
    <3>2. \A c \in {b} : RowFree(c) /\ bookings[c] # NoBooking /\ bookings[c].status = "pending"
      BY <1>3, <2>5
    <3> HIDE DEF b
    <3> QED BY <1>1, <2>1, <2>5, <3>1, <3>2, StatusWrites DEF LockInv
  <2>6. \/ UNCHANGED writes
        \/ /\ bookings[b].status = "pending"
           /\ \E s \in {"confirmed", "cancelled"} :
                writes' = Written(r, {b}, WithStatus(bookings, {b}, s))
    BY <1>3 DEF ConfirmLocked, WriteStatus, pending
  <2> QED BY <2>2, <2>3, <2>4, <2>5, <2>6
<1> QED BY <1>2, <1>3 DEF ConfirmBooking

(* A row keeps its event, and its owner, when a transaction is published.  *)
LEMMA ViewRow ==
  ASSUME LockInv, NEW p \in Procs, NEW b \in BookingIds, bookings[b] # NoBooking
  PROVE  /\ View(p)[b] # NoBooking
         /\ View(p)[b] # bookings[b] =>
              /\ bookings[b].status = "pending"
              /\ View(p)[b] = [bookings[b] EXCEPT !.status = View(p)[b].status]
<1>1. CASE writes[p][b] = NoBooking
  BY <1>1 DEF View
<1>2. CASE writes[p][b] # NoBooking
  <2>1. PICK s \in {"confirmed", "cancelled"} :
          /\ bookings[b].status = "pending"
          /\ writes[p][b] = [bookings[b] EXCEPT !.status = s]
    BY <1>2 DEF LockInv, WritesLocked
  <2>2. View(p)[b] = [bookings[b] EXCEPT !.status = s] /\ View(p)[b] # NoBooking
    BY <1>2, <2>1 DEF View
  <2>3. bookings[b] \in Booking
    BY RowExists DEF LockInv, TypeInv, TypeOK
  <2>4. View(p)[b].status = s
    BY <2>2, <2>3 DEF Booking
  <2> QED BY <2>1, <2>2, <2>4
<1> QED BY <1>1, <1>2

(* A published row belongs to an existing event.                           *)
LEMMA ViewEvents ==
  ASSUME LockInv, NEW p \in Procs, NEW b \in BookingIds, View(p)[b] # NoBooking
  PROVE  events[View(p)[b].event] # NoEvent
<1>1. CASE bookings[b] # NoBooking
  <2>1. bookings[b] \in Booking
    BY <1>1, RowExists DEF LockInv, TypeInv, TypeOK
  <2>2. View(p)[b].event = bookings[b].event
    <3> DEFINE s == View(p)[b].status
    <3>1. View(p)[b] = bookings[b] \/ View(p)[b] = [bookings[b] EXCEPT !.status = s]
      BY <1>1, ViewRow
    <3> HIDE DEF s
    <3>2. [bookings[b] EXCEPT !.status = s].event = bookings[b].event
      BY <2>1 DEF Booking
    <3> QED BY <3>1, <3>2
  <2> QED BY <1>1, <2>2 DEF LockInv, EventsExist
<1>2. CASE bookings[b] = NoBooking
  <2>1. writes[p][b] # NoBooking /\ View(p)[b] = writes[p][b]
    BY <1>2 DEF View
  <2>2. HasInserted(p) /\ writes[p][b].event = call[p].event
    BY <1>2, <2>1 DEF LockInv, WritesLocked
  <2> QED BY <2>1, <2>2 DEF HasInserted, LockInv, EventsLocked, HolderPcs
<1> QED BY <1>1, <1>2

(* A transaction that ends, published or not.                              *)
LEMMA EndTxLocks ==
  ASSUME LockInv, NEW p \in Procs, NEW next, next \notin HolderPcs,
         EndTx(p), pc' = [pc EXCEPT ![p] = next], UNCHANGED <<events, call>>,
         bookings' = bookings \/ bookings' = View(p)
  PROVE  EventsLocked' /\ EventsExist' /\ WritesLocked'
<1>1. EventsLocked'
  BY EndTxEvents DEF LockInv
<1>2. EventsExist'
  BY ViewEvents DEF LockInv, EventsExist
<1>3. WritesLocked'
  BY EndTxWrites DEF LockInv
<1> QED BY <1>1, <1>2, <1>3

(* Where a transaction is after its end.                                   *)
LEMMA EndPcs == "done" \notin HolderPcs /\ "idle" \notin HolderPcs
BY DEF HolderPcs, BookPcs

(* Commit and Fail.                                                        *)
LEMMA EndRequestLocks ==
  ASSUME LockInv, NEW r \in Requests, Commit(r) \/ Fail(r)
  PROVE  EventsLocked' /\ EventsExist' /\ WritesLocked'
<1>1. /\ r \in Procs /\ EndTx(r)
      /\ pc' = [pc EXCEPT ![r] = "done"]
      /\ UNCHANGED <<events, call>>
      /\ bookings' = bookings \/ bookings' = View(r)
  BY DEF Commit, Fail, Goto, Publish, Procs, tables
<1> QED BY <1>1, EndTxLocks, EndPcs

(* The steps of a sweep.                                                   *)
LEMMA SweepLocks ==
  ASSUME LockInv, NEW s \in Sweepers, SweepStep(s) \/ SweepFail(s)
  PROVE  EventsLocked' /\ EventsExist' /\ WritesLocked'
<1>1. s \in Procs /\ s \notin Requests
  BY StoreAssumption DEF Procs
<1>2. CASE SweepCommit(s) \/ SweepFail(s)
  <2>1. /\ EndTx(s)
        /\ pc' = [pc EXCEPT ![s] = "idle"]
        /\ UNCHANGED <<events, call>>
        /\ bookings' = bookings \/ bookings' = View(s)
    BY <1>2 DEF SweepCommit, SweepFail, Goto, Publish, tables
  <2> QED BY <1>1, <2>1, EndTxLocks, EndPcs
<1>3. CASE SweepBegin(s) \/ SweepPick(s)
  <2>1. /\ pc[s] \in {"idle", "pick"}
        /\ \E next \in {"pick", "commit"} : pc' = [pc EXCEPT ![s] = next]
        /\ UNCHANGED <<events, bookings, eventLock, call>>
    BY <1>3 DEF SweepBegin, SweepPick, Goto, tables, locks
  <2>2. \A r \in Requests : pc'[r] = pc[r]
    BY <1>1, <2>1 DEF LockInv, TypeInv, TypeOK, Procs
  <2>3. EventsLocked' /\ EventsExist'
    BY <2>1, <2>2 DEF LockInv, EventsLocked, EventsExist
  <2>4. CASE SweepBegin(s)
    <3>1. UNCHANGED <<bookings, writes, bookingLock, call>>
      BY <2>4 DEF SweepBegin, tables, locks, pending
    <3>2. \A q \in Requests : HasInserted(q) => HasInserted(q)'
      BY <2>2, <3>1 DEF HasInserted
    <3>3. WritesLocked'
      BY <3>1, <3>2, OtherWrites DEF LockInv
    <3> QED BY <2>3, <3>3
  <2>5. CASE SweepPick(s)
    <3>1. PICK T \in Oldest(Pickable(s)) :
            LockRows(T, s) /\ writes' = Written(s, T, WithStatus(bookings, T, "cancelled"))
      BY <2>5 DEF SweepPick
    <3>2. /\ T \in SUBSET BookingIds
          /\ \A b \in T : RowFree(b) /\ bookings[b] # NoBooking /\ bookings[b].status = "pending"
      BY DueRowsExist DEF Oldest, Pickable
    <3>3. pc[s] # "commit" /\ \E next : pc' = [pc EXCEPT ![s] = next]
      BY <2>1
    <3>4. WritesLocked'
      BY <1>1, <2>1, <3>1, <3>2, <3>3, StatusWrites DEF LockInv
    <3> QED BY <2>3, <3>4
  <2> QED BY <1>3, <2>4, <2>5
<1> QED BY <1>2, <1>3 DEF SweepStep, SweepStatement

(* LockInv is inductive.                                                   *)
LEMMA LockNext == LockInv /\ [Next]_vars => LockInv'
<1> SUFFICES ASSUME LockInv, [Next]_vars PROVE EventsLocked' /\ EventsExist' /\ WritesLocked'
  BY TypeNext DEF LockInv
<1>1. CASE Tick \/ \E e \in Events : CreateEvent(e)
  BY <1>1, EnvironmentLocks
<1>2. ASSUME NEW r \in Requests, Begin(r) \/ Statement(r) \/ Fail(r) \/ Commit(r)
      PROVE  EventsLocked' /\ EventsExist' /\ WritesLocked'
  BY <1>2, BeginLocks, LockEventLocks, CancelExpiredLocks, CountFreeSeatsLocks,
     InsertBookingLocks, ConfirmBookingLocks, EndRequestLocks DEF Statement
<1>3. ASSUME NEW s \in Sweepers, SweepStep(s) \/ SweepFail(s)
      PROVE  EventsLocked' /\ EventsExist' /\ WritesLocked'
  BY <1>3, SweepLocks
<1>4. CASE UNCHANGED vars
  BY <1>4 DEF vars, tables, locks, private, pending, LockInv, EventsLocked, EventsExist,
              WritesLocked, HasInserted
<1> QED BY <1>1, <1>2, <1>3, <1>4 DEF Next, Unpublished, SweepStep

-----------------------------------------------------------------------------
(* What a step may do to the bookings: nothing, or publish a transaction.  *)
LEMMA BookingsStep ==
  ASSUME [Next]_vars
  PROVE  bookings' = bookings \/ \E p \in Procs : bookings' = View(p)
BY DEF Next, Unpublished, Tick, CreateEvent, Begin, Statement, Fail, SweepStatement, SweepFail,
       SweepBegin, SweepPick, SweepCommit, Commit, Publish, LockEvent, CancelExpiredOfEvent,
       CountFreeSeats, InsertBooking, ConfirmBooking, ConfirmLocked, Rollback, Procs, vars, tables

(* A booking that is confirmed stays confirmed, one that is cancelled      *)
(* stays cancelled, and nothing else of a booking ever changes.            *)
THEOREM StatusFinal == Spec => StatusMonotone
<1>1. LockInv /\ [Next]_vars =>
        [\A b \in BookingIds : bookings[b] # NoBooking =>
           /\ bookings'[b] # NoBooking
           /\ bookings'[b] # bookings[b] =>
                /\ bookings[b].status = "pending"
                /\ bookings'[b] = [bookings[b] EXCEPT !.status = bookings'[b].status]]_vars
  BY BookingsStep, ViewRow
<1> QED BY <1>1, LockInit, LockNext, PTL DEF Spec, StatusMonotone

-----------------------------------------------------------------------------
(* The active bookings of an event are finitely many, and fewer of them    *)
(* take no more seats.                                                     *)
LEMMA ActiveCount ==
  ASSUME NEW t1, NEW t2, NEW e, ActiveOf(t1, e) \subseteq ActiveOf(t2, e)
  PROVE  /\ IsFiniteSet(ActiveOf(t1, e))
         /\ Cardinality(ActiveOf(t1, e)) \in Nat
         /\ Cardinality(ActiveOf(t2, e)) \in Nat
         /\ Cardinality(ActiveOf(t1, e)) <= Cardinality(ActiveOf(t2, e))
<1>1. ActiveOf(t2, e) \subseteq BookingIds
  BY DEF ActiveOf
<1>2. IsFiniteSet(ActiveOf(t2, e))
  BY <1>1, FS_Subset, DomainAssumption
<1> QED BY <1>2, FS_Subset, FS_CardinalityType

(* What a transaction is about to publish adds no active booking to event  *)
(* e, and gives none a new owner, unless it is a Book of e.                *)
LEMMA ViewActive ==
  ASSUME LockInv, NEW p \in Procs, NEW e \in Events,
         ~(HasInserted(p) /\ call[p].event = e),
         NEW b \in ActiveOf(View(p), e)
  PROVE  b \in ActiveOf(bookings, e) /\ View(p)[b].owner = bookings[b].owner
<1>1. b \in BookingIds /\ View(p)[b] # NoBooking /\ View(p)[b].event = e
  BY DEF ActiveOf
<1>2. bookings[b] # NoBooking
  <2> SUFFICES ASSUME bookings[b] = NoBooking PROVE FALSE
    OBVIOUS
  <2>1. writes[p][b] # NoBooking /\ View(p)[b] = writes[p][b]
    BY <1>1 DEF View
  <2> QED BY <1>1, <2>1 DEF LockInv, WritesLocked
<1>3. bookings[b] \in Booking
  BY <1>1, <1>2, RowExists DEF LockInv, TypeInv, TypeOK
<1> DEFINE s == View(p)[b].status
<1>4. CASE View(p)[b] = bookings[b]
  BY <1>1, <1>4 DEF ActiveOf
<1>5. CASE View(p)[b] # bookings[b]
  <2>1. bookings[b].status = "pending" /\ View(p)[b] = [bookings[b] EXCEPT !.status = s]
    BY <1>1, <1>2, <1>5, ViewRow
  <2> HIDE DEF s
  <2>2. View(p)[b].event = bookings[b].event /\ View(p)[b].owner = bookings[b].owner
    BY <1>3, <2>1 DEF Booking
  <2> QED BY <1>1, <1>2, <2>1, <2>2 DEF ActiveOf, ActiveStatuses
<1> QED BY <1>4, <1>5

(* The seats of r's event, as r sees them.                                 *)
SeatsOf(r) ==
  LET e == call[r].event
      n == Cardinality(ActiveOf(View(r), e))
  IN  /\ pc[r] = "insert" => n < events[e].capacity
      /\ HasInserted(r) =>
           /\ n <= events[e].capacity
           /\ \A u \in Users : \A b, c \in ActiveOwnedBy(View(r), e, u) : b = c

(* SeatsCounted, request by request.                                       *)
LEMMA SeatsCountedDef == SeatsCounted <=> \A r \in Requests : SeatsOf(r)
BY DEF SeatsCounted, SeatsOf

(* The event of a transaction that has locked it.                          *)
LEMMA LockedEvent ==
  ASSUME LockInv, NEW r \in Requests, pc[r] \in HolderPcs
  PROVE  /\ call[r].event \in Events
         /\ events[call[r].event] \in Event
         /\ events[call[r].event].capacity \in Nat
<1>1. call[r].event \in Events
  BY CallFields DEF LockInv, TypeInv, CallsMade, HolderPcs, BookPcs
<1>2. events[call[r].event] \in Event
  BY <1>1 DEF LockInv, EventsLocked, TypeInv, TypeOK, EventTable
<1> QED BY <1>1, <1>2, DomainAssumption DEF Event

(* Two transactions never hold the same event.                             *)
LEMMA OneHolder ==
  ASSUME LockInv, NEW p \in Requests, NEW r \in Requests,
         pc[p] \in HolderPcs, pc[r] \in HolderPcs, call[p].event = call[r].event
  PROVE  p = r
BY DEF LockInv, EventsLocked

(* The seats r has counted survive what the others do.                     *)
LEMMA SeatsKept ==
  ASSUME LockInv, NEW r \in Requests, SeatsOf(r),
         pc'[r] = pc[r], call'[r] = call[r], writes'[r] = writes[r],
         \A e \in Events : events[e] # NoEvent => events'[e] = events[e],
         bookings' = bookings \/ \E p \in Procs : p # r /\ bookings' = View(p)
  PROVE  SeatsOf(r)'
<1> SUFFICES ASSUME pc[r] = "insert" \/ HasInserted(r)
             PROVE  SeatsOf(r)'
  BY DEF SeatsOf, HasInserted
<1> DEFINE e == call[r].event
<1>1. pc[r] \in HolderPcs /\ e \in Events /\ events'[e] = events[e] /\ events[e].capacity \in Nat
  BY LockedEvent DEF HasInserted, HolderPcs, BookPcs, LockInv, EventsLocked
<1>2. ASSUME NEW b \in ActiveOf(View(r)', e)
      PROVE  b \in ActiveOf(View(r), e) /\ View(r)'[b].owner = View(r)[b].owner
  <2>1. CASE bookings' = bookings \/ writes[r][b] # NoBooking
    <3>1. b \in BookingIds
      BY DEF ActiveOf
    <3>2. View(r)'[b] = View(r)[b]
      BY <2>1, <3>1 DEF View
    <3> QED BY <3>1, <3>2 DEF ActiveOf
  <2>2. ASSUME NEW p \in Procs, p # r, bookings' = View(p), writes[r][b] = NoBooking
        PROVE  b \in ActiveOf(View(r), e) /\ View(r)'[b].owner = View(r)[b].owner
    <3>1. ~(HasInserted(p) /\ call[p].event = e)
      BY <1>1, <2>2, OneHolder DEF HasInserted, HolderPcs
    <3>2. b \in BookingIds /\ View(r)'[b] = View(p)[b] /\ View(r)[b] = bookings[b]
      BY <2>2 DEF View, ActiveOf
    <3>3. b \in ActiveOf(View(p), e)
      BY <3>2 DEF ActiveOf
    <3>4. b \in ActiveOf(bookings, e) /\ View(p)[b].owner = bookings[b].owner
      BY <1>1, <3>1, <3>3, ViewActive
    <3> QED BY <3>2, <3>4 DEF ActiveOf
  <2> QED BY <2>1, <2>2
<1> DEFINE n == Cardinality(ActiveOf(View(r), e))
           m == Cardinality(ActiveOf(View(r)', e))
<1>3. n \in Nat /\ m \in Nat /\ m <= n
  BY <1>2, ActiveCount
<1>4. pc[r] = "insert" => m < events'[e].capacity
  BY <1>1, <1>3 DEF SeatsOf
<1>5. HasInserted(r) => m <= events'[e].capacity
  BY <1>1, <1>3 DEF SeatsOf
<1>6. HasInserted(r) => \A u \in Users : \A b, c \in ActiveOwnedBy(View(r)', e, u) : b = c
  BY <1>2 DEF SeatsOf, ActiveOwnedBy
<1>7. HasInserted(r)' <=> HasInserted(r)
  BY DEF HasInserted
<1> QED BY <1>4, <1>5, <1>6, <1>7 DEF SeatsOf

(* A step is one of r's own, or leaves everything r has alone.             *)
LEMMA StepOf ==
  ASSUME LockInv, [Next]_vars, NEW r \in Requests
  PROVE  \/ Begin(r) \/ Statement(r) \/ Fail(r) \/ Commit(r)
         \/ /\ pc'[r] = pc[r] /\ call'[r] = call[r] /\ writes'[r] = writes[r]
            /\ bookings' = bookings \/ \E p \in Procs : p # r /\ bookings' = View(p)
<1> DEFINE Aside ==
      /\ pc'[r] = pc[r] /\ call'[r] = call[r] /\ writes'[r] = writes[r]
      /\ bookings' = bookings \/ \E p \in Procs : p # r /\ bookings' = View(p)
<1> USE DEF LockInv, TypeInv, TypeOK
<1>1. CASE Tick \/ (\E e \in Events : CreateEvent(e)) \/ UNCHANGED vars
  BY <1>1 DEF Tick, CreateEvent, vars, tables, private, pending
<1>2. ASSUME NEW p \in Procs, p # r, EndTx(p), call' = call,
             \E next : pc' = [pc EXCEPT ![p] = next],
             bookings' = bookings \/ bookings' = View(p)
      PROVE  Aside
  BY <1>2 DEF EndTx, ForgetTx, Procs
<1>3. ASSUME NEW q \in Requests, q # r, Begin(q) \/ Statement(q) \/ Fail(q) \/ Commit(q)
      PROVE  Aside
  <2>1. q \in Procs /\ r \in Procs
    BY DEF Procs
  <2>2. CASE Begin(q)
    BY <1>3, <2>1, <2>2 DEF Begin, Goto, tables, pending
  <2>3. CASE \E reason \in Answers : Rollback(q, reason)
    BY <1>2, <1>3, <2>1, <2>3 DEF Rollback, tables
  <2>4. CASE LockEvent(q)
    BY <1>3, <2>1, <2>3, <2>4 DEF LockEvent, tables, private, pending, Answers
  <2>5. CASE CancelExpiredOfEvent(q)
    BY <1>3, <2>1, <2>5 DEF CancelExpiredOfEvent, Goto, Written, tables
  <2>6. CASE CountFreeSeats(q)
    BY <1>3, <2>1, <2>3, <2>6 DEF CountFreeSeats, tables, pending, Answers
  <2>7. CASE InsertBooking(q)
    BY <1>3, <2>1, <2>3, <2>7, InsertCases DEF Inserts, Answers
  <2>8. CASE ConfirmBooking(q)
    BY <1>3, <2>1, <2>3, <2>8
       DEF ConfirmBooking, ConfirmLocked, WriteStatus, Written, tables, pending, Answers
  <2>9. CASE Fail(q) \/ Commit(q)
    BY <1>2, <1>3, <2>1, <2>9 DEF Fail, Commit, Goto, Publish, tables
  <2> QED BY <1>3, <2>2, <2>4, <2>5, <2>6, <2>7, <2>8, <2>9 DEF Statement
<1>4. ASSUME NEW s \in Sweepers, SweepStep(s) \/ SweepFail(s)
      PROVE  Aside
  <2>1. s \in Procs /\ r \in Procs /\ s # r
    BY StoreAssumption DEF Procs
  <2>2. CASE SweepBegin(s)
    BY <2>1, <2>2 DEF SweepBegin, Goto, tables, pending
  <2>3. CASE SweepPick(s)
    BY <2>1, <2>3 DEF SweepPick, Goto, Written, tables
  <2>4. CASE SweepCommit(s) \/ SweepFail(s)
    BY <1>2, <2>1, <2>4 DEF SweepCommit, SweepFail, Goto, Publish, tables
  <2> QED BY <1>4, <2>2, <2>3, <2>4 DEF SweepStep, SweepStatement
<1> QED BY <1>1, <1>3, <1>4 DEF Next, Unpublished, SweepStep

(* An event that exists is never changed.                                  *)
LEMMA EventsKept ==
  ASSUME LockInv, [Next]_vars, NEW e \in Events, events[e] # NoEvent
  PROVE  events'[e] = events[e]
<1>1. CASE \E d \in Events : CreateEvent(d)
  BY <1>1 DEF CreateEvent, LockInv, TypeInv, TypeOK, EventTable
<1>2. CASE ~ \E d \in Events : CreateEvent(d)
  BY <1>2 DEF Next, Unpublished, Tick, Begin, Statement, Fail, SweepStatement, SweepFail,
       SweepBegin, SweepPick, SweepCommit, Commit, LockEvent, CancelExpiredOfEvent,
       CountFreeSeats, InsertBooking, ConfirmBooking, ConfirmLocked, Rollback, vars, tables
<1> QED BY <1>1, <1>2

(* r's own steps: the count makes room, the insert takes one seat.         *)
LEMMA SeatsOwn ==
  ASSUME LockInv, OneActivePerOwner, NEW r \in Requests, SeatsOf(r),
         Begin(r) \/ Statement(r) \/ Fail(r) \/ Commit(r)
  PROVE  SeatsOf(r)'
<1> DEFINE e == call[r].event
<1>1. r \in Procs /\ pc \in [Procs -> RequestPcs \cup SweeperPcs]
  BY DEF Procs, LockInv, TypeInv, TypeOK
<1>2. ASSUME pc'[r] \notin {"insert", "commit"} PROVE SeatsOf(r)'
  BY <1>2 DEF SeatsOf, HasInserted
<1>3. ASSUME NEW reason, Rollback(r, reason) PROVE SeatsOf(r)'
  BY <1>1, <1>2, <1>3 DEF Rollback
<1>4. CASE Begin(r) \/ Fail(r) \/ Commit(r) \/ CancelExpiredOfEvent(r)
  BY <1>1, <1>2, <1>4 DEF Begin, Fail, Commit, CancelExpiredOfEvent, Goto
<1>5. CASE LockEvent(r)
  BY <1>1, <1>2, <1>3, <1>5 DEF LockEvent
<1>6. CASE CountFreeSeats(r)
  <2>1. CASE ~SeatLeft(r)
    BY <1>3, <1>6, <2>1 DEF CountFreeSeats
  <2>2. CASE SeatLeft(r)
    <3>1. /\ pc[r] = "freeSeats" /\ pc' = [pc EXCEPT ![r] = "insert"]
          /\ UNCHANGED <<events, bookings, writes, call>>
      BY <1>6, <2>2 DEF CountFreeSeats, tables, pending
    <3>2. View(r)' = View(r) /\ pc'[r] = "insert"
      BY <1>1, <3>1 DEF View
    <3>3. events[e].capacity \in Nat /\ Cardinality(ActiveOf(View(r), e)) \in Nat
      BY <3>1, LockedEvent, ActiveCount DEF HolderPcs, BookPcs
    <3>4. Cardinality(ActiveOf(View(r), e)) < events[e].capacity
      BY <2>2, <3>3 DEF SeatLeft, FreeSeats
    <3> QED BY <3>1, <3>2, <3>4 DEF SeatsOf, HasInserted
  <2> QED BY <2>1, <2>2
<1>7. CASE InsertBooking(r)
  <2>1. ASSUME NEW b \in BookingIds, Inserts(r, b) PROVE SeatsOf(r)'
    <3> DEFINE new == NewBooking(e, call[r].user, expiry[r])
    <3>1. pc[r] = "insert" /\ e \in Events /\ events[e].capacity \in Nat
      BY <1>7, LockedEvent DEF InsertBooking, HolderPcs, BookPcs
    <3>2. pc'[r] = "commit" /\ UNCHANGED <<events, bookings, call>>
      BY <1>1, <2>1 DEF Inserts
    <3>3. View(r)' = [View(r) EXCEPT ![b] = new]
      <4>1. new # NoBooking
        <5>1. new \in Booking
          BY <1>1, <3>1, CallFields
             DEF NewBooking, Booking, Statuses, LockInv, TypeInv, TypeOK, CallsMade
        <5> QED BY <5>1, DomainAssumption
      <4>2. \A c \in BookingIds : writes'[r][c] = IF c = b THEN new ELSE writes[r][c]
        BY <1>1, <2>1 DEF Inserts, LockInv, TypeInv, TypeOK, BookingTable
      <4> QED BY <3>2, <4>1, <4>2 DEF View
    <3>4. ActiveOf(View(r)', e) \subseteq ActiveOf(View(r), e) \cup {b}
      BY <3>3 DEF ActiveOf, View
    <3> DEFINE n == Cardinality(ActiveOf(View(r), e))
               m == Cardinality(ActiveOf(View(r)', e))
    <3>5. n < events[e].capacity /\ n \in Nat
      BY <3>1, ActiveCount DEF SeatsOf
    <3>6. m \in Nat /\ m <= n + 1
      <4>1. IsFiniteSet(ActiveOf(View(r), e))
        BY ActiveCount
      <4>2. /\ IsFiniteSet(ActiveOf(View(r), e) \cup {b})
            /\ Cardinality(ActiveOf(View(r), e) \cup {b}) \in {n, n + 1}
        BY <4>1, FS_AddElement
      <4> QED BY <3>4, <3>5, <4>2, FS_Subset, FS_CardinalityType
    <3>7. m <= events[e].capacity
      BY <3>1, <3>5, <3>6
    <3>8. \A u \in Users : \A c, d \in ActiveOwnedBy(View(r)', e, u) : c = d
      <4> SUFFICES ASSUME NEW u \in Users, NEW c \in ActiveOwnedBy(View(r)', e, u),
                          NEW d \in ActiveOwnedBy(View(r)', e, u)
                   PROVE  c = d
        OBVIOUS
      <4>1. ASSUME NEW x \in ActiveOwnedBy(View(r)', e, u), x # b
            PROVE  x \in ActiveOwnedBy(bookings, e, u) /\ u # call[r].user
        <5>1. View(r)'[x] = View(r)[x] /\ x \in ActiveOf(View(r), e)
          BY <3>3, <3>4, <4>1 DEF View, ActiveOwnedBy, ActiveOf
        <5>2. x \in ActiveOf(bookings, e) /\ View(r)[x].owner = bookings[x].owner
          BY <1>1, <3>1, <5>1, ViewActive DEF HasInserted
        <5>3. View(r)[x].owner = u
          BY <4>1, <5>1 DEF ActiveOwnedBy
        <5> QED BY <2>1, <5>1, <5>2, <5>3 DEF ActiveOwnedBy, Inserts, Rivals
      <4>2. b \in ActiveOwnedBy(View(r)', e, u) => u = call[r].user
        BY <3>3 DEF ActiveOwnedBy, NewBooking, View
      <4> QED BY <3>1, <4>1, <4>2 DEF OneActivePerOwner
    <3> QED BY <3>2, <3>7, <3>8 DEF SeatsOf, HasInserted
  <2> QED BY <1>3, <1>7, <2>1, InsertCases
<1>8. CASE ConfirmBooking(r)
  <2>1. CASE \E reason : Rollback(r, reason)
    BY <1>3, <2>1
  <2>2. CASE pc' = [pc EXCEPT ![r] = "commit"] /\ call' = call
    <3>1. call[r].op = "confirm"
      BY <1>8 DEF ConfirmBooking, LockInv, TypeInv, CallsMade
    <3> QED BY <1>1, <2>2, <3>1 DEF SeatsOf, HasInserted
  <2> QED BY <1>8, <2>1, <2>2 DEF ConfirmBooking, ConfirmLocked
<1> QED BY <1>4, <1>5, <1>6, <1>7, <1>8 DEF Statement

(* SeatsCounted is kept by every step.                                     *)
LEMMA SeatsNext == LockInv /\ OneActivePerOwner /\ SeatsCounted /\ [Next]_vars => SeatsCounted'
<1> SUFFICES ASSUME LockInv, OneActivePerOwner, SeatsCounted, [Next]_vars, NEW r \in Requests
             PROVE  SeatsOf(r)'
  BY SeatsCountedDef DEF SeatsOf, SeatsCounted
<1>1. SeatsOf(r)
  BY SeatsCountedDef
<1>2. \A e \in Events : events[e] # NoEvent => events'[e] = events[e]
  BY EventsKept
<1> QED BY <1>1, <1>2, StepOf, SeatsOwn, SeatsKept

(* What is published overbooks no event and gives nobody a second booking. *)
LEMMA PublishedSeats ==
  ASSUME LockInv, SeatsCounted, CapacityRespected, OneActivePerOwner, NEW p \in Procs,
         NEW e \in Events
  PROVE  /\ events[e] # NoEvent => Cardinality(ActiveOf(View(p), e)) <= events[e].capacity
         /\ \A u \in Users : \A b, c \in ActiveOwnedBy(View(p), e, u) : b = c
<1>1. CASE HasInserted(p) /\ call[p].event = e
  BY <1>1 DEF SeatsCounted, HasInserted
<1>2. CASE ~(HasInserted(p) /\ call[p].event = e)
  <2>1. \A b \in ActiveOf(View(p), e) :
          b \in ActiveOf(bookings, e) /\ View(p)[b].owner = bookings[b].owner
    BY <1>2, ViewActive
  <2>2. events[e] # NoEvent => Cardinality(ActiveOf(View(p), e)) <= events[e].capacity
    <3> SUFFICES ASSUME events[e] # NoEvent
                 PROVE  Cardinality(ActiveOf(View(p), e)) <= events[e].capacity
      OBVIOUS
    <3>1. events[e].capacity \in Nat
      BY DomainAssumption DEF LockInv, TypeInv, TypeOK, EventTable, Event
    <3> QED BY <2>1, <3>1, ActiveCount DEF CapacityRespected
  <2>3. \A u \in Users : \A b, c \in ActiveOwnedBy(View(p), e, u) : b = c
    BY <2>1 DEF ActiveOwnedBy, OneActivePerOwner
  <2> QED BY <2>2, <2>3
<1> QED BY <1>1, <1>2

(* The properties themselves are kept by every step.                       *)
LEMMA SeatsSafe ==
  ASSUME LockInv, SeatsCounted, CapacityRespected, OneActivePerOwner, [Next]_vars
  PROVE  CapacityRespected' /\ OneActivePerOwner'
<1>1. ASSUME NEW e \in Events, bookings' = bookings
      PROVE  /\ events'[e] # NoEvent => Cardinality(ActiveOf(bookings', e)) <= events'[e].capacity
             /\ \A u \in Users : \A b, c \in ActiveOwnedBy(bookings', e, u) : b = c
  <2>1. CASE events[e] # NoEvent
    BY <1>1, <2>1, EventsKept DEF CapacityRespected, OneActivePerOwner
  <2>2. CASE events[e] = NoEvent
    <3>1. ActiveOf(bookings, e) = {}
      BY <2>2 DEF ActiveOf, LockInv, EventsExist
    <3>2. Cardinality(ActiveOf(bookings', e)) = 0
      BY <1>1, <3>1, FS_EmptySet
    <3>3. events'[e] # NoEvent => events'[e].capacity \in Nat
      BY TypeNext, DomainAssumption DEF LockInv, TypeInv, TypeOK, EventTable, Event
    <3> QED BY <1>1, <3>1, <3>2, <3>3 DEF ActiveOwnedBy
  <2> QED BY <2>1, <2>2
<1>2. ASSUME NEW e \in Events, NEW p \in Procs, bookings' = View(p), events' = events
      PROVE  /\ events'[e] # NoEvent => Cardinality(ActiveOf(bookings', e)) <= events'[e].capacity
             /\ \A u \in Users : \A b, c \in ActiveOwnedBy(bookings', e, u) : b = c
  BY <1>2, PublishedSeats
<1>3. bookings' = bookings \/ \E p \in Procs : bookings' = View(p) /\ events' = events
  <2>1. CASE (\E r \in Requests : Commit(r)) \/ \E s \in Sweepers : SweepCommit(s)
    BY <2>1 DEF Commit, SweepCommit, Publish, Procs
  <2>2. CASE Unpublished \/ UNCHANGED vars
    BY <2>2 DEF Unpublished, Tick, CreateEvent, Begin, Statement, Fail, SweepStatement,
       SweepFail, SweepBegin, SweepPick, LockEvent, CancelExpiredOfEvent, CountFreeSeats,
       InsertBooking, ConfirmBooking, ConfirmLocked, Rollback, vars, tables
  <2> QED BY <2>1, <2>2 DEF Next
<1> QED BY <1>1, <1>2, <1>3 DEF CapacityRespected, OneActivePerOwner

(* SeatInv holds in the initial state.                                     *)
LEMMA SeatInvInit == Init => SeatInv
<1> SUFFICES ASSUME Init PROVE SeatInv
  OBVIOUS
<1>1. SeatsCounted
  BY DEF Init, SeatsCounted, HasInserted, Procs
<1>2. CapacityRespected /\ OneActivePerOwner
  BY DEF Init, CapacityRespected, OneActivePerOwner, ActiveOwnedBy, ActiveOf, Untouched
<1> QED BY <1>1, <1>2, LockInit DEF SeatInv, LockInv, TypeInv

(* Every step keeps SeatInv.                                               *)
LEMMA SeatInvNext == SeatInv /\ [Next]_vars => SeatInv'
BY LockNext, SeatsNext, SeatsSafe DEF SeatInv, LockInv, TypeInv

(* Every reachable state satisfies the inductive invariant.                *)
THEOREM SeatInvariance == Spec => []SeatInv
BY SeatInvInit, SeatInvNext, PTL DEF Spec

(* No event is ever overbooked, however many requests, sweeps, failures    *)
(* and events there are.                                                   *)
THEOREM NeverOverbooked == Spec => []CapacityRespected
<1>1. SeatInv => CapacityRespected
  BY DEF SeatInv
<1> QED BY <1>1, SeatInvariance, PTL

(* No user ever holds two active bookings of one event.                    *)
THEOREM NeverBookedTwice == Spec => []OneActivePerOwner
<1>1. SeatInv => OneActivePerOwner
  BY DEF SeatInv
<1> QED BY <1>1, SeatInvariance, PTL

-----------------------------------------------------------------------------
(* The clock and the beginnings of the transactions.                       *)
LEMMA BegunNext == LockInv /\ BegunBefore /\ [Next]_vars => BegunBefore'
<1> SUFFICES ASSUME LockInv, BegunBefore, [Next]_vars PROVE BegunBefore'
  OBVIOUS
<1> USE DEF LockInv, TypeInv, TypeOK, BegunBefore
<1>1. ASSUME now' = now, clock' = clock \/ clock' = clock + 1 PROVE BegunBefore'
  BY <1>1
<1>2. ASSUME NEW p \in Procs, now' = [now EXCEPT ![p] = 0] \/ now' = [now EXCEPT ![p] = clock],
             clock' = clock
      PROVE  BegunBefore'
  BY <1>2
<1>3. CASE Tick \/ UNCHANGED vars
  BY <1>1, <1>3 DEF Tick, vars, private
<1>4. ASSUME NEW e \in Events, CreateEvent(e) PROVE BegunBefore'
  BY <1>1, <1>4 DEF CreateEvent, private
<1>5. ASSUME NEW p \in Procs, EndTx(p), clock' = clock PROVE BegunBefore'
  BY <1>2, <1>5 DEF EndTx, ForgetTx
<1>6. ASSUME NEW r \in Requests, Begin(r) \/ Statement(r) \/ Fail(r) \/ Commit(r)
      PROVE  BegunBefore'
  <2>1. r \in Procs
    BY DEF Procs
  <2>2. CASE Begin(r)
    BY <1>2, <2>1, <2>2 DEF Begin
  <2>3. CASE Fail(r) \/ Commit(r)
    BY <1>5, <2>1, <2>3 DEF Fail, Commit, Publish
  <2>4. ASSUME NEW reason, Rollback(r, reason) PROVE BegunBefore'
    BY <1>5, <2>1, <2>4 DEF Rollback
  <2>5. CASE LockEvent(r)
    BY <1>1, <2>4, <2>5 DEF LockEvent, private
  <2>6. CASE CancelExpiredOfEvent(r)
    BY <1>1, <2>6 DEF CancelExpiredOfEvent
  <2>7. CASE CountFreeSeats(r)
    BY <1>1, <2>4, <2>7 DEF CountFreeSeats
  <2>8. CASE InsertBooking(r)
    BY <1>1, <2>4, <2>8 DEF InsertBooking
  <2>9. CASE ConfirmBooking(r)
    BY <1>1, <2>4, <2>9 DEF ConfirmBooking, ConfirmLocked
  <2> QED BY <1>6, <2>2, <2>3, <2>5, <2>6, <2>7, <2>8, <2>9 DEF Statement
<1>7. ASSUME NEW s \in Sweepers, SweepStep(s) \/ SweepFail(s) PROVE BegunBefore'
  <2>1. s \in Procs
    BY DEF Procs
  <2>2. CASE SweepBegin(s)
    BY <1>2, <2>1, <2>2 DEF SweepBegin
  <2>3. CASE SweepPick(s)
    BY <1>1, <2>3 DEF SweepPick
  <2>4. CASE SweepCommit(s) \/ SweepFail(s)
    BY <1>5, <2>1, <2>4 DEF SweepCommit, SweepFail, Publish
  <2> QED BY <1>7, <2>2, <2>3, <2>4 DEF SweepStep, SweepStatement
<1> QED BY <1>3, <1>4, <1>6, <1>7 DEF Next, Unpublished, SweepStep

-----------------------------------------------------------------------------
(* A step that touches no row and no notice.                               *)
Quiet ==
  /\ clock' \in Nat /\ clock <= clock'
  /\ \A p \in Procs : pc'[p] \notin WritingPcs => pc[p] \notin WritingPcs
  /\ UNCHANGED <<bookings, outbox, writes, queued>>

(* Transaction p ends, published or not.                                   *)
Ended(p) ==
  /\ EndTx(p)
  /\ \E next \in {"idle", "done"} : pc' = [pc EXCEPT ![p] = next]
  /\ clock' = clock
  /\ \/ UNCHANGED <<bookings, outbox>>
     \/ bookings' = View(p) /\ outbox' = outbox \cup queued[p]

(* Transaction p gives status s to the rows of S, its first writes.        *)
Marked(p, S, s) ==
  /\ pc[p] \notin WritingPcs
  /\ \E next \in WritingPcs : pc' = [pc EXCEPT ![p] = next]
  /\ \A b \in S : /\ RowFree(b)
                  /\ bookings[b] # NoBooking
                  /\ bookings[b].status = "pending"
                  /\ s = "cancelled" => bookings[b].expiresAt <= clock
  /\ \A b \in BookingIds :
       writes'[p][b] = IF b \in S THEN [bookings[b] EXCEPT !.status = s] ELSE writes[p][b]
  /\ \A q \in Procs : q # p => writes'[q] = writes[q]
  /\ queued' = [queued EXCEPT ![p] = Enqueued(S, NoticeOf(s))]
  /\ UNCHANGED <<clock, bookings, outbox>>

(* Request r inserts the row b.                                            *)
Adds(r, b) ==
  /\ pc[r] = "insert" /\ pc' = [pc EXCEPT ![r] = "commit"]
  /\ bookings[b] = NoBooking /\ bookingLock[b] = Nobody
  /\ writes' = [writes EXCEPT ![r][b] = NewBooking(call[r].event, call[r].user, expiry[r])]
  /\ queued' = [queued EXCEPT ![r] = @ \cup Enqueued({b}, "booking_created")]
  /\ UNCHANGED <<clock, bookings, outbox>>

(* What a step may do to the rows and the notices.                         *)
StoreStep ==
  \/ Quiet
  \/ \E p \in Procs : Ended(p)
  \/ \E p \in Procs, S \in SUBSET BookingIds, s \in {"confirmed", "cancelled"} : Marked(p, S, s)
  \/ \E r \in Requests, b \in BookingIds : Adds(r, b)

(* The rows of S, written by p for the first time.                         *)
LEMMA MarkedWrites ==
  ASSUME LockInv, NEW p \in Procs, NEW S \in SUBSET BookingIds, NEW s, NEW table,
         writes' = Written(p, S, WithStatus(table, S, s)), \A b \in S : table[b] = bookings[b]
  PROVE  /\ \A b \in BookingIds :
              writes'[p][b] = IF b \in S THEN [bookings[b] EXCEPT !.status = s] ELSE writes[p][b]
         /\ \A q \in Procs : q # p => writes'[q] = writes[q]
BY DEF Written, WithStatus, LockInv, TypeInv, TypeOK

(* The statements of a request.                                            *)
LEMMA StatementStep ==
  ASSUME LockInv, BegunBefore, NEW r \in Requests, Statement(r)
  PROVE  StoreStep
<1>1. r \in Procs /\ pc \in [Procs -> RequestPcs \cup SweeperPcs] /\ clock \in Nat /\ now[r] \in Nat
  BY DEF Procs, LockInv, TypeInv, TypeOK
<1>2. ASSUME NEW reason, Rollback(r, reason) PROVE StoreStep
  BY <1>1, <1>2 DEF Rollback, StoreStep, Ended, tables
<1>3. CASE LockEvent(r)
  <2>1. CASE \E reason \in {"event_not_found", "event_started"} : Rollback(r, reason)
    BY <1>2, <2>1
  <2>2. CASE /\ pc[r] = "lockEvent"
             /\ \E next \in {"cancelExpired", "getBooking"} : pc' = [pc EXCEPT ![r] = next]
             /\ UNCHANGED <<clock, bookings, outbox, writes, queued>>
    BY <1>1, <2>2 DEF StoreStep, Quiet, WritingPcs
  <2> QED BY <1>3, <2>1, <2>2 DEF LockEvent, tables, private, pending
<1>4. CASE CancelExpiredOfEvent(r)
  <2> DEFINE due == {b \in DueRows(View(r), now[r]) : View(r)[b].event = call[r].event}
  <2>1. due \in SUBSET BookingIds
    BY DueRowsExist
  <2>2. ASSUME NEW b \in due
        PROVE  /\ RowFree(b)
               /\ View(r)[b] = bookings[b]
               /\ bookings[b] # NoBooking
               /\ bookings[b].status = "pending"
               /\ bookings[b].expiresAt <= clock
    <3>1. RowFree(b)
      BY <1>4, <2>2 DEF CancelExpiredOfEvent
    <3>2. View(r)[b] = bookings[b]
      BY <1>1, <2>1, <3>1, FreeRowUnwritten DEF LockInv
    <3>3. View(r)[b] # NoBooking /\ Due(View(r)[b], now[r])
      BY DEF DueRows
    <3>4. bookings[b] \in Booking
      BY <2>1, <3>2, <3>3, RowExists DEF LockInv, TypeInv, TypeOK
    <3>5. bookings[b].expiresAt \in Nat
      BY <3>4 DEF Booking
    <3>6. bookings[b].expiresAt <= now[r] /\ now[r] <= clock
      BY <1>1, <3>2, <3>3 DEF Due, BegunBefore
    <3> QED BY <1>1, <3>1, <3>2, <3>3, <3>5, <3>6 DEF Due
  <2>3. /\ pc[r] = "cancelExpired" /\ pc' = [pc EXCEPT ![r] = "freeSeats"]
        /\ writes' = Written(r, due, WithStatus(View(r), due, "cancelled"))
        /\ queued' = [queued EXCEPT ![r] = Enqueued(due, "booking_cancelled")]
        /\ UNCHANGED <<clock, bookings, outbox>>
    BY <1>4 DEF CancelExpiredOfEvent, Goto, tables
  <2>4. NoticeOf("cancelled") = "booking_cancelled"
    BY DEF NoticeOf
  <2> HIDE DEF due
  <2>5. /\ \A b \in BookingIds : writes'[r][b] =
             IF b \in due THEN [bookings[b] EXCEPT !.status = "cancelled"] ELSE writes[r][b]
        /\ \A q \in Procs : q # r => writes'[q] = writes[q]
    <3> DEFINE seen == View(r)
    <3>1. writes' = Written(r, due, WithStatus(seen, due, "cancelled"))
      BY <2>3
    <3>2. \A b \in due : seen[b] = bookings[b]
      BY <2>2
    <3> HIDE DEF seen
    <3> QED BY <1>1, <2>1, <3>1, <3>2, MarkedWrites
  <2>6. Marked(r, due, "cancelled")
    BY <2>1, <2>2, <2>3, <2>4, <2>5 DEF Marked, WritingPcs
  <2> QED BY <1>1, <2>1, <2>6 DEF StoreStep
<1>5. CASE CountFreeSeats(r)
  <2>1. CASE ~SeatLeft(r)
    BY <1>2, <1>5, <2>1 DEF CountFreeSeats
  <2>2. CASE SeatLeft(r)
    BY <1>1, <1>5, <2>2 DEF CountFreeSeats, StoreStep, Quiet, WritingPcs, tables, pending
  <2> QED BY <2>1, <2>2
<1>6. CASE InsertBooking(r)
  <2>1. Rollback(r, "already_booked") \/ \E b \in BookingIds : Adds(r, b)
    BY <1>6 DEF InsertBooking, Adds, tables
  <2> QED BY <1>2, <2>1 DEF StoreStep
<1>7. CASE ConfirmBooking(r)
  <2> DEFINE b == call[r].booking
  <2>1. pc[r] = "getBooking" /\ b \in BookingIds
    BY <1>7, CallFields DEF ConfirmBooking, LockInv, TypeInv, CallsMade
  <2>2. CASE \E reason : Rollback(r, reason)
    BY <1>2, <2>2
  <2>3. CASE bookings[b] # NoBooking /\ RowFree(b) /\ ConfirmLocked(r, b)
    <3>1. pc' = [pc EXCEPT ![r] = "commit"] /\ UNCHANGED <<clock, bookings, outbox>>
      BY <2>3 DEF ConfirmLocked, tables
    <3>2. CASE UNCHANGED pending
      BY <1>1, <2>1, <3>1, <3>2 DEF StoreStep, Quiet, WritingPcs, pending
    <3>3. ASSUME NEW s \in {"confirmed", "cancelled"}, NEW result,
                 bookings[b].status = "pending",
                 s = "cancelled" => DeadlinePassed(bookings[b]),
                 WriteStatus(r, b, s, NoticeOf(s), result)
          PROVE  StoreStep
      <4>1. bookings[b] \in Booking
        BY <2>1, <2>3, RowExists DEF LockInv, TypeInv, TypeOK
      <4>2. bookings[b].expiresAt \in Nat
        BY <4>1 DEF Booking
      <4>3. s = "cancelled" => bookings[b].expiresAt <= clock
        BY <1>1, <3>3, <4>2 DEF DeadlinePassed
      <4>4. /\ writes' = Written(r, {b}, WithStatus(bookings, {b}, s))
            /\ queued' = [queued EXCEPT ![r] = Enqueued({b}, NoticeOf(s))]
        BY <3>3 DEF WriteStatus
      <4>5. {b} \in SUBSET BookingIds
        BY <2>1
      <4>6. \A c \in {b} : /\ RowFree(c) /\ bookings[c] # NoBooking
                           /\ bookings[c].status = "pending"
                           /\ s = "cancelled" => bookings[c].expiresAt <= clock
        BY <2>3, <3>3, <4>3
      <4> DEFINE S == {b}
      <4> HIDE DEF b, S
      <4>7. S \in SUBSET BookingIds
        BY <4>5 DEF S
      <4>8. /\ \A c \in BookingIds : writes'[r][c] =
                 IF c \in S THEN [bookings[c] EXCEPT !.status = s] ELSE writes[r][c]
            /\ \A q \in Procs : q # r => writes'[q] = writes[q]
        BY <1>1, <4>4, <4>7, MarkedWrites DEF S
      <4>9. Marked(r, S, s)
        BY <2>1, <3>1, <4>4, <4>6, <4>8 DEF Marked, WritingPcs, S
      <4> QED BY <1>1, <4>7, <4>9 DEF StoreStep
    <3>4. \/ UNCHANGED pending
          \/ /\ bookings[b].status = "pending"
             /\ \/ /\ DeadlinePassed(bookings[b])
                   /\ WriteStatus(r, b, "cancelled", NoticeOf("cancelled"), "expired")
                \/ WriteStatus(r, b, "confirmed", NoticeOf("confirmed"), "ok")
      BY <2>3 DEF ConfirmLocked, NoticeOf
    <3> QED BY <3>2, <3>3, <3>4
  <2> QED BY <1>7, <2>2, <2>3 DEF ConfirmBooking
<1> QED BY <1>3, <1>4, <1>5, <1>6, <1>7 DEF Statement

(* The steps of a sweep.                                                   *)
LEMMA SweepStoreStep ==
  ASSUME LockInv, BegunBefore, NEW s \in Sweepers, SweepStep(s) \/ SweepFail(s)
  PROVE  StoreStep
<1>1. s \in Procs /\ pc \in [Procs -> RequestPcs \cup SweeperPcs] /\ clock \in Nat /\ now[s] \in Nat
  BY DEF Procs, LockInv, TypeInv, TypeOK
<1>2. CASE SweepBegin(s)
  BY <1>1, <1>2 DEF SweepBegin, Goto, StoreStep, Quiet, WritingPcs, tables, pending
<1>3. CASE SweepPick(s)
  <2>1. PICK T \in Oldest(Pickable(s)) :
          /\ writes' = Written(s, T, WithStatus(bookings, T, "cancelled"))
          /\ queued' = [queued EXCEPT ![s] = Enqueued(T, "booking_cancelled")]
    BY <1>3 DEF SweepPick
  <2>2. T \in SUBSET BookingIds /\ T \subseteq Pickable(s)
    BY DueRowsExist DEF Oldest, Pickable
  <2>3. ASSUME NEW b \in T
        PROVE  /\ RowFree(b)
               /\ bookings[b] # NoBooking
               /\ bookings[b].status = "pending"
               /\ bookings[b].expiresAt <= clock
    <3>1. RowFree(b) /\ bookings[b] # NoBooking /\ Due(bookings[b], now[s])
      BY <2>2 DEF Pickable, DueRows
    <3>2. bookings[b] \in Booking
      BY <2>2, <3>1, RowExists DEF LockInv, TypeInv, TypeOK
    <3>3. bookings[b].expiresAt \in Nat /\ bookings[b].expiresAt <= now[s] /\ now[s] <= clock
      BY <1>1, <3>1, <3>2 DEF Booking, Due, BegunBefore
    <3> QED BY <1>1, <3>1, <3>3 DEF Due
  <2>4. /\ pc[s] = "pick" /\ pc' = [pc EXCEPT ![s] = "commit"]
        /\ UNCHANGED <<clock, bookings, outbox>>
    BY <1>3 DEF SweepPick, Goto, tables
  <2>5. NoticeOf("cancelled") = "booking_cancelled"
    BY DEF NoticeOf
  <2>6. /\ \A b \in BookingIds : writes'[s][b] =
             IF b \in T THEN [bookings[b] EXCEPT !.status = "cancelled"] ELSE writes[s][b]
        /\ \A q \in Procs : q # s => writes'[q] = writes[q]
    BY <1>1, <2>1, <2>2, MarkedWrites
  <2>7. Marked(s, T, "cancelled")
    BY <2>1, <2>3, <2>4, <2>5, <2>6 DEF Marked, WritingPcs
  <2> QED BY <1>1, <2>2, <2>7 DEF StoreStep
<1>4. CASE SweepCommit(s) \/ SweepFail(s)
  BY <1>1, <1>4 DEF SweepCommit, SweepFail, Goto, Publish, StoreStep, Ended, tables
<1> QED BY <1>2, <1>3, <1>4 DEF SweepStep, SweepStatement

(* Every step is one of the four kinds.                                    *)
LEMMA NextStoreStep ==
  ASSUME LockInv, BegunBefore, [Next]_vars
  PROVE  StoreStep
<1> USE DEF LockInv, TypeInv, TypeOK
<1>1. CASE Tick \/ UNCHANGED vars
  BY <1>1 DEF Tick, vars, tables, private, pending, StoreStep, Quiet
<1>2. ASSUME NEW e \in Events, CreateEvent(e) PROVE StoreStep
  BY <1>2 DEF CreateEvent, private, pending, StoreStep, Quiet
<1>3. ASSUME NEW r \in Requests, Begin(r) PROVE StoreStep
  BY <1>3 DEF Begin, Goto, tables, pending, StoreStep, Quiet, WritingPcs, Procs
<1>4. ASSUME NEW r \in Requests, Fail(r) \/ Commit(r) PROVE StoreStep
  BY <1>4 DEF Fail, Commit, Goto, Publish, tables, StoreStep, Ended, Procs
<1> QED BY <1>1, <1>2, <1>3, <1>4, StatementStep, SweepStoreStep DEF Next, Unpublished, SweepStep

-----------------------------------------------------------------------------
(* A row that is past its deadline stays so as time passes.                *)
LEMMA OverdueStays ==
  ASSUME NEW row \in Booking \cup {NoBooking}, Overdue(row),
         clock \in Nat, clock' \in Nat, clock <= clock'
  PROVE  row # NoBooking /\ row.status = "cancelled" => row.expiresAt <= clock'
BY DEF Overdue, Booking

(* CancelledOverdue is kept by every kind of step.                         *)
LEMMA OverdueNext ==
  ASSUME LockInv, CancelledOverdue, StoreStep
  PROVE  CancelledOverdue'
<1> DEFINE Late(row) == row # NoBooking /\ row.status = "cancelled" => row.expiresAt <= clock'
<1>1. /\ clock \in Nat
      /\ \A b \in BookingIds : bookings[b] \in Booking \cup {NoBooking}
      /\ \A p \in Procs, b \in BookingIds : writes[p][b] \in Booking \cup {NoBooking}
  BY DEF LockInv, TypeInv, TypeOK, BookingTable
<1>2. /\ \A b \in BookingIds : Overdue(bookings[b])
      /\ \A p \in Procs, b \in BookingIds : Overdue(writes[p][b])
  BY DEF CancelledOverdue
<1>3. clock' \in Nat /\ clock <= clock'
  <2>1. clock' = clock \/ (clock' \in Nat /\ clock <= clock')
    BY Zenon DEF StoreStep, Quiet, Ended, Marked, Adds
  <2> QED BY <1>1, <2>1
<1>4. /\ \A b \in BookingIds : Late(bookings[b])
      /\ \A p \in Procs, b \in BookingIds : Late(writes[p][b])
  BY <1>1, <1>2, <1>3, OverdueStays
<1>5. bookings' = bookings \/ \E p \in Procs : bookings' = View(p)
  BY DEF StoreStep, Quiet, Ended, Marked, Adds
<1>6. \A b \in BookingIds : Late(bookings'[b])
  BY <1>4, <1>5 DEF View
<1>7. \A p \in Procs, b \in BookingIds : Late(writes'[p][b])
  <2>1. CASE Quiet
    BY <1>4, <2>1 DEF Quiet
  <2>2. ASSUME NEW p \in Procs, Ended(p)
        PROVE  \A q \in Procs, b \in BookingIds : Late(writes'[q][b])
    BY <1>4, <2>2 DEF Ended, EndTx, ForgetTx, Untouched, LockInv, TypeInv, TypeOK
  <2>3. ASSUME NEW p \in Procs, NEW S \in SUBSET BookingIds, NEW s, Marked(p, S, s),
               NEW q \in Procs, NEW b \in BookingIds
        PROVE  Late(writes'[q][b])
    <3>1. CASE q = p /\ b \in S
      <4>1. writes'[q][b] = [bookings[b] EXCEPT !.status = s] /\ bookings[b] \in Booking
        BY <1>1, <2>3, <3>1 DEF Marked
      <4>2. writes'[q][b].status = s /\ writes'[q][b].expiresAt = bookings[b].expiresAt
        BY <4>1 DEF Booking
      <4>3. s = "cancelled" => bookings[b].expiresAt <= clock /\ clock' = clock
        BY <2>3, <3>1 DEF Marked
      <4> QED BY <4>2, <4>3
    <3>2. CASE ~(q = p /\ b \in S)
      BY <1>4, <2>3, <3>2 DEF Marked
    <3> QED BY <3>1, <3>2
  <2>4. ASSUME NEW r \in Requests, NEW c \in BookingIds, Adds(r, c),
               NEW q \in Procs, NEW b \in BookingIds
        PROVE  Late(writes'[q][b])
    <3>1. CASE q = r /\ b = c
      <4>1. writes'[q][b] = NewBooking(call[r].event, call[r].user, expiry[r])
        BY <2>4, <3>1 DEF Adds, LockInv, TypeInv, TypeOK, BookingTable, Procs
      <4> QED BY <4>1 DEF NewBooking
    <3>2. CASE ~(q = r /\ b = c)
      <4>1. writes'[q][b] = writes[q][b]
        BY <2>4, <3>2 DEF Adds, LockInv, TypeInv, TypeOK, BookingTable, Procs
      <4> QED BY <1>4, <4>1
    <3> QED BY <3>1, <3>2
  <2> QED BY <2>1, <2>2, <2>3, <2>4 DEF StoreStep
<1> QED BY <1>6, <1>7 DEF CancelledOverdue, Overdue

-----------------------------------------------------------------------------
(* The notices that are queued for a table of rows.                        *)
LEMMA NoticeMember ==
  ASSUME NEW table, NEW o
  PROVE  o \in NoticesOf(table) <=>
           \E b \in BookingIds, c \in Channels :
             table[b] # NoBooking /\ o = <<b, NoticeOf(table[b].status), c>>
BY DEF NoticesOf, RowsOf, OneEach

(* A table without rows owes nothing.                                      *)
LEMMA NoNotices == NoticesOf(Untouched) = {}
BY DEF NoticesOf, RowsOf, Untouched

(* The notices of the rows of S, all with status s, and no other row.      *)
LEMMA NoticesOfMarked ==
  ASSUME NEW table, NEW S \in SUBSET BookingIds, NEW s,
         \A b \in S : table[b] # NoBooking /\ table[b].status = s,
         \A b \in BookingIds \ S : table[b] = NoBooking
  PROVE  NoticesOf(table) = Enqueued(S, NoticeOf(s))
<1>1. RowsOf(table) = S
  BY DEF RowsOf
<1>2. NoticesOf(table) = UNION {OneEach({b}, NoticeOf(s)) : b \in S}
  BY <1>1 DEF NoticesOf
<1> QED BY <1>2 DEF Enqueued, OneEach

(* A transaction queues the notices of what it writes.                     *)
LEMMA QueuedNext ==
  ASSUME LockInv, QueuedMatchesWrites, StoreStep
  PROVE  QueuedMatchesWrites'
<1> SUFFICES ASSUME NEW q \in Procs
             PROVE  /\ pc'[q] \notin WritingPcs => writes'[q] = Untouched
                    /\ queued'[q] = NoticesOf(writes'[q])
  BY DEF QueuedMatchesWrites, NoticesOf, RowsOf
<1>1. pc \in [Procs -> RequestPcs \cup SweeperPcs] /\ queued \in [Procs -> SUBSET OutboxRow]
  BY DEF LockInv, TypeInv, TypeOK
<1>2. CASE Quiet
  BY <1>2 DEF Quiet, QueuedMatchesWrites
<1>3. ASSUME NEW p \in Procs, Ended(p)
      PROVE  /\ pc'[q] \notin WritingPcs => writes'[q] = Untouched
             /\ queued'[q] = NoticesOf(writes'[q])
  <2>1. CASE q = p
    BY <1>3, <2>1, NoNotices DEF Ended, EndTx, ForgetTx, LockInv, TypeInv, TypeOK
  <2>2. CASE q # p
    BY <1>3, <2>2 DEF Ended, EndTx, ForgetTx, LockInv, TypeInv, TypeOK, QueuedMatchesWrites
  <2> QED BY <2>1, <2>2
<1>4. ASSUME NEW p \in Procs, NEW S \in SUBSET BookingIds, NEW s \in {"confirmed", "cancelled"},
             Marked(p, S, s)
      PROVE  /\ pc'[q] \notin WritingPcs => writes'[q] = Untouched
             /\ queued'[q] = NoticesOf(writes'[q])
  <2>1. CASE q = p
    <3>1. writes[p] = Untouched
      BY <1>4 DEF Marked, QueuedMatchesWrites
    <3>2. \A b \in BookingIds \ S : writes'[p][b] = NoBooking
      BY <1>4, <3>1 DEF Marked, Untouched
    <3>3. ASSUME NEW b \in S PROVE writes'[p][b] # NoBooking /\ writes'[p][b].status = s
      <4>1. bookings[b] \in Booking /\ writes'[p][b] = [bookings[b] EXCEPT !.status = s]
        BY <1>4, RowExists DEF Marked, LockInv, TypeInv, TypeOK
      <4>2. [bookings[b] EXCEPT !.status = s] \in Booking
        BY <4>1, StatusWritten DEF Statuses
      <4> QED BY <4>1, <4>2, DomainAssumption DEF Booking
    <3> DEFINE table == writes'[p]
    <3>4. \A b \in S : table[b] # NoBooking /\ table[b].status = s
      BY <3>3
    <3>5. \A b \in BookingIds \ S : table[b] = NoBooking
      BY <3>2
    <3> HIDE DEF table
    <3>6. NoticesOf(table) = Enqueued(S, NoticeOf(s))
      BY <3>4, <3>5, NoticesOfMarked
    <3>7. queued'[p] = Enqueued(S, NoticeOf(s)) /\ pc'[p] \in WritingPcs
      BY <1>1, <1>4 DEF Marked
    <3> QED BY <2>1, <3>6, <3>7 DEF table
  <2>2. CASE q # p
    <3>1. writes'[q] = writes[q] /\ queued'[q] = queued[q] /\ pc'[q] = pc[q]
      BY <1>1, <1>4, <2>2 DEF Marked
    <3> QED BY <3>1 DEF QueuedMatchesWrites
  <2> QED BY <2>1, <2>2
<1>5. ASSUME NEW r \in Requests, NEW b \in BookingIds, Adds(r, b)
      PROVE  /\ pc'[q] \notin WritingPcs => writes'[q] = Untouched
             /\ queued'[q] = NoticesOf(writes'[q])
  <2>1. r \in Procs
    BY DEF Procs
  <2>2. CASE q = r
    <3> DEFINE new == NewBooking(call[r].event, call[r].user, expiry[r])
    <3>1. pc'[r] = "commit" /\ queued'[r] = queued[r] \cup Enqueued({b}, "booking_created")
      BY <1>1, <1>5, <2>1 DEF Adds
    <3>2. \A c \in BookingIds : writes'[r][c] = IF c = b THEN new ELSE writes[r][c]
      BY <1>5, <2>1 DEF Adds, LockInv, TypeInv, TypeOK, BookingTable
    <3>3. writes[r][b] = NoBooking
      BY <1>5, <2>1, FreeRowUnwritten DEF Adds, RowFree, LockInv
    <3>4. new # NoBooking /\ NoticeOf(new.status) = "booking_created"
      <4>1. call[r] \in Call(Nat) /\ expiry[r] \in Nat
        BY <1>5, <2>1 DEF Adds, LockInv, TypeInv, TypeOK, CallsMade
      <4>2. new \in Booking
        BY <4>1, CallFields DEF NewBooking, Booking, Statuses
      <4> QED BY <4>2, DomainAssumption DEF NewBooking, NoticeOf
    <3> HIDE DEF new
    <3>5. \A o : o \in NoticesOf(writes'[r]) <=>
            o \in NoticesOf(writes[r]) \/ \E c \in Channels : o = <<b, "booking_created", c>>
      <4> DEFINE after == writes'[r]
                 before == writes[r]
      <4>1. \A c \in BookingIds : after[c] = IF c = b THEN new ELSE before[c]
        BY <3>2
      <4>2. before[b] = NoBooking
        BY <3>3
      <4> HIDE DEF after, before
      <4>3. \A o : o \in NoticesOf(after) <=>
              o \in NoticesOf(before) \/ \E c \in Channels : o = <<b, "booking_created", c>>
        BY <3>4, <4>1, <4>2, NoticeMember
      <4> QED BY <4>3 DEF after, before
    <3>6. \A o : o \in Enqueued({b}, "booking_created") <=>
            \E c \in Channels : o = <<b, "booking_created", c>>
      BY DEF Enqueued
    <3>7. queued[r] = NoticesOf(writes[r])
      BY <2>1 DEF QueuedMatchesWrites
    <3>8. pc'[r] \in WritingPcs
      BY <3>1 DEF WritingPcs
    <3> QED BY <2>2, <3>1, <3>5, <3>6, <3>7, <3>8
  <2>3. CASE q # r
    <3>1. writes'[q] = writes[q] /\ queued'[q] = queued[q] /\ pc'[q] = pc[q]
      BY <1>1, <1>5, <2>1, <2>3 DEF Adds, LockInv, TypeInv, TypeOK
    <3> QED BY <3>1 DEF QueuedMatchesWrites
  <2> QED BY <2>2, <2>3
<1> QED BY <1>2, <1>3, <1>4, <1>5 DEF StoreStep

-----------------------------------------------------------------------------
(* A row that has been inserted is never deleted.                          *)
LEMMA RowsStay ==
  ASSUME LockInv, StoreStep, NEW b \in BookingIds, bookings'[b] = NoBooking
  PROVE  bookings[b] = NoBooking
<1>1. bookings' = bookings \/ \E p \in Procs : bookings' = View(p)
  BY Zenon DEF StoreStep, Quiet, Ended, Marked, Adds
<1> QED BY <1>1, ViewRow

(* A row is pending when it is inserted.                                   *)
LEMMA InsertedNext ==
  ASSUME LockInv, InsertedPending, StoreStep
  PROVE  InsertedPending'
<1> SUFFICES ASSUME NEW q \in Procs, NEW b \in BookingIds,
                    writes'[q][b] # NoBooking, bookings[b] = NoBooking
             PROVE  writes'[q][b].status = "pending"
  BY RowsStay DEF InsertedPending
<1>1. writes[q][b] # NoBooking => writes[q][b].status = "pending"
  BY DEF InsertedPending
<1>2. CASE Quiet
  BY <1>1, <1>2 DEF Quiet
<1>3. ASSUME NEW p \in Procs, Ended(p) PROVE writes'[q][b].status = "pending"
  BY <1>1, <1>3 DEF Ended, EndTx, ForgetTx, Untouched, LockInv, TypeInv, TypeOK
<1>4. ASSUME NEW p \in Procs, NEW S \in SUBSET BookingIds, NEW s, Marked(p, S, s)
      PROVE  writes'[q][b].status = "pending"
  BY <1>1, <1>4 DEF Marked
<1>5. ASSUME NEW r \in Requests, NEW c \in BookingIds, Adds(r, c)
      PROVE  writes'[q][b].status = "pending"
  <2>1. \/ writes'[q][b] = writes[q][b]
        \/ writes'[q][b] = NewBooking(call[r].event, call[r].user, expiry[r])
    BY <1>5 DEF Adds, LockInv, TypeInv, TypeOK, BookingTable, Procs
  <2> QED BY <1>1, <2>1 DEF NewBooking
<1> QED BY <1>2, <1>3, <1>4, <1>5 DEF StoreStep

(* Publishing the rows of a transaction together with its notices keeps    *)
(* the outbox equal to what is owed.                                       *)
LEMMA PublishOwed ==
  ASSUME LockInv, QueuedMatchesWrites, InsertedPending, OutboxMatchesStatus, NEW p \in Procs
  PROVE  outbox \cup queued[p] =
           NoticesOf(View(p)) \cup OneEach(RowsOf(View(p)), "booking_created")
<1> DEFINE Owed(table) == NoticesOf(table) \cup OneEach(RowsOf(table), "booking_created")
           OwedFor(row, b, o) ==
             row # NoBooking /\ \E c \in Channels : \/ o = <<b, NoticeOf(row.status), c>>
                                                 \/ o = <<b, "booking_created", c>>
<1>1. ASSUME NEW table, NEW o
      PROVE  o \in Owed(table) <=> \E b \in BookingIds : OwedFor(table[b], b, o)
  <2>1. o \in OneEach(RowsOf(table), "booking_created") <=>
          \E b \in BookingIds, c \in Channels : table[b] # NoBooking /\ o = <<b, "booking_created", c>>
    BY DEF OneEach, RowsOf
  <2> QED BY <2>1, NoticeMember
<1> DEFINE old == bookings
           own == writes[p]
           new == View(p)
<1>2. ASSUME NEW o
      PROVE  o \in Owed(new) <=> o \in Owed(old) \/ o \in NoticesOf(own)
  <2>1. ASSUME NEW b \in BookingIds
        PROVE  OwedFor(new[b], b, o) <=>
                 \/ OwedFor(old[b], b, o)
                 \/ own[b] # NoBooking /\ \E c \in Channels : o = <<b, NoticeOf(own[b].status), c>>
    <3>1. CASE own[b] = NoBooking
      BY <3>1 DEF View
    <3>2. CASE own[b] # NoBooking /\ old[b] = NoBooking
      <4>1. new[b] = own[b] /\ own[b].status = "pending"
        BY <3>2 DEF View, InsertedPending
      <4> QED BY <3>2, <4>1 DEF NoticeOf
    <3>3. CASE own[b] # NoBooking /\ old[b] # NoBooking
      <4>1. new[b] = own[b] /\ old[b].status = "pending"
        BY <3>3 DEF View, LockInv, WritesLocked
      <4> QED BY <3>3, <4>1 DEF NoticeOf
    <3> QED BY <3>1, <3>2, <3>3
  <2> HIDE DEF OwedFor, Owed, old, own, new
  <2>2. o \in NoticesOf(own) <=> \E b \in BookingIds :
          own[b] # NoBooking /\ \E c \in Channels : o = <<b, NoticeOf(own[b].status), c>>
    BY NoticeMember
  <2>3. /\ o \in Owed(new) <=> \E b \in BookingIds : OwedFor(new[b], b, o)
        /\ o \in Owed(old) <=> \E b \in BookingIds : OwedFor(old[b], b, o)
    BY <1>1
  <2> QED BY <2>1, <2>2, <2>3
<1>3. outbox = Owed(old) /\ queued[p] = NoticesOf(own)
  BY DEF OutboxMatchesStatus, QueuedMatchesWrites
<1>4. Owed(new) = Owed(old) \cup NoticesOf(own)
  <2> HIDE DEF Owed, old, own, new
  <2> QED BY <1>2
<1> QED BY <1>3, <1>4

(* The outbox matches the bookings after every step.                       *)
LEMMA OwedNext ==
  ASSUME LockInv, QueuedMatchesWrites, InsertedPending, OutboxMatchesStatus, StoreStep
  PROVE  OutboxMatchesStatus'
<1>1. CASE UNCHANGED <<bookings, outbox>>
  BY <1>1 DEF OutboxMatchesStatus, NoticesOf, RowsOf
<1>2. ASSUME NEW p \in Procs, bookings' = View(p), outbox' = outbox \cup queued[p]
      PROVE  OutboxMatchesStatus'
  <2>1. outbox' = NoticesOf(bookings') \cup OneEach(RowsOf(bookings'), "booking_created")
    BY <1>2, PublishOwed
  <2> QED BY <2>1 DEF OutboxMatchesStatus, NoticesOf, RowsOf
<1>3. UNCHANGED <<bookings, outbox>> \/
        \E p \in Procs : bookings' = View(p) /\ outbox' = outbox \cup queued[p]
  BY Zenon DEF StoreStep, Quiet, Ended, Marked, Adds
<1> QED BY <1>1, <1>2, <1>3

-----------------------------------------------------------------------------
(* What is true of a committed row stays true, whatever is published.      *)
LEMMA RowJustifies ==
  ASSUME LockInv, NEW b \in BookingIds, NEW result, Justifies(bookings[b], result),
         bookings' = bookings \/ \E p \in Procs : bookings' = View(p)
  PROVE  Justifies(bookings'[b], result)
BY ViewRow DEF Justifies

(* What is true of the row a transaction sees stays true while others      *)
(* publish theirs.                                                         *)
LEMMA ViewJustifies ==
  ASSUME LockInv, NEW r \in Requests, NEW b \in BookingIds, NEW result,
         Justifies(View(r)[b], result), writes'[r] = writes[r],
         bookings' = bookings \/ \E p \in Procs : bookings' = View(p)
  PROVE  Justifies(View(r)'[b], result)
<1>1. CASE writes[r][b] = NoBooking
  <2>1. View(r)[b] = bookings[b] /\ View(r)'[b] = bookings'[b]
    BY <1>1 DEF View
  <2> QED BY <2>1, RowJustifies
<1>2. CASE writes[r][b] # NoBooking
  BY <1>2 DEF View
<1> QED BY <1>1, <1>2

(* A step is one of r's own, or leaves r's verdict and answer alone.       *)
LEMMA AnswerOf ==
  ASSUME LockInv, [Next]_vars, NEW r \in Requests
  PROVE  \/ Begin(r) \/ Statement(r) \/ Fail(r) \/ Commit(r)
         \/ verdict'[r] = verdict[r] /\ answer'[r] = answer[r]
<1> DEFINE Aside == verdict'[r] = verdict[r] /\ answer'[r] = answer[r]
<1> USE DEF LockInv, TypeInv, TypeOK
<1>1. CASE Tick \/ (\E e \in Events : CreateEvent(e)) \/ UNCHANGED vars
  BY <1>1 DEF Tick, CreateEvent, vars, private
<1>2. ASSUME NEW q \in Requests, q # r, Begin(q) \/ Statement(q) \/ Fail(q) \/ Commit(q)
      PROVE  Aside
  <2>1. q \in Procs /\ r \in Procs
    BY DEF Procs
  <2>2. CASE Begin(q)
    BY <2>2 DEF Begin
  <2>3. ASSUME NEW reason, Rollback(q, reason) PROVE Aside
    BY <1>2, <2>1, <2>3 DEF Rollback, EndTx, ForgetTx
  <2>4. CASE LockEvent(q)
    BY <2>3, <2>4 DEF LockEvent, private
  <2>5. CASE CancelExpiredOfEvent(q)
    BY <2>5 DEF CancelExpiredOfEvent
  <2>6. CASE CountFreeSeats(q)
    BY <2>3, <2>6 DEF CountFreeSeats
  <2>7. CASE InsertBooking(q)
    <3>1. Rollback(q, "already_booked") \/ (verdict' = [verdict EXCEPT ![q] = "ok"] /\ answer' = answer)
      BY <2>7 DEF InsertBooking
    <3> QED BY <1>2, <2>1, <2>3, <3>1
  <2>8. CASE ConfirmBooking(q)
    <3>1. \/ \E reason \in Answers : Rollback(q, reason)
          \/ answer' = answer /\ \E v \in Answers : verdict' = [verdict EXCEPT ![q] = v]
      BY <2>8 DEF ConfirmBooking, ConfirmLocked, WriteStatus, Answers
    <3> QED BY <1>2, <2>1, <2>3, <3>1
  <2>9. CASE Fail(q) \/ Commit(q)
    BY <1>2, <2>1, <2>9 DEF Fail, Commit, Publish, EndTx, ForgetTx
  <2> QED BY <1>2, <2>2, <2>4, <2>5, <2>6, <2>7, <2>8, <2>9 DEF Statement
<1>3. ASSUME NEW s \in Sweepers, SweepStep(s) \/ SweepFail(s)
      PROVE  Aside
  <2>1. s \in Procs /\ r \in Procs /\ s # r
    BY StoreAssumption DEF Procs
  <2>2. CASE SweepBegin(s) \/ SweepPick(s)
    BY <2>2 DEF SweepBegin, SweepPick
  <2>3. CASE SweepCommit(s) \/ SweepFail(s)
    BY <2>1, <2>3 DEF SweepCommit, SweepFail, Publish, EndTx, ForgetTx
  <2> QED BY <1>3, <2>2, <2>3 DEF SweepStep, SweepStatement
<1> QED BY <1>1, <1>2, <1>3 DEF Next, Unpublished, SweepStep

(* The answers of one request.                                             *)
VerdictTrue(r) ==
  /\ pc[r] # "done" => answer[r] = "none"
  /\ pc[r] = "commit" /\ Confirms(r) => Justifies(View(r)[call[r].booking], verdict[r])
AnswerTrue(r) == Confirms(r) => Justifies(bookings[call[r].booking], answer[r])

(* VerdictsTrue and AnswerMatchesStore, request by request.                *)
LEMMA AnswersDef ==
  /\ VerdictsTrue <=> \A r \in Requests : VerdictTrue(r)
  /\ AnswerMatchesStore <=> \A r \in Requests : AnswerTrue(r)
BY DEF VerdictsTrue, AnswerMatchesStore, VerdictTrue, AnswerTrue

(* The booking a Confirm asks for.                                         *)
LEMMA ConfirmedRow ==
  ASSUME LockInv, NEW r \in Requests, Confirms(r)
  PROVE  call[r].booking \in BookingIds
BY CallFields DEF Confirms, LockInv, TypeInv, TypeOK

(* Confirm decides from the row it has locked.                             *)
LEMMA ConfirmAnswers ==
  ASSUME LockInv, QueuedMatchesWrites, NEW r \in Requests, VerdictTrue(r), ConfirmBooking(r)
  PROVE  VerdictTrue(r)' /\ AnswerTrue(r)'
<1> DEFINE b == call[r].booking
<1>1. /\ r \in Procs /\ pc[r] = "getBooking" /\ call' = call /\ bookings' = bookings
      /\ b \in BookingIds
  <2>1. pc[r] = "getBooking" /\ call' = call /\ bookings' = bookings
    BY DEF ConfirmBooking, ConfirmLocked, Rollback, tables
  <2> QED BY <2>1, CallFields DEF Procs, LockInv, TypeInv, CallsMade
<1>2. ASSUME NEW reason, Rollback(r, reason),
             reason = "not_pending" => bookings[b] # NoBooking /\ bookings[b].status = "cancelled",
             reason \notin {"ok", "expired"}
      PROVE  VerdictTrue(r)' /\ AnswerTrue(r)'
  <2>1. pc'[r] = "done" /\ answer'[r] = reason
    BY <1>1, <1>2 DEF Rollback, LockInv, TypeInv, TypeOK
  <2> QED BY <1>1, <1>2, <2>1 DEF VerdictTrue, AnswerTrue, Justifies, Confirms
<1>3. CASE bookings[b] # NoBooking /\ RowFree(b) /\ ConfirmLocked(r, b)
  <2>1. pc'[r] = "commit" /\ answer' = answer /\ answer[r] = "none"
    BY <1>1, <1>3 DEF ConfirmLocked, LockInv, TypeInv, TypeOK, VerdictTrue
  <2>2. AnswerTrue(r)'
    BY <1>1, <2>1 DEF AnswerTrue, Justifies
  <2>3. Justifies(View(r)'[b], verdict'[r])
    <3>1. CASE bookings[b].status = "confirmed" /\ verdict' = [verdict EXCEPT ![r] = "ok"]
               /\ UNCHANGED pending
      <4>1. writes[r] = Untouched
        BY <1>1 DEF QueuedMatchesWrites, WritingPcs
      <4>2. View(r)'[b] = bookings[b]
        BY <1>1, <3>1, <4>1 DEF View, pending, Untouched
      <4>3. verdict'[r] = "ok"
        BY <1>1, <3>1 DEF LockInv, TypeInv, TypeOK
      <4> QED BY <1>3, <3>1, <4>2, <4>3 DEF Justifies
    <3>2. ASSUME NEW s \in {"confirmed", "cancelled"}, NEW type, NEW result,
                 WriteStatus(r, b, s, type, result),
                 <<s, result>> \in {<<"confirmed", "ok">>, <<"cancelled", "expired">>}
          PROVE  Justifies(View(r)'[b], verdict'[r])
      <4>1. bookings[b] \in Booking
        BY <1>1, <1>3, RowExists DEF LockInv, TypeInv, TypeOK
      <4>2. writes'[r][b] = [bookings[b] EXCEPT !.status = s]
        BY <1>1, <3>2 DEF WriteStatus, Written, WithStatus, LockInv, TypeInv, TypeOK
      <4>3. writes'[r][b] \in Booking /\ writes'[r][b].status = s
        BY <4>1, <4>2, StatusWritten DEF Booking, Statuses
      <4>4. View(r)'[b] = writes'[r][b] /\ writes'[r][b] # NoBooking
        BY <1>1, <4>3, DomainAssumption DEF View
      <4>5. verdict'[r] = result
        BY <1>1, <3>2 DEF WriteStatus, LockInv, TypeInv, TypeOK
      <4> QED BY <3>2, <4>3, <4>4, <4>5 DEF Justifies
    <3>3. \/ /\ bookings[b].status = "confirmed" /\ verdict' = [verdict EXCEPT ![r] = "ok"]
             /\ UNCHANGED pending
          \/ WriteStatus(r, b, "cancelled", "booking_cancelled", "expired")
          \/ WriteStatus(r, b, "confirmed", "booking_confirmed", "ok")
      BY <1>3 DEF ConfirmLocked
    <3> HIDE DEF b
    <3>4. CASE WriteStatus(r, b, "cancelled", "booking_cancelled", "expired")
      BY <3>2, <3>4
    <3>5. CASE WriteStatus(r, b, "confirmed", "booking_confirmed", "ok")
      BY <3>2, <3>5
    <3> QED BY <3>1, <3>3, <3>4, <3>5
  <2> QED BY <1>1, <2>1, <2>2, <2>3 DEF VerdictTrue
<1>4. \/ \E reason \in {"booking_not_found", "forbidden"} : Rollback(r, reason)
      \/ bookings[b] # NoBooking /\ bookings[b].status = "cancelled" /\ Rollback(r, "not_pending")
      \/ bookings[b] # NoBooking /\ RowFree(b) /\ ConfirmLocked(r, b)
  BY DEF ConfirmBooking
<1> QED BY <1>2, <1>3, <1>4

(* r's own steps.                                                          *)
LEMMA OwnAnswers ==
  ASSUME LockInv, QueuedMatchesWrites, NEW r \in Requests, VerdictTrue(r),
         Begin(r) \/ Statement(r) \/ Fail(r) \/ Commit(r)
  PROVE  VerdictTrue(r)' /\ AnswerTrue(r)'
<1>1. r \in Procs /\ pc \in [Procs -> RequestPcs \cup SweeperPcs] /\ answer \in [Requests -> Answers]
  BY DEF Procs, LockInv, TypeInv, TypeOK
<1>2. ASSUME pc[r] # "done", answer' = answer, pc'[r] # "done",
             pc'[r] # "commit" \/ ~Confirms(r)'
      PROVE  VerdictTrue(r)' /\ AnswerTrue(r)'
  BY <1>2 DEF VerdictTrue, AnswerTrue, Justifies
<1>3. ASSUME NEW reason, reason \notin {"ok", "expired", "not_pending"},
             pc' = [pc EXCEPT ![r] = "done"], answer' = [answer EXCEPT ![r] = reason]
      PROVE  VerdictTrue(r)' /\ AnswerTrue(r)'
  BY <1>1, <1>3 DEF VerdictTrue, AnswerTrue, Justifies
<1>4. ASSUME NEW reason \in {"event_not_found", "event_started", "no_seats", "already_booked"},
             Rollback(r, reason)
      PROVE  VerdictTrue(r)' /\ AnswerTrue(r)'
  BY <1>3, <1>4 DEF Rollback
<1>5. CASE Begin(r)
  BY <1>1, <1>2, <1>5 DEF Begin, Goto
<1>6. CASE LockEvent(r)
  <2>1. CASE /\ pc[r] = "lockEvent" /\ answer' = answer
             /\ \E next \in {"cancelExpired", "getBooking"} : pc' = [pc EXCEPT ![r] = next]
    BY <1>1, <1>2, <2>1
  <2> QED BY <1>4, <1>6, <2>1 DEF LockEvent
<1>7. CASE CancelExpiredOfEvent(r)
  BY <1>1, <1>2, <1>7 DEF CancelExpiredOfEvent, Goto
<1>8. CASE CountFreeSeats(r)
  <2>1. CASE pc[r] = "freeSeats" /\ answer' = answer /\ pc' = [pc EXCEPT ![r] = "insert"]
    BY <1>1, <1>2, <2>1
  <2> QED BY <1>4, <1>8, <2>1 DEF CountFreeSeats
<1>9. CASE InsertBooking(r)
  <2>1. CASE /\ pc[r] = "insert" /\ answer' = answer /\ call' = call
             /\ pc' = [pc EXCEPT ![r] = "commit"]
    <3>1. ~Confirms(r)'
      BY <2>1 DEF Confirms, LockInv, TypeInv, CallsMade, BookPcs
    <3> QED BY <1>1, <1>2, <2>1, <3>1
  <2> QED BY <1>4, <1>9, <2>1 DEF InsertBooking
<1>10. CASE Fail(r)
  BY <1>3, <1>10 DEF Fail
<1>11. CASE Commit(r)
  <2>1. /\ pc[r] = "commit" /\ pc' = [pc EXCEPT ![r] = "done"] /\ call' = call
        /\ bookings' = View(r)
        /\ answer' = [answer EXCEPT ![r] = verdict[r]] \/ answer' = [answer EXCEPT ![r] = "error"]
    BY <1>11 DEF Commit, Goto, Publish
  <2>2. CASE answer' = [answer EXCEPT ![r] = verdict[r]]
    BY <1>1, <2>1, <2>2 DEF VerdictTrue, AnswerTrue, Confirms
  <2> QED BY <1>3, <2>1, <2>2
<1> QED BY <1>5, <1>6, <1>7, <1>8, <1>9, <1>10, <1>11, ConfirmAnswers DEF Statement

(* Verdicts and answers are kept true by every step.                       *)
LEMMA AnswersNext ==
  ASSUME LockInv, QueuedMatchesWrites, VerdictsTrue, AnswerMatchesStore, [Next]_vars
  PROVE  VerdictsTrue' /\ AnswerMatchesStore'
<1> SUFFICES ASSUME NEW r \in Requests
             PROVE  VerdictTrue(r)' /\ AnswerTrue(r)'
  BY DEF VerdictsTrue, AnswerMatchesStore, VerdictTrue, AnswerTrue
<1>1. VerdictTrue(r) /\ AnswerTrue(r)
  BY AnswersDef
<1>2. CASE Begin(r) \/ Statement(r) \/ Fail(r) \/ Commit(r)
  BY <1>1, <1>2, OwnAnswers
<1>3. CASE ~(Begin(r) \/ Statement(r) \/ Fail(r) \/ Commit(r))
  <2>1. /\ pc'[r] = pc[r] /\ call'[r] = call[r] /\ writes'[r] = writes[r]
        /\ bookings' = bookings \/ \E p \in Procs : bookings' = View(p)
        /\ verdict'[r] = verdict[r] /\ answer'[r] = answer[r]
    BY <1>3, StepOf, AnswerOf
  <2>2. Confirms(r)' <=> Confirms(r)
    BY <2>1 DEF Confirms
  <2>3. VerdictTrue(r)'
    <3>1. ASSUME pc[r] = "commit", Confirms(r)
          PROVE  Justifies(View(r)'[call[r].booking], verdict[r])
      BY <1>1, <2>1, <3>1, ConfirmedRow, ViewJustifies DEF VerdictTrue
    <3> QED BY <1>1, <2>1, <2>2, <3>1 DEF VerdictTrue
  <2>4. AnswerTrue(r)'
    <3>1. ASSUME Confirms(r) PROVE Justifies(bookings'[call[r].booking], answer[r])
      BY <1>1, <2>1, <3>1, ConfirmedRow, RowJustifies DEF AnswerTrue
    <3> QED BY <2>1, <2>2, <3>1 DEF AnswerTrue
  <2> QED BY <2>3, <2>4
<1> QED BY <1>2, <1>3

-----------------------------------------------------------------------------
(* IInv holds in the initial state.                                        *)
LEMMA IInvInit == Init => IInv
<1> SUFFICES ASSUME Init PROVE IInv
  OBVIOUS
<1>1. BegunBefore /\ CancelledOverdue /\ InsertedPending
  BY DEF Init, BegunBefore, CancelledOverdue, InsertedPending, Overdue, Untouched
<1>2. VerdictsTrue /\ AnswerMatchesStore
  BY DEF Init, VerdictsTrue, AnswerMatchesStore, Confirms, Procs
<1>3. QueuedMatchesWrites
  BY NoNotices DEF Init, QueuedMatchesWrites
<1>4. OutboxMatchesStatus
  BY NoNotices DEF Init, OutboxMatchesStatus, OneEach, RowsOf, Untouched
<1> QED BY <1>1, <1>2, <1>3, <1>4, SeatInvInit DEF IInv

(* Every step keeps IInv.                                                  *)
LEMMA IInvNext == IInv /\ [Next]_vars => IInv'
<1> SUFFICES ASSUME IInv, [Next]_vars PROVE IInv'
  OBVIOUS
<1>1. LockInv
  BY DEF IInv, SeatInv, LockInv, TypeInv
<1>2. StoreStep
  BY <1>1, NextStoreStep DEF IInv
<1>3. SeatInv' /\ BegunBefore'
  BY <1>1, SeatInvNext, BegunNext DEF IInv
<1>4. CancelledOverdue' /\ InsertedPending'
  BY <1>1, <1>2, OverdueNext, InsertedNext DEF IInv
<1>5. VerdictsTrue' /\ AnswerMatchesStore'
  BY <1>1, AnswersNext DEF IInv
<1>6. QueuedMatchesWrites' /\ OutboxMatchesStatus'
  BY <1>1, <1>2, QueuedNext, OwedNext DEF IInv
<1> QED BY <1>3, <1>4, <1>5, <1>6 DEF IInv

(* Every reachable state satisfies the inductive invariant.                *)
THEOREM Inductive == Spec => []IInv
BY IInvInit, IInvNext, PTL DEF Spec

(* No booking is cancelled before its payment deadline: the row a sweep, a *)
(* Book or a late Confirm cancels was overdue when it was locked.          *)
THEOREM CancellationsNotEarly == Spec => []NeverCancelledEarly
<1>1. IInv => NeverCancelledEarly
  BY DEF IInv, CancelledOverdue, Overdue, NeverCancelledEarly
<1> QED BY <1>1, Inductive, PTL

(* What Confirm answered stays true for ever.                              *)
THEOREM AnswersStayTrue == Spec => []AnswerMatchesStore
<1>1. IInv => AnswerMatchesStore
  BY DEF IInv
<1> QED BY <1>1, Inductive, PTL

(* The outbox holds the notices the owners are owed, each once, and no     *)
(* other.                                                                  *)
THEOREM NoticesOwed == Spec => []OutboxMatchesStatus
<1>1. IInv => OutboxMatchesStatus
  BY DEF IInv
<1> QED BY <1>1, Inductive, PTL
=============================================================================
