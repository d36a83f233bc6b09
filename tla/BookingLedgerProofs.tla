------------------------ MODULE BookingLedgerProofs ------------------------
(***************************************************************************)
(* BookingStore implements SeatLedger, for every number of requests,       *)
(* sweeps, events, users and seats.                                        *)
(*                                                                         *)
(* The argument: a transaction takes effect in its commit and a refusal in *)
(* its rollback.  What it has decided before from the rows it read is      *)
(* still true at that step (LedgerInv), because the rows it decided about  *)
(* are locked, the rest of its event only gives up seats, and time only    *)
(* passes.                                                                 *)
(***************************************************************************)
EXTENDS BookingStoreProofs

(* A request has a call once it is submitted, of an event that lies ahead  *)
(* of the moment it was submitted once that event is locked.               *)
Timed(r) ==
  /\ pc[r] = "idle" => call[r] = NoCall
  /\ pc[r] # "idle" => call[r].at <= clock
  /\ pc[r] \in HolderPcs => call[r].at < events[call[r].event].startsAt

(* t is a deadline that was set between the submission of r and now.       *)
Set(r, t) == \E made \in Nat : call[r].at <= made /\ made <= clock /\ t = made + Deadline

(* What a Book writes: its own booking, and cancellations in its event.    *)
Makes(r, row) == \E t \in Nat : Set(r, t) /\ row = NewBooking(call[r].event, call[r].user, t)

BookWrites(r) ==
  pc[r] \in HolderPcs /\ call[r].op = "book" =>
    \A b \in BookingIds : writes[r][b] # NoBooking =>
      \/ bookings[b] = NoBooking /\ Makes(r, writes[r][b])
      \/ /\ bookings[b] # NoBooking
         /\ bookings[b].event = call[r].event
         /\ writes[r][b].status = "cancelled"

BookReady(r) ==
  /\ pc[r] = "insert" => Set(r, expiry[r])
  /\ BookWrites(r)
  /\ HasInserted(r) =>
       /\ verdict[r] = "ok"
       /\ \E b \in BookingIds : writes[r][b] # NoBooking /\ bookings[b] = NoBooking

(* What a Confirm has decided is still true of its booking.                *)
ConfirmReady(r) ==
  pc[r] = "commit" /\ call[r].op = "confirm" =>
    LET b   == call[r].booking
        row == bookings[b]
    IN  /\ row # NoBooking
        /\ row.event = call[r].event
        /\ MayConfirm(call[r], row)
        /\ \A c \in BookingIds \ {b} : writes[r][c] = NoBooking
        /\ \/ row.status = "confirmed" /\ writes[r][b] = NoBooking /\ verdict[r] = "ok"
           \/ /\ row.status = "pending" /\ writes[r][b] = [row EXCEPT !.status = "confirmed"]
              /\ call[r].at <= row.expiresAt /\ verdict[r] = "ok"
           \/ /\ row.status = "pending" /\ writes[r][b] = [row EXCEPT !.status = "cancelled"]
              /\ row.expiresAt < clock /\ verdict[r] = "expired"

(* A sweep writes nothing but cancellations.                               *)
SweepReady(s) == \A b \in BookingIds : writes[s][b] # NoBooking => writes[s][b].status = "cancelled"

LedgerInv ==
  /\ IInv
  /\ \A r \in Requests : Timed(r) /\ BookReady(r) /\ ConfirmReady(r)
  /\ \A s \in Sweepers : SweepReady(s)

-----------------------------------------------------------------------------
(* Time only passes.                                                       *)
LEMMA ClockOn ==
  ASSUME LockInv, StoreStep
  PROVE  clock \in Nat /\ clock' \in Nat /\ clock <= clock'
<1>1. clock \in Nat
  BY DEF LockInv, TypeInv, TypeOK
<1>2. clock' = clock \/ (clock' \in Nat /\ clock <= clock')
  BY Zenon DEF StoreStep, Quiet, Ended, Marked, Adds
<1> QED BY <1>1, <1>2

(* A step is one of r's own, or leaves its deadline alone.                 *)
LEMMA ExpiryOf ==
  ASSUME LockInv, [Next]_vars, NEW r \in Requests
  PROVE  Begin(r) \/ Statement(r) \/ Fail(r) \/ Commit(r) \/ expiry'[r] = expiry[r]
<1> USE DEF LockInv, TypeInv, TypeOK
<1>1. CASE Tick \/ (\E e \in Events : CreateEvent(e)) \/ UNCHANGED vars
  BY <1>1 DEF Tick, CreateEvent, vars, private
<1>2. ASSUME NEW p \in Procs, p # r, EndTx(p) PROVE expiry'[r] = expiry[r]
  BY <1>2 DEF EndTx, ForgetTx, Procs
<1>3. ASSUME NEW q \in Requests, q # r, Begin(q) \/ Statement(q) \/ Fail(q) \/ Commit(q)
      PROVE  expiry'[r] = expiry[r]
  <2>1. q \in Procs /\ r \in Procs
    BY DEF Procs
  <2>2. ASSUME NEW reason, Rollback(q, reason) PROVE expiry'[r] = expiry[r]
    BY <1>2, <1>3, <2>1, <2>2 DEF Rollback
  <2>3. CASE Begin(q) \/ CancelExpiredOfEvent(q)
    BY <2>3 DEF Begin, CancelExpiredOfEvent
  <2>4. CASE LockEvent(q)
    BY <2>2, <2>4 DEF LockEvent, private
  <2>5. CASE CountFreeSeats(q)
    BY <1>3, <2>1, <2>2, <2>5 DEF CountFreeSeats
  <2>6. CASE InsertBooking(q)
    BY <2>2, <2>6 DEF InsertBooking
  <2>7. CASE ConfirmBooking(q)
    BY <2>2, <2>7 DEF ConfirmBooking, ConfirmLocked
  <2>8. CASE Fail(q) \/ Commit(q)
    BY <1>2, <1>3, <2>1, <2>8 DEF Fail, Commit, Publish
  <2> QED BY <1>3, <2>3, <2>4, <2>5, <2>6, <2>7, <2>8 DEF Statement
<1>4. ASSUME NEW s \in Sweepers, SweepStep(s) \/ SweepFail(s)
      PROVE  expiry'[r] = expiry[r]
  <2>1. s \in Procs /\ s # r
    BY StoreAssumption DEF Procs
  <2>2. CASE SweepBegin(s) \/ SweepPick(s)
    BY <2>2 DEF SweepBegin, SweepPick
  <2>3. CASE SweepCommit(s) \/ SweepFail(s)
    BY <1>2, <2>1, <2>3 DEF SweepCommit, SweepFail, Publish
  <2> QED BY <1>4, <2>2, <2>3 DEF SweepStep, SweepStatement
<1> QED BY <1>1, <1>3, <1>4 DEF Next, Unpublished, SweepStep

(* A step is one of s's own, or leaves its writes alone.                   *)
LEMMA SweepOf ==
  ASSUME LockInv, [Next]_vars, NEW s \in Sweepers
  PROVE  SweepStep(s) \/ SweepFail(s) \/ writes'[s] = writes[s]
<1> USE DEF LockInv, TypeInv, TypeOK
<1>1. CASE Tick \/ (\E e \in Events : CreateEvent(e)) \/ UNCHANGED vars
  BY <1>1 DEF Tick, CreateEvent, vars, private, pending
<1>2. ASSUME NEW p \in Procs, p # s, EndTx(p) PROVE writes'[s] = writes[s]
  BY <1>2 DEF EndTx, ForgetTx, Procs
<1>3. ASSUME NEW p \in Procs, p # s, NEW S, NEW row, writes' = Written(p, S, row)
      PROVE  writes'[s] = writes[s]
  BY <1>3 DEF Written, Procs
<1>4. ASSUME NEW q \in Requests, Begin(q) \/ Statement(q) \/ Fail(q) \/ Commit(q)
      PROVE  writes'[s] = writes[s]
  <2>1. q \in Procs /\ s \in Procs /\ q # s
    BY StoreAssumption DEF Procs
  <2>2. ASSUME NEW reason, Rollback(q, reason) PROVE writes'[s] = writes[s]
    BY <1>2, <2>1, <2>2 DEF Rollback
  <2>3. CASE Begin(q)
    BY <2>3 DEF Begin, pending
  <2>4. CASE LockEvent(q)
    BY <2>2, <2>4 DEF LockEvent, private, pending
  <2>5. CASE CancelExpiredOfEvent(q)
    BY <1>3, <2>1, <2>5 DEF CancelExpiredOfEvent
  <2>6. CASE CountFreeSeats(q)
    BY <2>2, <2>6 DEF CountFreeSeats, pending
  <2>7. CASE InsertBooking(q)
    BY <2>1, <2>2, <2>7, InsertCases DEF Inserts
  <2>8. CASE ConfirmBooking(q)
    BY <1>3, <2>1, <2>2, <2>8 DEF ConfirmBooking, ConfirmLocked, WriteStatus, pending
  <2>9. CASE Fail(q) \/ Commit(q)
    BY <1>2, <2>1, <2>9 DEF Fail, Commit, Publish
  <2> QED BY <1>4, <2>3, <2>4, <2>5, <2>6, <2>7, <2>8, <2>9 DEF Statement
<1>5. ASSUME NEW q \in Sweepers, q # s, SweepStep(q) \/ SweepFail(q)
      PROVE  writes'[s] = writes[s]
  <2>1. q \in Procs
    BY DEF Procs
  <2>2. CASE SweepBegin(q)
    BY <2>2 DEF SweepBegin, pending
  <2>3. CASE SweepPick(q)
    BY <1>3, <1>5, <2>1, <2>3 DEF SweepPick
  <2>4. CASE SweepCommit(q) \/ SweepFail(q)
    BY <1>2, <1>5, <2>1, <2>4 DEF SweepCommit, SweepFail, Publish
  <2> QED BY <1>5, <2>2, <2>3, <2>4 DEF SweepStep, SweepStatement
<1> QED BY <1>1, <1>4, <1>5 DEF Next, Unpublished, SweepStep

(* A row that r has written is not touched by the others.                  *)
LEMMA RowKept ==
  ASSUME LockInv, NEW r \in Procs, NEW b \in BookingIds, writes[r][b] # NoBooking,
         bookings' = bookings \/ \E p \in Procs : p # r /\ bookings' = View(p)
  PROVE  bookings'[b] = bookings[b]
<1>1. ASSUME NEW p \in Procs, p # r PROVE View(p)[b] = bookings[b]
  <2>1. bookingLock[b] = r
    BY DEF LockInv, WritesLocked
  <2>2. writes[p][b] = NoBooking
    BY <1>1, <2>1 DEF LockInv, WritesLocked
  <2> QED BY <2>2 DEF View
<1> QED BY <1>1

(* A deadline that was set stays one.                                      *)
LEMMA SetKept ==
  ASSUME NEW r \in Requests, NEW t, Set(r, t), call'[r] = call[r],
         clock \in Nat, clock' \in Nat, clock <= clock'
  PROVE  Set(r, t)'
BY DEF Set

(* A row that a Book makes stays one it may publish while time passes.     *)
LEMMA MakesKept ==
  ASSUME NEW r \in Requests, NEW row, Makes(r, row), call'[r] = call[r],
         clock \in Nat, clock' \in Nat, clock <= clock'
  PROVE  \E t \in Nat : Set(r, t)' /\ row = NewBooking(call'[r].event, call'[r].user, t)
BY SetKept DEF Makes

(* What r has decided survives the steps of the others.                    *)
LEMMA ReadyKept ==
  ASSUME LockInv, NEW r \in Requests, Timed(r), BookReady(r), ConfirmReady(r),
         clock \in Nat, clock' \in Nat, clock <= clock',
         \A e \in Events : events[e] # NoEvent => events'[e] = events[e],
         pc'[r] = pc[r], call'[r] = call[r], writes'[r] = writes[r],
         verdict'[r] = verdict[r], expiry'[r] = expiry[r],
         bookings' = bookings \/ \E p \in Procs : p # r /\ bookings' = View(p)
  PROVE  Timed(r)' /\ BookReady(r)' /\ ConfirmReady(r)'
<1>1. r \in Procs
  BY DEF Procs
<1>2. Timed(r)'
  <2>1. pc[r] # "idle" => call[r].at <= clock'
    <3>1. pc[r] # "idle" => call[r].at \in Nat
      BY DEF LockInv, TypeInv, CallsMade, Call, BookCall, ConfirmCall
    <3> QED BY <3>1 DEF Timed
  <2>2. pc[r] \in HolderPcs => events'[call[r].event] = events[call[r].event]
    BY LockedEvent DEF LockInv, EventsLocked
  <2> QED BY <2>1, <2>2 DEF Timed
<1>3. \A b \in BookingIds : writes[r][b] # NoBooking => bookings'[b] = bookings[b]
  BY <1>1, RowKept
<1>4. BookReady(r)'
  <2>1. pc'[r] = "insert" => Set(r, expiry[r])'
    BY DEF BookReady, Set
  <2>2. BookWrites(r)'
    <3> SUFFICES ASSUME pc[r] \in HolderPcs, call[r].op = "book",
                        NEW b \in BookingIds, writes[r][b] # NoBooking
                 PROVE  \/ bookings[b] = NoBooking /\ Makes(r, writes[r][b])'
                        \/ /\ bookings[b] # NoBooking
                           /\ bookings[b].event = call[r].event
                           /\ writes[r][b].status = "cancelled"
      BY <1>3 DEF BookWrites
    <3>1. CASE bookings[b] = NoBooking
      <4>1. Makes(r, writes[r][b])
        BY <3>1 DEF BookReady, BookWrites
      <4> QED BY <3>1, <4>1, MakesKept DEF Makes
    <3>2. CASE bookings[b] # NoBooking
      BY <3>2 DEF BookReady, BookWrites
    <3> QED BY <3>1, <3>2
  <2>3. HasInserted(r)' =>
          /\ verdict'[r] = "ok"
          /\ \E b \in BookingIds : writes'[r][b] # NoBooking /\ bookings'[b] = NoBooking
    BY <1>3 DEF BookReady, HasInserted
  <2> QED BY <2>1, <2>2, <2>3 DEF BookReady
<1>5. ConfirmReady(r)'
  <2> SUFFICES ASSUME pc[r] = "commit", call[r].op = "confirm"
               PROVE  ConfirmReady(r)'
    BY DEF ConfirmReady
  <2> DEFINE b == call[r].booking
  <2>1. b \in BookingIds
    BY CallFields DEF LockInv, TypeInv, CallsMade
  <2>2. bookings[b] \in Booking
    BY <2>1, RowExists DEF ConfirmReady, LockInv, TypeInv, TypeOK
  <2>3. bookings'[b] = bookings[b]
    <3>1. CASE writes[r][b] # NoBooking
      BY <1>3, <2>1, <3>1
    <3>2. CASE writes[r][b] = NoBooking
      <4>1. bookings[b].status = "confirmed" /\ bookings[b] # NoBooking
        <5>1. [bookings[b] EXCEPT !.status = "confirmed"] \in Booking
              /\ [bookings[b] EXCEPT !.status = "cancelled"] \in Booking
          BY <2>2, StatusWritten DEF Statuses
        <5> QED BY <3>2, <5>1, DomainAssumption DEF ConfirmReady
      <4> QED BY <2>1, <4>1, ViewRow
    <3> QED BY <3>1, <3>2
  <2>4. bookings[b].expiresAt < clock => bookings[b].expiresAt < clock'
    BY <2>2 DEF Booking
  <2> QED BY <2>3, <2>4 DEF ConfirmReady
<1> QED BY <1>2, <1>4, <1>5

-----------------------------------------------------------------------------
(* r's own steps keep what r knows of time.                                *)
LEMMA OwnTimed ==
  ASSUME LockInv, NEW r \in Requests, Timed(r),
         Begin(r) \/ Statement(r) \/ Fail(r) \/ Commit(r)
  PROVE  Timed(r)'
<1>1. r \in Procs /\ pc \in [Procs -> RequestPcs \cup SweeperPcs] /\ clock \in Nat
  BY DEF Procs, LockInv, TypeInv, TypeOK
<1>2. CASE Begin(r)
  <2>1. PICK c \in Call({clock}) : call' = [call EXCEPT ![r] = c]
    BY <1>2 DEF Begin
  <2>2. c.at = clock /\ call'[r] = c
    BY <2>1 DEF Call, BookCall, ConfirmCall, LockInv, TypeInv, TypeOK
  <2>3. pc'[r] = "lockEvent" /\ clock' = clock
    BY <1>1, <1>2 DEF Begin, Goto
  <2> QED BY <1>1, <2>2, <2>3 DEF Timed, HolderPcs, BookPcs
<1>3. ASSUME pc[r] # "idle", pc'[r] # "idle", pc[r] \in HolderPcs \/ pc'[r] \notin HolderPcs,
             UNCHANGED <<clock, events, call>>
      PROVE  Timed(r)'
  BY <1>3 DEF Timed
<1>4. ASSUME NEW reason, Rollback(r, reason), pc[r] # "idle" PROVE Timed(r)'
  <2>1. pc'[r] = "done" /\ UNCHANGED <<clock, events, call>>
    BY <1>1, <1>4 DEF Rollback, tables
  <2> QED BY <1>3, <1>4, <2>1 DEF HolderPcs, BookPcs
<1>5. CASE LockEvent(r)
  <2> DEFINE e == call[r].event
  <2>1. e \in Events /\ call[r].at \in Nat /\ pc[r] = "lockEvent"
    BY <1>5, CallFields DEF LockEvent, LockInv, TypeInv, CallsMade, Call, BookCall, ConfirmCall
  <2>2. CASE /\ events[e] # NoEvent /\ ~(events[e].startsAt <= clock)
             /\ UNCHANGED <<clock, events, call>>
    <3>1. events[e].startsAt \in Nat
      BY <2>1, <2>2 DEF LockInv, TypeInv, TypeOK, EventTable, Event
    <3>2. call[r].at < events[e].startsAt /\ call[r].at <= clock
      BY <1>1, <2>1, <2>2, <3>1 DEF Timed
    <3>3. pc'[r] # "idle"
      BY <1>1, <1>5, <2>2 DEF LockEvent, Rollback
    <3> QED BY <2>2, <3>2, <3>3 DEF Timed
  <2>3. \/ \E reason \in {"event_not_found", "event_started"} : Rollback(r, reason)
        \/ /\ events[e] # NoEvent /\ ~(events[e].startsAt <= clock)
           /\ UNCHANGED <<clock, events, call>>
    BY <1>5 DEF LockEvent, tables
  <2> QED BY <1>4, <2>1, <2>2, <2>3
<1>6. CASE CancelExpiredOfEvent(r)
  BY <1>1, <1>3, <1>6 DEF CancelExpiredOfEvent, Goto, tables, HolderPcs, BookPcs
<1>7. CASE CountFreeSeats(r)
  BY <1>1, <1>3, <1>4, <1>7 DEF CountFreeSeats, tables, HolderPcs, BookPcs
<1>8. CASE InsertBooking(r)
  <2>1. pc[r] = "insert"
    BY <1>8 DEF InsertBooking
  <2>2. CASE pc' = [pc EXCEPT ![r] = "commit"] /\ UNCHANGED <<clock, events, call>>
    BY <1>1, <1>3, <2>1, <2>2 DEF HolderPcs, BookPcs
  <2> QED BY <1>4, <1>8, <2>1, <2>2 DEF InsertBooking, tables
<1>9. CASE ConfirmBooking(r)
  <2>1. pc[r] = "getBooking"
    BY <1>9 DEF ConfirmBooking
  <2>2. CASE pc' = [pc EXCEPT ![r] = "commit"] /\ UNCHANGED <<clock, events, call>>
    BY <1>1, <1>3, <2>1, <2>2 DEF HolderPcs
  <2> QED BY <1>4, <1>9, <2>1, <2>2 DEF ConfirmBooking, ConfirmLocked, tables
<1>10. CASE Fail(r) \/ Commit(r)
  BY <1>1, <1>3, <1>10 DEF Fail, Commit, Goto, tables, HolderPcs, BookPcs
<1> QED BY <1>2, <1>5, <1>6, <1>7, <1>8, <1>9, <1>10 DEF Statement, Begin

(* r's own steps that leave it outside of its transaction or before the    *)
(* rows of its event.                                                      *)
LEMMA NothingReady ==
  ASSUME NEW r \in Requests, pc'[r] \notin HolderPcs
  PROVE  BookReady(r)' /\ ConfirmReady(r)'
BY DEF BookReady, BookWrites, ConfirmReady, HasInserted, HolderPcs, BookPcs

(* The cancellations of a Book.                                            *)
LEMMA CancelReady ==
  ASSUME LockInv, QueuedMatchesWrites, NEW r \in Requests, CancelExpiredOfEvent(r)
  PROVE  BookReady(r)' /\ ConfirmReady(r)'
<1> DEFINE due == {b \in DueRows(View(r), now[r]) : View(r)[b].event = call[r].event}
<1>1. /\ r \in Procs /\ pc[r] = "cancelExpired" /\ pc'[r] = "freeSeats"
      /\ UNCHANGED <<bookings, call>>
      /\ writes' = Written(r, due, WithStatus(View(r), due, "cancelled"))
  BY DEF CancelExpiredOfEvent, Goto, Procs, tables, LockInv, TypeInv, TypeOK
<1>2. writes[r] = Untouched
  BY <1>1 DEF QueuedMatchesWrites, WritingPcs
<1>3. \A b \in BookingIds : View(r)[b] = bookings[b]
  BY <1>2 DEF View, Untouched
<1>4. ASSUME NEW b \in BookingIds, writes'[r][b] # NoBooking
      PROVE  /\ bookings[b] # NoBooking
             /\ bookings[b].event = call[r].event
             /\ writes'[r][b].status = "cancelled"
  <2>1. writes'[r][b] = IF b \in due THEN WithStatus(View(r), due, "cancelled")[b] ELSE writes[r][b]
    BY <1>1 DEF Written, LockInv, TypeInv, TypeOK
  <2>2. b \in due
    BY <1>2, <1>4, <2>1 DEF Untouched
  <2>3. bookings[b] \in Booking /\ bookings[b].event = call[r].event
    BY <1>3, <2>2, RowExists DEF DueRows, LockInv, TypeInv, TypeOK
  <2>4. writes'[r][b] = [bookings[b] EXCEPT !.status = "cancelled"]
    BY <1>3, <2>1, <2>2 DEF WithStatus
  <2> QED BY <2>3, <2>4, DomainAssumption DEF Booking
<1> QED BY <1>1, <1>4 DEF BookReady, BookWrites, ConfirmReady, HasInserted

(* The count of the free seats fixes the deadline.                         *)
LEMMA CountReady ==
  ASSUME LockInv, NEW r \in Requests, Timed(r), BookReady(r), CountFreeSeats(r)
  PROVE  BookReady(r)' /\ ConfirmReady(r)'
<1>1. r \in Procs /\ pc \in [Procs -> RequestPcs \cup SweeperPcs] /\ pc[r] = "freeSeats"
  BY DEF Procs, LockInv, TypeInv, TypeOK, CountFreeSeats
<1>2. CASE Rollback(r, "no_seats")
  BY <1>1, <1>2, NothingReady DEF Rollback, HolderPcs, BookPcs
<1>3. CASE /\ pc' = [pc EXCEPT ![r] = "insert"]
           /\ expiry' = [expiry EXCEPT ![r] = ExpiresAt]
           /\ UNCHANGED <<clock, bookings, writes, call>>
  <2>1. expiry'[r] = clock + Deadline /\ clock \in Nat
    BY <1>3 DEF ExpiresAt, Procs, LockInv, TypeInv, TypeOK
  <2>2. Set(r, expiry[r])'
    BY <1>1, <1>3, <2>1 DEF Set, Timed
  <2>3. BookWrites(r)'
    BY <1>1, <1>3 DEF BookReady, BookWrites, Makes, Set, HolderPcs, BookPcs
  <2> QED BY <1>1, <1>3, <2>2, <2>3 DEF BookReady, ConfirmReady, HasInserted
<1> QED BY <1>2, <1>3 DEF CountFreeSeats, tables, pending

(* The insert.                                                             *)
LEMMA InsertReady ==
  ASSUME LockInv, NEW r \in Requests, BookReady(r), InsertBooking(r)
  PROVE  BookReady(r)' /\ ConfirmReady(r)'
<1>1. /\ r \in Procs /\ pc \in [Procs -> RequestPcs \cup SweeperPcs] /\ pc[r] = "insert"
      /\ call[r] \in Call(Nat) /\ call[r].op = "book"
  BY DEF Procs, LockInv, TypeInv, TypeOK, CallsMade, BookPcs, InsertBooking
<1>2. CASE Rollback(r, "already_booked")
  BY <1>1, <1>2, NothingReady DEF Rollback, HolderPcs, BookPcs
<1>3. ASSUME NEW b \in BookingIds, bookings[b] = NoBooking,
             writes' = [writes EXCEPT ![r][b] = NewBooking(call[r].event, call[r].user, expiry[r])],
             pc' = [pc EXCEPT ![r] = "commit"], verdict' = [verdict EXCEPT ![r] = "ok"],
             UNCHANGED <<clock, bookings, call, expiry>>
      PROVE  BookReady(r)' /\ ConfirmReady(r)'
  <2> DEFINE new == NewBooking(call[r].event, call[r].user, expiry[r])
  <2>1. new \in Booking /\ expiry[r] \in Nat
    BY <1>1, CallFields DEF NewBooking, Booking, Statuses, LockInv, TypeInv, TypeOK
  <2>2. pc'[r] = "commit" /\ verdict'[r] = "ok"
    BY <1>1, <1>3 DEF LockInv, TypeInv, TypeOK, Procs
  <2>3. \A c \in BookingIds : writes'[r][c] = IF c = b THEN new ELSE writes[r][c]
    BY <1>1, <1>3 DEF LockInv, TypeInv, TypeOK, BookingTable
  <2>4. \E t \in Nat : Set(r, t)' /\ new = NewBooking(call'[r].event, call'[r].user, t)
    BY <1>1, <1>3, <2>1 DEF BookReady, Set
  <2>5. BookWrites(r)'
    <3> HIDE DEF new
    <3> SUFFICES ASSUME NEW c \in BookingIds, writes'[r][c] # NoBooking
                 PROVE  \/ bookings[c] = NoBooking /\ Makes(r, writes[r][c])'
                        \/ /\ bookings[c] # NoBooking
                           /\ bookings[c].event = call[r].event
                           /\ writes'[r][c].status = "cancelled"
      BY <1>3 DEF BookWrites
    <3>1. CASE c = b
      <4>1. writes'[r][c] = new
        BY <2>3, <3>1
      <4> QED BY <1>3, <2>4, <3>1, <4>1 DEF Makes, Set
    <3>2. CASE c # b
      <4>1. writes'[r][c] = writes[r][c]
        BY <2>3, <3>2
      <4>2. \/ bookings[c] = NoBooking /\ Makes(r, writes[r][c])
            \/ /\ bookings[c] # NoBooking
               /\ bookings[c].event = call[r].event
               /\ writes[r][c].status = "cancelled"
        BY <1>1, <4>1 DEF BookReady, BookWrites, HolderPcs, BookPcs
      <4> QED BY <1>3, <4>1, <4>2 DEF Makes, Set
    <3> QED BY <3>1, <3>2
  <2>6. writes'[r][b] # NoBooking /\ bookings'[b] = NoBooking
    BY <1>3, <2>1, <2>3, DomainAssumption
  <2> QED BY <1>1, <1>3, <2>2, <2>5, <2>6 DEF BookReady, ConfirmReady
<1> QED BY <1>2, <1>3 DEF InsertBooking, tables

(* What Confirm decides.                                                   *)
LEMMA ConfirmBookingReady ==
  ASSUME LockInv, QueuedMatchesWrites, NEW r \in Requests, Timed(r), ConfirmBooking(r)
  PROVE  BookReady(r)' /\ ConfirmReady(r)'
<1> DEFINE b == call[r].booking
<1>1. /\ r \in Procs /\ pc \in [Procs -> RequestPcs \cup SweeperPcs] /\ pc[r] = "getBooking"
      /\ call[r] \in Call(Nat) /\ call[r].op = "confirm"
  BY DEF Procs, LockInv, TypeInv, TypeOK, CallsMade, ConfirmBooking
<1>2. b \in BookingIds /\ writes[r] = Untouched
  BY <1>1, CallFields DEF QueuedMatchesWrites, WritingPcs
<1>3. ASSUME NEW reason, Rollback(r, reason) PROVE BookReady(r)' /\ ConfirmReady(r)'
  BY <1>1, <1>3, NothingReady DEF Rollback, HolderPcs, BookPcs
<1>4. CASE /\ bookings[b] # NoBooking /\ bookings[b].event = call[r].event
           /\ MayConfirm(call[r], bookings[b]) /\ ConfirmLocked(r, b)
  <2>1. /\ pc'[r] = "commit" /\ UNCHANGED <<clock, bookings, call>>
        /\ bookings[b] \in Booking /\ clock \in Nat /\ call[r].at <= clock /\ call[r].at \in Nat
    BY <1>1, <1>2, <1>4, RowExists
       DEF ConfirmLocked, tables, LockInv, TypeInv, TypeOK, Timed, Call, ConfirmCall, BookCall
  <2>2. BookReady(r)'
    BY <1>1, <2>1 DEF BookReady, BookWrites, HasInserted
  <2>3. CASE /\ bookings[b].status = "confirmed" /\ verdict' = [verdict EXCEPT ![r] = "ok"]
             /\ UNCHANGED writes
    <3>1. verdict'[r] = "ok" /\ \A c \in BookingIds : writes'[r][c] = NoBooking
      BY <1>1, <1>2, <2>3 DEF LockInv, TypeInv, TypeOK, Untouched
    <3> QED BY <1>2, <1>4, <2>1, <2>2, <2>3, <3>1 DEF ConfirmReady
  <2>4. ASSUME NEW s \in {"confirmed", "cancelled"}, NEW type, NEW result,
               WriteStatus(r, b, s, type, result)
        PROVE  /\ verdict'[r] = result
               /\ writes'[r][b] = [bookings[b] EXCEPT !.status = s]
               /\ \A c \in BookingIds \ {b} : writes'[r][c] = NoBooking
    BY <1>1, <1>2, <2>4
       DEF WriteStatus, Written, WithStatus, LockInv, TypeInv, TypeOK, Untouched
  <2>5. CASE /\ bookings[b].status = "pending" /\ DeadlinePassed(bookings[b])
             /\ WriteStatus(r, b, "cancelled", "booking_cancelled", "expired")
    <3>1. bookings[b].expiresAt < clock
      BY <2>1, <2>5 DEF DeadlinePassed, Booking
    <3>2. /\ verdict'[r] = "expired"
          /\ writes'[r][b] = [bookings[b] EXCEPT !.status = "cancelled"]
          /\ \A c \in BookingIds \ {b} : writes'[r][c] = NoBooking
      BY <2>4, <2>5
    <3> QED BY <1>4, <2>1, <2>2, <2>5, <3>1, <3>2 DEF ConfirmReady
  <2>6. CASE /\ bookings[b].status = "pending" /\ ~DeadlinePassed(bookings[b])
             /\ WriteStatus(r, b, "confirmed", "booking_confirmed", "ok")
    <3>1. call[r].at <= bookings[b].expiresAt
      BY <2>1, <2>6 DEF DeadlinePassed, Booking
    <3>2. /\ verdict'[r] = "ok"
          /\ writes'[r][b] = [bookings[b] EXCEPT !.status = "confirmed"]
          /\ \A c \in BookingIds \ {b} : writes'[r][c] = NoBooking
      BY <2>4, <2>6
    <3> QED BY <1>4, <2>1, <2>2, <2>6, <3>1, <3>2 DEF ConfirmReady
  <2> QED BY <1>4, <2>3, <2>5, <2>6 DEF ConfirmLocked, pending
<1>5. \/ \E reason \in {"booking_not_found", "forbidden", "not_pending"} : Rollback(r, reason)
      \/ /\ bookings[b] # NoBooking /\ bookings[b].event = call[r].event
         /\ MayConfirm(call[r], bookings[b]) /\ ConfirmLocked(r, b)
  BY DEF ConfirmBooking
<1> QED BY <1>3, <1>4, <1>5

(* r's own steps.                                                          *)
LEMMA OwnReady ==
  ASSUME LockInv, QueuedMatchesWrites, NEW r \in Requests, Timed(r), BookReady(r),
         Begin(r) \/ Statement(r) \/ Fail(r) \/ Commit(r)
  PROVE  BookReady(r)' /\ ConfirmReady(r)'
<1>1. r \in Procs /\ pc \in [Procs -> RequestPcs \cup SweeperPcs]
  BY DEF Procs, LockInv, TypeInv, TypeOK
<1>2. CASE Begin(r) \/ Fail(r) \/ Commit(r)
  BY <1>1, <1>2, NothingReady DEF Begin, Fail, Commit, Goto, HolderPcs, BookPcs
<1>3. CASE LockEvent(r)
  <2>1. CASE \E reason : Rollback(r, reason)
    BY <1>1, <2>1, NothingReady DEF Rollback, HolderPcs, BookPcs
  <2>2. CASE /\ \E next \in {"cancelExpired", "getBooking"} : pc' = [pc EXCEPT ![r] = next]
             /\ UNCHANGED writes
    <3>1. writes'[r] = Untouched
      BY <1>3, <2>2 DEF LockEvent, QueuedMatchesWrites, WritingPcs, Procs
    <3>2. pc'[r] \in {"cancelExpired", "getBooking"}
      BY <1>1, <2>2
    <3> QED BY <3>1, <3>2 DEF BookReady, BookWrites, ConfirmReady, HasInserted, Untouched
  <2> QED BY <1>3, <2>1, <2>2 DEF LockEvent, private, pending
<1> QED BY <1>2, <1>3, CancelReady, CountReady, InsertReady, ConfirmBookingReady DEF Statement

(* The writes of a sweep.                                                  *)
LEMMA SweepReadyNext ==
  ASSUME LockInv, [Next]_vars, NEW s \in Sweepers, SweepReady(s),
         pc[s] \notin WritingPcs => writes[s] = Untouched
  PROVE  SweepReady(s)'
<1>1. s \in Procs
  BY DEF Procs
<1>2. CASE writes'[s] = writes[s]
  BY <1>2 DEF SweepReady
<1>3. CASE EndTx(s)
  <2>1. writes'[s] = Untouched
    BY <1>1, <1>3 DEF EndTx, ForgetTx, LockInv, TypeInv, TypeOK
  <2> QED BY <2>1 DEF SweepReady, Untouched
<1>4. CASE SweepPick(s)
  <2>1. PICK T \in Oldest(Pickable(s)) : writes' = Written(s, T, WithStatus(bookings, T, "cancelled"))
    BY <1>4 DEF SweepPick
  <2>2. writes[s] = Untouched
    BY <1>4 DEF SweepPick, Goto, WritingPcs
  <2>3. ASSUME NEW b \in BookingIds, writes'[s][b] # NoBooking
        PROVE  writes'[s][b].status = "cancelled"
    <3>1. writes'[s][b] = IF b \in T THEN WithStatus(bookings, T, "cancelled")[b] ELSE writes[s][b]
      BY <1>1, <2>1 DEF Written, LockInv, TypeInv, TypeOK
    <3>2. b \in T
      BY <2>2, <2>3, <3>1 DEF Untouched
    <3>3. bookings[b] \in Booking
      BY <3>2, RowExists DEF Oldest, Pickable, DueRows, LockInv, TypeInv, TypeOK
    <3>4. writes'[s][b] = [bookings[b] EXCEPT !.status = "cancelled"]
      BY <3>1, <3>2 DEF WithStatus
    <3> QED BY <3>3, <3>4 DEF Booking
  <2> QED BY <2>3 DEF SweepReady
<1>5. CASE SweepBegin(s)
  BY <1>2, <1>5 DEF SweepBegin, pending
<1> QED BY <1>2, <1>3, <1>4, <1>5, SweepOf
      DEF SweepStep, SweepStatement, SweepCommit, SweepFail, Publish

(* Nothing is decided in the initial state.                                *)
LEMMA LedgerInvInit == Init => LedgerInv
<1> SUFFICES ASSUME Init PROVE LedgerInv
  OBVIOUS
<1>1. \A r \in Requests : Timed(r) /\ BookReady(r) /\ ConfirmReady(r)
  BY DEF Init, Timed, BookReady, BookWrites, ConfirmReady, HasInserted, HolderPcs, BookPcs, Procs
<1>2. \A s \in Sweepers : SweepReady(s)
  BY DEF Init, SweepReady, Untouched, Procs
<1> QED BY <1>1, <1>2, IInvInit DEF LedgerInv

(* What a transaction has decided stays true until its commit: steps of    *)
(* its own and those of the others keep LedgerInv.                         *)
LEMMA LedgerInvNext == LedgerInv /\ [Next]_vars => LedgerInv'
<1> SUFFICES ASSUME LedgerInv, [Next]_vars PROVE LedgerInv'
  OBVIOUS
<1>1. LockInv /\ QueuedMatchesWrites /\ IInv'
  BY IInvNext DEF LedgerInv, IInv, SeatInv, LockInv, TypeInv
<1>2. clock \in Nat /\ clock' \in Nat /\ clock <= clock'
  BY <1>1, NextStoreStep, ClockOn DEF LedgerInv, IInv
<1>3. ASSUME NEW r \in Requests PROVE Timed(r)' /\ BookReady(r)' /\ ConfirmReady(r)'
  <2>1. Timed(r) /\ BookReady(r) /\ ConfirmReady(r)
    BY DEF LedgerInv
  <2>2. CASE Begin(r) \/ Statement(r) \/ Fail(r) \/ Commit(r)
    BY <1>1, <2>1, <2>2, OwnTimed, OwnReady
  <2>3. CASE ~(Begin(r) \/ Statement(r) \/ Fail(r) \/ Commit(r))
    <3>1. /\ pc'[r] = pc[r] /\ call'[r] = call[r] /\ writes'[r] = writes[r]
          /\ verdict'[r] = verdict[r] /\ expiry'[r] = expiry[r]
          /\ bookings' = bookings \/ \E p \in Procs : p # r /\ bookings' = View(p)
      BY <1>1, <2>3, StepOf, AnswerOf, ExpiryOf
    <3>2. \A e \in Events : events[e] # NoEvent => events'[e] = events[e]
      BY <1>1, EventsKept
    <3> QED BY <1>1, <1>2, <2>1, <3>1, <3>2, ReadyKept
  <2> QED BY <2>2, <2>3
<1>4. ASSUME NEW s \in Sweepers PROVE SweepReady(s)'
  <2>1. SweepReady(s) /\ (pc[s] \notin WritingPcs => writes[s] = Untouched)
    BY <1>1 DEF LedgerInv, QueuedMatchesWrites, Procs
  <2> QED BY <1>1, <2>1, SweepReadyNext
<1> QED BY <1>1, <1>3, <1>4 DEF LedgerInv

-----------------------------------------------------------------------------
(* The notices the ledger counts: of the creation of each booking and of   *)
(* its present status.                                                     *)
Owed(table) ==
  {x \in BookingIds \X NotificationTypes :
     /\ table[x[1]] # NoBooking
     /\ x[2] = "booking_created" \/ x[2] = NoticeOf(table[x[1]].status)}

(* The notices whose rows are all in out.                                  *)
NoticesIn(out) == {x \in BookingIds \X NotificationTypes : Enqueued({x[1]}, x[2]) \subseteq out}

(* An outbox of all notices the statuses ask for owes what Owed counts.    *)
LEMMA NoticesAre ==
  ASSUME NEW out, NEW table,
         out = NoticesOf(table) \cup OneEach(RowsOf(table), "booking_created")
  PROVE  NoticesIn(out) = Owed(table)
<1> SUFFICES ASSUME NEW b \in BookingIds, NEW type \in NotificationTypes
             PROVE  Enqueued({b}, type) \subseteq out <=>
                      /\ table[b] # NoBooking
                      /\ type = "booking_created" \/ type = NoticeOf(table[b].status)
  BY DEF Owed, NoticesIn
<1>1. ASSUME NEW c \in Channels
      PROVE  <<b, type, c>> \in out <=>
                      /\ table[b] # NoBooking
                      /\ type = "booking_created" \/ type = NoticeOf(table[b].status)
  <2>1. <<b, type, c>> \in OneEach(RowsOf(table), "booking_created") <=>
          table[b] # NoBooking /\ type = "booking_created"
    BY DEF OneEach, RowsOf
  <2> QED BY <2>1, NoticeMember
<1>2. "log" \in Channels
  BY DEF Channels
<1>3. Enqueued({b}, type) \subseteq out <=> \A c \in Channels : <<b, type, c>> \in out
  <2>1. ASSUME NEW c \in Channels PROVE <<b, type, c>> \in Enqueued({b}, type)
    BY DEF Enqueued
  <2>2. ASSUME NEW x \in Enqueued({b}, type) PROVE \E c \in Channels : x = <<b, type, c>>
    BY DEF Enqueued
  <2> QED BY <2>1, <2>2
<1> QED BY <1>1, <1>2, <1>3

(* What a commit does to the rows: those of S leave pending for s, those of *)
(* N are new and pending, and all others stay as they were.                 *)
Turned(old, new, S, s) ==
  \A b \in S : /\ old[b] # NoBooking /\ old[b].status = "pending"
               /\ new[b] # NoBooking /\ new[b].status = s

Added(old, new, N) ==
  \A b \in N : old[b] = NoBooking /\ new[b] # NoBooking /\ new[b].status = "pending"

OthersSame(old, new, S, N) ==
  \A b \in BookingIds : b \notin S /\ b \notin N => new[b] = old[b]

(* What it counts more after rows of S got status s and those of N were    *)
(* inserted.                                                               *)
LEMMA OwedMore ==
  ASSUME NEW old, NEW new, NEW S \in SUBSET BookingIds, NEW N \in SUBSET BookingIds,
         NEW s \in {"confirmed", "cancelled"},
         Turned(old, new, S, s), Added(old, new, N), OthersSame(old, new, S, N)
  PROVE  Owed(new) = Owed(old) \cup (N \X {"booking_created"}) \cup (S \X {NoticeOf(s)})
<1> SUFFICES ASSUME NEW b \in BookingIds, NEW type \in NotificationTypes
             PROVE  <<b, type>> \in Owed(new) <=>
                      \/ <<b, type>> \in Owed(old)
                      \/ b \in N /\ type = "booking_created"
                      \/ b \in S /\ type = NoticeOf(s)
  <2>1. Owed(new) \subseteq BookingIds \X NotificationTypes
        /\ Owed(old) \subseteq BookingIds \X NotificationTypes
    BY DEF Owed
  <2>2. "booking_created" \in NotificationTypes /\ NoticeOf(s) \in NotificationTypes
    BY DEF NotificationTypes, NoticeOf
  <2> QED BY <2>1, <2>2
<1>1. ASSUME NEW table
      PROVE  <<b, type>> \in Owed(table) <=>
                /\ table[b] # NoBooking
                /\ type = "booking_created" \/ type = NoticeOf(table[b].status)
  BY DEF Owed
<1>2. NoticeOf("pending") = "booking_created"
  BY DEF NoticeOf
<1> QED BY <1>1, <1>2 DEF Turned, Added, OthersSame

(* The ledger uses the words of BookingDomain.                             *)
LEMMA SameWords ==
  ASSUME NEW table, NEW evs, NEW S, NEW s, NEW e, NEW u, NEW t, NEW c
  PROVE  /\ Ledger!WithStatus(table, S, s) = WithStatus(table, S, s)
         /\ Ledger!ActiveOf(table, e) = ActiveOf(table, e)
         /\ Ledger!ActiveOwnedBy(table, e, u) = ActiveOwnedBy(table, e, u)
         /\ Ledger!FreeSeats(evs, table, e) = FreeSeats(evs, table, e)
         /\ Ledger!DueRows(table, t) = DueRows(table, t)
         /\ Ledger!NewBooking(e, u, t) = NewBooking(e, u, t)
         /\ Ledger!MayConfirm(c, table) <=> MayConfirm(c, table)
         /\ Ledger!Call(S) = Call(S)
<1>1. /\ Ledger!ActiveOf(table, e) = ActiveOf(table, e)
      /\ Ledger!NewBooking(e, u, t) = NewBooking(e, u, t)
      /\ Ledger!MayConfirm(c, table) <=> MayConfirm(c, table)
  BY DEF Ledger!ActiveOf, ActiveOf, Ledger!ActiveStatuses, ActiveStatuses,
         Ledger!NewBooking, NewBooking, Ledger!MayConfirm, MayConfirm
<1>2. Ledger!WithStatus(table, S, s) = WithStatus(table, S, s)
  BY Zenon DEF Ledger!WithStatus, WithStatus
<1>3. Ledger!DueRows(table, t) = DueRows(table, t)
  BY DEF Ledger!DueRows, DueRows, Ledger!Due, Due
<1>4. Ledger!Call(S) = Call(S)
  BY Zenon DEF Ledger!Call, Call, Ledger!BookCall, BookCall, Ledger!ConfirmCall, ConfirmCall
<1>5. Ledger!ActiveOwnedBy(table, e, u) = ActiveOwnedBy(table, e, u)
  BY <1>1, Zenon DEF Ledger!ActiveOwnedBy, ActiveOwnedBy
<1>6. Ledger!Cardinality(ActiveOf(table, e)) = Cardinality(ActiveOf(table, e))
  BY Zenon DEF Ledger!Cardinality, Cardinality
<1>7. Ledger!FreeSeats(evs, table, e) = FreeSeats(evs, table, e)
  BY <1>1, <1>6 DEF Ledger!FreeSeats, FreeSeats
<1> QED BY <1>1, <1>2, <1>3, <1>4, <1>5, <1>7

-----------------------------------------------------------------------------
(* The initial state.                                                      *)
LEMMA LedgerInitial == Init => Ledger!Init
<1> SUFFICES ASSUME Init PROVE Ledger!Init
  OBVIOUS
<1>1. Notices = {}
  <2>1. ASSUME NEW b \in BookingIds, NEW type PROVE ~(Enqueued({b}, type) \subseteq outbox)
    <3>1. <<b, type, "log">> \in Enqueued({b}, type)
      BY DEF Enqueued, Channels
    <3> QED BY <3>1 DEF Init
  <2> QED BY <2>1 DEF Notices
<1> QED BY <1>1 DEF Init, Ledger!Init, Untouched

(* Time passes and events are created.                                     *)
LEMMA EnvironmentSteps ==
  ASSUME TypeOK, Tick \/ \E e \in Events : CreateEvent(e)
  PROVE  Ledger!Next
<1>1. CASE Tick
  BY <1>1 DEF Tick, tables, Ledger!Next, Ledger!Tick, Notices
<1>2. ASSUME NEW e \in Events, CreateEvent(e) PROVE Ledger!AddEvent(e)
  <2>1. PICK cap \in 1..MaxCapacity, start \in clock..(clock + MaxEventFuture) :
          events' = [events EXCEPT ![e] = [capacity |-> cap, startsAt |-> start]]
    BY <1>2 DEF CreateEvent
  <2>2. events'[e] = [capacity |-> cap, startsAt |-> start]
    BY <2>1, <1>2 DEF TypeOK, EventTable
  <2>3. UNCHANGED <<clock, bookings, Notices, call, answer>>
    BY <1>2 DEF CreateEvent, Notices
  <2>4. events' = [events EXCEPT ![e] = events'[e]]
    BY <2>1, <2>2
  <2>5. events[e] = NoEvent
    BY <1>2 DEF CreateEvent
  <2>6. events'[e] \in [capacity : 1..MaxCapacity, startsAt : clock..(clock + MaxEventFuture)]
    BY <2>2
  <2> QED BY <2>3, <2>4, <2>5, <2>6 DEF Ledger!AddEvent
<1> QED BY <1>1, <1>2 DEF Ledger!Next

(* The ledger's notices are those owed for the committed rows.             *)
LEMMA NoticesBefore == ASSUME OutboxMatchesStatus PROVE Notices = Owed(bookings)
<1>1. Notices = NoticesIn(outbox)
  BY DEF Notices, NoticesIn
<1> QED BY <1>1, NoticesAre DEF OutboxMatchesStatus

(* So after a step as well as before it.                                   *)
LEMMA NoticesAfter == ASSUME OutboxMatchesStatus' PROVE Notices' = Owed(bookings')
<1>1. outbox' = NoticesOf(bookings') \cup OneEach(RowsOf(bookings'), "booking_created")
  BY DEF OutboxMatchesStatus, NoticesOf, RowsOf, OneEach
<1>2. Notices' = NoticesIn(outbox')
  BY DEF Notices, NoticesIn, Enqueued
<1> QED BY <1>1, <1>2, NoticesAre

(* A request that is under way is open in the ledger.                      *)
LEMMA OpenRequest ==
  ASSUME LockInv, VerdictsTrue, NEW r \in Requests, pc[r] \notin {"idle", "done"}
  PROVE  /\ call[r] \in Call(Nat) /\ call[r] # NoCall /\ answer[r] = "none"
         /\ \A op : Ledger!Open(r, op) <=> call[r].op = op
<1>1. call[r] \in Call(Nat) /\ answer[r] = "none"
  BY DEF LockInv, TypeInv, CallsMade, VerdictsTrue
<1>2. call[r] # NoCall
  BY <1>1, DomainAssumption
<1> QED BY <1>1, <1>2 DEF Ledger!Open

(* A transaction that fails is a request that fails.                       *)
LEMMA FailStep ==
  ASSUME LockInv, VerdictsTrue, NEW r \in Requests, Fail(r)
  PROVE  Ledger!Fail(r)
<1>1. call[r] # NoCall /\ answer[r] = "none"
  BY OpenRequest DEF Fail
<1> QED BY <1>1 DEF Fail, tables, Ledger!Fail, Ledger!Refuse, Notices

(* A rollback leaves the tables of the ledger alone.                       *)
LEMMA RollbackRefuses ==
  ASSUME NEW r \in Requests, NEW reason, Rollback(r, reason)
  PROVE  Ledger!Refuse(r, reason)
BY DEF Rollback, tables, Ledger!Refuse, Notices

(* Begin is the submission.                                                *)
LEMMA BeginStep ==
  ASSUME LockInv, NEW r \in Requests, Timed(r), Begin(r)
  PROVE  Ledger!Submit(r)
<1>1. PICK c \in Call({clock}) : call' = [call EXCEPT ![r] = c]
  BY DEF Begin
<1>2. call'[r] = c /\ call[r] = NoCall
  BY <1>1 DEF Begin, Goto, Timed, LockInv, TypeInv, TypeOK
<1>3. c \in Ledger!Call({clock})
  BY SameWords
<1>4. UNCHANGED <<clock, events, bookings, Notices, answer>>
  BY DEF Begin, tables, Notices
<1> QED BY <1>1, <1>2, <1>3, <1>4 DEF Ledger!Submit

(* What a statement of r does to the ledger: nothing, or a refusal.        *)
Stutter == UNCHANGED Ledger!ledgerVars

(* lockEvent, on Book and on Confirm: an unknown or a started event is     *)
(* refused in this step.                                                   *)
LEMMA LockEventStep ==
  ASSUME LockInv, VerdictsTrue, NEW r \in Requests, LockEvent(r)
  PROVE  Stutter \/ Ledger!RefuseBook(r) \/ Ledger!AnswerConfirm(r)
<1> DEFINE e == call[r].event
<1>1. /\ call[r].op \in {"book", "confirm"}
      /\ \A op : Ledger!Open(r, op) <=> call[r].op = op
  BY OpenRequest, CallFields DEF LockEvent
<1>2. CASE events[e] = NoEvent /\ Rollback(r, "event_not_found")
  BY <1>1, <1>2, RollbackRefuses DEF Ledger!RefuseBook, Ledger!AnswerConfirm
<1>3. CASE events[e] # NoEvent /\ events[e].startsAt <= clock /\ Rollback(r, "event_started")
  BY <1>1, <1>3, RollbackRefuses DEF Ledger!RefuseBook, Ledger!AnswerConfirm
<1>4. CASE UNCHANGED <<clock, tables, call, answer>>
  BY <1>4 DEF Stutter, tables, Ledger!ledgerVars, Notices
<1> QED BY <1>2, <1>3, <1>4 DEF LockEvent

(* A Book refuses for what is true of the committed rows, too.             *)
LEMMA SeenActive ==
  ASSUME LockInv, NEW r \in Requests, pc[r] \in {"freeSeats", "insert"}
  PROVE  LET e == call[r].event
         IN  /\ ActiveOf(View(r), e) \subseteq ActiveOf(bookings, e)
             /\ \A u : ActiveOwnedBy(View(r), e, u) \subseteq ActiveOwnedBy(bookings, e, u)
<1> DEFINE e == call[r].event
<1>1. e \in Events /\ r \in Procs /\ ~HasInserted(r)
  BY LockedEvent DEF HolderPcs, BookPcs, HasInserted, Procs
<1>2. \A b \in ActiveOf(View(r), e) : b \in ActiveOf(bookings, e) /\ View(r)[b].owner = bookings[b].owner
  BY <1>1, ViewActive
<1> QED BY <1>2 DEF ActiveOwnedBy

(* The count of free seats: a full event is refused in this step.          *)
LEMMA CountStep ==
  ASSUME LockInv, VerdictsTrue, NEW r \in Requests, CountFreeSeats(r)
  PROVE  Stutter \/ Ledger!RefuseBook(r)
<1> DEFINE e == call[r].event
<1>1. /\ pc[r] = "freeSeats" /\ call[r].op = "book" /\ Ledger!Open(r, "book")
      /\ events[e] # NoEvent
  BY OpenRequest DEF CountFreeSeats, LockInv, TypeInv, CallsMade, BookPcs, EventsLocked, HolderPcs
<1>2. CASE ~SeatLeft(r) /\ Rollback(r, "no_seats")
  <2>1. events[e].capacity \in Nat
    BY <1>1, LockedEvent DEF HolderPcs, BookPcs
  <2>2. ActiveOf(View(r), e) \subseteq ActiveOf(bookings, e)
    BY <1>1, SeenActive
  <2>3. FreeSeats(events, bookings, e) <= 0
    BY <1>2, <2>1, <2>2, ActiveCount DEF SeatLeft, FreeSeats
  <2>4. Ledger!FreeSeats(events, bookings, e) <= 0
    BY <2>3, SameWords
  <2> QED BY <1>1, <1>2, <2>4, RollbackRefuses DEF Ledger!RefuseBook
<1>3. CASE UNCHANGED <<clock, tables, call, answer>>
  BY <1>3 DEF Stutter, tables, Ledger!ledgerVars, Notices
<1> QED BY <1>2, <1>3 DEF CountFreeSeats

(* The insert: a user's second active booking is refused in this step.     *)
LEMMA InsertStep ==
  ASSUME LockInv, VerdictsTrue, NEW r \in Requests, InsertBooking(r)
  PROVE  Stutter \/ Ledger!RefuseBook(r)
<1> DEFINE e == call[r].event
           u == call[r].user
<1>1. /\ pc[r] = "insert" /\ call[r].op = "book" /\ Ledger!Open(r, "book")
      /\ events[e] # NoEvent
  BY OpenRequest DEF InsertBooking, LockInv, TypeInv, CallsMade, BookPcs, EventsLocked, HolderPcs
<1>2. CASE Rivals(r) # {} /\ Rollback(r, "already_booked")
  <2>1. ActiveOwnedBy(bookings, e, u) # {}
    BY <1>1, <1>2, SeenActive DEF Rivals
  <2>2. Ledger!ActiveOwnedBy(bookings, e, u) # {}
    BY <2>1, SameWords
  <2> QED BY <1>1, <1>2, <2>2, RollbackRefuses DEF Ledger!RefuseBook
<1>3. CASE UNCHANGED <<clock, tables, call, answer>>
  BY <1>3 DEF Stutter, tables, Ledger!ledgerVars, Notices
<1> QED BY <1>2, <1>3 DEF InsertBooking

(* The read and the update of Confirm: an unknown booking, one of another  *)
(* user and a cancelled one are answered in this step.                     *)
LEMMA ConfirmStep ==
  ASSUME LockInv, VerdictsTrue, NEW r \in Requests, ConfirmBooking(r)
  PROVE  Stutter \/ Ledger!AnswerConfirm(r)
<1> DEFINE row == bookings[call[r].booking]
<1>1. Ledger!Open(r, "confirm")
  BY OpenRequest DEF ConfirmBooking, LockInv, TypeInv, CallsMade
<1>2. Ledger!MayConfirm(call[r], row) <=> MayConfirm(call[r], row)
  BY DEF Ledger!MayConfirm, MayConfirm
<1>3. CASE (row = NoBooking \/ (row # NoBooking /\ row.event # call[r].event))
           /\ Rollback(r, "booking_not_found")
  BY <1>1, <1>3, RollbackRefuses DEF Ledger!AnswerConfirm
<1>4. CASE row # NoBooking /\ row.event = call[r].event /\ ~MayConfirm(call[r], row)
           /\ Rollback(r, "forbidden")
  BY <1>1, <1>2, <1>4, RollbackRefuses DEF Ledger!AnswerConfirm
<1>5. CASE row # NoBooking /\ row.event = call[r].event /\ MayConfirm(call[r], row)
           /\ row.status = "cancelled" /\ Rollback(r, "not_pending")
  BY <1>1, <1>2, <1>5, RollbackRefuses DEF Ledger!AnswerConfirm
<1>6. CASE UNCHANGED <<clock, tables, call, answer>>
  BY <1>6 DEF Stutter, tables, Ledger!ledgerVars, Notices
<1> QED BY <1>3, <1>4, <1>5, <1>6 DEF ConfirmBooking, ConfirmLocked

-----------------------------------------------------------------------------
(* A row that is cancelled over a committed one was pending and is due.    *)
LEMMA CancelledRow ==
  ASSUME LockInv, CancelledOverdue, NEW p \in Procs, NEW b \in BookingIds,
         bookings[b] # NoBooking, writes[p][b] # NoBooking, writes[p][b].status = "cancelled"
  PROVE  /\ bookings[b].status = "pending"
         /\ writes[p][b] = [bookings[b] EXCEPT !.status = "cancelled"]
         /\ b \in DueRows(bookings, clock)
<1>1. bookings[b] \in Booking
  BY RowExists DEF LockInv, TypeInv, TypeOK
<1>2. PICK s \in {"confirmed", "cancelled"} :
        bookings[b].status = "pending" /\ writes[p][b] = [bookings[b] EXCEPT !.status = s]
  BY DEF LockInv, WritesLocked
<1>3. s = "cancelled" /\ writes[p][b].expiresAt = bookings[b].expiresAt
  BY <1>1, <1>2 DEF Booking
<1>4. writes[p][b].expiresAt <= clock
  BY DEF CancelledOverdue, Overdue
<1> QED BY <1>2, <1>3, <1>4 DEF DueRows, Due

(* The commit of a Book.                                                   *)
LEMMA BookCommit ==
  ASSUME LedgerInv, OutboxMatchesStatus', NEW r \in Requests, Commit(r), call[r].op = "book"
  PROVE  \E b \in BookingIds, S \in SUBSET BookingIds : Ledger!Reserve(r, b, S)
<1> DEFINE e    == call[r].event
           u    == call[r].user
           V    == View(r)
           S    == {c \in BookingIds : writes[r][c] # NoBooking /\ bookings[c] # NoBooking}
           kept == WithStatus(bookings, S, "cancelled")
<1>1. LockInv /\ CancelledOverdue /\ VerdictsTrue /\ OutboxMatchesStatus /\ BookReady(r) /\ Timed(r)
      /\ SeatsOf(r)
  BY SeatsCountedDef DEF LedgerInv, IInv, SeatInv, LockInv, TypeInv
<1>2. /\ r \in Procs /\ pc[r] = "commit" /\ pc[r] \in HolderPcs /\ HasInserted(r)
      /\ bookings' = V /\ UNCHANGED <<clock, events, call>>
  BY DEF Commit, Goto, Publish, HasInserted, HolderPcs, Procs
<1>3. /\ e \in Events /\ u \in Users /\ events[e].capacity \in Nat /\ events[e] # NoEvent
      /\ call[r].at < events[e].startsAt /\ Ledger!Open(r, "book")
  <2>1. call[r] \in Call(Nat) /\ Ledger!Open(r, "book")
    BY <1>1, <1>2, OpenRequest
  <2> QED BY <1>1, <1>2, <2>1, CallFields, LockedEvent DEF Timed, LockInv, EventsLocked
<1>4. PICK b \in BookingIds : writes[r][b] # NoBooking /\ bookings[b] = NoBooking
  BY <1>1, <1>2 DEF BookReady
<1>5. ASSUME NEW c \in BookingIds, writes[r][c] # NoBooking, bookings[c] = NoBooking
      PROVE  /\ \E t \in Nat : Set(r, t) /\ V[c] = NewBooking(e, u, t)
             /\ c \in ActiveOwnedBy(V, e, u)
  <2>1. PICK t \in Nat : Set(r, t) /\ writes[r][c] = NewBooking(e, u, t)
    BY <1>1, <1>2, <1>5 DEF BookReady, BookWrites, Makes
  <2>2. V[c] = NewBooking(e, u, t) /\ V[c] # NoBooking
    BY <1>5, <2>1 DEF View
  <2> QED BY <2>1, <2>2 DEF ActiveOwnedBy, ActiveOf, ActiveStatuses, NewBooking
<1>6. PICK t \in Nat : Set(r, t) /\ V[b] = NewBooking(e, u, t)
  BY <1>4, <1>5
<1>7. \A c \in ActiveOwnedBy(V, e, u) : c = b
  BY <1>1, <1>2, <1>3, <1>4, <1>5 DEF SeatsOf
<1>8. ASSUME NEW c \in S
      PROVE  /\ bookings[c] # NoBooking /\ bookings[c].status = "pending"
             /\ V[c] = kept[c] /\ V[c] # NoBooking /\ V[c].status = "cancelled"
             /\ c \in DueRows(bookings, clock) /\ bookings[c].event = e
  <2>1. c \in BookingIds /\ bookings[c] # NoBooking /\ writes[r][c] # NoBooking
    OBVIOUS
  <2>2. bookings[c].event = e /\ writes[r][c].status = "cancelled"
    BY <1>1, <1>2, <2>1 DEF BookReady, BookWrites
  <2>3. /\ bookings[c].status = "pending" /\ c \in DueRows(bookings, clock)
        /\ writes[r][c] = [bookings[c] EXCEPT !.status = "cancelled"]
    BY <1>1, <1>2, <2>1, <2>2, CancelledRow
  <2>4. V[c] = writes[r][c]
    BY <2>1 DEF View
  <2>5. kept[c] = [bookings[c] EXCEPT !.status = "cancelled"]
    BY DEF WithStatus
  <2> QED BY <2>1, <2>2, <2>3, <2>4, <2>5
<1>9. ASSUME NEW c \in BookingIds, c \notin S, c # b PROVE V[c] = kept[c] /\ V[c] = bookings[c]
  <2>1. writes[r][c] = NoBooking
    BY <1>5, <1>7, <1>9
  <2>2. V[c] = bookings[c]
    BY <2>1 DEF View
  <2>3. kept[c] = bookings[c]
    BY <1>9 DEF WithStatus
  <2> QED BY <2>2, <2>3
<1>10. b \notin S /\ kept[b] = NoBooking
  BY <1>4 DEF WithStatus
<1>11. V = [kept EXCEPT ![b] = NewBooking(e, u, t)]
  <2>1. V = [c \in BookingIds |-> V[c]] /\ kept = [c \in BookingIds |-> kept[c]]
    BY DEF View, WithStatus
  <2>2. \A c \in BookingIds : V[c] = IF c = b THEN NewBooking(e, u, t) ELSE kept[c]
    BY <1>6, <1>8, <1>9
  <2> HIDE DEF V, kept, e, u
  <2>3. [kept EXCEPT ![b] = NewBooking(e, u, t)] =
          [c \in BookingIds |-> IF c = b THEN NewBooking(e, u, t) ELSE kept[c]]
    BY <2>1
  <2> QED BY <2>1, <2>2, <2>3
<1>12. ASSUME NEW c \in ActiveOf(kept, e)
       PROVE  c # b /\ c \in ActiveOf(V, e) /\ V[c] = kept[c]
  <2>1. c \in BookingIds /\ kept[c] # NoBooking /\ kept[c].event = e /\ kept[c].status \in ActiveStatuses
    BY DEF ActiveOf
  <2>2. c # b
    BY <1>10, <2>1
  <2>3. V[c] = kept[c]
    BY <1>8, <1>9, <2>1, <2>2
  <2> HIDE DEF V, kept
  <2> QED BY <2>1, <2>2, <2>3 DEF ActiveOf
<1>13. FreeSeats(events, kept, e) > 0
  <2> DEFINE A == ActiveOf(kept, e)
             B == ActiveOf(V, e)
  <2>1. IsFiniteSet(A) /\ Cardinality(A) \in Nat /\ IsFiniteSet(B) /\ Cardinality(B) \in Nat
    BY ActiveCount
  <2>2. A \cup {b} \subseteq B /\ b \notin A
    BY <1>4, <1>5, <1>12 DEF ActiveOwnedBy
  <2>3. Cardinality(B) <= events[e].capacity
    BY <1>1, <1>2 DEF SeatsOf
  <2> HIDE DEF A, B
  <2>4. Cardinality(A \cup {b}) = Cardinality(A) + 1
    BY <2>1, <2>2, FS_AddElement
  <2>5. Cardinality(A \cup {b}) <= Cardinality(B)
    BY <2>1, <2>2, FS_Subset
  <2>6. Cardinality(A) < events[e].capacity
    BY <1>3, <2>1, <2>3, <2>4, <2>5
  <2> QED BY <1>3, <2>1, <2>6 DEF FreeSeats, A
<1>14. ActiveOwnedBy(kept, e, u) = {}
  <2> SUFFICES ASSUME NEW c \in ActiveOwnedBy(kept, e, u) PROVE FALSE
    OBVIOUS
  <2>1. c \in ActiveOf(kept, e) /\ kept[c].owner = u
    BY DEF ActiveOwnedBy
  <2>2. c # b /\ c \in ActiveOwnedBy(V, e, u)
    BY <1>12, <2>1 DEF ActiveOwnedBy
  <2> QED BY <1>7, <2>2
<1>15. Notices' = Notices \cup {<<b, "booking_created">>} \cup (S \X {"booking_cancelled"})
  <2>1. Notices' = Owed(V) /\ Notices = Owed(bookings)
    BY <1>1, <1>2, NoticesBefore, NoticesAfter
  <2>2. V[b] # NoBooking /\ V[b].status = "pending"
    <3>1. V[b] # NoBooking
      BY <1>4 DEF View
    <3> QED BY <1>6, <3>1 DEF NewBooking
  <2>3. \A c \in S : /\ bookings[c] # NoBooking /\ bookings[c].status = "pending"
                     /\ V[c] # NoBooking /\ V[c].status = "cancelled"
    BY <1>8
  <2>4. \A c \in {b} : bookings[c] = NoBooking /\ V[c] # NoBooking /\ V[c].status = "pending"
    BY <1>4, <2>2
  <2>5. \A c \in BookingIds : c \notin S /\ c \notin {b} => V[c] = bookings[c]
    BY <1>9
  <2>6. S \in SUBSET BookingIds /\ {b} \in SUBSET BookingIds
    BY <1>4
  <2> HIDE DEF V, S
  <2>7. /\ Turned(bookings, V, S, "cancelled") /\ Added(bookings, V, {b})
        /\ OthersSame(bookings, V, S, {b})
    BY <2>3, <2>4, <2>5 DEF Turned, Added, OthersSame
  <2>8. Owed(V) = Owed(bookings) \cup ({b} \X {"booking_created"}) \cup (S \X {NoticeOf("cancelled")})
    BY <2>6, <2>7, OwedMore
  <2>9. {b} \X {"booking_created"} = {<<b, "booking_created">>} /\ NoticeOf("cancelled") = "booking_cancelled"
    BY DEF NoticeOf
  <2> QED BY <2>1, <2>8, <2>9
<1>16. Ledger!Answered(r, "ok")
  BY <1>1, <1>2 DEF Commit, BookReady, Ledger!Answered
<1>17. \E made \in call[r].at..clock :
          bookings' = [kept EXCEPT ![b] = NewBooking(e, u, made + Deadline)]
  <2>1. PICK made \in Nat : call[r].at <= made /\ made <= clock /\ t = made + Deadline
    BY <1>6 DEF Set
  <2>2. call[r].at \in Nat /\ clock \in Nat
    BY <1>1, <1>2, OpenRequest DEF Call, BookCall, ConfirmCall, LockInv, TypeInv, TypeOK
  <2>3. made \in call[r].at..clock
    BY <2>1, <2>2
  <2> HIDE DEF kept, e, u, V
  <2> QED BY <1>2, <1>11, <2>1, <2>3
<1>18. S \subseteq {x \in DueRows(bookings, clock) : bookings[x].event = e}
  BY <1>8
<1>19. S \in SUBSET BookingIds
  OBVIOUS
<1> HIDE DEF S
<1>20. Ledger!Reserve(r, b, S)
  <2>1. Ledger!WithStatus(bookings, S, "cancelled") = kept
    BY SameWords
  <2>2. Ledger!DueRows(bookings, clock) = DueRows(bookings, clock)
    BY SameWords
  <2>3. Ledger!FreeSeats(events, kept, e) > 0 /\ Ledger!ActiveOwnedBy(kept, e, u) = {}
    BY <1>13, <1>14, SameWords
  <2>4. \A made : Ledger!NewBooking(e, u, made + Deadline) = NewBooking(e, u, made + Deadline)
    BY DEF Ledger!NewBooking, NewBooking
  <2> HIDE DEF kept, V
  <2> QED BY <1>2, <1>3, <1>4, <1>15, <1>16, <1>17, <1>18, <2>1, <2>2, <2>3, <2>4
          DEF Ledger!Reserve
<1> QED BY <1>19, <1>20

(* The commit of a Confirm.                                                *)
LEMMA ConfirmCommit ==
  ASSUME LedgerInv, OutboxMatchesStatus', NEW r \in Requests, Commit(r), call[r].op = "confirm"
  PROVE  Ledger!ConfirmPending(r) \/ Ledger!ConfirmTooLate(r) \/ Ledger!AnswerConfirm(r) \/ Ledger!Fail(r)
<1> DEFINE b   == call[r].booking
           row == bookings[b]
           V   == View(r)
<1>1. LockInv /\ VerdictsTrue /\ OutboxMatchesStatus /\ ConfirmReady(r) /\ Timed(r)
  BY DEF LedgerInv, IInv, SeatInv, LockInv, TypeInv
<1>2. /\ r \in Procs /\ pc[r] = "commit" /\ pc[r] \in HolderPcs
      /\ bookings' = V /\ UNCHANGED <<clock, events, call>>
      /\ Ledger!Answered(r, verdict[r])
  BY DEF Commit, Goto, Publish, HolderPcs, Procs, Ledger!Answered
<1>3. /\ b \in BookingIds /\ Ledger!Open(r, "confirm") /\ call[r] # NoCall /\ answer[r] = "none"
      /\ call[r].at < events[call[r].event].startsAt
  <2>1. call[r] \in Call(Nat)
    BY <1>1, <1>2, OpenRequest
  <2> QED BY <1>1, <1>2, <2>1, OpenRequest, CallFields DEF Timed
<1>4. /\ row # NoBooking /\ row \in Booking /\ row.event = call[r].event
      /\ MayConfirm(call[r], row) /\ Ledger!MayConfirm(call[r], row)
      /\ \A c \in BookingIds \ {b} : writes[r][c] = NoBooking
  <2>1. /\ row # NoBooking /\ row.event = call[r].event /\ MayConfirm(call[r], row)
        /\ \A c \in BookingIds \ {b} : writes[r][c] = NoBooking
    BY <1>1, <1>2 DEF ConfirmReady
  <2>2. row \in Booking
    BY <1>1, <1>3, <2>1, RowExists DEF LockInv, TypeInv, TypeOK
  <2>3. Ledger!MayConfirm(call[r], row)
    BY <2>1 DEF Ledger!MayConfirm, MayConfirm
  <2> QED BY <2>1, <2>2, <2>3
<1>5. Notices' = Owed(V) /\ Notices = Owed(bookings)
  BY <1>1, <1>2, NoticesBefore, NoticesAfter
<1>6. CASE row.status = "confirmed" /\ writes[r][b] = NoBooking /\ verdict[r] = "ok"
  <2>1. V = bookings
    <3>1. bookings = [c \in BookingIds |-> bookings[c]]
      BY <1>1 DEF LockInv, TypeInv, TypeOK, BookingTable
    <3>2. \A c \in BookingIds : writes[r][c] = NoBooking
      BY <1>4, <1>6
    <3> QED BY <3>1, <3>2 DEF View
  <2>2. UNCHANGED <<clock, events, bookings, Notices, call>>
    <3> HIDE DEF V
    <3> QED BY <1>2, <1>5, <2>1
  <2>3. Ledger!Refuse(r, "ok") \/ Ledger!Refuse(r, "error")
    BY <1>2, <1>6, <2>2 DEF Ledger!Answered, Ledger!Refuse
  <2> QED BY <1>3, <1>4, <1>6, <2>3 DEF Ledger!AnswerConfirm, Ledger!Fail
<1>7. ASSUME NEW s \in {"confirmed", "cancelled"}, row.status = "pending",
             writes[r][b] = [row EXCEPT !.status = s]
      PROVE  /\ bookings' = Ledger!WithStatus(bookings, {b}, s)
             /\ Notices' = Notices \cup {<<b, NoticeOf(s)>>}
  <2>1. writes[r][b] \in Booking /\ writes[r][b].status = s
    BY <1>4, <1>7, StatusWritten DEF Statuses, Booking
  <2>2. V[b] = [row EXCEPT !.status = s] /\ V[b] # NoBooking /\ V[b].status = s
    BY <1>3, <1>7, <2>1, DomainAssumption DEF View
  <2>3. \A c \in BookingIds : c # b => V[c] = bookings[c]
    BY <1>4 DEF View
  <2>4. V = [c \in BookingIds |-> V[c]]
    BY DEF View
  <2> HIDE DEF V
  <2>5. V = WithStatus(bookings, {b}, s)
    BY <2>2, <2>3, <2>4 DEF WithStatus
  <2>6. Owed(V) = Owed(bookings) \cup ({} \X {"booking_created"}) \cup ({b} \X {NoticeOf(s)})
    <3>1. \A c \in {b} : /\ bookings[c] # NoBooking /\ bookings[c].status = "pending"
                         /\ V[c] # NoBooking /\ V[c].status = s
      BY <1>4, <1>7, <2>2
    <3>2. \A c \in {} : bookings[c] = NoBooking /\ V[c] # NoBooking /\ V[c].status = "pending"
      OBVIOUS
    <3>3. \A c \in BookingIds : c \notin {b} /\ c \notin {} => V[c] = bookings[c]
      BY <2>3
    <3>4. {b} \in SUBSET BookingIds /\ {} \in SUBSET BookingIds
      BY <1>3
    <3>5. /\ Turned(bookings, V, {b}, s) /\ Added(bookings, V, {})
          /\ OthersSame(bookings, V, {b}, {})
      BY <3>1, <3>2, <3>3 DEF Turned, Added, OthersSame
    <3> QED BY <3>4, <3>5, OwedMore
  <2>7. Owed(V) = Owed(bookings) \cup {<<b, NoticeOf(s)>>}
    BY <2>6
  <2> QED BY <1>2, <1>5, <2>5, <2>7, SameWords
<1>8. CASE /\ row.status = "pending" /\ writes[r][b] = [row EXCEPT !.status = "confirmed"]
           /\ call[r].at <= row.expiresAt /\ verdict[r] = "ok"
  <2>1. /\ bookings' = Ledger!WithStatus(bookings, {b}, "confirmed")
        /\ Notices' = Notices \cup {<<b, "booking_confirmed">>}
    BY <1>7, <1>8 DEF NoticeOf
  <2> QED BY <1>2, <1>3, <1>4, <1>8, <2>1 DEF Ledger!ConfirmPending
<1>9. CASE /\ row.status = "pending" /\ writes[r][b] = [row EXCEPT !.status = "cancelled"]
           /\ row.expiresAt < clock /\ verdict[r] = "expired"
  <2>1. /\ bookings' = Ledger!WithStatus(bookings, {b}, "cancelled")
        /\ Notices' = Notices \cup {<<b, "booking_cancelled">>}
    BY <1>7, <1>9 DEF NoticeOf
  <2> QED BY <1>2, <1>3, <1>4, <1>9, <2>1 DEF Ledger!ConfirmTooLate
<1> QED BY <1>1, <1>2, <1>6, <1>8, <1>9 DEF ConfirmReady

(* The commit of a sweep.                                                  *)
LEMMA SweepCommitStep ==
  ASSUME LedgerInv, OutboxMatchesStatus', NEW s \in Sweepers, SweepCommit(s)
  PROVE  Stutter \/ \E S \in SUBSET BookingIds : Ledger!Expire(S)
<1> DEFINE S == {c \in BookingIds : writes[s][c] # NoBooking}
           V == View(s)
<1>1. LockInv /\ CancelledOverdue /\ OutboxMatchesStatus /\ SweepReady(s)
  BY DEF LedgerInv, IInv, SeatInv, LockInv, TypeInv
<1>2. s \in Procs /\ ~HasInserted(s) /\ bookings' = V /\ UNCHANGED <<clock, events, call, answer>>
  BY StoreAssumption DEF SweepCommit, Publish, HasInserted, Procs
<1>3. ASSUME NEW c \in S
      PROVE  /\ bookings[c] # NoBooking /\ bookings[c].status = "pending"
             /\ V[c] = [bookings[c] EXCEPT !.status = "cancelled"]
             /\ V[c] # NoBooking /\ V[c].status = "cancelled"
             /\ c \in DueRows(bookings, clock)
  <2>1. bookings[c] # NoBooking /\ writes[s][c].status = "cancelled"
    BY <1>1, <1>2 DEF LockInv, WritesLocked, SweepReady
  <2>2. V[c] = writes[s][c] /\ V[c] # NoBooking
    BY DEF View
  <2> QED BY <1>1, <1>2, <2>1, <2>2, CancelledRow
<1>4. \A c \in BookingIds : c \notin S => V[c] = bookings[c]
  BY DEF View
<1>5. V = WithStatus(bookings, S, "cancelled")
  <2>1. V = [c \in BookingIds |-> V[c]]
    BY DEF View
  <2>2. \A c \in BookingIds :
          V[c] = IF c \in S THEN [bookings[c] EXCEPT !.status = "cancelled"] ELSE bookings[c]
    BY <1>3, <1>4
  <2> HIDE DEF V, S
  <2> QED BY <2>1, <2>2 DEF WithStatus
<1>6. Notices' = Notices \cup (S \X {"booking_cancelled"})
  <2>1. Notices' = Owed(V) /\ Notices = Owed(bookings)
    BY <1>1, <1>2, NoticesBefore, NoticesAfter
  <2>2. S \in SUBSET BookingIds /\ {} \in SUBSET BookingIds
    OBVIOUS
  <2>3. \A c \in S : /\ bookings[c] # NoBooking /\ bookings[c].status = "pending"
                     /\ V[c] # NoBooking /\ V[c].status = "cancelled"
    BY <1>3
  <2>4. \A c \in {} : bookings[c] = NoBooking /\ V[c] # NoBooking /\ V[c].status = "pending"
    OBVIOUS
  <2>5. \A c \in BookingIds : c \notin S /\ c \notin {} => V[c] = bookings[c]
    BY <1>4
  <2> HIDE DEF V, S
  <2>6. /\ Turned(bookings, V, S, "cancelled") /\ Added(bookings, V, {})
        /\ OthersSame(bookings, V, S, {})
    BY <2>3, <2>4, <2>5 DEF Turned, Added, OthersSame
  <2>7. Owed(V) = Owed(bookings) \cup ({} \X {"booking_created"}) \cup (S \X {NoticeOf("cancelled")})
    BY <2>2, <2>6, OwedMore
  <2>8. NoticeOf("cancelled") = "booking_cancelled" /\ {} \X {"booking_created"} = {}
    BY DEF NoticeOf
  <2> QED BY <2>1, <2>7, <2>8
<1>7. S \subseteq DueRows(bookings, clock)
  BY <1>3
<1>8. S \in SUBSET BookingIds
  OBVIOUS
<1> HIDE DEF S, V
<1>9. CASE S # {}
  <2>1. Ledger!Expire(S)
    BY <1>2, <1>5, <1>6, <1>7, <1>9, SameWords DEF Ledger!Expire
  <2> QED BY <1>8, <2>1
<1>10. CASE S = {}
  <2>1. Notices' = Notices
    BY <1>6, <1>10
  <2>2. bookings = [c \in BookingIds |-> bookings[c]]
    BY <1>1 DEF LockInv, TypeInv, TypeOK, BookingTable
  <2>3. bookings' = bookings
    BY <1>2, <1>5, <1>10, <2>2 DEF WithStatus
  <2> QED BY <1>2, <2>1, <2>3 DEF Stutter, Ledger!ledgerVars
<1> QED BY <1>9, <1>10

-----------------------------------------------------------------------------
(* Every step of the store is a step of the ledger, or none.               *)
LEMMA LedgerStep ==
  ASSUME LedgerInv, LedgerInv', [Next]_vars
  PROVE  [Ledger!Next]_(Ledger!ledgerVars)
<1>1. LockInv /\ VerdictsTrue /\ OutboxMatchesStatus' /\ TypeOK
  BY DEF LedgerInv, IInv, SeatInv, LockInv, TypeInv
<1>2. CASE Tick \/ \E e \in Events : CreateEvent(e)
  BY <1>1, <1>2, EnvironmentSteps
<1>3. ASSUME NEW r \in Requests, Begin(r) \/ Statement(r) \/ Fail(r)
      PROVE  Stutter \/ Ledger!Next
  <2>1. CASE Begin(r)
    BY <1>1, <2>1, BeginStep DEF LedgerInv, Ledger!Next
  <2>2. CASE Fail(r)
    BY <1>1, <2>2, FailStep DEF Ledger!Next
  <2>3. CASE CancelExpiredOfEvent(r)
    BY <2>3 DEF CancelExpiredOfEvent, Stutter, tables, Ledger!ledgerVars, Notices
  <2> QED BY <1>1, <1>3, <2>1, <2>2, <2>3, LockEventStep, CountStep, InsertStep, ConfirmStep
          DEF Statement, Ledger!Next
<1>4. ASSUME NEW r \in Requests, Commit(r) PROVE Ledger!Next
  <2>1. call[r].op \in {"book", "confirm"}
    BY <1>1, <1>4, OpenRequest, CallFields DEF Commit, Goto
  <2> QED BY <1>1, <1>4, <2>1, BookCommit, ConfirmCommit DEF Ledger!Next
<1>5. ASSUME NEW s \in Sweepers, SweepStep(s) \/ SweepFail(s)
      PROVE  Stutter \/ Ledger!Next
  <2>1. CASE SweepCommit(s)
    BY <1>1, <2>1, SweepCommitStep DEF Ledger!Next
  <2>2. CASE SweepBegin(s) \/ SweepPick(s) \/ SweepFail(s)
    BY <2>2 DEF SweepBegin, SweepPick, SweepFail, Stutter, tables, Ledger!ledgerVars, Notices
  <2> QED BY <1>5, <2>1, <2>2 DEF SweepStep, SweepStatement
<1>6. CASE UNCHANGED vars
  BY <1>6 DEF vars, tables, Stutter, Ledger!ledgerVars, Notices
<1> QED BY <1>2, <1>3, <1>4, <1>5, <1>6 DEF Next, Unpublished, SweepStep, Stutter

(* Whatever a run of the transactions shows to its callers and to the      *)
(* tables, a run of the ledger shows, too: each request takes effect in    *)
(* one atomic step, or not at all, and its answer is true of that step.    *)
THEOREM Refinement == Spec => ImplementsLedger
<1>1. Init => Ledger!Init
  BY LedgerInitial
<1>2. LedgerInv /\ LedgerInv' /\ [Next]_vars => [Ledger!Next]_(Ledger!ledgerVars)
  BY LedgerStep
<1> QED BY <1>1, <1>2, LedgerInvInit, LedgerInvNext, PTL DEF Spec, ImplementsLedger, Ledger!Spec
=============================================================================
