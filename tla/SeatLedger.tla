----------------------------- MODULE SeatLedger -----------------------------
(***************************************************************************)
(* What the booking operations promise, without transactions or locks:     *)
(* between the moment a request is submitted and the moment it is answered *)
(* it takes effect in one atomic step, or it has no effect at all, and its *)
(* answer tells the truth about the tables at that step.  Every change of  *)
(* a booking's status comes with exactly one notice to its owner.          *)
(***************************************************************************)
EXTENDS BookingDomain

VARIABLES
  clock,      \* the present time
  events,     \* the events table
  bookings,   \* the bookings table
  notices,    \* the <<booking, type>> pairs owed to owners
  call,       \* what each request asks for, and when it was submitted
  answer      \* what each request was answered

ledgerVars == <<clock, events, bookings, notices, call, answer>>

Open(r, op) == call[r] # NoCall /\ call[r].op = op /\ answer[r] = "none"

Init ==
  /\ clock = 0
  /\ events = [e \in Events |-> NoEvent]
  /\ bookings = [b \in BookingIds |-> NoBooking]
  /\ notices = {}
  /\ call = [r \in Requests |-> NoCall]
  /\ answer = [r \in Requests |-> "none"]

Tick == clock' = clock + 1 /\ UNCHANGED <<events, bookings, notices, call, answer>>

AddEvent(e) ==
  /\ events[e] = NoEvent
  /\ events'[e] \in [capacity : 1..MaxCapacity, startsAt : clock..(clock + MaxEventFuture)]
  /\ events' = [events EXCEPT ![e] = events'[e]]
  /\ UNCHANGED <<clock, bookings, notices, call, answer>>

Submit(r) ==
  /\ call[r] = NoCall
  /\ call'[r] \in Call({clock})
  /\ call' = [call EXCEPT ![r] = call'[r]]
  /\ UNCHANGED <<clock, events, bookings, notices, answer>>

(* An answer that leaves the tables alone.                                 *)
Refuse(r, reason) ==
  /\ answer' = [answer EXCEPT ![r] = reason]
  /\ UNCHANGED <<clock, events, bookings, notices, call>>

(* The caller hears "ok", or an error when only the answer was lost.       *)
Answered(r, truth) == \E a \in {truth, "error"} : answer' = [answer EXCEPT ![r] = a]

-----------------------------------------------------------------------------
(* A booking is made: expired bookings of the same event may give up their *)
(* seats in the same step, and a seat must then be free.                   *)
Reserve(r, b, S) ==
  LET c    == call[r]
      kept == WithStatus(bookings, S, "cancelled")
  IN  /\ Open(r, "book")
      /\ events[c.event] # NoEvent
      /\ c.at < events[c.event].startsAt
      /\ S \subseteq {x \in DueRows(bookings, clock) : bookings[x].event = c.event}
      /\ bookings[b] = NoBooking
      /\ FreeSeats(events, kept, c.event) > 0
      /\ ActiveOwnedBy(kept, c.event, c.user) = {}
      /\ \E made \in c.at..clock :
           bookings' = [kept EXCEPT ![b] = NewBooking(c.event, c.user, made + Deadline)]
      /\ notices' = notices \cup {<<b, "booking_created">>} \cup (S \X {"booking_cancelled"})
      /\ Answered(r, "ok")
      /\ UNCHANGED <<clock, events, call>>

RefuseBook(r) ==
  LET c == call[r]
  IN  /\ Open(r, "book")
      /\ \/ events[c.event] = NoEvent /\ Refuse(r, "event_not_found")
         \/ /\ events[c.event] # NoEvent
            /\ \/ events[c.event].startsAt <= clock /\ Refuse(r, "event_started")
               \/ FreeSeats(events, bookings, c.event) <= 0 /\ Refuse(r, "no_seats")
               \/ ActiveOwnedBy(bookings, c.event, c.user) # {} /\ Refuse(r, "already_booked")

-----------------------------------------------------------------------------
(* A pending booking is confirmed; the request was submitted before the    *)
(* deadline and before the event started.                                  *)
ConfirmPending(r) ==
  LET c == call[r]
  IN  /\ Open(r, "confirm")
      /\ bookings[c.booking] # NoBooking
      /\ LET row == bookings[c.booking]
         IN  /\ row.event = c.event
             /\ row.status = "pending"
             /\ MayConfirm(c, row)
             /\ c.at <= row.expiresAt
             /\ c.at < events[c.event].startsAt
      /\ bookings' = WithStatus(bookings, {c.booking}, "confirmed")
      /\ notices' = notices \cup {<<c.booking, "booking_confirmed">>}
      /\ Answered(r, "ok")
      /\ UNCHANGED <<clock, events, call>>

(* A confirmation that comes too late cancels the booking.                 *)
ConfirmTooLate(r) ==
  LET c == call[r]
  IN  /\ Open(r, "confirm")
      /\ bookings[c.booking] # NoBooking
      /\ LET row == bookings[c.booking]
         IN  row.event = c.event /\ row.expiresAt < clock /\ row.status = "pending" /\ MayConfirm(c, row)
      /\ bookings' = WithStatus(bookings, {c.booking}, "cancelled")
      /\ notices' = notices \cup {<<c.booking, "booking_cancelled">>}
      /\ Answered(r, "expired")
      /\ UNCHANGED <<clock, events, call>>

(* The answers of Confirm that change nothing; confirming twice is one.    *)
AnswerConfirm(r) ==
  LET c   == call[r]
      row == bookings[c.booking]
  IN  /\ Open(r, "confirm")
      /\ \/ events[c.event] = NoEvent /\ Refuse(r, "event_not_found")
         \/ /\ events[c.event] # NoEvent
            /\ events[c.event].startsAt <= clock
            /\ Refuse(r, "event_started")
         \/ /\ row = NoBooking \/ (row # NoBooking /\ row.event # c.event)
            /\ Refuse(r, "booking_not_found")
         \/ /\ row # NoBooking
            /\ row.event = c.event
            /\ \/ ~MayConfirm(c, row) /\ Refuse(r, "forbidden")
               \/ MayConfirm(c, row) /\ row.status = "cancelled" /\ Refuse(r, "not_pending")
               \/ MayConfirm(c, row) /\ row.status = "confirmed" /\ Refuse(r, "ok")

-----------------------------------------------------------------------------
(* Bookings past their deadline are cancelled, whoever notices.            *)
Expire(S) ==
  /\ S # {} /\ S \subseteq DueRows(bookings, clock)
  /\ bookings' = WithStatus(bookings, S, "cancelled")
  /\ notices' = notices \cup (S \X {"booking_cancelled"})
  /\ UNCHANGED <<clock, events, call, answer>>

(* A request fails and has no effect.                                      *)
Fail(r) == call[r] # NoCall /\ answer[r] = "none" /\ Refuse(r, "error")

Next ==
  \/ Tick
  \/ \E e \in Events : AddEvent(e)
  \/ \E S \in SUBSET BookingIds : Expire(S)
  \/ \E r \in Requests :
       \/ Submit(r) \/ Fail(r)
       \/ RefuseBook(r) \/ ConfirmPending(r) \/ ConfirmTooLate(r) \/ AnswerConfirm(r)
       \/ \E b \in BookingIds, S \in SUBSET BookingIds : Reserve(r, b, S)

Spec == Init /\ [][Next]_ledgerVars
=============================================================================
