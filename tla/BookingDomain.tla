--------------------------- MODULE BookingDomain ---------------------------
(***************************************************************************)
(* The rows of the two tables every other module works on, and the         *)
(* questions the SQL statements ask of them (internal/domain and           *)
(* migrations/).  A table is a function from row identifiers to rows; an   *)
(* identifier whose row has not been inserted maps to NoEvent or           *)
(* NoBooking.  Time is a natural number shared by the service and          *)
(* Postgres.                                                               *)
(***************************************************************************)
EXTENDS Integers, FiniteSets

CONSTANTS
  Events,          \* identifiers of the events table
  Users,           \* owner_username of bookings and usernames of the callers
  Admins,          \* the users whose token carries the role "admin"
  BookingIds,      \* identifiers of the bookings table (a finite bound)
  NoEvent,         \* the absent row of the events table
  NoBooking,       \* the absent row of the bookings table
  MaxCapacity,     \* maxCapacity of the service
  MaxEventFuture,  \* maxEventFuture of the service
  Deadline,        \* APP_BOOKING_PAYMENT_DEADLINE
  Requests,        \* the calls of Book and Confirm
  NoCall           \* what a request asks for before it is submitted

Statuses       == {"pending", "confirmed", "cancelled"}
ActiveStatuses == {"pending", "confirmed"}

NotificationTypes == {"booking_created", "booking_confirmed", "booking_cancelled"}
Channels          == {"log", "email", "telegram"}

Event   == [capacity : 1..MaxCapacity, startsAt : Nat]
Booking == [event : Events, owner : Users, status : Statuses, expiresAt : Nat]

EventTable   == [Events -> Event \cup {NoEvent}]
BookingTable == [BookingIds -> Booking \cup {NoBooking}]

(* What a request asks for, and the moment of T its transaction began: the *)
(* value of now() in all of its SQL statements.                            *)
BookCall(T)    == [op : {"book"}, event : Events, user : Users, at : T]
ConfirmCall(T) == [op : {"confirm"}, event : Events, user : Users, booking : BookingIds, at : T]
Call(T)        == BookCall(T) \cup ConfirmCall(T)

Answers == {"none", "ok", "event_not_found", "event_started", "no_seats", "already_booked",
            "booking_not_found", "forbidden", "not_pending", "expired", "error"}

(* An outbox row is identified by the columns of its unique constraint.    *)
OutboxRow == BookingIds \X NotificationTypes \X Channels

ASSUME DomainAssumption ==
  /\ Admins \subseteq Users
  /\ IsFiniteSet(BookingIds)
  /\ NoEvent \notin Event
  /\ NoBooking \notin Booking
  /\ NoCall \notin Call(Nat)
  /\ MaxCapacity \in Nat \ {0}
  /\ MaxEventFuture \in Nat
  /\ Deadline \in Nat

-----------------------------------------------------------------------------
(* The rows of event e that occupy a seat: the FILTER of freeSeats and of  *)
(* the event summary, and the predicate of the partial unique index.       *)
ActiveOf(table, e) ==
  {b \in BookingIds : /\ table[b] # NoBooking
                      /\ table[b].event = e
                      /\ table[b].status \in ActiveStatuses}

(* The rows idx_bookings_one_active_per_owner makes conflict with a new    *)
(* booking of u for e.                                                     *)
ActiveOwnedBy(table, e, u) == {b \in ActiveOf(table, e) : table[b].owner = u}

FreeSeats(evs, table, e) == evs[e].capacity - Cardinality(ActiveOf(table, e))

(* WHERE status = 'pending' AND expires_at <= now().                       *)
Bug_DueBeforeDeadline(row, now) == row.status = "pending" /\ row.expiresAt <= now + 1
Bug_DueWhenConfirmed(row, now)  == row.status \in ActiveStatuses /\ row.expiresAt <= now
Due(row, now) == row.status = "pending" /\ row.expiresAt <= now

(* The rows a statement at time now would cancel.                          *)
DueRows(table, now) == {b \in BookingIds : table[b] # NoBooking /\ Due(table[b], now)}

NewBooking(e, u, exp) == [event |-> e, owner |-> u, status |-> "pending", expiresAt |-> exp]

(* The table after status s has been written to the rows of S.             *)
WithStatus(table, S, s) ==
  [b \in BookingIds |-> IF b \in S THEN [table[b] EXCEPT !.status = s] ELSE table[b]]

(* Who may confirm a booking: an administrator or its owner.               *)
MayConfirm(c, row) == c.user \in Admins \/ row.owner = c.user

(* What enqueueNotification inserts for the bookings of S: one row for     *)
(* each channel.                                                           *)
Bug_EnqueueWithoutTelegram(S, type) == S \X {type} \X (Channels \ {"telegram"})
Enqueued(S, type) == S \X {type} \X Channels
=============================================================================
