--------------------------- MODULE BookingMetrics ---------------------------
(***************************************************************************)
(* event_booker_bookings_total beside the table it counts.  The service    *)
(* increments it after the repository has returned without an error; one   *)
(* action is a commit and what the service counts for it.                  *)
(***************************************************************************)
EXTENDS BookingStore

VARIABLE bookingsTotal  \* the counter, by its label "action"

metricsVars == <<vars, bookingsTotal>>

MetricsInit == Init /\ bookingsTotal = [created |-> 0, confirmed |-> 0, cancelled |-> 0]

BookingCreated   == bookingsTotal' = [bookingsTotal EXCEPT !.created = @ + 1]
BookingConfirmed == bookingsTotal' = [bookingsTotal EXCEPT !.confirmed = @ + 1]

BookingsCancelled(count) == bookingsTotal' = [bookingsTotal EXCEPT !.cancelled = @ + count]

(* Book and Confirm of EventService.                                       *)
RequestReturns(r) ==
  /\ Commit(r)
  /\ CASE answer'[r] # "ok"        -> UNCHANGED bookingsTotal
       [] call[r].op = "book"      -> BookingCreated
       [] OTHER                    -> BookingConfirmed

(* CancelExpired of EventService.                                          *)
SweepReturns(s) ==
  /\ SweepCommit(s)
  /\ BookingsCancelled(Cardinality({b \in BookingIds : writes[s][b] # NoBooking}))

MetricsNext ==
  \/ Unpublished /\ UNCHANGED bookingsTotal
  \/ \E r \in Requests : RequestReturns(r)
  \/ \E s \in Sweepers : SweepReturns(s)

MetricsSpec == MetricsInit /\ [][MetricsNext]_metricsVars

-----------------------------------------------------------------------------
RowsWith(S) == Cardinality({b \in BookingIds : bookings[b] # NoBooking /\ bookings[b].status \in S})

(* "Total number of booking state changes": while nothing has failed, the  *)
(* counter of cancellations is the number of cancelled bookings.           *)
CancellationsCounted == faults = 0 => bookingsTotal.cancelled = RowsWith({"cancelled"})
=============================================================================
