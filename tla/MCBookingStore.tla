--------------------------- MODULE MCBookingStore ---------------------------
(***************************************************************************)
(* Small instances of BookingStore.  Requests, booking identifiers and     *)
(* events are interchangeable.  An instance explores only the events that  *)
(* start at one of StartTimes and have MaxSeats seats between them.        *)
(***************************************************************************)
EXTENDS BookingStore, FiniteSetsExt, TLC

CONSTANTS StartTimes, MaxSeats

Symmetry == Permutations(Requests) \cup Permutations(BookingIds) \cup Permutations(Events)

Created == {e \in Events : events[e] # NoEvent}

ScheduleBound ==
  /\ \A e \in Created : events[e].startsAt \in StartTimes
  /\ MapThenSumSet(LAMBDA e : events[e].capacity, Created) <= MaxSeats
=============================================================================
