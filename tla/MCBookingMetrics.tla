-------------------------- MODULE MCBookingMetrics --------------------------
(* Small instances of BookingMetrics.                                      *)
EXTENDS BookingMetrics, TLC

Symmetry == Permutations(Requests) \cup Permutations(BookingIds)
=============================================================================
