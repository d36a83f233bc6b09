----------------------------- MODULE MCWebPage -----------------------------
(* WebPage with bookings that are model values.                            *)
EXTENDS WebPage

CONSTANTS o1, o2, x1
=============================================================================
