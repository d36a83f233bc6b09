----------------------------- MODULE MCShutdown -----------------------------
(* Shutdown with two requests and two notices; its constants are given in  *)
(* the configuration.                                                      *)
EXTENDS Shutdown
=============================================================================
