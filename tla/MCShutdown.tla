----------------------------- MODULE MCShutdown -----------------------------
(* Shutdown on a small machine.                                              *)
EXTENDS Shutdown
=============================================================================
