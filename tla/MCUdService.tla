---------------------------- MODULE MCUdService -----------------------------
(* UdService with a few clients and one level beside the two special ones.   *)
EXTENDS UdService, TLC

(* The calls are interchangeable.                                            *)
MCSymmetry == Permutations(Client)
=============================================================================
