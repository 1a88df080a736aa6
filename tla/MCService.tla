----------------------------- MODULE MCService ------------------------------
(* Service on a small machine: two pins, the two that processes fight over.  *)
EXTENDS Service, TLC

MCPins == <<"OFF", "REQ_OFF_B">>

(* Processes and inodes are only compared with one another.                  *)
MCSymmetry == Permutations(Proc) \cup Permutations(Inode)
=============================================================================
