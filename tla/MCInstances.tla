---------------------------- MODULE MCInstances -----------------------------
(* Instances on a small machine: two pins, the two that processes fight over. *)
EXTENDS Instances, TLC

MCPins == <<"OFF", "REQ_OFF_B">>

(* Processes and inodes are only compared with one another.                  *)
MCSymmetry == Permutations(Proc) \cup Permutations(Inode)
=============================================================================
