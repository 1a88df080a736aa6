----------------------------- MODULE BatteryLog -----------------------------
(***************************************************************************)
(* The battery level log (logger.cpp) in the file system: the log in place  *)
(* and the one rotated log, each named by the daemon start that opened it.  *)
(* Each operator is one system call of logger::logger().  The result of     *)
(* remove() and of rename() is not looked at.                               *)
(***************************************************************************)
EXTENDS Naturals

CONSTANT
  None        \* no file

ASSUME BatteryLogAssumption == None \notin Nat

VARIABLES
  log,        \* the start whose log is in place
  rotated     \* the start whose log has been rotated

logVars == <<log, rotated>>

BatteryLogType ==
  /\ log \in Nat \cup {None}
  /\ rotated \in Nat \cup {None}

BatteryLogInit ==
  /\ log = None
  /\ rotated = None

(* The rotated log of an earlier start goes first (a regular file).          *)
RemoveRotated ==
  /\ rotated' = None
  /\ UNCHANGED log

(* Mutant: the log is opened in place, never renamed.                        *)
RenameNothing == UNCHANGED logVars

RenameLog ==
  IF log # None
  THEN log' = None /\ rotated' = log
  ELSE UNCHANGED logVars

(* ofstream::open() truncates what is there.                                 *)
OpenLog(start) ==
  /\ log' = start
  /\ UNCHANGED rotated
=============================================================================
