------------------------------ MODULE Service -------------------------------
(***************************************************************************)
(* The init script rocpmd.sh beside the processes it starts and signals     *)
(* (module Instances): start, stop, and restart, which signals the old      *)
(* daemon and starts the new process without waiting for the old one.       *)
(***************************************************************************)
EXTENDS Instances

VARIABLES
  at,         \* the script's next command
  again,      \* the script starts a daemon after it has stopped one
  pid         \* what it read from the pid file, then the process it started

scriptVars == <<at, again, pid>>
serviceVars == <<vars, scriptVars>>

ScriptLabels == {"idle", "test", "cat", "kill", "start", "wait"}

ScriptStart(again_) == IF again_ THEN "start" ELSE "idle"

-----------------------------------------------------------------------------
(* rocpmd.sh start, stop, restart or reload.                                 *)
Invoke ==
  /\ at = "idle"
  /\ \/ at' = "start" /\ UNCHANGED again
     \/ at' = "test" /\ again' \in BOOLEAN
  /\ pid' = None
  /\ UNCHANGED vars

(* [ -e $PIDFILE ]                                                           *)
TestPidfile ==
  /\ at = "test"
  /\ at' = IF path = None THEN ScriptStart(again) ELSE "cat"
  /\ UNCHANGED <<vars, again, pid>>

(* `cat $PIDFILE`; a file that is empty, or gone by now, yields nothing.     *)
CatPidfile ==
  /\ at = "cat"
  /\ pid' = IF path = None THEN None ELSE content[path]
  /\ at' = "kill"
  /\ UNCHANGED <<vars, again>>

(* kill, whose errors go to /dev/null; sig_handler() runs once only.         *)
KillDaemon ==
  /\ at = "kill"
  /\ IF pid # None /\ pc[pid] \in InMain THEN Signal(pid) ELSE UNCHANGED vars
  /\ at' = ScriptStart(again)
  /\ UNCHANGED <<again, pid>>

(* start_daemon(): $DAEMON without options ...                               *)
StartDaemon(p) ==
  /\ at = "start"
  /\ Start(p)
  /\ opts'[p] = {}
  /\ at' = "wait"
  /\ pid' = p
  /\ UNCHANGED again

(* ... which returns at detach_terminal()'s first fork, with the lock file   *)
(* not yet open, or on an error.                                             *)
DaemonReturns ==
  /\ at = "wait"
  /\ pc[pid] \notin BeforeOpen \ {"open"}
  /\ at' = "idle"
  /\ UNCHANGED <<vars, again, pid>>

-----------------------------------------------------------------------------
ServiceInit ==
  /\ Init
  /\ at = "idle"
  /\ again = FALSE
  /\ pid = None

Script ==
  \/ Invoke \/ TestPidfile \/ CatPidfile \/ KillDaemon \/ DaemonReturns
  \/ \E p \in Proc : StartDaemon(p)

(* The script beside everything else that starts and signals processes.      *)
ServiceNext == ~cut /\ (Script \/ (Next /\ UNCHANGED scriptVars))

ServiceSpec == ServiceInit /\ [][ServiceNext]_serviceVars

(* Nothing but the script starts or signals a process, nobody presses the    *)
(* button and nothing fails.                                                 *)
ScriptNext ==
  ~cut /\ (Script \/ \E p \in Proc : Run(p) /\ UNCHANGED scriptVars)

ScriptSpec == ServiceInit /\ [][ScriptNext]_serviceVars

=============================================================================
