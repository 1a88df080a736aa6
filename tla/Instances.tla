----------------------------- MODULE Instances ------------------------------
(***************************************************************************)
(* Several rocpmd processes on one machine: the daemon that init starts,    *)
(* the command-mode invocations (--battery-level, --battery-level-raw,      *)
(* --power-off) that users and rockillpower.sh run beside it, and the       *)
(* signals that stop them.  They share the lock file and the exported pins. *)
(*                                                                          *)
(* A process runs main() once; pc names the call it is about to make.  A    *)
(* process keeps its name through the two forks of detach_terminal(): the   *)
(* lock file only ever holds the pid the daemon has after them.             *)
(***************************************************************************)
EXTENDS Lockfile, GpioPins, FiniteSets

CONSTANT
  Disciplined  \* if TRUE, commands and signals come one at a time: see Quiet

ASSUME DisciplineAssumption == Disciplined \in BOOLEAN

VARIABLES
  pc,         \* pc[p]: the next call of process p
  opts,       \* opts[p]: its command line, "level" and/or "off", {} for a daemon
  lives,      \* lives[p]: rocpmd_status = ROCPMD_PROCESS_LIVES, as last probed
  k,          \* k[p]: index of the next pin in gpio_init() or gpio_cleanup()
  asserted,   \* the board asserts REQ_OFF_B: it has left POWER_ON for REQ_OFF
  halted,     \* halt_system() has run "shutdown -h now"
  cut         \* the board has gone on to POWER_OFF and cut the power

procVars == <<pc, opts, lives, k>>
boardVars == <<asserted, halted, cut>>
vars == <<lockVars, exported, procVars, boardVars>>

Options == {"level", "off"}

Labels ==
  { "idle", "load", "check", "read", "init", "direction", "recheck", "reread",
    "ask", "measure", "off", "pulsed", "exitclean", "open", "lock", "truncate",
    "write", "main", "loop", "halt", "sigclean", "delete", "unlink", "dead" }

(* Where sig_handler() may interrupt: anywhere in main() and the daemon, the *)
(* shutdown command that halt_system() waits for included.                   *)
InMain == Labels \ {"idle", "sigclean", "delete", "unlink", "dead"}

Alive == {p \in Proc : pc[p] \notin {"idle", "dead"}}

Daemons == {p \in Proc : pc[p] \in {"main", "loop"}}

(* Between the call that creates the lock file and the one that fills it.    *)
Locking == {"lock", "truncate", "write"}

(***************************************************************************)
(* The discipline under which the promises of the man page hold: nobody     *)
(* starts or signals a process while another one is between two resting     *)
(* places; while a daemon is in its loop nobody signals a process beside it *)
(* (sig_handler() would take the daemon's pins and lock file away); and the *)
(* lock file is not left empty, by a signal, a kill or an fcntl() that fails *)
(* while a process is Locking.                                              *)
(***************************************************************************)
Quiet(p) == Disciplined => \A q \in Proc \ {p} : pc[q] \in {"idle", "loop", "dead"}

BesideNoDaemon(p) ==
  Disciplined => \A q \in Proc \ {p} : pc[q] # "loop"

Interruptible(p) ==
  /\ pc[p] \in InMain
  /\ Disciplined => pc[p] \notin Locking
  /\ Quiet(p)

Goto(p, label) == pc' = [pc EXCEPT ![p] = label]

(* Mutants: a command without a daemon goes on; a command always cleans up. *)
FinishAsDaemon(o, alive) == "open"
FinishAlwaysCleaning(o, alive) == IF o # {} THEN "exitclean" ELSE "open"

(* Line 583: a command exits when no daemon lives, else falls to run_daemon. *)
Finish(o, alive) == IF o # {} /\ ~alive THEN "exitclean" ELSE "open"
AfterLevel(o, alive) == IF "off" \in o THEN "off" ELSE Finish(o, alive)
AfterInit(o, alive) == IF "level" \in o THEN "recheck" ELSE AfterLevel(o, alive)

(* The memory of a process ends with it.                                     *)
Die(p) ==
  /\ Goto(p, "dead")
  /\ opts' = [opts EXCEPT ![p] = {}]
  /\ lives' = [lives EXCEPT ![p] = FALSE]
  /\ k' = [k EXCEPT ![p] = 1]

(* exit(), return from main() or death: the kernel closes lock_fd.           *)
Exit(p) ==
  /\ Die(p)
  /\ CloseLockfile(p)

-----------------------------------------------------------------------------
(* main(): up to the first probe of the lock file.                           *)
Start(p) ==
  /\ pc[p] = "idle"
  /\ Quiet(p)
  /\ \E o \in SUBSET Options : opts' = [opts EXCEPT ![p] = o]
  /\ Goto(p, "load")
  /\ UNCHANGED <<lockVars, exported, lives, k, boardVars>>

LoadConfig(p) ==
  /\ pc[p] = "load"
  /\ Goto(p, "check")
  /\ UNCHANGED <<lockVars, exported, opts, lives, k, boardVars>>

(***************************************************************************)
(* The exits on error: a bad configuration, a failed fork, a lock file that *)
(* cannot be opened or locked, a ud_server whose sockets cannot be made.    *)
(* None of them cleans up the pins or the lock file.                        *)
(***************************************************************************)
Fail(p) ==
  /\ pc[p] \in {"load", "open", "lock", "main"}
  /\ Disciplined => pc[p] # "lock"
  /\ Exit(p)
  /\ UNCHANGED <<exported, boardVars>>

(***************************************************************************)
(* rocpmd_instance_lives(), called at line 487 ("check") and, for a battery *)
(* level, at line 508 ("recheck"): access() sees the file, then a second    *)
(* call reads it.                                                           *)
(***************************************************************************)
Decide(p, alive) ==
  /\ lives' = [lives EXCEPT ![p] = alive]
  /\ \/ /\ pc[p] \in {"check", "read"}
        /\ Goto(p, IF alive THEN AfterInit(opts[p], alive) ELSE "init")
     \/ /\ pc[p] \in {"recheck", "reread"}
        /\ Goto(p, IF alive THEN "ask" ELSE "measure")
  /\ k' = [k EXCEPT ![p] = 1]

SeeNoLockfile(p) ==
  /\ pc[p] \in {"check", "recheck"}
  /\ path = None
  /\ Decide(p, FALSE)
  /\ UNCHANGED <<lockVars, exported, opts, boardVars>>

SeeLockfile(p) ==
  /\ pc[p] \in {"check", "recheck"}
  /\ path # None
  /\ Goto(p, IF pc[p] = "check" THEN "read" ELSE "reread")
  /\ UNCHANGED <<lockVars, exported, opts, lives, k, boardVars>>

ProbePid(p) ==
  /\ pc[p] \in {"read", "reread"}
  /\ \E alive \in PidProbe(Alive) : Decide(p, alive)
  /\ UNCHANGED <<lockVars, exported, opts, boardVars>>

(***************************************************************************)
(* gpio_init(): export each pin, then set its direction (and drive CS); the *)
(* first pin whose files are gone ends it, and main() ignores the status.   *)
(***************************************************************************)
InitPin(p) ==
  /\ pc[p] = "init"
  /\ ExportPin(k[p])
  /\ Goto(p, "direction")
  /\ UNCHANGED <<lockVars, opts, lives, k, boardVars>>

(* Mutant: the loop over the pins stops one short.                           *)
SetDirectionShort(p) ==
  /\ pc[p] = "direction"
  /\ k' = [k EXCEPT ![p] = 1]
  /\ Goto(p, AfterInit(opts[p], lives[p]))
  /\ UNCHANGED <<lockVars, exported, opts, lives, boardVars>>

SetDirection(p) ==
  /\ pc[p] = "direction"
  /\ IF Usable(Pins[k[p]]) /\ k[p] < Len(Pins)
     THEN /\ k' = [k EXCEPT ![p] = @ + 1]
          /\ Goto(p, "init")
     ELSE /\ k' = [k EXCEPT ![p] = 1]
          /\ Goto(p, AfterInit(opts[p], lives[p]))
  /\ UNCHANGED <<lockVars, exported, opts, lives, boardVars>>

(* Lines 519-574: the level comes from the daemon, or from the pins.         *)
ReadLevel(p) ==
  /\ pc[p] \in {"ask", "measure"}
  /\ Goto(p, AfterLevel(opts[p], lives[p]))
  /\ UNCHANGED <<lockVars, exported, opts, lives, k, boardVars>>

(* A press of the button, or a rising edge of OFF, moves the board on: to    *)
(* REQ_OFF, which it asserts, and from there to POWER_OFF.                   *)
AdvanceBoard ==
  /\ asserted' = TRUE
  /\ cut' = asserted

(***************************************************************************)
(* One of the three pulses of gpio_write_off(), which are 400 ms apart; the *)
(* first whose pin is gone ends it, and main() ignores the status.  The     *)
(* second, at the latest, cuts the power: the third meets no program.       *)
(***************************************************************************)
WriteOff(p) ==
  /\ pc[p] \in {"off", "pulsed"}
  /\ IF Usable(Off) THEN AdvanceBoard ELSE UNCHANGED <<asserted, cut>>
  /\ Goto(p, IF Usable(Off) /\ ~asserted THEN "pulsed"
              ELSE Finish(opts[p], lives[p]))
  /\ UNCHANGED <<lockVars, exported, opts, lives, k, halted>>

(* Mutant: the loop over the pins runs one too far.                          *)
CleanupPinBeyond(p) ==
  /\ pc[p] \in {"exitclean", "sigclean"}
  /\ UnexportPin(k[p])
  /\ k' = [k EXCEPT ![p] = @ + 1]
  /\ UNCHANGED <<lockVars, pc, opts, lives, boardVars>>

(***************************************************************************)
(* gpio_cleanup(), at the end of a command (line 585) or in sig_handler().  *)
(***************************************************************************)
CleanupPin(p) ==
  /\ pc[p] \in {"exitclean", "sigclean"}
  /\ UnexportPin(k[p])
  /\ IF k[p] < Len(Pins)
     THEN /\ k' = [k EXCEPT ![p] = @ + 1]
          /\ UNCHANGED <<lockVars, pc, opts, lives>>
     ELSE IF pc[p] = "sigclean"
     THEN /\ k' = [k EXCEPT ![p] = 1]
          /\ Goto(p, "delete")
          /\ UNCHANGED <<lockVars, opts, lives>>
     ELSE Exit(p)
  /\ UNCHANGED boardVars

-----------------------------------------------------------------------------
(* run_daemon(): daemonize() detaches, then is_running() opens the file.     *)
Open(p) ==
  /\ pc[p] = "open"
  /\ OpenLockfile(p)
  /\ Goto(p, "lock")
  /\ UNCHANGED <<exported, opts, lives, k, boardVars>>

Lock(p) ==
  /\ pc[p] = "lock"
  /\ TakeLock(p)
  /\ Goto(p, "truncate")
  /\ UNCHANGED <<exported, opts, lives, k, boardVars>>

(* Mutant: the loser of the lock race deletes ROCPMD on its way out.         *)
LockBusyCleans(p) ==
  /\ pc[p] = "lock"
  /\ ~LockFree(p)
  /\ Goto(p, "delete")
  /\ UNCHANGED <<lockVars, exported, opts, lives, k, boardVars>>

(* is_running() returns true and daemonize() exits.                          *)
LockBusy(p) ==
  /\ pc[p] = "lock"
  /\ ~LockFree(p)
  /\ Exit(p)
  /\ UNCHANGED <<exported, boardVars>>

Truncate(p) ==
  /\ pc[p] = "truncate"
  /\ TruncateLockfile(p)
  /\ Goto(p, "write")
  /\ UNCHANGED <<exported, opts, lives, k, boardVars>>

Write(p) ==
  /\ pc[p] = "write"
  /\ WritePid(p)
  /\ Goto(p, "main")
  /\ UNCHANGED <<exported, opts, lives, k, boardVars>>

(* daemon_main(): the ud_server and the log are made, the loop begins.       *)
EnterLoop(p) ==
  /\ pc[p] = "main"
  /\ Goto(p, "loop")
  /\ UNCHANGED <<lockVars, exported, opts, lives, k, boardVars>>

(* The loop polls REQ_OFF_B and halt_system() runs "shutdown -h now" ...     *)
HaltOnReqOff(p) ==
  /\ pc[p] = "loop"
  /\ ReqOffRead(asserted)
  /\ halted' = TRUE
  /\ Goto(p, "halt")
  /\ UNCHANGED <<lockVars, exported, opts, lives, k, asserted, cut>>

(* ... and when that returns the loop ends, and main() deletes ROCPMD.       *)
HaltReturns(p) ==
  /\ pc[p] = "halt"
  /\ Goto(p, "delete")
  /\ UNCHANGED <<lockVars, exported, opts, lives, k, boardVars>>

-----------------------------------------------------------------------------
(***************************************************************************)
(* delete ROCPMD.  ~rocpmd() deletes battery_level_log, which is assigned   *)
(* only when the configuration asks for a log: deleting the indeterminate   *)
(* pointer may do nothing or may end the process on the spot.  Then         *)
(* ~tdaemon() unlocks, closes and unlinks, whether or not p has the lock.   *)
(***************************************************************************)
Delete(p) ==
  /\ pc[p] = "delete"
  /\ CloseLockfile(p)
  /\ \/ Goto(p, "unlink") /\ UNCHANGED <<opts, lives, k>>
     \/ Die(p)
  /\ UNCHANGED <<exported, boardVars>>

Unlink(p) ==
  /\ pc[p] = "unlink"
  /\ UnlinkLockfile
  /\ Die(p)
  /\ UNCHANGED <<exported, boardVars>>

-----------------------------------------------------------------------------
(* The environment: signals, sudden deaths, the button.                      *)

(* SIGINT, SIGTERM (or SIGHUP before it is ignored) enters sig_handler();    *)
(* before the configuration is loaded there are no pins to clean up.         *)
Signal(p) ==
  /\ Interruptible(p)
  /\ BesideNoDaemon(p)
  /\ Goto(p, IF pc[p] = "load" THEN "delete" ELSE "sigclean")
  /\ k' = [k EXCEPT ![p] = 1]
  /\ UNCHANGED <<lockVars, exported, opts, lives, boardVars>>

(* SIGKILL, SIGPIPE, a crash: no handler runs.                               *)
Kill(p) ==
  /\ Interruptible(p)
  /\ Exit(p)
  /\ UNCHANGED <<exported, boardVars>>

Press ==
  /\ AdvanceBoard
  /\ UNCHANGED <<lockVars, exported, procVars, halted>>

-----------------------------------------------------------------------------
Init ==
  /\ LockfileInit
  /\ exported = {}
  /\ pc = [p \in Proc |-> "idle"]
  /\ opts = [p \in Proc |-> {}]
  /\ lives = [p \in Proc |-> FALSE]
  /\ k = [p \in Proc |-> 1]
  /\ asserted = FALSE
  /\ halted = FALSE
  /\ cut = FALSE

(* What a process does by itself.                                            *)
Run(p) ==
  \/ LoadConfig(p)  \/ SeeNoLockfile(p) \/ SeeLockfile(p) \/ ProbePid(p)
  \/ InitPin(p)     \/ SetDirection(p)  \/ ReadLevel(p)
  \/ WriteOff(p)    \/ CleanupPin(p)
  \/ Open(p)        \/ Lock(p)          \/ LockBusy(p)
  \/ Truncate(p)    \/ Write(p)         \/ EnterLoop(p)
  \/ HaltOnReqOff(p) \/ HaltReturns(p)
  \/ Delete(p)      \/ Unlink(p)

Step(p) == Run(p) \/ Start(p) \/ Fail(p) \/ Signal(p) \/ Kill(p)

(* Once the power is cut nothing runs any more.                              *)
Next == ~cut /\ (Press \/ \E p \in Proc : Step(p))

Spec == Init /\ [][Next]_vars

-----------------------------------------------------------------------------
(* The type of every variable.                                               *)
TypeOK ==
  /\ LockfileType
  /\ exported \subseteq AllPins
  /\ pc \in [Proc -> Labels]
  /\ opts \in [Proc -> SUBSET Options]
  /\ lives \in [Proc -> BOOLEAN]
  /\ k \in [Proc -> 1..Len(Pins)]
  /\ asserted \in BOOLEAN
  /\ halted \in BOOLEAN
  /\ cut \in BOOLEAN

(***************************************************************************)
(* Why is_running() makes a singleton: an inode's lock belongs to a process *)
(* that has it open, a process past lock() has the lock of the inode it     *)
(* opened, and the pid it wrote there stays (nobody truncates without the   *)
(* lock, and a new lock file is an inode nobody uses).                      *)
(***************************************************************************)
BeforeOpen == {"idle", "load", "check", "read", "init", "direction", "recheck",
               "reread", "ask", "measure", "off", "pulsed", "open"}

OwnerHasOpen == \A i \in Inode : owner[i] # None => fd[owner[i]] = i

NotYetOpen == \A p \in Proc : pc[p] \in BeforeOpen => fd[p] = None

OpenedBeforeLock == \A p \in Proc : pc[p] = "lock" => fd[p] # None

LockHeld ==
  \A p \in Proc :
    pc[p] \in {"truncate", "write", "main", "loop"} =>
      fd[p] # None /\ owner[fd[p]] = p

PidWritten == \A p \in Daemons : content[fd[p]] = p

LockInv ==
  /\ OwnerHasOpen
  /\ NotYetOpen
  /\ OpenedBeforeLock
  /\ LockHeld
  /\ PidWritten

(***************************************************************************)
(* Whatever is started, signalled or killed, and whenever: at most one      *)
(* daemon runs on the lock file that /var/run/rocpmd.pid names.  A second   *)
(* daemon can only run beside one whose lock file has been unlinked.        *)
(***************************************************************************)
SingletonOnPath ==
  \A p, q \in Daemons : p # q => ~(fd[p] = path /\ fd[q] = path)

(***************************************************************************)
(* While a daemon runs on the lock file in place, the file holds that       *)
(* daemon's pid: the losers of the lock race do not clobber it, so the pid  *)
(* that rocpmd.sh stop reads and signals is the daemon's.                   *)
(***************************************************************************)
PidFileNamesDaemon ==
  \A p \in Daemons : fd[p] = path => content[path] = p

(***************************************************************************)
(* tdaemon.h, SINGLETON: at most one daemon runs.                           *)
(***************************************************************************)
Singleton == halted \/ \A p, q \in Daemons : p = q

(***************************************************************************)
(* man rocpmd, --battery-level and --power-off: a command exits afterwards  *)
(* rather than going into daemon mode.                                      *)
(***************************************************************************)
CommandsStayCommands == halted \/ \A p \in Daemons : opts[p] = {}

(***************************************************************************)
(* README: the controller provides for safe shutdown when the button is     *)
(* pressed.  A daemon halts only when the board requests it by REQ_OFF_B,   *)
(* for the button or for somebody's OFF pulse (rocpmd.1), and not because   *)
(* the pins are taken away from it (low battery is not in this module).     *)
(***************************************************************************)
HaltJustified == halted => asserted

(***************************************************************************)
(* A daemon in its main loop has all the pins it polls and drives, until a  *)
(* shutdown has begun.                                                      *)
(***************************************************************************)
LoopHasPins ==
  halted \/ \A p \in Proc : pc[p] = "loop" => AllPins \subseteq exported

(***************************************************************************)
(* man rocpmd, --power-off: the OFF signal is sent until the power is cut;  *)
(* a process that finds its OFF pin unexported sends nothing and goes on.   *)
(* Once a shutdown has begun this is promised to a command that has met no  *)
(* daemon and so has exported the pins itself, as rockillpower.sh's has,    *)
(* and to one that has sent its first pulse.                                *)
(***************************************************************************)
ExportsItself(p) == opts[p] = {"off"} /\ ~lives[p]

PowerOffWorks ==
  [][\A p \in Proc :
       /\ \/ pc[p] = "off" /\ (~halted \/ ExportsItself(p))
          \/ pc[p] = "pulsed"
       /\ pc'[p] = Finish(opts[p], lives[p])
       => cut']_vars

(***************************************************************************)
(* tdaemon.h, SINGLETON: whatever is started, signalled or killed, the lock *)
(* file is a lease: the losers of the lock race, and the processes that     *)
(* clean up, never change the pid that the leaseholder has written.         *)
(***************************************************************************)
Promise == INSTANCE Lease WITH
  place <- path,
  text <- content,
  holder <- owner

KeepsPromise == Promise!Spec
=============================================================================
