------------------------------ MODULE Shutdown ------------------------------
(***************************************************************************)
(* From the button, or an empty battery, to the power cut: the daemon's     *)
(* loop, the operating system that stops it and unmounts its file systems,  *)
(* rockillpower.sh, which runs rocpmd --power-off at the very end, and the  *)
(* OFF pulses of that command on the board (module PowerBoard).  Each start *)
(* of the daemon rotates the battery level log (module BatteryLog).         *)
(*                                                                          *)
(* One daemon at a time (module Instances says when that is so); a socket   *)
(* client that asks for OFF counts as a user's --power-off.  A client that  *)
(* has connected holds the daemon's loop until it has closed (module        *)
(* UdService).                                                              *)
(***************************************************************************)
EXTENDS PowerBoard, BatteryLog, Integers

CONSTANTS
  Interval,     \* battery-level-read-interval, in ticks of the clock
  MaxBoots,     \* bound: boots of the operating system, reboots included
  MaxRestarts,  \* bound: starts of the daemon besides those of the boots
  MaxSetbacks,  \* bound: how often the system clock is set back by a tick
  PidReuse      \* may the pid in a stale lock file belong to another program?

ASSUME ShutdownAssumption ==
  /\ Interval \in Nat \ {0}
  /\ MaxBoots \in Nat /\ MaxRestarts \in Nat /\ MaxSetbacks \in Nat
  /\ PidReuse \in BOOLEAN

VARIABLES
  os,         \* "off", "up", "stopping", "rebooting", or "halted" under power
  mounted,    \* the file systems are mounted
  due,        \* the boot has yet to run rocpmd.sh start
  daemon,     \* the next call of the daemon, or "serving": it reads from a client
  logging,    \* create_power_log, once logger::logger() has returned
  elapsed,    \* now - last_read
  pinned,     \* the pins are exported
  lockfile,   \* the lock file exists
  cmd,        \* who runs rocpmd --power-off: nobody, a user, rockillpower.sh
  live,       \* that command saw a living daemon
  writes,     \* the writes to OFF it has yet to make
  battery,    \* "good", "empty" (the power map gives 0%), or "charging"
  session,    \* the number of daemon starts
  opened,     \* the starts that opened a log
  before,     \* the starts of earlier boots
  boots, restarts, setbacks,
  presses,    \* button presses since the board was powered on
  forced,     \* a user's --power-off has begun since then
  misled,     \* the last command took a stranger for the daemon: no pins
  left        \* why the machine runs on without the daemon: it was "ended" by
              \* others, its shutdown command was "refused", or "none" of these

osVars == <<os, mounted, due>>
runVars == <<daemon, logging, elapsed, pinned, lockfile>>
cmdVars == <<cmd, live, writes>>
startVars == <<session, opened, before, boots, restarts, setbacks>>
noteVars == <<presses, forced, misled, left>>
vars == <<powerVars, logVars, osVars, runVars, cmdVars, battery, startVars, noteVars>>

-----------------------------------------------------------------------------
(* What a machine has lost when it comes up, and when its power is cut.      *)
Fresh ==
  /\ daemon' = "none" /\ logging' = FALSE /\ elapsed' = 0
  /\ pinned' = FALSE /\ lockfile' = FALSE
  /\ cmd' = "none" /\ live' = FALSE /\ writes' = 0
  /\ misled' = FALSE /\ left' = "none"

Boot ==
  /\ boots < MaxBoots
  /\ boots' = boots + 1
  /\ before' = session
  /\ os' = "up" /\ mounted' = TRUE /\ due' = TRUE
  /\ Fresh
  /\ UNCHANGED <<logVars, battery, session, opened, restarts, setbacks>>

PowerLost ==
  /\ os' = "off" /\ mounted' = FALSE /\ due' = FALSE
  /\ Fresh
  /\ UNCHANGED <<logVars, battery, startVars>>

(* The board has moved: either it cut the power or the machine goes on.      *)
Unless(goesOn) == IF board' = "POWER_OFF" THEN PowerLost ELSE goesOn

Button ==
  /\ PressButton
  /\ IF board = "POWER_OFF"
     THEN Boot /\ presses' = 0 /\ forced' = FALSE
     ELSE /\ presses' = presses + 1
          /\ UNCHANGED forced
          /\ Unless(UNCHANGED <<logVars, osVars, runVars, cmdVars, battery,
                               startVars, misled, left>>)

-----------------------------------------------------------------------------
(***************************************************************************)
(* rocpmd_instance_lives(), as far as a machine with one daemon tells.      *)
(***************************************************************************)
Probe ==
  IF ~lockfile THEN {FALSE}
  ELSE IF daemon # "none" THEN {TRUE}
  ELSE IF PidReuse THEN BOOLEAN ELSE {FALSE}

(* Mutant: the pins are left as they are.                                    *)
PreparePinsNever(alive) == pinned' = pinned /\ UNCHANGED powerVars

(* main(), line 491: gpio_init() exports the pins and drives OFF low.        *)
PreparePins(alive) ==
  IF alive
  THEN UNCHANGED <<pinned, powerVars>>
  ELSE pinned' = TRUE /\ DriveOff("LOW")

(* A process that has locked the lock file and enters daemon_main().         *)
NewDaemon ==
  /\ lockfile' = TRUE
  /\ elapsed' = 0
  /\ daemon' = "remove" /\ logging' = FALSE
  /\ session' = session + 1
  /\ left' = "none"

(* rocpmd.sh start, by the boot or by hand, up to daemon_main().  (Where a   *)
(* stale lock file misleads the probe, the daemon runs without pins.)        *)
StartDaemon ==
  /\ os = "up" /\ daemon = "none"
  /\ due \/ restarts < MaxRestarts
  /\ restarts' = IF due THEN restarts ELSE restarts + 1
  /\ due' = FALSE
  /\ \E alive \in Probe : PreparePins(alive)
  /\ NewDaemon
  /\ UNCHANGED <<logVars, os, mounted, cmdVars, battery, opened, before, boots,
                 setbacks, presses, forced, misled>>

LogStep(here, next) ==
  /\ daemon = here
  /\ daemon' = next
  /\ UNCHANGED <<powerVars, osVars, elapsed, pinned, lockfile, cmdVars, battery,
                 session, before, boots, restarts, setbacks, noteVars>>

RotateOut ==
  /\ LogStep("remove", "rename")
  /\ IF mounted THEN RemoveRotated ELSE UNCHANGED logVars
  /\ UNCHANGED <<logging, opened>>

Rotate ==
  /\ LogStep("rename", "openlog")
  /\ IF mounted THEN RenameLog ELSE UNCHANGED logVars
  /\ UNCHANGED <<logging, opened>>

(* daemon_main(): the log is opened or, with an error in syslog, skipped;    *)
(* the first measurement, which does not halt, and into the loop.            *)
Open ==
  /\ LogStep("openlog", "loop")
  /\ \/ /\ mounted
        /\ OpenLog(session)
        /\ logging' = TRUE
        /\ opened' = opened \cup {session}
     \/ /\ logging' = FALSE
        /\ UNCHANGED <<logVars, opened>>

-----------------------------------------------------------------------------
(***************************************************************************)
(* delete ROCPMD: ~rocpmd() deletes battery_level_log, which is not assigned *)
(* without a log and may end the process before the lock file is unlinked.  *)
(***************************************************************************)
DeleteDaemon ==
  /\ daemon' = "none" /\ logging' = FALSE /\ elapsed' = 0
  /\ lockfile' \in IF logging THEN {FALSE} ELSE BOOLEAN

(* halt_system(): "shutdown -h now", whose failure goes unnoticed: the       *)
(* daemon ends all the same.  In a reboot that has begun it may be too late. *)
HaltSystem ==
  /\ os' \in CASE os = "up" -> {"stopping", "up"}
               [] os = "rebooting" -> {"stopping", "rebooting"}
               [] OTHER -> {os}
  /\ left' = IF os' = "up" THEN "refused" ELSE left
  /\ DeleteDaemon
  /\ UNCHANGED <<powerVars, logVars, mounted, due, pinned, cmdVars, battery,
                 startVars, presses, forced, misled>>

ReqOffRead == RequestsOff \/ ~pinned

(* One turn of the main loop: the button comes first.                        *)
HaltOnReqOff ==
  /\ daemon = "loop"
  /\ ReqOffRead
  /\ HaltSystem

(* battery_level_read_interval_expired()                                     *)
IntervalExpired(expired) ==
  /\ expired = (elapsed >= Interval)
  /\ elapsed' = IF expired THEN 0 ELSE elapsed

(* handle_requests(): a client may have connected; read() waits for it.      *)
HandleRequests ==
  /\ daemon' \in {"loop", "serving"}
  /\ UNCHANGED <<powerVars, logVars, osVars, logging, pinned, lockfile, cmdVars,
                 battery, startVars, noteVars>>

NextMeasurementNotDue ==
  /\ daemon = "loop" /\ ~ReqOffRead
  /\ IntervalExpired(FALSE)
  /\ HandleRequests

(* A battery that is charging reads as -1, however empty it is.              *)
Measure ==
  /\ daemon = "loop" /\ ~ReqOffRead
  /\ IntervalExpired(TRUE)
  /\ IF battery = "empty"
     THEN HaltSystem
     ELSE HandleRequests

(* The client has sent its command, or closed: the loop goes on.             *)
ClientDone ==
  /\ daemon = "serving"
  /\ daemon' = "loop"
  /\ UNCHANGED <<powerVars, logVars, osVars, logging, elapsed, pinned, lockfile,
                 cmdVars, battery, startVars, noteVars>>

(* SIGTERM, from rocpmd.sh stop or the shutdown: sig_handler().              *)
Stop ==
  /\ daemon # "none"
  /\ DeleteDaemon
  /\ pinned' = FALSE
  /\ left' = IF os = "up" THEN "ended" ELSE left
  /\ UNCHANGED <<powerVars, logVars, osVars, cmdVars, battery, startVars, presses,
                 forced, misled>>

(* SIGKILL, SIGPIPE, a crash.                                                *)
Crash ==
  /\ daemon # "none"
  /\ daemon' = "none" /\ logging' = FALSE /\ elapsed' = 0
  /\ left' = IF os = "up" THEN "ended" ELSE left
  /\ UNCHANGED <<powerVars, logVars, osVars, pinned, lockfile, cmdVars,
                 battery, startVars, presses, forced, misled>>

-----------------------------------------------------------------------------
(* The operating system.                                                     *)

(* A user's shutdown or reboot; no start of the daemon is due any more.      *)
AskFor(state) ==
  /\ os = "up"
  /\ state = "rebooting" => boots < MaxBoots
  /\ os' = state
  /\ due' = FALSE
  /\ UNCHANGED <<powerVars, logVars, mounted, runVars, cmdVars, battery, startVars,
                 noteVars>>

Ending == os \in {"stopping", "rebooting"}

Unmount ==
  /\ Ending /\ mounted
  /\ mounted' = FALSE
  /\ UNCHANGED <<powerVars, logVars, os, due, runVars, cmdVars, battery, startVars,
                 noteVars>>

(* rocpmd.sh stop: Default-Stop 0, or the init system's own signal.          *)
StopDaemon == Ending /\ Stop

(* A user's command is ended before the last scripts run.                    *)
StopCommand ==
  /\ Ending /\ cmd = "user"
  /\ cmd' = "none" /\ live' = FALSE /\ writes' = 0
  /\ UNCHANGED <<powerVars, logVars, osVars, runVars, battery, startVars, noteVars>>

(* The last scripts run when all else is done.                               *)
AllDone == ~mounted /\ daemon = "none" /\ cmd = "none"

(* A reset leaves OFF an input.                                              *)
Reboot ==
  /\ os = "rebooting" /\ AllDone
  /\ Boot
  /\ DriveOff("LOW")
  /\ UNCHANGED <<presses, forced>>

(* Mutant: the script also runs the command when the system reboots.         *)
RunsPowerOffAlways == Ending

(* rockillpower.sh stop, or poweroff: not reboot, halt or kexec.             *)
RunsPowerOff == os = "stopping"

-----------------------------------------------------------------------------
(* rocpmd --power-off.                                                       *)

(* Mutant: a single pulse, as the board needs in REQ_OFF.                    *)
OnePulse == 2

(* gpio_write_off(): three times HIGH, then LOW.                             *)
OffWrites == 6

BeginCommand(who) ==
  /\ cmd = "none"
  /\ cmd' = who
  /\ \E alive \in Probe : live' = alive /\ PreparePins(alive)
  /\ writes' = OffWrites
  /\ UNCHANGED <<logVars, osVars, daemon, logging, elapsed, lockfile, battery,
                 startVars, presses, left>>

UserPowerOff ==
  /\ os = "up"
  /\ BeginCommand("user")
  /\ forced' = TRUE
  /\ UNCHANGED misled

FinalPowerOff ==
  /\ RunsPowerOff /\ AllDone
  /\ BeginCommand("script")
  /\ misled' = (live' /\ ~pinned')
  /\ UNCHANGED forced

(* Mutant: the loop over the pulses counts the wrong way.                    *)
WriteOffUpwards ==
  /\ cmd # "none" /\ writes > 0 /\ pinned
  /\ DriveOff(IF writes % 2 = 0 THEN "HIGH" ELSE "LOW")
  /\ Unless(/\ writes' = writes + 1
            /\ UNCHANGED <<logVars, osVars, runVars, cmd, live, battery, startVars,
                           misled, left>>)
  /\ UNCHANGED <<presses, forced>>

(* One digitalWrite(); the power may go with it.                             *)
WriteOff ==
  /\ cmd # "none" /\ writes > 0 /\ pinned
  /\ DriveOff(IF writes % 2 = 0 THEN "HIGH" ELSE "LOW")
  /\ Unless(/\ writes' = writes - 1
            /\ UNCHANGED <<logVars, osVars, runVars, cmd, live, battery, startVars,
                           misled, left>>)
  /\ UNCHANGED <<presses, forced>>

(* After the pulses, or the first write that fails, main() goes on.          *)
Written == cmd # "none" /\ (writes = 0 \/ ~pinned)

(* A command that saw a living daemon runs into run_daemon(), and becomes    *)
(* the daemon where that one has ended.  (The script's is lost in the halt.) *)
RunsIntoDaemon ==
  /\ cmd = "user" /\ live /\ daemon = "none"
  /\ restarts < MaxRestarts

CommandBecomesDaemon ==
  /\ Written /\ RunsIntoDaemon
  /\ restarts' = restarts + 1
  /\ NewDaemon
  /\ cmd' = "none" /\ live' = FALSE /\ writes' = 0
  /\ UNCHANGED <<powerVars, logVars, osVars, pinned, battery, opened, before, boots,
                 setbacks, presses, forced, misled>>

(* A command without a daemon cleans up, another is turned away by the       *)
(* daemon; the system waits for a power cut that does not come.              *)
EndCommand ==
  /\ Written /\ ~RunsIntoDaemon
  /\ pinned' = (pinned /\ live)
  /\ os' = IF cmd = "script" THEN "halted" ELSE os
  /\ cmd' = "none" /\ live' = FALSE /\ writes' = 0
  /\ UNCHANGED <<powerVars, logVars, mounted, due, daemon, logging, elapsed, lockfile,
                 battery, startVars, noteVars>>

(* A signal or a crash in the middle of the pulses: the line stays as it is. *)
(* sig_handler() takes the pins and the lock file away, SIGKILL does not.    *)
Interrupt ==
  /\ cmd = "user"
  /\ cmd' = "none" /\ live' = FALSE /\ writes' = 0
  /\ \/ UNCHANGED <<pinned, lockfile>>
     \/ pinned' = FALSE /\ lockfile' = FALSE
  /\ UNCHANGED <<powerVars, logVars, osVars, daemon, logging, elapsed, battery,
                 startVars, noteVars>>

-----------------------------------------------------------------------------
(* The battery, the wall supply and the clock.                               *)
(* However empty, it is recharged only from the wall supply.                *)
Environment ==
  /\ os # "off"
  /\ battery' \in CASE battery = "good" -> {"empty", "charging"}
                    [] battery = "empty" -> {"charging"}
                    [] battery = "charging" -> {"good", "empty"}
  /\ UNCHANGED <<powerVars, logVars, osVars, runVars, cmdVars, startVars, noteVars>>

Tick ==
  /\ daemon # "none" /\ elapsed < Interval
  /\ elapsed' = elapsed + 1
  /\ UNCHANGED <<powerVars, logVars, osVars, daemon, logging, pinned, lockfile,
                 cmdVars, battery, startVars, noteVars>>

(* gettimeofday() follows the system clock, which may be set back.           *)
SetBack ==
  /\ daemon # "none" /\ setbacks < MaxSetbacks
  /\ setbacks' = setbacks + 1
  /\ elapsed' = elapsed - 1
  /\ UNCHANGED <<powerVars, logVars, osVars, daemon, logging, pinned, lockfile,
                 cmdVars, battery, session, opened, before, boots, restarts, noteVars>>

-----------------------------------------------------------------------------
Init ==
  /\ PowerBoardInit /\ BatteryLogInit
  /\ os = "off" /\ mounted = FALSE /\ due = FALSE
  /\ daemon = "none" /\ logging = FALSE /\ elapsed = 0
  /\ pinned = FALSE /\ lockfile = FALSE
  /\ cmd = "none" /\ live = FALSE /\ writes = 0
  /\ battery \in {"good", "empty"}
  /\ session = 0 /\ opened = {} /\ before = 0
  /\ boots = 0 /\ restarts = 0 /\ setbacks = 0
  /\ presses = 0 /\ forced = FALSE /\ misled = FALSE /\ left = "none"

Daemon ==
  \/ RotateOut \/ Rotate \/ Open
  \/ HaltOnReqOff \/ NextMeasurementNotDue \/ Measure

BootDaemon == due /\ StartDaemon

(* Going up and going down, which exclude each other.                        *)
System ==
  \/ BootDaemon
  \/ Unmount \/ StopDaemon \/ StopCommand \/ Reboot \/ FinalPowerOff

Command == WriteOff \/ CommandBecomesDaemon \/ EndCommand

User ==
  \/ Button \/ UserPowerOff \/ Interrupt \/ Crash
  \/ AskFor("stopping") \/ AskFor("rebooting")
  \/ ~due /\ StartDaemon
  \/ os = "up" /\ Stop

Next ==
  \/ Daemon \/ ClientDone \/ System \/ Command \/ User
  \/ Environment \/ Tick \/ SetBack

Spec == Init /\ [][Next]_vars

(***************************************************************************)
(* The daemon, where it does not wait for a client, the boot, the shutdown  *)
(* scripts, the command and the clock go on; nobody needs to press, start,  *)
(* stop or recharge anything.                                               *)
(***************************************************************************)
Fairness ==
  WF_vars(Daemon) /\ WF_vars(System) /\ WF_vars(Command) /\ WF_vars(Tick)

(***************************************************************************)
(* Nothing in the code bounds read() on a connection: that a client which   *)
(* has connected sends or closes is an assumption about the clients, which  *)
(* what is said of the button and of the battery rests on.  Without it the  *)
(* loop stands still (UdService!ButtonHalts without fair clients).          *)
(***************************************************************************)
ClientFairness == WF_vars(ClientDone)

FairSpec == Spec /\ Fairness /\ ClientFairness

-----------------------------------------------------------------------------
(* The type of every variable.                                               *)
OsType ==
  /\ os \in {"off", "up", "stopping", "rebooting", "halted"}
  /\ mounted \in BOOLEAN /\ due \in BOOLEAN

RunType ==
  /\ daemon \in {"none", "remove", "rename", "openlog", "loop", "serving"}
  /\ logging \in BOOLEAN /\ pinned \in BOOLEAN /\ lockfile \in BOOLEAN

CommandType ==
  /\ cmd \in {"none", "user", "script"}
  /\ live \in BOOLEAN

BatteryType == battery \in {"good", "empty", "charging"}

NumberType ==
  /\ elapsed \in Int
  /\ writes \in 0..OffWrites
  /\ session \in Nat /\ opened \subseteq Nat /\ before \in Nat
  /\ boots \in Nat /\ restarts \in Nat /\ setbacks \in Nat
  /\ presses \in Nat

NoteType ==
  /\ forced \in BOOLEAN /\ misled \in BOOLEAN
  /\ left \in {"none", "ended", "refused"}

TypeOK ==
  /\ PowerBoardType /\ BatteryLogType /\ OsType /\ RunType
  /\ CommandType /\ BatteryType /\ NumberType /\ NoteType

(***************************************************************************)
(* Why the command cuts the power: OFF is high only in REQ_OFF, so that its *)
(* first two pulses have an edge for each state the board is in.  Why       *)
(* nothing else does: what brought the board to REQ_OFF is remembered.      *)
(***************************************************************************)
ScriptOnItsWay ==
  /\ pinned /\ writes \in 4..6
  /\ writes < 6 => board = "REQ_OFF"
  /\ writes = 4 => line = "LOW"

PowerInv ==
  /\ line = "HIGH" => board = "REQ_OFF"
  /\ board = "POWER_OFF" => os = "off"
  /\ os = "off" => cmd = "none" /\ daemon = "none"
  /\ cmd = "user" => forced
  /\ cmd = "script" => /\ os = "stopping" /\ ~mounted /\ daemon = "none"
                       /\ IF misled THEN ~pinned ELSE ScriptOnItsWay
  /\ os = "halted" => misled
  /\ board = "POWER_ON" => presses = 0
  /\ board = "REQ_OFF" =>
       \/ presses = 1
       \/ presses = 0 /\ (forced \/ (cmd = "script" /\ ~misled))

(* Where the logs of this start and of the one before it are.                *)
Rotating == {"remove", "rename", "openlog"}

LogInv ==
  /\ opened \subseteq 1..session
  /\ session \in opened => log = session
  /\ (session - 1) \in opened => (session - 1) \in {log, rotated}
  /\ daemon \in Rotating => session > 0 /\ session \notin opened
  /\ (daemon \in {"remove", "rename"} /\ (session - 1) \in opened) => log = session - 1
  /\ (daemon = "openlog" /\ (session - 1) \in opened) =>
       rotated = session - 1 \/ (~mounted /\ log = session - 1)

(***************************************************************************)
(* rocpmd.1, "Powering on" to "Emergency Manual Shutdown": the power is cut *)
(* by the script of a shutdown, after the file systems are unmounted; by a  *)
(* second press of the button; or because a user asked for --power-off,     *)
(* even where that command was interrupted between two pulses.  Neither one *)
(* press, nor the daemon, nor a reboot cuts it.                             *)
(***************************************************************************)
CleanCut ==
  [][(board # "POWER_OFF" /\ board' = "POWER_OFF")
       => \/ os = "stopping" /\ ~mounted
          \/ presses' = 2
          \/ forced]_vars

(***************************************************************************)
(* rocpmd.1, "User initiated shutdown using the shutdown command": whatever *)
(* state the board is in when the shutdown ends, and whatever was left of   *)
(* an earlier command's pulses, the final command cuts the power; unless a  *)
(* stale lock file's pid belongs to another program, for then the command   *)
(* leaves the pins unexported.                                              *)
(***************************************************************************)
NoStranded == os = "halted" => misled

(***************************************************************************)
(* rocpmd.1, battery-level-log: the log that a start opened is in place, or *)
(* rotated, until the second start after it, wherever the daemon or the     *)
(* power went in the middle of the rotation, and whether or not the next    *)
(* start got a log of its own.                                              *)
(***************************************************************************)
KeptOneStart ==
  \A s \in opened : session <= s + 1 => s \in {log, rotated}

(***************************************************************************)
(* rocpmd.1, battery-level-log: the log file is rotated on each boot,       *)
(* maintaining one previous boot log.                                       *)
(***************************************************************************)
PreviousBootKept ==
  logging =>
    \A s \in opened :
      (s <= before /\ \A t \in opened : t <= before => t <= s) => s \in {log, rotated}

(***************************************************************************)
(* rocpmd.1, "User initiated shutdown by button": a press while the daemon  *)
(* starts, loops or serves a client leads to the power cut, also where a    *)
(* reboot comes between, if its clients close their connections; unless     *)
(* somebody ends the daemon, or its shutdown command is refused: nobody     *)
(* looks at the status of that, and the machine runs on without the daemon. *)
(***************************************************************************)
ButtonCuts ==
  (RequestsOff /\ daemon # "none") ~> (board = "POWER_OFF" \/ misled \/ left # "none")

(***************************************************************************)
(* rocpmd.1, "Automatic shutdown due to low battery level": an empty        *)
(* battery leads to the power cut, unless the wall supply comes in time,    *)
(* although the clock that measures the interval may be set back and        *)
(* clients, which close their connections, are served between measurements; *)
(* with the exceptions of ButtonCuts.                                       *)
(***************************************************************************)
EmptyCuts ==
  (battery = "empty" /\ daemon \in {"loop", "serving"})
    ~> (battery = "charging" \/ board = "POWER_OFF" \/ misled \/ left # "none")
=============================================================================
