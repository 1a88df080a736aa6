--------------------------- MODULE ShutdownProofs ---------------------------
(***************************************************************************)
(* Proofs about module Shutdown, for every interval, any number of boots,   *)
(* starts and set-backs of the clock, with and without reuse of pids.       *)
(***************************************************************************)
EXTENDS Shutdown, TLAPS

(* What the board does with a press and with a write to OFF.                 *)
LEMMA BoardMoves ==
  ASSUME board \in {"POWER_OFF", "POWER_ON", "REQ_OFF"}
  PROVE  /\ board = "POWER_OFF" => Advanced = "POWER_ON"
         /\ board = "POWER_ON" => Advanced = "REQ_OFF"
         /\ board = "REQ_OFF" => Advanced = "POWER_OFF"
BY DEF Advanced

LEMMA LowKeepsBoard ==
  ASSUME PowerBoardType, DriveOff("LOW")
  PROVE  /\ board' = board
         /\ line' = "LOW"
BY DEF DriveOff, Leave, PowerBoardType

LEMMA HighMovesBoard ==
  ASSUME PowerBoardType, DriveOff("HIGH")
  PROVE  /\ line = "LOW" /\ board = "POWER_ON" => board' = "REQ_OFF" /\ line' = "HIGH"
         /\ line = "LOW" /\ board = "REQ_OFF" => board' = "POWER_OFF" /\ line' = "LOW"
         /\ line = "HIGH" \/ board = "POWER_OFF" => board' = board
         /\ board' # "POWER_OFF" => line' = "HIGH"
         /\ board' = "POWER_OFF" => line' = "LOW"
BY BoardMoves DEF DriveOff, Leave, PowerBoardType

LEMMA PressMovesBoard ==
  ASSUME PowerBoardType, PressButton
  PROVE  /\ board = "POWER_OFF" => board' = "POWER_ON" /\ line' = line
         /\ board = "POWER_ON" => board' = "REQ_OFF" /\ line' = line
         /\ board = "REQ_OFF" => board' = "POWER_OFF" /\ line' = "LOW"
BY BoardMoves DEF PressButton, Leave, PowerBoardType

(* Whatever moves the board keeps its type.                                  *)
LEMMA BoardType ==
  ASSUME PowerBoardType,
         PressButton \/ (\E level \in {"LOW", "HIGH"} : DriveOff(level))
                     \/ UNCHANGED powerVars
  PROVE  PowerBoardType'
BY BoardMoves DEF PressButton, DriveOff, Leave, PowerBoardType, powerVars

-----------------------------------------------------------------------------
LEMMA TypeInit == ASSUME Init PROVE TypeOK
<1>1. PowerBoardType /\ BatteryLogType
  BY DEF Init, PowerBoardInit, BatteryLogInit, PowerBoardType, BatteryLogType
<1>2. OsType /\ BatteryType
  BY DEF Init, OsType, BatteryType
<1>3. RunType /\ CommandType /\ NoteType
  BY DEF Init, RunType, CommandType, NoteType
<1>4. NumberType
  BY DEF Init, NumberType, OffWrites
<1>5. QED
  BY <1>1, <1>2, <1>3, <1>4 DEF TypeOK

(* The part of the state that an action leaves alone keeps its type.         *)
LEMMA Unmoved ==
  ASSUME TypeOK
  PROVE  /\ UNCHANGED powerVars => PowerBoardType'
         /\ UNCHANGED logVars => BatteryLogType'
         /\ UNCHANGED osVars => OsType'
         /\ UNCHANGED runVars => RunType'
         /\ UNCHANGED cmdVars => CommandType'
         /\ UNCHANGED battery => BatteryType'
         /\ UNCHANGED noteVars => NoteType'
<1>1. UNCHANGED powerVars => PowerBoardType'
  BY DEF TypeOK, powerVars, PowerBoardType
<1>2. UNCHANGED logVars => BatteryLogType'
  BY DEF TypeOK, logVars, BatteryLogType
<1>3. UNCHANGED osVars => OsType'
  BY DEF TypeOK, osVars, OsType
<1>4. UNCHANGED runVars => RunType'
  BY DEF TypeOK, runVars, RunType
<1>5. UNCHANGED cmdVars => CommandType'
  BY DEF TypeOK, cmdVars, CommandType
<1>6. UNCHANGED battery => BatteryType'
  BY DEF TypeOK, BatteryType
<1>7. UNCHANGED noteVars => NoteType'
  BY DEF TypeOK, noteVars, NoteType
<1>8. QED
  BY <1>1, <1>2, <1>3, <1>4, <1>5, <1>6, <1>7

LEMMA ProbeIsBoolean == ASSUME NEW alive \in Probe PROVE alive \in BOOLEAN
BY DEF Probe

(* gpio_init() or nothing.                                                   *)
LEMMA PrepareKeepsType ==
  ASSUME TypeOK, NEW alive, PreparePins(alive)
  PROVE  PowerBoardType' /\ pinned' \in BOOLEAN
<1>1. CASE alive
  BY <1>1, Unmoved DEF PreparePins, TypeOK, RunType
<1>2. CASE ~alive
  BY <1>2, LowKeepsBoard DEF PreparePins, TypeOK, PowerBoardType
<1>3. QED
  BY <1>1, <1>2

(* What a machine that comes up, or goes down, has lost.                     *)
LEMMA FreshType == ASSUME Fresh PROVE RunType' /\ CommandType'
BY DEF Fresh, RunType, CommandType

LEMMA DeleteType ==
  ASSUME TypeOK, DeleteDaemon, pinned' \in BOOLEAN
  PROVE  RunType'
BY DEF DeleteDaemon, TypeOK, RunType

LEMMA LostType ==
  ASSUME TypeOK, PowerLost, PowerBoardType', presses' \in Nat, forced' \in BOOLEAN
  PROVE  TypeOK'
<1>1. OsType'
  BY DEF PowerLost, OsType
<1>2. NoteType'
  BY DEF PowerLost, Fresh, NoteType
<1>3. NumberType'
  BY DEF PowerLost, Fresh, TypeOK, NumberType, startVars, OffWrites
<1>4. QED
  BY <1>1, <1>2, <1>3, FreshType, Unmoved DEF PowerLost, TypeOK

LEMMA BootType ==
  ASSUME TypeOK, Boot, PowerBoardType', presses' \in Nat, forced' \in BOOLEAN
  PROVE  TypeOK'
<1>1. OsType'
  BY DEF Boot, OsType
<1>2. NoteType'
  BY DEF Boot, Fresh, NoteType
<1>3. NumberType'
  BY DEF Boot, Fresh, TypeOK, NumberType, OffWrites
<1>4. QED
  BY <1>1, <1>2, <1>3, FreshType, Unmoved DEF Boot, TypeOK

LEMMA HaltType == ASSUME TypeOK, HaltSystem PROVE TypeOK'
<1>1. OsType'
  BY DEF HaltSystem, TypeOK, OsType
<1>2. RunType'
  BY DeleteType DEF HaltSystem, TypeOK, RunType
<1>3. NoteType'
  BY DEF HaltSystem, TypeOK, NoteType
<1>4. NumberType'
  BY DEF HaltSystem, DeleteDaemon, TypeOK, NumberType, cmdVars, startVars
<1>5. QED
  BY <1>1, <1>2, <1>3, <1>4, Unmoved DEF HaltSystem, TypeOK

LEMMA RotationType ==
  ASSUME TypeOK, RotateOut \/ Rotate \/ Open
  PROVE  TypeOK'
<1>1. BatteryLogType'
  BY DEF RotateOut, Rotate, Open, RemoveRotated, RenameLog, OpenLog, TypeOK,
         BatteryLogType, NumberType, logVars
<1>2. RunType'
  BY DEF RotateOut, Rotate, Open, LogStep, TypeOK, RunType
<1>3. NumberType'
  BY DEF RotateOut, Rotate, Open, LogStep, TypeOK, NumberType, cmdVars, noteVars
<1>4. QED
  BY <1>1, <1>2, <1>3, Unmoved DEF RotateOut, Rotate, Open, LogStep, TypeOK

LEMMA BeginType ==
  ASSUME TypeOK, NEW who \in {"user", "script"}, BeginCommand(who),
         misled' \in BOOLEAN, forced' \in BOOLEAN
  PROVE  TypeOK'
<1>1. PICK alive \in Probe : live' = alive /\ PreparePins(alive)
  BY DEF BeginCommand
<1>2. PowerBoardType' /\ pinned' \in BOOLEAN /\ live' \in BOOLEAN
  BY <1>1, PrepareKeepsType, ProbeIsBoolean
<1>3. RunType'
  BY <1>2 DEF BeginCommand, TypeOK, RunType
<1>4. CommandType'
  BY <1>2 DEF BeginCommand, CommandType
<1>5. NoteType'
  BY DEF BeginCommand, TypeOK, NoteType
<1>6. NumberType'
  BY DEF BeginCommand, TypeOK, NumberType, startVars, OffWrites
<1>7. QED
  BY <1>2, <1>3, <1>4, <1>5, <1>6, Unmoved DEF BeginCommand, TypeOK

LEMMA TypeStep == ASSUME TypeOK, [Next]_vars PROVE TypeOK'
<1> USE Unmoved
<1>1. CASE Daemon
  <2>1. CASE RotateOut \/ Rotate \/ Open
    BY <2>1, RotationType
  <2>2. CASE HaltOnReqOff
    BY <2>2, HaltType DEF HaltOnReqOff
  <2>3. CASE Measure /\ battery = "empty"
    BY <2>3, HaltType DEF Measure
  <2>4. CASE NextMeasurementNotDue \/ (Measure /\ battery # "empty")
    <3>1. RunType'
      BY <2>4 DEF NextMeasurementNotDue, Measure, HandleRequests, TypeOK, RunType
    <3>2. NumberType'
      <4>1. elapsed' = 0 \/ elapsed' = elapsed
        BY <2>4 DEF NextMeasurementNotDue, Measure, IntervalExpired
      <4>2. UNCHANGED <<cmdVars, startVars, noteVars>>
        BY <2>4 DEF NextMeasurementNotDue, Measure, HandleRequests
      <4>3. QED
        BY <4>1, <4>2 DEF TypeOK, NumberType, cmdVars, startVars, noteVars
    <3>3. QED
      BY <2>4, <3>1, <3>2 DEF NextMeasurementNotDue, Measure, HandleRequests, TypeOK
  <2>5. QED
    BY <1>1, <2>1, <2>2, <2>3, <2>4 DEF Daemon
<1>2. CASE StartDaemon
  <2>1. PowerBoardType' /\ pinned' \in BOOLEAN
    BY <1>2, PrepareKeepsType DEF StartDaemon
  <2>2. RunType'
    BY <1>2, <2>1 DEF StartDaemon, NewDaemon, RunType
  <2>3. OsType'
    BY <1>2 DEF StartDaemon, TypeOK, OsType
  <2>4. NumberType'
    BY <1>2 DEF StartDaemon, NewDaemon, TypeOK, NumberType, cmdVars
  <2>5. NoteType'
    BY <1>2 DEF StartDaemon, NewDaemon, TypeOK, NoteType
  <2>6. QED
    BY <1>2, <2>1, <2>2, <2>3, <2>4, <2>5 DEF StartDaemon, TypeOK
<1>3. CASE Stop
  <2>1. RunType'
    BY <1>3, DeleteType DEF Stop
  <2>2. NoteType'
    BY <1>3 DEF Stop, TypeOK, NoteType
  <2>3. NumberType'
    BY <1>3 DEF Stop, DeleteDaemon, TypeOK, NumberType, cmdVars, startVars
  <2>4. QED
    BY <1>3, <2>1, <2>2, <2>3 DEF Stop, TypeOK
<1>4. CASE Unmount \/ AskFor("stopping") \/ AskFor("rebooting")
  <2>1. OsType'
    BY <1>4 DEF Unmount, AskFor, TypeOK, OsType
  <2>2. NumberType'
    BY <1>4 DEF Unmount, AskFor, TypeOK, NumberType, runVars, cmdVars, startVars, noteVars
  <2>3. QED
    BY <1>4, <2>1, <2>2 DEF Unmount, AskFor, TypeOK
<1>5. CASE StopCommand
  <2>1. CommandType'
    BY <1>5 DEF StopCommand, CommandType
  <2>2. NumberType'
    BY <1>5 DEF StopCommand, TypeOK, NumberType, runVars, startVars, noteVars, OffWrites
  <2>3. QED
    BY <1>5, <2>1, <2>2 DEF StopCommand, TypeOK
<1>6. CASE Reboot
  <2>1. PowerBoardType'
    BY <1>6, LowKeepsBoard DEF Reboot, TypeOK, PowerBoardType
  <2>2. presses' \in Nat
    BY <1>6 DEF Reboot, TypeOK, NumberType
  <2>3. forced' \in BOOLEAN
    BY <1>6 DEF Reboot, TypeOK, NoteType
  <2>4. QED
    BY <1>6, <2>1, <2>2, <2>3, BootType DEF Reboot
<1>7. CASE UserPowerOff \/ FinalPowerOff
  <2>1. misled' \in BOOLEAN /\ forced' \in BOOLEAN
    BY <1>7 DEF UserPowerOff, FinalPowerOff, TypeOK, NoteType
  <2>2. QED
    BY <1>7, <2>1, BeginType DEF UserPowerOff, FinalPowerOff
<1>8. CASE WriteOff
  <2>1. PowerBoardType'
    BY <1>8, BoardType DEF WriteOff, TypeOK
  <2>2. presses' \in Nat
    BY <1>8 DEF WriteOff, TypeOK, NumberType
  <2>3. forced' \in BOOLEAN
    BY <1>8 DEF WriteOff, TypeOK, NoteType
  <2>4. CASE board' = "POWER_OFF"
    BY <1>8, <2>1, <2>2, <2>3, <2>4, LostType DEF WriteOff, Unless
  <2>5. CASE board' # "POWER_OFF"
    <3>1. CommandType'
      BY <1>8, <2>5 DEF WriteOff, Unless, TypeOK, CommandType
    <3>2. NoteType'
      BY <1>8, <2>3, <2>5 DEF WriteOff, Unless, TypeOK, NoteType
    <3>3. NumberType'
      <4>1. writes > 0 /\ writes' = writes - 1 /\ UNCHANGED <<runVars, startVars>>
        BY <1>8, <2>5 DEF WriteOff, Unless
      <4>2. QED
        BY <2>2, <4>1 DEF TypeOK, NumberType, runVars, startVars, OffWrites
    <3>4. QED
      BY <1>8, <2>1, <2>5, <3>1, <3>2, <3>3 DEF WriteOff, Unless, TypeOK
  <2>6. QED
    BY <2>4, <2>5
<1>9. CASE EndCommand
  <2>1. OsType' /\ CommandType'
    BY <1>9 DEF EndCommand, TypeOK, OsType, CommandType
  <2>2. RunType'
    BY <1>9 DEF EndCommand, TypeOK, RunType
  <2>3. NumberType'
    BY <1>9 DEF EndCommand, TypeOK, NumberType, startVars, noteVars, OffWrites
  <2>4. QED
    BY <1>9, <2>1, <2>2, <2>3 DEF EndCommand, TypeOK
<1>10. CASE Button
  <2>1. PowerBoardType'
    BY <1>10, BoardType DEF Button, TypeOK
  <2>2. presses' \in Nat
    <3>1. presses' = 0 \/ presses' = presses + 1
      BY <1>10 DEF Button
    <3>2. QED
      BY <3>1 DEF TypeOK, NumberType
  <2>3. forced' \in BOOLEAN
    BY <1>10 DEF Button, TypeOK, NoteType
  <2>4. CASE board = "POWER_OFF"
    BY <1>10, <2>1, <2>2, <2>3, <2>4, BootType DEF Button
  <2>5. CASE board # "POWER_OFF" /\ board' = "POWER_OFF"
    BY <1>10, <2>1, <2>2, <2>3, <2>5, LostType DEF Button, Unless
  <2>6. CASE board # "POWER_OFF" /\ board' # "POWER_OFF"
    <3>1. NoteType'
      BY <1>10, <2>3, <2>6 DEF Button, Unless, TypeOK, NoteType
    <3>2. NumberType'
      BY <1>10, <2>2, <2>6
         DEF Button, Unless, TypeOK, NumberType, runVars, cmdVars, startVars
    <3>3. QED
      BY <1>10, <2>1, <2>6, <3>1, <3>2 DEF Button, Unless, TypeOK
  <2>7. QED
    BY <2>4, <2>5, <2>6
<1>11. CASE Interrupt
  <2>1. CommandType'
    BY <1>11 DEF Interrupt, CommandType
  <2>2. RunType'
    BY <1>11 DEF Interrupt, TypeOK, RunType
  <2>3. NumberType'
    BY <1>11 DEF Interrupt, TypeOK, NumberType, startVars, noteVars, OffWrites
  <2>4. QED
    BY <1>11, <2>1, <2>2, <2>3 DEF Interrupt, TypeOK
<1>12. CASE Crash
  <2>1. RunType'
    BY <1>12 DEF Crash, TypeOK, RunType
  <2>2. NoteType'
    BY <1>12 DEF Crash, TypeOK, NoteType
  <2>3. NumberType'
    BY <1>12 DEF Crash, TypeOK, NumberType, cmdVars, startVars
  <2>4. QED
    BY <1>12, <2>1, <2>2, <2>3 DEF Crash, TypeOK
<1>13. CASE Environment
  <2>1. BatteryType'
    BY <1>13 DEF Environment, TypeOK, BatteryType
  <2>2. NumberType'
    BY <1>13 DEF Environment, TypeOK, NumberType, runVars, cmdVars, startVars, noteVars
  <2>3. QED
    BY <1>13, <2>1, <2>2 DEF Environment, TypeOK
<1>14. CASE Tick \/ SetBack
  <2>1. RunType'
    BY <1>14 DEF Tick, SetBack, TypeOK, RunType
  <2>2. NumberType'
    <3>1. elapsed' = elapsed + 1 \/ elapsed' = elapsed - 1
      BY <1>14 DEF Tick, SetBack
    <3>2. setbacks' = setbacks \/ setbacks' = setbacks + 1
      BY <1>14 DEF Tick, SetBack, startVars
    <3>3. UNCHANGED <<cmdVars, session, opened, before, boots, restarts, noteVars>>
      BY <1>14 DEF Tick, SetBack, startVars
    <3>4. QED
      BY <3>1, <3>2, <3>3 DEF TypeOK, NumberType, cmdVars, noteVars
  <2>3. QED
    BY <1>14, <2>1, <2>2 DEF Tick, SetBack, TypeOK
<1>15. CASE UNCHANGED vars
  <2>1. NumberType'
    BY <1>15 DEF vars, TypeOK, NumberType, runVars, cmdVars, startVars, noteVars
  <2>2. QED
    BY <1>15, <2>1 DEF vars, TypeOK
<1>16. CASE ClientDone
  <2>1. RunType'
    BY <1>16 DEF ClientDone, TypeOK, RunType
  <2>2. NumberType'
    BY <1>16 DEF ClientDone, TypeOK, NumberType, cmdVars, startVars, noteVars
  <2>3. QED
    BY <1>16, <2>1, <2>2 DEF ClientDone, TypeOK
<1>17. CASE CommandBecomesDaemon
  <2>1. RunType'
    BY <1>17 DEF CommandBecomesDaemon, NewDaemon, TypeOK, RunType
  <2>2. CommandType'
    BY <1>17 DEF CommandBecomesDaemon, CommandType
  <2>3. NumberType'
    BY <1>17
       DEF CommandBecomesDaemon, NewDaemon, TypeOK, NumberType, OffWrites
  <2>4. NoteType'
    BY <1>17 DEF CommandBecomesDaemon, NewDaemon, TypeOK, NoteType
  <2>5. QED
    BY <1>17, <2>1, <2>2, <2>3, <2>4 DEF CommandBecomesDaemon, TypeOK
<1>18. QED
  BY <1>1, <1>2, <1>3, <1>4, <1>5, <1>6, <1>7, <1>8, <1>9, <1>10, <1>11, <1>12, <1>13,
     <1>14, <1>15, <1>16, <1>17
     DEF Next, BootDaemon, System, StopDaemon, Command, User

(***************************************************************************)
(* Every variable of module Shutdown keeps its type: the writes left of an  *)
(* OFF command in particular never fall below zero.                         *)
(***************************************************************************)
THEOREM TypeCorrect == Spec => []TypeOK
<1>1. Init => TypeOK
  BY TypeInit
<1>2. TypeOK /\ [Next]_vars => TypeOK'
  BY TypeStep
<1>3. QED
  BY <1>1, <1>2, PTL DEF Spec

-----------------------------------------------------------------------------
(* The steps that neither move the board nor touch a command.                *)
Quiet ==
  /\ UNCHANGED <<board, line, cmd, writes, presses, forced, misled>>
  /\ os \in {"off", "stopping", "halted"} => os' = os
  /\ os' \in {"off", "halted"} => os' = os
  /\ mounted' => mounted
  /\ os = "off" => daemon' = "none"
  /\ cmd = "script" => pinned' = pinned /\ daemon' = "none"

LEMMA QuietStep == ASSUME PowerInv, Quiet PROVE PowerInv'
BY DEF PowerInv, Quiet, ScriptOnItsWay

LEMMA RunningSteps ==
  ASSUME PowerInv, daemon # "none",
         Daemon \/ ClientDone \/ Stop \/ Crash
  PROVE  Quiet
<1>1. os # "off" /\ cmd # "script"
  BY DEF PowerInv
<1>2. CASE HaltSystem
  BY <1>1, <1>2 DEF HaltSystem, Quiet, powerVars, cmdVars
<1>3. CASE RotateOut \/ Rotate \/ Open
  BY <1>1, <1>3
     DEF RotateOut, Rotate, Open, LogStep, Quiet, powerVars, osVars, cmdVars, noteVars
<1>4. CASE NextMeasurementNotDue \/ (Measure /\ battery # "empty")
  BY <1>1, <1>4
     DEF NextMeasurementNotDue, Measure, HandleRequests, Quiet, powerVars, osVars,
         cmdVars, noteVars
<1>5. CASE Stop \/ Crash
  BY <1>1, <1>5 DEF Stop, Crash, Quiet, powerVars, osVars, cmdVars
<1>6. CASE ClientDone
  BY <1>1, <1>6 DEF ClientDone, Quiet, powerVars, osVars, cmdVars, noteVars
<1>7. QED
  BY <1>2, <1>3, <1>4, <1>5, <1>6 DEF Daemon, HaltOnReqOff, Measure

LEMMA QuietActions ==
  ASSUME PowerInv,
         Unmount \/ AskFor("stopping") \/ AskFor("rebooting")
           \/ Environment \/ Tick \/ SetBack \/ UNCHANGED vars
  PROVE  Quiet
<1>1. CASE Unmount \/ AskFor("stopping") \/ AskFor("rebooting")
  BY <1>1 DEF Unmount, AskFor, Ending, PowerInv, Quiet, powerVars, cmdVars, runVars,
              noteVars
<1>2. CASE Environment \/ Tick \/ SetBack
  BY <1>2 DEF Environment, Tick, SetBack, PowerInv, Quiet, powerVars, osVars, cmdVars,
              runVars, noteVars
<1>3. CASE UNCHANGED vars
  BY <1>3 DEF vars, PowerInv, Quiet, powerVars, osVars, cmdVars, runVars, noteVars
<1>4. QED
  BY <1>1, <1>2, <1>3

(* rocpmd.sh start and gpio_init() drive OFF low at most.                    *)
LEMMA StartStep == ASSUME TypeOK, PowerInv, StartDaemon PROVE PowerInv'
<1>1. PICK alive \in Probe : PreparePins(alive)
  BY DEF StartDaemon
<1>2. board' = board /\ (line' = line \/ line' = "LOW")
  BY <1>1, LowKeepsBoard DEF PreparePins, TypeOK, powerVars
<1>3. os = "up" /\ os' = os /\ UNCHANGED <<cmd, writes, presses, forced, misled, mounted>>
  BY DEF StartDaemon, cmdVars
<1>4. QED
  BY <1>2, <1>3 DEF PowerInv

LEMMA RebootStep == ASSUME TypeOK, PowerInv, Reboot PROVE PowerInv'
<1>1. board' = board /\ line' = "LOW"
  BY LowKeepsBoard DEF Reboot, TypeOK
<1>2. os = "rebooting" /\ os' = "up" /\ cmd' = "none"
  BY DEF Reboot, Boot, Fresh
<1>3. UNCHANGED <<presses, forced>>
  BY DEF Reboot
<1>4. QED
  BY <1>1, <1>2, <1>3 DEF PowerInv

(* Both commands begin with OFF low, or with the line they find.             *)
LEMMA BeginStep == ASSUME TypeOK, PowerInv, UserPowerOff \/ FinalPowerOff PROVE PowerInv'
<1>1. PICK alive \in Probe : live' = alive /\ PreparePins(alive)
  BY DEF UserPowerOff, FinalPowerOff, BeginCommand
<1>2. board' = board /\ (line' = line \/ line' = "LOW")
  BY <1>1, LowKeepsBoard DEF PreparePins, TypeOK, powerVars
<1>3. live' \/ pinned'
  BY <1>1 DEF PreparePins
<1>4. UNCHANGED <<os, mounted, daemon, presses>> /\ writes' = 6 /\ cmd = "none"
  BY DEF UserPowerOff, FinalPowerOff, BeginCommand, osVars, OffWrites
<1>5. CASE UserPowerOff
  <2>1. cmd' = "user" /\ forced' /\ misled' = misled /\ os = "up"
    BY <1>5 DEF UserPowerOff, BeginCommand
  <2>2. QED
    BY <1>2, <1>4, <2>1 DEF PowerInv
<1>6. CASE FinalPowerOff
  <2>1. /\ cmd' = "script" /\ forced' = forced
        /\ os = "stopping" /\ ~mounted /\ daemon = "none"
    BY <1>6 DEF FinalPowerOff, BeginCommand, RunsPowerOff, AllDone
  <2>2. misled' <=> (live' /\ ~pinned')
    BY <1>6 DEF FinalPowerOff
  <2>3. misled' => ~pinned'
    BY <2>2
  <2>4. ~misled' => pinned'
    BY <1>3, <2>2
  <2>5. QED
    BY <1>2, <1>4, <2>1, <2>3, <2>4 DEF PowerInv, ScriptOnItsWay
<1>7. QED
  BY <1>5, <1>6

(* Where the power is lost, nothing of the run is left.                      *)
LEMMA LostStep ==
  ASSUME PowerLost, board' = "POWER_OFF", line' = "LOW"
  PROVE  PowerInv'
BY DEF PowerLost, Fresh, PowerInv

LEMMA ButtonStep == ASSUME TypeOK, PowerInv, Button PROVE PowerInv'
<1> USE PressMovesBoard DEF TypeOK
<1>1. CASE board = "POWER_OFF"
  BY <1>1 DEF Button, Boot, Fresh, PowerInv
<1>2. CASE board = "POWER_ON"
  <2>1. board' = "REQ_OFF" /\ line' = line /\ presses' = 1
    BY <1>2 DEF Button, PowerInv
  <2>2. UNCHANGED <<os, mounted, daemon, cmd, writes, pinned, forced, misled>>
    BY <1>2, <2>1 DEF Button, Unless, osVars, runVars, cmdVars
  <2>3. QED
    BY <1>2, <2>1, <2>2 DEF PowerInv, ScriptOnItsWay
<1>3. CASE board = "REQ_OFF"
  BY <1>3, LostStep DEF Button, Unless
<1>4. QED
  BY <1>1, <1>2, <1>3 DEF PowerBoardType

LEMMA WriteStep == ASSUME TypeOK, PowerInv, WriteOff PROVE PowerInv'
<1>1. cmd # "none" /\ writes > 0 /\ pinned /\ UNCHANGED <<presses, forced>>
  BY DEF WriteOff
<1>2. DriveOff("HIGH") \/ DriveOff("LOW")
  BY DEF WriteOff
<1>3. /\ board' = board \/ board' = "REQ_OFF" \/ board' = "POWER_OFF"
      /\ board' = "POWER_OFF" /\ board # "POWER_OFF" => line' = "LOW"
  BY <1>2, LowKeepsBoard, HighMovesBoard DEF TypeOK, PowerBoardType
<1>4. board # "POWER_OFF"
  BY <1>1 DEF PowerInv
<1>5. CASE board' = "POWER_OFF"
  BY <1>3, <1>4, <1>5, LostStep DEF WriteOff, Unless
<1>6. CASE board' # "POWER_OFF"
  <2>1. /\ writes' = writes - 1
        /\ UNCHANGED <<os, mounted, daemon, cmd, pinned, misled>>
    BY <1>6 DEF WriteOff, Unless, osVars, runVars
  <2>2. line' = "HIGH" => board' = "REQ_OFF"
    BY <1>2, <1>4, <1>6, LowKeepsBoard, HighMovesBoard
       DEF PowerInv, TypeOK, PowerBoardType
  <2>3. CASE cmd = "user"
    <3>1. forced'
      BY <1>1, <2>3 DEF PowerInv
    <3>2. presses' = 0 \/ presses' = 1
      BY <1>1, <1>4 DEF PowerInv, TypeOK, PowerBoardType
    <3>3. board' = "POWER_ON" => presses' = 0
      BY <1>1, <1>3, <1>6 DEF PowerInv
    <3>4. os # "off" /\ (os = "halted" => misled)
      BY <2>3 DEF PowerInv
    <3>5. QED
      BY <1>6, <2>1, <2>2, <2>3, <3>1, <3>2, <3>3, <3>4 DEF PowerInv
  <2>4. CASE cmd = "script"
    <3>1. ~misled /\ os = "stopping" /\ ~mounted /\ ScriptOnItsWay
      BY <1>1, <2>4 DEF PowerInv
    <3>2. CASE writes = 6
      <4>1. board' = "REQ_OFF"
        BY <1>4, <1>6, <3>2, HighMovesBoard
           DEF WriteOff, PowerInv, TypeOK, PowerBoardType
      <4>2. writes' = 5
        BY <2>1, <3>2
      <4>3. presses' = 0 \/ presses' = 1
        BY <1>1, <1>4 DEF PowerInv, TypeOK, PowerBoardType
      <4>4. ScriptOnItsWay'
        <5>1. pinned'
          BY <1>1, <2>1
        <5>2. QED
          BY <4>1, <4>2, <5>1 DEF ScriptOnItsWay
      <4>5. QED
        BY <2>1, <2>2, <2>4, <3>1, <4>1, <4>3, <4>4 DEF PowerInv
    <3>3. CASE writes = 5
      <4>1. board' = "REQ_OFF" /\ line' = "LOW"
        BY <3>1, <3>3, LowKeepsBoard DEF WriteOff, ScriptOnItsWay, TypeOK
      <4>2. writes' = 4
        BY <2>1, <3>3
      <4>3. QED
        BY <1>1, <2>1, <2>2, <2>4, <3>1, <4>1, <4>2 DEF PowerInv, ScriptOnItsWay
    <3>4. CASE writes = 4
      <4>1. DriveOff("HIGH")
        BY <3>4 DEF WriteOff
      <4>2. board' = "POWER_OFF"
        BY <3>1, <3>4, <4>1, HighMovesBoard DEF ScriptOnItsWay, TypeOK
      <4>3. QED
        BY <1>6, <4>2
    <3>5. QED
      BY <3>1, <3>2, <3>3, <3>4 DEF ScriptOnItsWay
  <2>5. QED
    BY <1>1, <2>3, <2>4 DEF TypeOK, CommandType
<1>7. QED
  BY <1>5, <1>6

LEMMA EndStep ==
  ASSUME TypeOK, PowerInv,
         EndCommand \/ CommandBecomesDaemon \/ StopCommand \/ Interrupt
  PROVE  PowerInv'
<1>1. UNCHANGED <<board, line, mounted, presses, forced, misled>>
  BY DEF EndCommand, CommandBecomesDaemon, StopCommand, Interrupt, powerVars, osVars,
         runVars, noteVars
<1>2. cmd' = "none" /\ cmd # "none"
  BY DEF EndCommand, Written, CommandBecomesDaemon, StopCommand, Interrupt
<1>3. CASE EndCommand /\ cmd = "script"
  <2>1. misled
    BY <1>3 DEF EndCommand, Written, PowerInv, ScriptOnItsWay
  <2>2. ~pinned /\ os = "stopping" /\ ~mounted
    BY <1>3, <2>1 DEF PowerInv
  <2>3. os' = "halted"
    BY <1>3 DEF EndCommand
  <2>4. QED
    BY <1>1, <1>2, <2>1, <2>2, <2>3 DEF PowerInv
<1>4. CASE ~(EndCommand /\ cmd = "script")
  <2>1. os' = os
    BY <1>4 DEF EndCommand, CommandBecomesDaemon, StopCommand, Interrupt, osVars
  <2>2. cmd = "user"
    BY <1>2, <1>4
       DEF EndCommand, CommandBecomesDaemon, RunsIntoDaemon, StopCommand, Interrupt,
           TypeOK, CommandType
  <2>3. forced' /\ os # "off"
    BY <1>1, <2>2 DEF PowerInv
  <2>4. QED
    BY <1>1, <1>2, <2>1, <2>3 DEF PowerInv
<1>5. QED
  BY <1>3, <1>4

LEMMA PowerStep == ASSUME TypeOK, PowerInv, [Next]_vars PROVE PowerInv'
<1>1. CASE Daemon \/ ClientDone \/ Stop \/ Crash
  <2>1. daemon # "none"
    BY <1>1 DEF Daemon, RotateOut, Rotate, Open, LogStep, HaltOnReqOff,
                NextMeasurementNotDue, Measure, ClientDone, Stop, Crash
  <2>2. QED
    BY <1>1, <2>1, RunningSteps, QuietStep
<1>2. CASE Unmount \/ AskFor("stopping") \/ AskFor("rebooting")
             \/ Environment \/ Tick \/ SetBack \/ UNCHANGED vars
  BY <1>2, QuietActions, QuietStep
<1>3. CASE StartDaemon
  BY <1>3, StartStep
<1>4. CASE Reboot
  BY <1>4, RebootStep
<1>5. CASE UserPowerOff \/ FinalPowerOff
  BY <1>5, BeginStep
<1>6. CASE Button
  BY <1>6, ButtonStep
<1>7. CASE WriteOff
  BY <1>7, WriteStep
<1>8. CASE EndCommand \/ CommandBecomesDaemon \/ StopCommand \/ Interrupt
  BY <1>8, EndStep
<1>9. QED
  BY <1>1, <1>2, <1>3, <1>4, <1>5, <1>6, <1>7, <1>8
     DEF Next, BootDaemon, System, StopDaemon, Command, User

(***************************************************************************)
(* Why the final command cuts the power and nothing else does: OFF is high  *)
(* only in REQ_OFF, a command for rockillpower.sh is at most two pulses     *)
(* from the cut, and REQ_OFF remembers who asked for it.                    *)
(***************************************************************************)
THEOREM PowerInvariant == Spec => [](TypeOK /\ PowerInv)
<1>1. Init => TypeOK /\ PowerInv
  <2>1. Init => PowerInv
    BY DEF Init, PowerBoardInit, PowerInv
  <2>2. QED
    BY <2>1, TypeInit
<1>2. (TypeOK /\ PowerInv) /\ [Next]_vars => (TypeOK /\ PowerInv)'
  BY TypeStep, PowerStep
<1>3. QED
  BY <1>1, <1>2, PTL DEF Spec

(***************************************************************************)
(* A shutdown ends with the power cut, in whatever state the board is and   *)
(* whatever an earlier command has left on the OFF line, unless the final   *)
(* command took a stranger's process for the daemon and had no pins.        *)
(***************************************************************************)
THEOREM ShutdownsCutThePower == Spec => []NoStranded
<1>1. TypeOK /\ PowerInv => NoStranded
  BY DEF PowerInv, NoStranded
<1>2. QED
  BY <1>1, PowerInvariant, PTL

LEMMA CutStep ==
  ASSUME TypeOK, PowerInv, [Next]_vars, board # "POWER_OFF", board' = "POWER_OFF"
  PROVE  (os = "stopping" /\ ~mounted) \/ presses' = 2 \/ forced
<1>1. CASE Quiet
  BY <1>1 DEF Quiet
<1>2. CASE Button
  <2>1. board = "REQ_OFF"
    BY <1>2, PressMovesBoard DEF Button, TypeOK, PowerBoardType
  <2>2. presses' = presses + 1
    BY <1>2 DEF Button
  <2>3. presses = 1 \/ forced \/ cmd = "script"
    BY <2>1 DEF PowerInv
  <2>4. CASE presses = 1
    BY <2>2, <2>4
  <2>5. QED
    BY <2>3, <2>4 DEF PowerInv
<1>3. CASE WriteOff
  BY <1>3 DEF WriteOff, PowerInv, TypeOK, CommandType
<1>4. CASE StartDaemon
  BY <1>4, LowKeepsBoard DEF StartDaemon, PreparePins, TypeOK, powerVars
<1>5. CASE UserPowerOff \/ FinalPowerOff
  BY <1>5, LowKeepsBoard
     DEF UserPowerOff, FinalPowerOff, BeginCommand, PreparePins, TypeOK, powerVars
<1>6. CASE Reboot
  BY <1>6, LowKeepsBoard DEF Reboot, TypeOK
<1>7. CASE EndCommand \/ CommandBecomesDaemon \/ StopCommand \/ Interrupt
  BY <1>7 DEF EndCommand, CommandBecomesDaemon, StopCommand, Interrupt, powerVars
<1>8. CASE Daemon \/ ClientDone \/ Stop \/ Crash
  <2>1. daemon # "none"
    BY <1>8 DEF Daemon, RotateOut, Rotate, Open, LogStep, HaltOnReqOff,
                NextMeasurementNotDue, Measure, ClientDone, Stop, Crash
  <2>2. QED
    BY <1>1, <1>8, <2>1, RunningSteps
<1>9. QED
  BY <1>1, <1>2, <1>3, <1>4, <1>5, <1>6, <1>7, <1>8, QuietActions
     DEF Next, BootDaemon, System, StopDaemon, Command, User

(***************************************************************************)
(* The power is cut at the end of a shutdown, with the file systems         *)
(* unmounted, by a second press, or after a user's --power-off; never by    *)
(* the daemon, by a single press or by a reboot.                            *)
(***************************************************************************)
THEOREM PowerIsCutCleanly == Spec => CleanCut
<1>1. TypeOK /\ PowerInv /\ [Next]_vars =>
        [(board # "POWER_OFF" /\ board' = "POWER_OFF")
           => \/ os = "stopping" /\ ~mounted
              \/ presses' = 2
              \/ forced]_vars
  BY CutStep
<1>2. QED
  BY <1>1, PowerInvariant, PTL DEF Spec, CleanCut

-----------------------------------------------------------------------------
(* Only the rotation itself and the next start change what LogInv is about.  *)
LogQuiet ==
  /\ UNCHANGED <<log, rotated, session, opened>>
  /\ daemon' = daemon \/ daemon' \in {"none", "loop", "serving"}
  /\ daemon' # "none" => mounted' = mounted \/ ~mounted'

LEMMA LogQuietStep == ASSUME LogInv, LogQuiet PROVE LogInv'
BY DEF LogInv, LogQuiet, Rotating

LEMMA LogStartStep ==
  ASSUME TypeOK, LogInv, StartDaemon \/ CommandBecomesDaemon
  PROVE  LogInv'
<1>1. /\ session' = session + 1 /\ daemon' = "remove"
      /\ UNCHANGED <<log, rotated, opened>>
  BY DEF StartDaemon, CommandBecomesDaemon, NewDaemon, logVars
<1>2. session \in Nat
  BY DEF TypeOK, NumberType
<1>3. session' \notin opened' /\ session' - 1 = session /\ opened' \subseteq 1..session'
  BY <1>1, <1>2 DEF LogInv
<1>4. session' > 0
  BY <1>1, <1>2
<1>5. QED
  BY <1>1, <1>3, <1>4 DEF LogInv, Rotating

LEMMA RotateOutStep == ASSUME TypeOK, LogInv, RotateOut PROVE LogInv'
<1>1. /\ daemon = "remove" /\ daemon' = "rename"
      /\ UNCHANGED <<log, session, opened>>
  BY DEF RotateOut, LogStep, RemoveRotated, logVars
<1>2. QED
  BY <1>1 DEF LogInv, Rotating

LEMMA RotateStep == ASSUME TypeOK, LogInv, Rotate PROVE LogInv'
<1>1. /\ daemon = "rename" /\ daemon' = "openlog"
      /\ UNCHANGED <<session, opened, mounted>>
  BY DEF Rotate, LogStep, osVars
<1>2. session \in Nat
  BY DEF TypeOK, NumberType
<1>3. (session - 1) \in opened =>
        rotated' = session - 1 \/ (~mounted' /\ log' = session - 1)
  <2>1. HAVE (session - 1) \in opened
  <2>2. log = session - 1 /\ log # None
    BY <1>1, <1>2, <2>1, BatteryLogAssumption DEF LogInv
  <2>3. CASE mounted
    BY <2>2, <2>3 DEF Rotate, RenameLog
  <2>4. CASE ~mounted
    BY <1>1, <2>2, <2>4 DEF Rotate, logVars
  <2>5. QED
    BY <2>3, <2>4
<1>4. session > 0 /\ session \notin opened /\ opened \subseteq 1..session
  BY <1>1 DEF LogInv, Rotating
<1>5. (session - 1) \in opened => (session - 1) \in {log', rotated'}
  BY <1>3
<1>6. QED
  BY <1>1, <1>3, <1>4, <1>5 DEF LogInv

LEMMA OpenStep == ASSUME TypeOK, LogInv, Open PROVE LogInv'
<1>1. /\ daemon = "openlog" /\ daemon' = "loop"
      /\ UNCHANGED <<session, mounted>>
  BY DEF Open, LogStep, osVars
<1>2. session \in Nat
  BY DEF TypeOK, NumberType
<1>3. CASE /\ mounted
           /\ OpenLog(session)
           /\ opened' = opened \cup {session}
  <2>1. log' = session /\ rotated' = rotated
    BY <1>3 DEF OpenLog
  <2>2. opened' \subseteq 1..session
    BY <1>1, <1>2, <1>3 DEF LogInv, Rotating
  <2>3. (session - 1) \in opened' => rotated = session - 1
    BY <1>1, <1>2, <1>3 DEF LogInv
  <2>4. daemon' \notin Rotating
    BY <1>1 DEF Rotating
  <2>5. QED
    BY <1>1, <2>1, <2>2, <2>3, <2>4 DEF LogInv, Rotating
<1>4. CASE UNCHANGED <<logVars, opened>>
  BY <1>1, <1>4 DEF LogInv, Rotating, logVars
<1>5. QED
  BY <1>3, <1>4 DEF Open

LEMMA LogStayActions ==
  ASSUME [Next]_vars, ~StartDaemon, ~CommandBecomesDaemon, ~RotateOut, ~Rotate, ~Open
  PROVE  LogQuiet
<1>1. CASE HaltOnReqOff \/ NextMeasurementNotDue \/ Measure \/ ClientDone \/ Stop \/ Crash
  BY <1>1 DEF HaltOnReqOff, NextMeasurementNotDue, Measure, HandleRequests, ClientDone,
              Stop, Crash, HaltSystem, DeleteDaemon, LogQuiet, logVars, osVars, startVars
<1>2. CASE Unmount \/ AskFor("stopping") \/ AskFor("rebooting") \/ StopCommand
  BY <1>2 DEF Unmount, AskFor, StopCommand, LogQuiet, logVars, osVars, runVars, startVars
<1>3. CASE Reboot
  BY <1>3 DEF Reboot, Boot, Fresh, LogQuiet, logVars
<1>4. CASE UserPowerOff \/ FinalPowerOff
  BY <1>4 DEF UserPowerOff, FinalPowerOff, BeginCommand, LogQuiet, logVars, osVars,
              startVars
<1>5. CASE Button \/ WriteOff
  <2>1. CASE PowerLost
    BY <2>1 DEF PowerLost, Fresh, LogQuiet, logVars, startVars
  <2>2. CASE Boot
    BY <2>2 DEF Boot, Fresh, LogQuiet, logVars
  <2>3. CASE UNCHANGED <<logVars, osVars, runVars, startVars>>
    BY <2>3 DEF LogQuiet, logVars, osVars, runVars, startVars
  <2>4. QED
    BY <1>5, <2>1, <2>2, <2>3 DEF Button, WriteOff, Unless
<1>6. CASE EndCommand \/ Interrupt
  BY <1>6 DEF EndCommand, Interrupt, LogQuiet, logVars, osVars, startVars
<1>7. CASE Environment \/ Tick \/ SetBack \/ UNCHANGED vars
  BY <1>7 DEF Environment, Tick, SetBack, vars, LogQuiet, logVars, osVars, runVars,
              startVars
<1>8. QED
  BY <1>1, <1>2, <1>3, <1>4, <1>5, <1>6, <1>7
     DEF Next, Daemon, BootDaemon, System, StopDaemon, Command, User

(***************************************************************************)
(* Where the logs of a start and of the one before it are while the next    *)
(* one rotates them, whether the rotation completes or not.                 *)
(***************************************************************************)
THEOREM LogInvariant == Spec => [](TypeOK /\ LogInv)
<1>1. Init => TypeOK /\ LogInv
  <2>1. Init => LogInv
    BY DEF Init, BatteryLogInit, LogInv, Rotating
  <2>2. QED
    BY <2>1, TypeInit
<1>2. (TypeOK /\ LogInv) /\ [Next]_vars => (TypeOK /\ LogInv)'
  BY TypeStep, LogStartStep, RotateOutStep, RotateStep, OpenStep, LogStayActions,
     LogQuietStep
<1>3. QED
  BY <1>1, <1>2, PTL DEF Spec

(***************************************************************************)
(* The log of a start survives the next start: a daemon that crashes, or a  *)
(* power cut, in the middle of the rotation loses none that is younger.     *)
(***************************************************************************)
THEOREM LogsSurviveOneStart == Spec => []KeptOneStart
<1>1. TypeOK /\ LogInv => KeptOneStart
  <2>1. SUFFICES ASSUME TypeOK, LogInv, NEW s \in opened, session <= s + 1
                 PROVE  s \in {log, rotated}
    BY DEF KeptOneStart
  <2>2. session \in Nat /\ s \in 1..session
    BY <2>1 DEF TypeOK, NumberType, LogInv
  <2>3. s = session \/ s = session - 1
    BY <2>1, <2>2
  <2>4. QED
    BY <2>1, <2>3 DEF LogInv
<1>2. QED
  BY <1>1, LogInvariant, PTL
=============================================================================
