--------------------------- MODULE ServiceProofs ----------------------------
(***************************************************************************)
(* The init script beside the processes it starts and signals, for any      *)
(* number of processes, inodes and pins: the script does nothing that the   *)
(* processes' own specification excludes, so that their theorems hold with  *)
(* the script at work.                                                      *)
(***************************************************************************)
EXTENDS Service, QuietProofs

-----------------------------------------------------------------------------
(* What the script has read is a process it may signal, or nothing.         *)
ScriptType ==
  /\ at \in ScriptLabels
  /\ again \in BOOLEAN
  /\ pid \in Proc \cup {None}

(***************************************************************************)
(* Each command of the script starts a process, signals one that is in      *)
(* main(), or leaves the processes alone.                                   *)
(***************************************************************************)
LEMMA ScriptImplements ==
  ASSUME TypeOK, ScriptType, [ServiceNext]_serviceVars
  PROVE  [Next]_vars
<1>1. CASE UNCHANGED serviceVars
  BY <1>1 DEF serviceVars
<1>2. CASE Next
  BY <1>2
<1>3. CASE Invoke \/ TestPidfile \/ CatPidfile \/ DaemonReturns
  BY <1>3 DEF Invoke, TestPidfile, CatPidfile, DaemonReturns
<1>4. CASE ~cut /\ KillDaemon
  <2>1. CASE pid # None /\ Signal(pid)
    <3>1. pid \in Proc
      BY <2>1 DEF ScriptType
    <3> QED
      BY <1>4, <2>1, <3>1 DEF Next, Step
  <2>2. CASE UNCHANGED vars
    BY <2>2
  <2> QED
    BY <1>4, <2>1, <2>2 DEF KillDaemon
<1>5. CASE ~cut /\ \E p \in Proc : StartDaemon(p)
  BY <1>5 DEF StartDaemon, Next, Step
<1> QED
  BY <1>1, <1>2, <1>3, <1>4, <1>5 DEF ServiceNext, Script

LEMMA ScriptTypeStep ==
  ASSUME TypeOK, ScriptType, [ServiceNext]_serviceVars
  PROVE  ScriptType'
<1> USE DEF ScriptType, ScriptLabels, ScriptStart
<1>1. CASE UNCHANGED scriptVars
  BY <1>1 DEF scriptVars
<1>2. CASE Invoke \/ TestPidfile \/ DaemonReturns \/ KillDaemon
  BY <1>2 DEF Invoke, TestPidfile, DaemonReturns, KillDaemon
<1>3. CASE CatPidfile
  BY <1>3 DEF CatPidfile, TypeOK, LockfileType
<1>4. ASSUME NEW p \in Proc, StartDaemon(p) PROVE ScriptType'
  BY <1>4 DEF StartDaemon
<1> QED
  BY <1>1, <1>2, <1>3, <1>4 DEF ServiceNext, Script, serviceVars

(***************************************************************************)
(* The script is one more user of the program: Service implements           *)
(* Instances, so every theorem about Spec is one about ServiceSpec.         *)
(***************************************************************************)
THEOREM ServiceImplementsInstances == ServiceSpec => Spec
<1>1. ServiceInit => Init
  BY DEF ServiceInit
<1>2. ServiceInit => ScriptType /\ TypeOK
  <2>1. Init => TypeOK
    BY PinsFacts DEF Init, LockfileInit, TypeOK, LockfileType, Labels
  <2> QED
    BY <2>1 DEF ServiceInit, ScriptType, ScriptLabels
<1>3. TypeOK /\ ScriptType /\ [ServiceNext]_serviceVars => [Next]_vars
  BY ScriptImplements
<1>4. TypeOK /\ ScriptType /\ [ServiceNext]_serviceVars => TypeOK' /\ ScriptType'
  BY ScriptImplements, ScriptTypeStep, TypeStep
<1> QED
  BY <1>1, <1>2, <1>3, <1>4, PTL DEF ServiceSpec, Spec

(***************************************************************************)
(* The script's own variables keep their types.                             *)
(***************************************************************************)
THEOREM ScriptTypeCorrect == ServiceSpec => []ScriptType
<1>1. ServiceInit => ScriptType
  BY DEF ServiceInit, ScriptType, ScriptLabels
<1>2. TypeOK /\ ScriptType /\ [ServiceNext]_serviceVars => ScriptType'
  BY ScriptTypeStep
<1> QED
  BY <1>1, <1>2, ServiceImplementsInstances, TypeCorrect, PTL DEF ServiceSpec

-----------------------------------------------------------------------------
(***************************************************************************)
(* With the script at work the promises about daemons and commands hold as  *)
(* they do without it (Singleton, CommandsStayCommands, HaltJustified,      *)
(* LoopHasPins, PowerOffWorks).                                             *)
(***************************************************************************)
THEOREM ScriptKeepsThePromises ==
  ASSUME Disciplined, ~PidReuse
  PROVE  ServiceSpec => /\ [](Singleton /\ CommandsStayCommands)
                        /\ [](HaltJustified /\ LoopHasPins)
                        /\ PowerOffWorks
<1> QED
  BY ServiceImplementsInstances, OneDaemon, CommandsExit, HaltsAtTheBoardsRequest,
     DaemonKeepsItsPins, PowerOffCommandWorks, PTL
=============================================================================
