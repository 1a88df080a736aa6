-------------------------- MODULE InstancesProofs ---------------------------
(***************************************************************************)
(* The lock file's promises, proved for any number of processes, inodes and *)
(* pins: Instances' variables keep their types, LockInv is inductive, and   *)
(* with it at most one daemon runs on the lock file in place and that file  *)
(* holds the daemon's pid.                                                  *)
(***************************************************************************)
EXTENDS Instances, TLAPS

(* There is a pin, and every index of Pins names one.                       *)
LEMMA PinsFacts ==
  /\ Len(Pins) \in Nat
  /\ 1 \in 1..Len(Pins)
  /\ \A i \in 1..Len(Pins) : Pins[i] \in AllPins
  BY PinsAssumption DEF AllPins

(* A process that ends keeps the types, and so does exit().                 *)
LEMMA DieType ==
  ASSUME TypeOK, NEW p \in Proc, Die(p)
  PROVE  /\ pc' \in [Proc -> Labels] /\ opts' \in [Proc -> SUBSET Options]
         /\ lives' \in [Proc -> BOOLEAN] /\ k' \in [Proc -> 1..Len(Pins)]
  BY PinsFacts DEF Die, Goto, TypeOK, Labels

LEMMA ExitType ==
  ASSUME TypeOK, NEW p \in Proc, Exit(p)
  PROVE  LockfileType'
  BY DEF Exit, CloseLockfile, TypeOK, LockfileType

(***************************************************************************)
(* Every variable keeps its type.                                           *)
(***************************************************************************)
LEMMA TypeStep == TypeOK /\ [Next]_vars => TypeOK'
<1> SUFFICES ASSUME TypeOK, [Next]_vars PROVE TypeOK'
  OBVIOUS
<1> USE PinsFacts, LockfileAssumption DEF TypeOK
<1>1. CASE UNCHANGED vars
  BY <1>1 DEF vars, lockVars, procVars, boardVars, LockfileType
<1>2. CASE Press
  BY <1>2 DEF Press, AdvanceBoard, lockVars, procVars, boardVars, LockfileType
<1>3. ASSUME NEW p \in Proc, Step(p) PROVE TypeOK'
  <2> USE DEF Goto, boardVars
  <2>1. CASE Start(p)
    BY <2>1 DEF Start, Options, Labels, lockVars, LockfileType
  <2>2. CASE LoadConfig(p)
    BY <2>2 DEF LoadConfig, Labels, lockVars, LockfileType
  <2>3. CASE Fail(p)
    BY <2>3, ExitType, DieType DEF Fail, Exit
  <2>4. CASE SeeNoLockfile(p) \/ ProbePid(p)
    <3>1. PICK a \in BOOLEAN : Decide(p, a)
      BY <2>4 DEF SeeNoLockfile, ProbePid, PidProbe
    <3>2. AfterInit(opts[p], a) \in Labels
      BY DEF AfterInit, AfterLevel, Finish, Labels
    <3>3. PICK l \in Labels : pc' = [pc EXCEPT ![p] = l]
      <4>1. {"init", "ask", "measure"} \subseteq Labels
        BY DEF Labels
      <4> QED
        BY <3>1, <3>2, <4>1 DEF Decide
    <3>4. pc' \in [Proc -> Labels] /\ lives' \in [Proc -> BOOLEAN]
          /\ k' \in [Proc -> 1..Len(Pins)]
      BY <3>1, <3>3 DEF Decide
    <3>5. UNCHANGED <<lockVars, exported, opts, boardVars>>
      BY <2>4 DEF SeeNoLockfile, ProbePid
    <3> QED
      BY <3>4, <3>5 DEF lockVars, LockfileType
  <2>5. CASE SeeLockfile(p)
    BY <2>5 DEF SeeLockfile, Labels, lockVars, LockfileType
  <2>6. CASE InitPin(p)
    BY <2>6 DEF InitPin, ExportPin, Labels, lockVars, LockfileType
  <2>7. CASE SetDirection(p)
    <3>1. AfterInit(opts[p], lives[p]) \in Labels
      BY DEF AfterInit, AfterLevel, Finish, Labels
    <3>2. pc' \in [Proc -> Labels]
      <4>1. "init" \in Labels
        BY DEF Labels
      <4>2. PICK l \in Labels : pc' = [pc EXCEPT ![p] = l]
        BY <2>7, <3>1, <4>1 DEF SetDirection
      <4> QED
        BY <4>2
    <3>3. k' \in [Proc -> 1..Len(Pins)]
      <4>1. CASE k[p] < Len(Pins) /\ k' = [k EXCEPT ![p] = k[p] + 1]
        <5>1. k[p] + 1 \in 1..Len(Pins)
          BY <4>1
        <5> QED
          BY <4>1, <5>1
      <4>2. CASE k' = [k EXCEPT ![p] = 1]
        BY <4>2
      <4> QED
        BY <2>7, <4>1, <4>2 DEF SetDirection
    <3> QED
      BY <2>7, <3>2, <3>3 DEF SetDirection, lockVars, LockfileType
  <2>8. CASE ReadLevel(p)
    <3>1. AfterLevel(opts[p], lives[p]) \in Labels
      BY DEF AfterLevel, Finish, Labels
    <3> QED
      BY <2>8, <3>1 DEF ReadLevel, lockVars, LockfileType
  <2>9. CASE WriteOff(p)
    <3>1. "pulsed" \in Labels /\ Finish(opts[p], lives[p]) \in Labels
      BY DEF Finish, Labels
    <3>2. asserted' \in BOOLEAN /\ cut' \in BOOLEAN /\ halted' = halted
      BY <2>9 DEF WriteOff, AdvanceBoard
    <3>3. pc' \in [Proc -> Labels]
      BY <2>9, <3>1 DEF WriteOff
    <3> QED
      BY <2>9, <3>2, <3>3 DEF WriteOff, lockVars, LockfileType
  <2>10. CASE CleanupPin(p)
    <3>1. exported' \subseteq AllPins /\ UNCHANGED boardVars
      BY <2>10 DEF CleanupPin, UnexportPin
    <3>2. CASE /\ k[p] < Len(Pins) /\ k' = [k EXCEPT ![p] = k[p] + 1]
               /\ UNCHANGED <<lockVars, pc, opts, lives>>
      <4>1. k[p] + 1 \in 1..Len(Pins)
        BY <3>2
      <4> QED
        BY <3>1, <3>2, <4>1 DEF lockVars, LockfileType
    <3>3. CASE /\ k' = [k EXCEPT ![p] = 1] /\ Goto(p, "delete")
               /\ UNCHANGED <<lockVars, opts, lives>>
      BY <3>1, <3>3 DEF lockVars, LockfileType, Labels
    <3>4. CASE Exit(p)
      BY <3>1, <3>4, ExitType, DieType DEF Exit
    <3> QED
      BY <2>10, <3>2, <3>3, <3>4 DEF CleanupPin
  <2>11. CASE Open(p)
    <3>1. LockfileType'
      <4>1. CASE path = None
        BY <2>11, <4>1 DEF Open, OpenLockfile, LockfileType
      <4>2. CASE path # None
        BY <2>11, <4>2 DEF Open, OpenLockfile, LockfileType
      <4> QED
        BY <4>1, <4>2
    <3> QED
      BY <2>11, <3>1 DEF Open, Labels
  <2>12. CASE Lock(p)
    BY <2>12 DEF Lock, TakeLock, LockfileType, Labels
  <2>13. CASE LockBusy(p)
    BY <2>13, ExitType, DieType DEF LockBusy, Exit
  <2>14. CASE Truncate(p)
    BY <2>14 DEF Truncate, TruncateLockfile, LockfileType, Labels
  <2>15. CASE Write(p)
    BY <2>15 DEF Write, WritePid, LockfileType, Labels
  <2>16. CASE EnterLoop(p)
    BY <2>16 DEF EnterLoop, lockVars, LockfileType, Labels
  <2>17. CASE HaltOnReqOff(p) \/ HaltReturns(p)
    BY <2>17 DEF HaltOnReqOff, HaltReturns, lockVars, LockfileType, Labels
  <2>18. CASE Delete(p)
    <3>1. LockfileType' /\ UNCHANGED <<exported, boardVars>>
      BY <2>18 DEF Delete, CloseLockfile, LockfileType
    <3>2. CASE Goto(p, "unlink") /\ UNCHANGED <<opts, lives, k>>
      BY <3>1, <3>2 DEF Labels
    <3>3. CASE Die(p)
      BY <3>1, <3>3, DieType
    <3> QED
      BY <2>18, <3>2, <3>3 DEF Delete
  <2>19. CASE Unlink(p)
    BY <2>19, DieType DEF Unlink, UnlinkLockfile, LockfileType
  <2>20. CASE Signal(p)
    BY <2>20 DEF Signal, lockVars, LockfileType, Labels
  <2>21. CASE Kill(p)
    BY <2>21, ExitType, DieType DEF Kill, Exit
  <2> QED
    BY <1>3, <2>1, <2>2, <2>3, <2>4, <2>5, <2>6, <2>7, <2>8, <2>9, <2>10, <2>11,
       <2>12, <2>13, <2>14, <2>15, <2>16, <2>17, <2>18, <2>19, <2>20, <2>21
       DEF Step, Run
<1> QED
  BY <1>1, <1>2, <1>3 DEF Next

(* In every reachable state each variable has its type (TypeOK).            *)
THEOREM TypeCorrect == Spec => []TypeOK
<1>1. Init => TypeOK
  BY PinsFacts DEF Init, LockfileInit, TypeOK, LockfileType, Labels
<1> QED
  BY <1>1, TypeStep, PTL DEF Spec

-----------------------------------------------------------------------------
(***************************************************************************)
(* A step that leaves the lock variables alone and moves p to a label where *)
(* LockInv asks nothing new of it keeps LockInv.                            *)
(***************************************************************************)
LEMMA QuietStep ==
  ASSUME TypeOK, LockInv, UNCHANGED lockVars,
         NEW p \in Proc, NEW l \in Labels, pc' = [pc EXCEPT ![p] = l],
         l \in BeforeOpen => pc[p] \in BeforeOpen,
         l \notin {"lock", "truncate", "write", "main"},
         l = "loop" => pc[p] = "main"
  PROVE  LockInv'
<1> USE DEF TypeOK, LockInv, lockVars
<1>1. OwnerHasOpen'
  BY DEF OwnerHasOpen
<1>2. NotYetOpen'
  BY DEF NotYetOpen
<1>3. OpenedBeforeLock'
  BY DEF OpenedBeforeLock
<1>4. LockHeld'
  BY DEF LockHeld
<1>5. PidWritten'
  BY DEF PidWritten, Daemons
<1> QED
  BY <1>1, <1>2, <1>3, <1>4, <1>5

(***************************************************************************)
(* A process that closes its lock file and ends, or goes on to unlink it,   *)
(* keeps LockInv.                                                           *)
(***************************************************************************)
LEMMA CloseStep ==
  ASSUME TypeOK, LockInv,
         NEW p \in Proc, CloseLockfile(p),
         NEW l \in {"dead", "unlink"}, pc' = [pc EXCEPT ![p] = l]
  PROVE  LockInv'
<1> USE LockfileAssumption DEF TypeOK, LockfileType, LockInv, CloseLockfile
<1>1. OwnerHasOpen'
  BY DEF OwnerHasOpen
<1>2. NotYetOpen'
  BY DEF NotYetOpen, BeforeOpen
<1>3. OpenedBeforeLock'
  BY DEF OpenedBeforeLock
<1>4. LockHeld'
  BY DEF LockHeld
<1>5. PidWritten'
  BY DEF PidWritten, Daemons
<1> QED
  BY <1>1, <1>2, <1>3, <1>4, <1>5

(***************************************************************************)
(* open(O_CREAT): an existing inode keeps its text, a new one is nobody's.  *)
(***************************************************************************)
LEMMA OpenStep ==
  ASSUME TypeOK, LockInv, NEW p \in Proc, Open(p)
  PROVE  LockInv'
<1> USE LockfileAssumption DEF TypeOK, LockfileType, LockInv, Open, OpenLockfile, Goto
<1>0. fd[p] = None /\ pc[p] = "open"
  BY DEF NotYetOpen, BeforeOpen
<1>1. PICK i \in Inode :
        /\ fd' = [fd EXCEPT ![p] = i]
        /\ \/ content' = content
           \/ content' = [content EXCEPT ![i] = None] /\ \A q \in Proc : fd[q] # i
  OBVIOUS
<1>2. owner' = owner /\ pc' = [pc EXCEPT ![p] = "lock"]
  OBVIOUS
<1>3. OwnerHasOpen'
  BY <1>0, <1>1, <1>2 DEF OwnerHasOpen
<1>4. NotYetOpen'
  BY <1>1, <1>2 DEF NotYetOpen, BeforeOpen
<1>5. OpenedBeforeLock'
  BY <1>1, <1>2 DEF OpenedBeforeLock
<1>6. LockHeld'
  BY <1>0, <1>1, <1>2 DEF LockHeld
<1>7. PidWritten'
  <2> SUFFICES ASSUME NEW q \in Daemons' PROVE content'[fd'[q]] = q
    BY DEF PidWritten
  <2>1. q # p /\ q \in Daemons
    BY <1>2 DEF Daemons
  <2>2. content[fd[q]] = q /\ fd'[q] = fd[q] /\ fd[q] \in Inode
    BY <1>1, <2>1 DEF PidWritten, LockHeld, Daemons
  <2> QED
    BY <1>1, <2>1, <2>2 DEF Daemons
<1> QED
  BY <1>3, <1>4, <1>5, <1>6, <1>7

(***************************************************************************)
(* lock(): the free lock of the inode p has open becomes p's.               *)
(***************************************************************************)
LEMMA LockStep ==
  ASSUME TypeOK, LockInv, NEW p \in Proc, Lock(p)
  PROVE  LockInv'
<1> USE LockfileAssumption DEF TypeOK, LockfileType, LockInv, Lock, TakeLock, LockFree, Goto
<1>0. pc[p] = "lock" /\ fd[p] \in Inode /\ owner[fd[p]] = None
  BY DEF OpenedBeforeLock
<1>1. OwnerHasOpen'
  BY <1>0 DEF OwnerHasOpen
<1>2. NotYetOpen'
  BY DEF NotYetOpen, BeforeOpen
<1>3. OpenedBeforeLock'
  BY DEF OpenedBeforeLock
<1>4. LockHeld'
  BY <1>0 DEF LockHeld
<1>5. PidWritten'
  BY <1>0 DEF PidWritten, Daemons
<1> QED
  BY <1>1, <1>2, <1>3, <1>4, <1>5

(***************************************************************************)
(* ftruncate() and write() touch only the inode whose lock p has, so no     *)
(* other daemon's pid is lost.                                              *)
(***************************************************************************)
LEMMA WriteStep ==
  ASSUME TypeOK, LockInv, NEW p \in Proc, Truncate(p) \/ Write(p)
  PROVE  LockInv'
<1> USE LockfileAssumption
    DEF TypeOK, LockfileType, LockInv, Truncate, Write, TruncateLockfile, WritePid, Goto
<1>0. pc[p] \in {"truncate", "write"} /\ fd[p] \in Inode /\ owner[fd[p]] = p
  BY DEF LockHeld
<1>1. OwnerHasOpen'
  BY DEF OwnerHasOpen
<1>2. NotYetOpen'
  BY DEF NotYetOpen, BeforeOpen
<1>3. OpenedBeforeLock'
  BY DEF OpenedBeforeLock
<1>4. LockHeld'
  BY <1>0 DEF LockHeld
<1>5. PidWritten'
  <2> SUFFICES ASSUME NEW q \in Daemons' PROVE content'[fd'[q]] = q
    BY DEF PidWritten
  <2>1. CASE q = p
    BY <1>0, <2>1 DEF Daemons
  <2>2. CASE q # p
    <3>1. q \in Daemons
      BY <2>2 DEF Daemons
    <3>2. fd[q] \in Inode /\ owner[fd[q]] = q
      BY <3>1 DEF LockHeld, Daemons
    <3> QED
      BY <1>0, <2>2, <3>1, <3>2 DEF PidWritten
  <2> QED
    BY <2>1, <2>2
<1> QED
  BY <1>1, <1>2, <1>3, <1>4, <1>5

(***************************************************************************)
(* LockInv is inductive.                                                    *)
(***************************************************************************)
LEMMA LockInvStep == TypeOK /\ LockInv /\ [Next]_vars => LockInv'
<1> SUFFICES ASSUME TypeOK, LockInv, [Next]_vars PROVE LockInv'
  OBVIOUS
<1>1. CASE UNCHANGED <<lockVars, pc>>
  BY <1>1 DEF lockVars, LockInv, OwnerHasOpen, NotYetOpen, OpenedBeforeLock,
              LockHeld, PidWritten, Daemons
<1>2. ASSUME NEW p \in Proc, Step(p) PROVE LockInv'
  <2>1. CASE \/ Start(p) \/ LoadConfig(p) \/ SeeNoLockfile(p) \/ SeeLockfile(p)
             \/ ProbePid(p) \/ InitPin(p) \/ SetDirection(p) \/ ReadLevel(p)
             \/ WriteOff(p)
    <3>1. UNCHANGED lockVars /\ pc[p] \in BeforeOpen
      BY <2>1 DEF Start, LoadConfig, SeeNoLockfile, SeeLockfile, ProbePid, Decide,
                  InitPin, SetDirection, ReadLevel, WriteOff, BeforeOpen
    <3>2. PICK l \in BeforeOpen \cup {"exitclean"} : pc' = [pc EXCEPT ![p] = l]
      BY <2>1 DEF Start, LoadConfig, SeeNoLockfile, SeeLockfile, ProbePid, Decide,
                  InitPin, SetDirection, ReadLevel, WriteOff, Goto,
                  AfterInit, AfterLevel, Finish, BeforeOpen
    <3>3. l \in Labels /\ l \notin {"lock", "truncate", "write", "main", "loop"}
      BY DEF BeforeOpen, Labels
    <3> QED
      BY <3>1, <3>2, <3>3, QuietStep
  <2>2. CASE Fail(p) \/ LockBusy(p) \/ Kill(p) \/ Delete(p)
    <3>1. CloseLockfile(p)
      BY <2>2 DEF Fail, LockBusy, Kill, Delete, Exit
    <3>2. PICK l \in {"dead", "unlink"} : pc' = [pc EXCEPT ![p] = l]
      BY <2>2 DEF Fail, LockBusy, Kill, Delete, Exit, Die, Goto
    <3> QED
      BY <3>1, <3>2, CloseStep
  <2>3. CASE CleanupPin(p)
    <3>1. CASE UNCHANGED <<lockVars, pc>>
      BY <1>1, <3>1
    <3>2. CASE Goto(p, "delete") /\ UNCHANGED lockVars
      BY <3>2, QuietStep DEF Goto, Labels, BeforeOpen
    <3>3. CASE Exit(p)
      BY <3>3, CloseStep DEF Exit, Die, Goto
    <3> QED
      BY <2>3, <3>1, <3>2, <3>3 DEF CleanupPin
  <2>4. CASE Open(p)
    BY <2>4, OpenStep
  <2>5. CASE Lock(p)
    BY <2>5, LockStep
  <2>6. CASE Truncate(p) \/ Write(p)
    BY <2>6, WriteStep
  <2>7. CASE EnterLoop(p)
    BY <2>7, QuietStep DEF EnterLoop, Goto, Labels, BeforeOpen
  <2>8. CASE HaltOnReqOff(p) \/ HaltReturns(p)
    BY <2>8, QuietStep DEF HaltOnReqOff, HaltReturns, Goto, Labels, BeforeOpen
  <2>9. CASE Signal(p)
    <3>1. PICK l \in {"delete", "sigclean"} : pc' = [pc EXCEPT ![p] = l]
      BY <2>9 DEF Signal, Goto
    <3>2. UNCHANGED lockVars
      BY <2>9 DEF Signal
    <3>3. l \in Labels /\ l \notin BeforeOpen
          /\ l \notin {"lock", "truncate", "write", "main", "loop"}
      BY DEF Labels, BeforeOpen
    <3> QED
      BY <3>1, <3>2, <3>3, QuietStep
  <2>10. CASE Unlink(p)
    <3>1. pc' = [pc EXCEPT ![p] = "dead"] /\ UNCHANGED <<content, owner, fd>>
      BY <2>10 DEF Unlink, UnlinkLockfile, Die, Goto
    <3> QED
      BY <3>1 DEF TypeOK, LockInv, OwnerHasOpen, NotYetOpen, OpenedBeforeLock,
                  LockHeld, PidWritten, Daemons, BeforeOpen
  <2> QED
    BY <1>2, <2>1, <2>2, <2>3, <2>4, <2>5, <2>6, <2>7, <2>8, <2>9, <2>10 DEF Step, Run
<1>3. CASE Press \/ UNCHANGED vars
  BY <1>1, <1>3 DEF Press, vars, procVars
<1> QED
  BY <1>2, <1>3 DEF Next

(***************************************************************************)
(* In every reachable state a process past lock() has the lock of the inode *)
(* it opened and a daemon's pid stands in it (LockInv).                     *)
(***************************************************************************)
THEOREM LockInvariant == Spec => []LockInv
<1>1. Init => LockInv
  BY LockfileAssumption
  DEF Init, LockfileInit, LockInv, OwnerHasOpen, NotYetOpen, OpenedBeforeLock,
      LockHeld, PidWritten, Daemons
<1> QED
  BY <1>1, LockInvStep, TypeCorrect, PTL DEF Spec

(***************************************************************************)
(* tdaemon's singleton, as far as the code keeps it: no two daemons run on  *)
(* the lock file that the path names (SingletonOnPath).                     *)
(***************************************************************************)
THEOREM OneDaemonPerLockfile == Spec => []SingletonOnPath
<1>1. TypeOK /\ LockInv => SingletonOnPath
  BY DEF LockInv, LockHeld, SingletonOnPath, Daemons
<1> QED
  BY <1>1, TypeCorrect, LockInvariant, PTL

(***************************************************************************)
(* The lock file in place names the daemon that runs on it, so rocpmd.sh    *)
(* stop signals that daemon (PidFileNamesDaemon).                           *)
(***************************************************************************)
THEOREM LockfileNamesItsDaemon == Spec => []PidFileNamesDaemon
<1>1. LockInv => PidFileNamesDaemon
  BY DEF LockInv, PidWritten, PidFileNamesDaemon
<1> QED
  BY <1>1, LockInvariant, PTL

-----------------------------------------------------------------------------
(* What exit() does to the lock file is the end of a lease, or nothing.     *)
LEMMA CloseReleases ==
  ASSUME NEW p \in Proc, CloseLockfile(p)
  PROVE  Promise!Release(p)
  BY DEF CloseLockfile, Promise!Release

(* A step of p does to the lock file what a lease allows.                   *)
LEMMA PromiseStep ==
  ASSUME TypeOK, LockInv, NEW p \in Proc, Step(p)
  PROVE  Promise!Next \/ UNCHANGED Promise!vars
<1>1. CASE \/ Start(p) \/ LoadConfig(p) \/ SeeNoLockfile(p) \/ SeeLockfile(p)
           \/ ProbePid(p) \/ InitPin(p) \/ SetDirection(p) \/ ReadLevel(p)
           \/ WriteOff(p) \/ EnterLoop(p) \/ HaltOnReqOff(p) \/ HaltReturns(p)
           \/ Signal(p)
  BY <1>1 DEF Start, LoadConfig, SeeNoLockfile, SeeLockfile, ProbePid, InitPin,
              SetDirection, ReadLevel, WriteOff, EnterLoop, HaltOnReqOff, HaltReturns,
              Signal, lockVars, Promise!vars
<1>2. CASE Fail(p) \/ LockBusy(p) \/ Kill(p) \/ Delete(p)
  BY <1>2, CloseReleases DEF Fail, LockBusy, Kill, Delete, Exit, Promise!Next
<1>3. CASE CleanupPin(p)
  BY <1>3, CloseReleases DEF CleanupPin, Exit, lockVars, Promise!Next, Promise!vars
<1>4. CASE Unlink(p)
  BY <1>4 DEF Unlink, UnlinkLockfile, Promise!Next, Promise!TakeAway
<1>5. CASE Open(p)
  <2>1. CASE path # None
    BY <1>5, <2>1 DEF Open, OpenLockfile, Promise!vars
  <2>2. CASE path = None
    <3>1. PICK i \in Inode :
            /\ \A q \in Proc : fd[q] # i
            /\ path' = i /\ content' = [content EXCEPT ![i] = None]
            /\ owner' = owner
      BY <1>5, <2>2 DEF Open, OpenLockfile
    <3>2. owner[i] = None
      BY <3>1 DEF LockInv, OwnerHasOpen, TypeOK, LockfileType
    <3> QED
      BY <2>2, <3>1, <3>2 DEF Promise!Next, Promise!PutInPlace
  <2> QED
    BY <2>1, <2>2
<1>6. CASE Lock(p)
  <2>1. fd[p] \in Inode /\ owner[fd[p]] = None
    BY <1>6 DEF Lock, TakeLock, LockFree, LockInv, OpenedBeforeLock, TypeOK, LockfileType
  <2>2. \A j \in Inode : owner[j] # p
    BY <2>1, LockfileAssumption DEF LockInv, OwnerHasOpen
  <2>3. Promise!Acquire(p, fd[p])
    BY <1>6, <2>1, <2>2 DEF Lock, TakeLock, Promise!Acquire
  <2> QED
    BY <2>1, <2>3 DEF Promise!Next
<1>7. CASE Truncate(p) \/ Write(p)
  <2>1. fd[p] \in Inode /\ owner[fd[p]] = p
    BY <1>7 DEF Truncate, Write, LockInv, LockHeld, TypeOK, LockfileType
  <2>2. Promise!Blank(p, fd[p]) \/ Promise!Sign(p, fd[p])
    BY <1>7, <2>1
    DEF Truncate, TruncateLockfile, Write, WritePid, Promise!Blank, Promise!Sign
  <2> QED
    BY <2>1, <2>2 DEF Promise!Next
<1> QED
  BY <1>1, <1>2, <1>3, <1>4, <1>5, <1>6, <1>7 DEF Step, Run

(***************************************************************************)
(* The processes implement Lease, whatever is started, signalled or killed, *)
(* with or without pid reuse (KeepsPromise).                                *)
(***************************************************************************)
THEOREM ImplementsLease == Spec => KeepsPromise
<1>1. Init => Promise!Init
  BY DEF Init, LockfileInit, Promise!Init
<1>2. ASSUME TypeOK, LockInv, [Next]_vars
      PROVE  [Promise!Next]_Promise!vars
  <2>1. CASE Press \/ UNCHANGED vars
    BY <2>1 DEF Press, vars, lockVars, Promise!vars
  <2> QED
    BY <1>2, <2>1, PromiseStep DEF Next
<1> QED
  BY <1>1, <1>2, TypeCorrect, LockInvariant, PTL DEF Spec, KeepsPromise, Promise!Spec
=============================================================================
