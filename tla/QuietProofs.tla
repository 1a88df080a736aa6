---------------------------- MODULE QuietProofs -----------------------------
(***************************************************************************)
(* What the man page and README promise of Instances' processes, proved for *)
(* any number of processes, inodes and pins under the discipline of Quiet   *)
(* and without pid reuse: one daemon, which is no command, has all its pins *)
(* and halts only when the board requests it.                               *)
(***************************************************************************)
EXTENDS InstancesProofs

Resting == {"idle", "loop", "dead"}

SomeLoop == \E q \in Proc : pc[q] = "loop"

(* Where a process knows its pins to be exported.                            *)
HavingPins ==
  {"recheck", "reread", "ask", "measure", "off", "pulsed", "open", "loop", "main"}
    \cup Locking

(***************************************************************************)
(* One process at a time is between two resting places.                     *)
(***************************************************************************)
OneAtWork ==
  \A p, q \in Proc : pc[p] \notin Resting /\ pc[q] \notin Resting => p = q

(***************************************************************************)
(* The lock file: a process that has it open has the one in place open, its *)
(* lock belongs to a process that has got it, the pid in it to one that has *)
(* become a daemon, and it is not left empty.                               *)
(***************************************************************************)
OnPath == \A p \in Proc : pc[p] \in Locking \cup {"main", "loop"} => fd[p] = path

HavingLock == {"truncate", "write", "main", "loop", "halt", "sigclean", "delete"}

HavingWritten == {"main", "loop", "halt", "sigclean", "delete", "unlink", "dead"}

LockOwners == \A i \in Inode : owner[i] # None => pc[owner[i]] \in HavingLock

PidWriters == \A i \in Inode : content[i] # None => pc[content[i]] \in HavingWritten

FileFilled ==
  path # None /\ (\A p \in Proc : pc[p] \notin Locking) => content[path] # None

SeenFile == \A p \in Proc : pc[p] \in {"read", "reread"} => path # None

(***************************************************************************)
(* A process knows whether a daemon lives, cleans up only when none does,   *)
(* and reaches is_running() as a command only when one does.                *)
(***************************************************************************)
KnowsDaemon ==
  \A p \in Proc :
    pc[p] \in {"init", "direction", "recheck", "reread", "ask", "measure", "off", "pulsed"}
      => lives[p] = SomeLoop

AloneWhenCleaning ==
  \A p \in Proc :
    pc[p] \in {"init", "direction", "exitclean", "halt", "sigclean", "delete", "unlink"}
      => ~SomeLoop

CommandSeesDaemon ==
  \A p \in Proc : pc[p] \in {"open", "lock"} /\ opts[p] # {} => SomeLoop

DaemonNoCommand ==
  \A p \in Proc : pc[p] \in {"truncate", "write", "main", "loop"} => opts[p] = {}

(***************************************************************************)
(* The pins: gpio_init() has exported those before the k-th, and nobody     *)
(* takes them from a process that has passed it.                            *)
(***************************************************************************)
Exporting ==
  \A p \in Proc : \A i \in 1..Len(Pins) :
    \/ pc[p] = "init" /\ i < k[p]
    \/ pc[p] = "direction" /\ i <= k[p]
    => Pins[i] \in exported

PinsKept == \A p \in Proc : pc[p] \in HavingPins => AllPins \subseteq exported

Orderly ==
  /\ OneAtWork
  /\ OnPath /\ LockOwners /\ PidWriters /\ FileFilled /\ SeenFile
  /\ KnowsDaemon /\ AloneWhenCleaning /\ CommandSeesDaemon /\ DaemonNoCommand
  /\ Exporting /\ PinsKept

QuietInv == HaltJustified /\ (~halted => Orderly)

-----------------------------------------------------------------------------
(* A step of p changes nothing of another process's own.                    *)
Others(p) ==
  \A q \in Proc \ {p} :
    /\ pc'[q] = pc[q] /\ opts'[q] = opts[q]
    /\ lives'[q] = lives[q] /\ k'[q] = k[q]

LEMMA OthersStep ==
  ASSUME TypeOK, NEW p \in Proc, Step(p)
  PROVE  Others(p)
<1> USE DEF TypeOK, Others, Goto, Die, Exit
<1>1. CASE Start(p) \/ Signal(p) \/ Kill(p) \/ Fail(p)
  BY <1>1 DEF Start, Signal, Kill, Fail
<1>2. CASE LoadConfig(p) \/ SeeNoLockfile(p) \/ SeeLockfile(p) \/ ProbePid(p)
  BY <1>2 DEF LoadConfig, SeeNoLockfile, SeeLockfile, ProbePid, Decide
<1>3. CASE InitPin(p) \/ SetDirection(p) \/ ReadLevel(p) \/ WriteOff(p)
  BY <1>3 DEF InitPin, SetDirection, ReadLevel, WriteOff
<1>4. CASE CleanupPin(p)
  BY <1>4 DEF CleanupPin
<1>5. CASE Open(p) \/ Lock(p) \/ LockBusy(p) \/ Truncate(p) \/ Write(p)
  BY <1>5 DEF Open, Lock, LockBusy, Truncate, Write
<1>6. CASE EnterLoop(p) \/ HaltOnReqOff(p) \/ HaltReturns(p) \/ Delete(p) \/ Unlink(p)
  BY <1>6 DEF EnterLoop, HaltOnReqOff, HaltReturns, Delete, Unlink
<1> QED
  BY <1>1, <1>2, <1>3, <1>4, <1>5, <1>6 DEF Step, Run

(* A step of p, the halt apart, finds every other process resting.          *)
Turn(p) == Others(p) /\ \A q \in Proc \ {p} : pc[q] \in Resting

LEMMA TurnStep ==
  ASSUME Disciplined, TypeOK, OneAtWork, NEW p \in Proc, Step(p), ~HaltOnReqOff(p)
  PROVE  Turn(p)
<1>1. CASE Start(p) \/ Signal(p) \/ Kill(p)
  BY <1>1, OthersStep DEF Start, Signal, Kill, Interruptible, Quiet, Resting, Turn
<1>2. CASE Run(p) \/ Fail(p)
  <2>1. pc[p] \notin Resting
    BY <1>2 DEF Run, Fail, LoadConfig, SeeNoLockfile, SeeLockfile, ProbePid, InitPin,
                SetDirection, ReadLevel, WriteOff, CleanupPin, Open, Lock, LockBusy,
                Truncate, Write, EnterLoop, HaltReturns, Delete, Unlink, Resting
  <2> QED
    BY <2>1, OthersStep DEF OneAtWork, Turn
<1> QED
  BY <1>1, <1>2 DEF Step

(* What the lock tells of a daemon in its loop, and that it is the only one. *)
LEMMA LoopFacts ==
  ASSUME TypeOK, LockInv, OnPath, NEW q \in Proc, pc[q] = "loop"
  PROVE  /\ path \in Inode /\ fd[q] = path
         /\ owner[path] = q /\ content[path] = q
         /\ \A r \in Proc : pc[r] \in {"truncate", "write", "main", "loop"} => r = q
  BY DEF TypeOK, LockfileType, LockInv, LockHeld, PidWritten, Daemons, OnPath, Locking

(* rocpmd_instance_lives() returns whether a daemon is in its loop.         *)
LEMMA ProbeIsTrue ==
  ASSUME ~PidReuse, TypeOK, LockInv, Orderly, NEW p \in Proc,
         SeeNoLockfile(p) \/ ProbePid(p)
  PROVE  Decide(p, SomeLoop)
<1> USE DEF Orderly
<1>1. CASE SeeNoLockfile(p)
  <2>1. SomeLoop = FALSE
    BY <1>1, LoopFacts, LockfileAssumption DEF SeeNoLockfile, SomeLoop
  <2> QED
    BY <1>1, <2>1 DEF SeeNoLockfile
<1>2. CASE ProbePid(p)
  <2>0. pc[p] \in {"read", "reread"} /\ path \in Inode
    BY <1>2 DEF ProbePid, SeenFile, TypeOK, LockfileType
  <2>1. \A q \in Proc \ {p} : pc[q] \in Resting
    BY <2>0 DEF OneAtWork, Resting
  <2>2. content[path] \in Proc
    BY <2>0, <2>1, LockfileAssumption
    DEF FileFilled, Resting, Locking, TypeOK, LockfileType
  <2>3. PICK alive \in PidProbe(Alive) : Decide(p, alive)
    BY <1>2 DEF ProbePid
  <2>4. CASE content[path] \in Alive
    <3>1. content[path] # p
      BY <2>0, <2>2, LockfileAssumption DEF PidWriters, HavingWritten
    <3>2. pc[content[path]] = "loop"
      BY <2>1, <2>2, <2>4, <3>1 DEF Alive, Resting
    <3>3. SomeLoop = TRUE
      BY <2>2, <3>2 DEF SomeLoop
    <3> QED
      BY <2>3, <2>4, <3>3 DEF PidProbe
  <2>5. CASE content[path] \notin Alive
    <3>1. SomeLoop = FALSE
      BY <2>5, LoopFacts DEF SomeLoop, Alive
    <3>2. PidProbe(Alive) = {FALSE}
      BY <2>0, <2>2, <2>5, LockfileAssumption DEF PidProbe
    <3> QED
      BY <2>3, <3>1, <3>2
  <2> QED
    BY <2>4, <2>5
<1> QED
  BY <1>1, <1>2

-----------------------------------------------------------------------------
(* Still at most one process is at work.                                    *)
LEMMA OneAtWorkStep ==
  ASSUME NEW p \in Proc, Turn(p)
  PROVE  OneAtWork'
  BY DEF Turn, Others, OneAtWork, Resting

(* Where the daemons in their loop are before and after p's step.           *)
LEMMA SomeLoopStep ==
  ASSUME NEW p \in Proc, Turn(p)
  PROVE  /\ SomeLoop \in BOOLEAN /\ SomeLoop' \in BOOLEAN
         /\ pc[p] # "loop" /\ pc'[p] # "loop" => SomeLoop' = SomeLoop
         /\ \A q \in Proc : pc[q] = "loop" => SomeLoop
  BY DEF Turn, Others, SomeLoop

(***************************************************************************)
(* The steps of p by what they do to the lock file: those before open(),    *)
(* those that leave it open, and those that close it.                       *)
(***************************************************************************)
Before(p) ==
  /\ UNCHANGED lockVars
  /\ pc[p] \in BeforeOpen /\ pc'[p] \in BeforeOpen \cup {"exitclean"}
  /\ pc'[p] \in {"read", "reread"} => path # None

Keeping(p) ==
  /\ UNCHANGED lockVars
  /\ \/ pc[p] = "main" /\ pc'[p] = "loop"
     \/ pc[p] \in InMain \ Locking /\ pc'[p] \in {"sigclean", "delete"}
     \/ pc[p] \in {"exitclean", "sigclean"} /\ pc'[p] = pc[p]
     \/ pc[p] = "sigclean" /\ pc'[p] = "delete"

Closing(p) ==
  /\ CloseLockfile(p)
  /\ \/ pc[p] = "delete" /\ pc'[p] = "unlink"
     \/ pc[p] \in (InMain \ Locking) \cup {"delete"} /\ pc'[p] = "dead"
     \/ pc[p] = "lock" /\ pc'[p] = "dead" /\ ~LockFree(p)

Unlinking(p) == UnlinkLockfile /\ pc[p] = "unlink" /\ pc'[p] = "dead"

LEMMA FileSteps ==
  ASSUME Disciplined, TypeOK, NEW p \in Proc, Step(p), ~HaltOnReqOff(p)
  PROVE  \/ Before(p)   \/ Keeping(p) \/ Closing(p) \/ Unlinking(p)
         \/ Open(p)     \/ Lock(p)    \/ Truncate(p) \/ Write(p)
<1> USE DEF TypeOK, Goto
<1>1. CASE Start(p) \/ LoadConfig(p) \/ SeeLockfile(p) \/ InitPin(p)
  BY <1>1 DEF Start, LoadConfig, SeeLockfile, InitPin, Before, BeforeOpen
<1>2. CASE SeeNoLockfile(p) \/ ProbePid(p)
  BY <1>2 DEF SeeNoLockfile, ProbePid, Decide, AfterInit, AfterLevel, Finish, Before,
              BeforeOpen
<1>3. CASE SetDirection(p) \/ ReadLevel(p) \/ WriteOff(p)
  BY <1>3 DEF SetDirection, ReadLevel, WriteOff, AfterInit, AfterLevel, Finish, Before,
              BeforeOpen
<1>4. CASE EnterLoop(p) \/ HaltReturns(p) \/ Signal(p)
  BY <1>4 DEF EnterLoop, HaltReturns, Signal, Interruptible, Keeping, InMain, Labels, Locking
<1>5. CASE CleanupPin(p)
  BY <1>5 DEF CleanupPin, Exit, Die, Keeping, Closing, InMain, Labels, Locking
<1>6. CASE Fail(p) \/ LockBusy(p) \/ Kill(p) \/ Delete(p)
  BY <1>6 DEF Fail, LockBusy, Kill, Interruptible, Delete, Exit, Die, Closing, InMain,
              Labels, Locking
<1>7. CASE Unlink(p)
  BY <1>7 DEF Unlink, Die, Unlinking
<1> QED
  BY <1>1, <1>2, <1>3, <1>4, <1>5, <1>6, <1>7 DEF Step, Run

(* Only p's own lock and pid are at stake in its step.                      *)
LEMMA OwnersFrame ==
  ASSUME TypeOK, Orderly, NEW p \in Proc, Turn(p),
         \A i \in Inode : owner'[i] \in {owner[i], None, p},
         \A i \in Inode : owner'[i] = p => pc'[p] \in HavingLock
  PROVE  LockOwners'
<1> SUFFICES ASSUME NEW i \in Inode, owner'[i] # None, owner'[i] # p
             PROVE  pc'[owner'[i]] \in HavingLock
  BY DEF LockOwners
<1>1. owner'[i] = owner[i] /\ owner[i] \in Proc \ {p}
  BY DEF TypeOK, LockfileType
<1> QED
  BY <1>1 DEF Turn, Others, Orderly, LockOwners

LEMMA WritersFrame ==
  ASSUME TypeOK, Orderly, NEW p \in Proc, Turn(p),
         \A i \in Inode : content'[i] \in {content[i], None, p},
         \A i \in Inode : content'[i] = p => pc'[p] \in HavingWritten
  PROVE  PidWriters'
<1> SUFFICES ASSUME NEW i \in Inode, content'[i] # None, content'[i] # p
             PROVE  pc'[content'[i]] \in HavingWritten
  BY DEF PidWriters
<1>1. content'[i] = content[i] /\ content[i] \in Proc \ {p}
  BY DEF TypeOK, LockfileType
<1> QED
  BY <1>1 DEF Turn, Others, Orderly, PidWriters

LEMMA OwnersStep ==
  ASSUME Disciplined, TypeOK, Orderly, NEW p \in Proc, Step(p), ~HaltOnReqOff(p)
  PROVE  LockOwners' /\ PidWriters'
<1>1. Turn(p)
  BY TurnStep DEF Orderly
<1>2. /\ \A i \in Inode : owner[i] = p => pc[p] \in HavingLock
      /\ \A i \in Inode : content[i] = p => pc[p] \in HavingWritten
  BY LockfileAssumption DEF Orderly, LockOwners, PidWriters
<1>3. /\ \A i \in Inode : owner'[i] \in {owner[i], None, p}
      /\ \A i \in Inode : owner'[i] = p => pc'[p] \in HavingLock
  <2>1. CASE Before(p) \/ Keeping(p)
    BY <1>2, <2>1 DEF Before, Keeping, lockVars, BeforeOpen, HavingLock
  <2>2. CASE Closing(p)
    BY <2>2, LockfileAssumption DEF Closing, CloseLockfile
  <2>3. CASE Unlinking(p)
    BY <1>2, <2>3 DEF Unlinking, UnlinkLockfile, HavingLock
  <2>4. CASE Open(p)
    BY <1>2, <2>4 DEF Open, OpenLockfile, HavingLock
  <2>5. CASE Lock(p)
    BY <2>5 DEF Lock, TakeLock, Goto, TypeOK, LockfileType, HavingLock
  <2>6. CASE Truncate(p) \/ Write(p)
    BY <2>6 DEF Truncate, TruncateLockfile, Write, WritePid, Goto, TypeOK, HavingLock
  <2> QED
    BY <2>1, <2>2, <2>3, <2>4, <2>5, <2>6, FileSteps
<1>4. /\ \A i \in Inode : content'[i] \in {content[i], None, p}
      /\ \A i \in Inode : content'[i] = p => pc'[p] \in HavingWritten
  <2>1. CASE Before(p) \/ Keeping(p)
    BY <1>2, <2>1 DEF Before, Keeping, lockVars, BeforeOpen, HavingWritten
  <2>2. CASE Closing(p)
    BY <1>2, <2>2 DEF Closing, CloseLockfile, HavingWritten
  <2>3. CASE Unlinking(p)
    BY <1>2, <2>3 DEF Unlinking, UnlinkLockfile, HavingWritten
  <2>4. CASE Open(p)
    BY <1>2, <2>4, LockfileAssumption
    DEF Open, OpenLockfile, TypeOK, LockfileType, HavingWritten
  <2>5. CASE Lock(p)
    BY <1>2, <2>5 DEF Lock, TakeLock, HavingWritten
  <2>6. CASE Truncate(p)
    BY <1>2, <2>6, LockfileAssumption
    DEF Truncate, TruncateLockfile, TypeOK, LockfileType, HavingWritten
  <2>7. CASE Write(p)
    BY <2>7 DEF Write, WritePid, Goto, TypeOK, LockfileType, HavingWritten
  <2> QED
    BY <2>1, <2>2, <2>3, <2>4, <2>5, <2>6, <2>7, FileSteps
<1> QED
  BY <1>1, <1>3, <1>4, OwnersFrame, WritersFrame

(***************************************************************************)
(* The lock file stays the one in place of everybody who has it open, is    *)
(* not left empty, and is not gone between the probe's two calls.           *)
(***************************************************************************)
LockfileOrder == OnPath /\ LockOwners /\ PidWriters /\ FileFilled /\ SeenFile

LEMMA LockfileStep ==
  ASSUME Disciplined, TypeOK, LockInv, Orderly, NEW p \in Proc, Step(p), ~HaltOnReqOff(p)
  PROVE  LockfileOrder'
<1>1. Turn(p)
  BY TurnStep DEF Orderly
<1>2. LockOwners' /\ PidWriters'
  BY OwnersStep
<1>3. OnPath /\ FileFilled /\ SeenFile
  BY DEF Orderly
<1>4. CASE Before(p) \/ Keeping(p)
  <2> USE <1>1, <1>3, <1>4 DEF Before, Keeping, Turn, Others, lockVars, BeforeOpen, Resting
  <2>1. OnPath'
    BY DEF OnPath, Locking
  <2>2. FileFilled'
    BY DEF FileFilled, Locking
  <2>3. SeenFile'
    BY DEF SeenFile
  <2> QED
    BY <1>2, <2>1, <2>2, <2>3 DEF LockfileOrder
<1>5. CASE Closing(p)
  <2>1. pc[p] = "lock" /\ path # None => content[path] # None
    <3> SUFFICES ASSUME pc[p] = "lock", path # None PROVE content[path] # None
      OBVIOUS
    <3>1. fd[p] = path /\ path \in Inode /\ owner[path] \in Proc
      BY <1>3, <1>5 DEF Closing, LockFree, OnPath, Locking, TypeOK, LockfileType
    <3>2. pc[owner[path]] \in HavingLock
      BY <3>1, LockfileAssumption DEF Orderly, LockOwners
    <3>3. pc[owner[path]] = "loop"
      BY <1>1, <3>1, <3>2 DEF HavingLock, Turn, Others, Resting
    <3> QED
      BY <1>3, <3>1, <3>3, LoopFacts, LockfileAssumption
  <2> USE <1>1, <1>3, <1>5 DEF Closing, CloseLockfile, Turn, Others, Resting, TypeOK, LockfileType
  <2>2. OnPath'
    BY DEF OnPath, Locking
  <2>3. FileFilled'
    BY <2>1 DEF FileFilled, Locking
  <2>4. SeenFile'
    BY DEF SeenFile
  <2> QED
    BY <1>2, <2>2, <2>3, <2>4 DEF LockfileOrder
<1>6. CASE Open(p)
  <2>1. \A q \in Proc : pc[q] = "loop" => path # None
    BY <1>3, LoopFacts, LockfileAssumption
  <2>2. /\ pc[p] = "open" /\ pc'[p] = "lock"
        /\ fd' = [fd EXCEPT ![p] = path'] /\ (path # None => path' = path)
    BY <1>6 DEF Open, OpenLockfile, Goto, TypeOK
  <2>3. OnPath'
    BY <1>1, <1>3, <2>1, <2>2 DEF OnPath, Locking, Turn, Others, Resting, TypeOK, LockfileType
  <2>4. FileFilled'
    BY <2>2 DEF FileFilled, Locking
  <2>5. SeenFile'
    BY <1>1, <2>2 DEF SeenFile, Turn, Others, Resting
  <2> QED
    BY <1>2, <2>3, <2>4, <2>5 DEF LockfileOrder
<1>7. CASE Lock(p) \/ Truncate(p) \/ Write(p)
  <2>1. /\ pc[p] \in Locking /\ pc'[p] \in {"truncate", "write", "main"}
        /\ UNCHANGED <<path, fd>>
    BY <1>7 DEF Lock, TakeLock, Truncate, TruncateLockfile, Write, WritePid, Goto, TypeOK,
                Locking
  <2>2. pc'[p] = "main" => path \in Inode /\ content'[path] = p
    BY <1>3, <1>7 DEF Lock, Truncate, Write, WritePid, Goto, OnPath, Locking, LockInv,
                      LockHeld, TypeOK, LockfileType
  <2>3. OnPath'
    BY <1>1, <1>3, <2>1 DEF OnPath, Locking, Turn, Others
  <2>4. FileFilled'
    BY <2>1, <2>2, LockfileAssumption DEF FileFilled, Locking
  <2>5. SeenFile'
    BY <1>1, <2>1 DEF SeenFile, Turn, Others, Resting
  <2> QED
    BY <1>2, <2>3, <2>4, <2>5 DEF LockfileOrder
<1>8. CASE Unlinking(p)
  <2>1. pc[p] = "unlink" /\ pc'[p] = "dead" /\ path' = None
    BY <1>8 DEF Unlinking, UnlinkLockfile
  <2>2. \A q \in Proc : pc[q] # "loop"
    BY <2>1 DEF Orderly, AloneWhenCleaning, SomeLoop
  <2>3. OnPath'
    BY <1>1, <2>1, <2>2 DEF OnPath, Locking, Turn, Others, Resting
  <2>4. FileFilled' /\ SeenFile'
    BY <1>1, <2>1 DEF FileFilled, SeenFile, Turn, Others, Resting
  <2> QED
    BY <1>2, <2>3, <2>4 DEF LockfileOrder
<1> QED
  BY <1>4, <1>5, <1>6, <1>7, <1>8, FileSteps

-----------------------------------------------------------------------------
(* What processes know of the daemon stays true.                            *)
DaemonOrder == KnowsDaemon /\ AloneWhenCleaning /\ CommandSeesDaemon /\ DaemonNoCommand

(* While no daemon enters or leaves its loop, only p's own knowledge is at  *)
(* stake.                                                                   *)
LEMMA DaemonFrame ==
  ASSUME Orderly, NEW p \in Proc, Turn(p), pc[p] # "loop", pc'[p] # "loop",
         pc'[p] \in {"init", "direction", "recheck", "reread", "ask", "measure", "off", "pulsed"}
           => lives'[p] = SomeLoop,
         pc'[p] \in {"init", "direction", "exitclean", "halt", "sigclean", "delete", "unlink"}
           => ~SomeLoop,
         pc'[p] \in {"open", "lock"} /\ opts'[p] # {} => SomeLoop,
         pc'[p] \in {"truncate", "write", "main"} => opts'[p] = {}
  PROVE  DaemonOrder'
<1>0. SomeLoop' = SomeLoop
  BY SomeLoopStep
<1> USE <1>0 DEF Turn, Others, Resting, Orderly
<1>1. KnowsDaemon'
  BY DEF KnowsDaemon
<1>2. AloneWhenCleaning'
  BY DEF AloneWhenCleaning
<1>3. CommandSeesDaemon'
  BY DEF CommandSeesDaemon
<1>4. DaemonNoCommand'
  BY DEF DaemonNoCommand
<1> QED
  BY <1>1, <1>2, <1>3, <1>4 DEF DaemonOrder

LEMMA DaemonOrderStep ==
  ASSUME Disciplined, ~PidReuse, TypeOK, TypeOK', LockInv, Orderly,
         NEW p \in Proc, Step(p), ~HaltOnReqOff(p)
  PROVE  DaemonOrder'
<1>0. Turn(p)
  BY TurnStep DEF Orderly
<1>1. SomeLoop \in BOOLEAN
  BY DEF SomeLoop
<1> USE <1>0, <1>1 DEF TypeOK, Orderly
<1>2. CASE Start(p) \/ LoadConfig(p) \/ Fail(p) \/ LockBusy(p) \/ Unlink(p)
  BY <1>2, DaemonFrame
  DEF Start, LoadConfig, Fail, LockBusy, Unlink, Exit, Die, Goto
<1>3. CASE SeeNoLockfile(p) \/ ProbePid(p)
  <2>1. Decide(p, SomeLoop) /\ UNCHANGED opts
    BY <1>3, ProbeIsTrue DEF SeeNoLockfile, ProbePid
  <2>2. /\ pc[p] \in {"check", "read", "recheck", "reread"} /\ lives'[p] = SomeLoop
        /\ ~SomeLoop => pc'[p] \in {"init", "measure"}
        /\ SomeLoop => pc'[p] \in {"recheck", "off", "open", "ask"}
    BY <2>1 DEF Decide, Goto, AfterInit, AfterLevel, Finish
  <2> QED
    BY <2>2, DaemonFrame
<1>4. CASE SeeLockfile(p)
  BY <1>4, DaemonFrame DEF SeeLockfile, Goto, KnowsDaemon
<1>5. CASE InitPin(p)
  BY <1>5, DaemonFrame DEF InitPin, Goto, KnowsDaemon, AloneWhenCleaning
<1>6. CASE SetDirection(p)
  <2>1. /\ pc[p] = "direction" /\ lives'[p] = lives[p] /\ opts'[p] = opts[p]
        /\ lives[p] = SomeLoop /\ ~SomeLoop
    BY <1>6 DEF SetDirection, KnowsDaemon, AloneWhenCleaning
  <2>2. \/ pc'[p] \in {"init", "recheck", "off", "exitclean"}
        \/ pc'[p] = "open" /\ opts[p] = {}
    BY <1>6, <2>1 DEF SetDirection, Goto, AfterInit, AfterLevel, Finish
  <2> QED
    BY <2>1, <2>2, DaemonFrame
<1>7. CASE ReadLevel(p) \/ WriteOff(p)
  <2>1. /\ pc[p] \in {"ask", "measure", "off", "pulsed"} /\ lives'[p] = lives[p]
        /\ opts'[p] = opts[p] /\ lives[p] = SomeLoop
    BY <1>7 DEF ReadLevel, WriteOff, KnowsDaemon
  <2>2. \/ pc'[p] \in {"off", "pulsed"}
        \/ pc'[p] = "exitclean" /\ ~SomeLoop
        \/ pc'[p] = "open" /\ (opts[p] = {} \/ SomeLoop)
    BY <1>7, <2>1 DEF ReadLevel, WriteOff, Goto, AfterLevel, Finish
  <2> QED
    BY <2>1, <2>2, DaemonFrame
<1>8. CASE CleanupPin(p)
  <2>1. pc[p] \in {"exitclean", "sigclean"} /\ ~SomeLoop
        /\ pc'[p] \in {"exitclean", "sigclean", "delete", "dead"}
    BY <1>8 DEF CleanupPin, Exit, Die, Goto, AloneWhenCleaning
  <2> QED
    BY <2>1, DaemonFrame
<1>9. CASE Open(p)
  BY <1>9, DaemonFrame DEF Open, Goto, CommandSeesDaemon
<1>10. CASE Lock(p)
  <2>1. pc[p] = "lock" /\ pc'[p] = "truncate" /\ opts'[p] = opts[p] /\ owner[path] = None
    BY <1>10 DEF Lock, TakeLock, LockFree, Goto, OnPath, Locking
  <2>2. ~SomeLoop
    BY <2>1, LoopFacts, LockfileAssumption DEF SomeLoop
  <2> QED
    BY <2>1, <2>2, DaemonFrame DEF CommandSeesDaemon
<1>11. CASE Truncate(p) \/ Write(p)
  BY <1>11, DaemonFrame DEF Truncate, Write, Goto, DaemonNoCommand
<1>12. CASE Delete(p)
  <2>1. pc[p] = "delete" /\ ~SomeLoop /\ pc'[p] \in {"unlink", "dead"}
    BY <1>12 DEF Delete, Die, Goto, AloneWhenCleaning
  <2> QED
    BY <2>1, DaemonFrame
<1>13. CASE EnterLoop(p)
  <2>1. pc[p] = "main" /\ pc'[p] = "loop" /\ opts'[p] = opts[p]
    BY <1>13 DEF EnterLoop, Goto
  <2>2. DaemonNoCommand'
    BY <2>1 DEF DaemonNoCommand, Turn, Others, Resting
  <2> QED
    BY <2>1, <2>2
    DEF DaemonOrder, KnowsDaemon, AloneWhenCleaning, CommandSeesDaemon, Turn, Others, Resting
<1>14. CASE Kill(p) /\ pc[p] # "loop"
  BY <1>14, DaemonFrame DEF Kill, Exit, Die, Goto
<1>15. CASE HaltReturns(p)
  BY <1>15, DaemonFrame DEF HaltReturns, Goto, AloneWhenCleaning
<1>16. CASE Signal(p) \/ (Kill(p) /\ pc[p] = "loop")
  <2>1. pc'[p] \in {"sigclean", "delete", "dead"}
    BY <1>16 DEF Signal, Kill, Exit, Die, Goto
  <2>2. ~SomeLoop'
    <3>1. \A q \in Proc \ {p} : pc[q] # "loop"
      BY <1>16, LoopFacts DEF Signal, BesideNoDaemon
    <3> QED
      BY <2>1, <3>1 DEF SomeLoop, Turn, Others
  <2>3. DaemonNoCommand'
    BY <2>1 DEF DaemonNoCommand, Turn, Others, Resting
  <2> QED
    BY <2>1, <2>2, <2>3
    DEF DaemonOrder, KnowsDaemon, AloneWhenCleaning, CommandSeesDaemon, Turn, Others, Resting
<1> QED
  BY <1>2, <1>3, <1>4, <1>5, <1>6, <1>7, <1>8, <1>9, <1>10, <1>11, <1>12, <1>13, <1>14,
     <1>15, <1>16
  DEF Step, Run

-----------------------------------------------------------------------------
(* Nobody is deprived of a pin that it relies on.                           *)
LEMMA PinsFrame ==
  ASSUME TypeOK, Orderly, NEW p \in Proc, Turn(p),
         SomeLoop => exported \subseteq exported',
         pc'[p] \in HavingPins => AllPins \subseteq exported',
         \A i \in 1..Len(Pins) :
           \/ pc'[p] = "init" /\ i < k'[p]
           \/ pc'[p] = "direction" /\ i <= k'[p]
           => Pins[i] \in exported'
  PROVE  Exporting' /\ PinsKept'
<1>1. Exporting'
  <2>1. \A q \in Proc \ {p} : pc'[q] \notin {"init", "direction"}
    BY DEF Turn, Others, Resting
  <2>2. ASSUME NEW q \in Proc, NEW i \in 1..Len(Pins),
               \/ pc'[q] = "init" /\ i < k'[q]
               \/ pc'[q] = "direction" /\ i <= k'[q]
        PROVE  Pins[i] \in exported'
    <3>1. q = p
      BY <2>1, <2>2
    <3> QED
      BY <2>2, <3>1
  <2> QED
    BY <2>2 DEF Exporting
<1>2. PinsKept'
  <2> SUFFICES ASSUME NEW q \in Proc, pc'[q] \in HavingPins, q # p
               PROVE  AllPins \subseteq exported'
    BY DEF PinsKept
  <2>1. pc[q] = "loop"
    BY DEF Turn, Others, Resting, HavingPins, Locking
  <2> QED
    BY <2>1 DEF Orderly, PinsKept, HavingPins, SomeLoop
<1> QED
  BY <1>1, <1>2

LEMMA PinsStep ==
  ASSUME Disciplined, ~PidReuse, TypeOK, LockInv, Orderly,
         NEW p \in Proc, Step(p), ~HaltOnReqOff(p)
  PROVE  Exporting' /\ PinsKept'
<1>0. Turn(p)
  BY TurnStep DEF Orderly
<1>1. pc[p] \in HavingPins => AllPins \subseteq exported
  BY DEF Orderly, PinsKept
<1> USE <1>0, PinsFacts DEF TypeOK
<1>2. CASE SeeNoLockfile(p) \/ ProbePid(p)
  <2>1. Decide(p, SomeLoop) /\ UNCHANGED exported
    BY <1>2, ProbeIsTrue DEF SeeNoLockfile, ProbePid
  <2>2. CASE SomeLoop
    <3>1. AllPins \subseteq exported
      BY <2>2 DEF SomeLoop, Orderly, PinsKept, HavingPins
    <3>2. pc'[p] \notin {"init", "direction"}
      BY <2>1, <2>2 DEF Decide, Goto, AfterInit, AfterLevel, Finish
    <3> QED
      BY <2>1, <3>1, <3>2, PinsFrame
  <2>3. CASE ~SomeLoop
    <3>1. \/ pc'[p] = "init" /\ k'[p] = 1
          \/ pc'[p] = "measure" /\ pc[p] \in {"recheck", "reread"}
      BY <2>1, <2>3 DEF Decide, Goto
    <3>2. pc'[p] = "measure" => AllPins \subseteq exported
      BY <1>1, <3>1 DEF HavingPins
    <3>3. pc'[p] \in HavingPins => AllPins \subseteq exported'
      BY <2>1, <3>1, <3>2 DEF HavingPins, Locking
    <3>4. \A i \in 1..Len(Pins) : ~(i < 1)
      OBVIOUS
    <3> QED
      BY <2>1, <3>1, <3>3, <3>4, PinsFrame
  <2> QED
    BY <2>2, <2>3
<1>3. CASE InitPin(p)
  <2>1. /\ pc[p] = "init" /\ pc'[p] = "direction" /\ k'[p] = k[p]
        /\ exported' = exported \cup {Pins[k[p]]}
    BY <1>3 DEF InitPin, ExportPin, Goto
  <2>2. \A i \in 1..Len(Pins) : i < k[p] => Pins[i] \in exported
    BY <2>1 DEF Orderly, Exporting
  <2>3. \A i \in 1..Len(Pins) : i <= k[p] => i < k[p] \/ i = k[p]
    OBVIOUS
  <2>4. \A i \in 1..Len(Pins) : i <= k[p] => Pins[i] \in exported'
    BY <2>1, <2>2, <2>3
  <2> QED
    BY <2>1, <2>4, PinsFrame DEF HavingPins, Locking
<1>4. CASE SetDirection(p)
  <2>1. pc[p] = "direction" /\ UNCHANGED exported
    BY <1>4 DEF SetDirection
  <2>2. \A i \in 1..Len(Pins) : i <= k[p] => Pins[i] \in exported
    BY <2>1 DEF Orderly, Exporting
  <2>3. k[p] \in 1..Len(Pins) /\ Usable(Pins[k[p]])
    BY <2>2 DEF Usable
  <2>4. CASE k[p] < Len(Pins)
    <3>1. pc'[p] = "init" /\ k'[p] = k[p] + 1
      BY <1>4, <2>3, <2>4 DEF SetDirection, Goto
    <3>2. \A i \in 1..Len(Pins) : i < k'[p] => Pins[i] \in exported
      BY <2>2, <2>3, <3>1
    <3> QED
      BY <2>1, <3>1, <3>2, PinsFrame DEF HavingPins, Locking
  <2>5. CASE ~(k[p] < Len(Pins))
    <3>1. AllPins \subseteq exported
      BY <2>2, <2>3, <2>5 DEF AllPins
    <3>2. pc'[p] \notin {"init", "direction"}
      BY <1>4, <2>5 DEF SetDirection, Goto, AfterInit, AfterLevel, Finish
    <3> QED
      BY <2>1, <3>1, <3>2, PinsFrame
  <2> QED
    BY <2>4, <2>5
<1>5. CASE CleanupPin(p)
  <2>1. pc[p] \in {"exitclean", "sigclean"}
        /\ pc'[p] \in {"exitclean", "sigclean", "delete", "dead"}
    BY <1>5 DEF CleanupPin, Exit, Die, Goto
  <2>2. ~SomeLoop
    BY <2>1 DEF Orderly, AloneWhenCleaning
  <2> QED
    BY <2>1, <2>2, PinsFrame DEF HavingPins, Locking
<1>6. CASE \/ ReadLevel(p) \/ WriteOff(p) \/ Open(p) \/ Lock(p) \/ Truncate(p)
           \/ Write(p) \/ EnterLoop(p)
  <2>1. /\ pc[p] \in HavingPins /\ UNCHANGED exported
        /\ pc'[p] \notin {"init", "direction"}
    BY <1>6 DEF ReadLevel, WriteOff, Open, Lock, Truncate, Write, EnterLoop, Goto,
                AfterLevel, Finish, HavingPins, Locking
  <2> QED
    BY <1>1, <2>1, PinsFrame
<1>7. CASE SeeLockfile(p)
  <2>1. /\ UNCHANGED exported
        /\ \/ pc[p] = "check" /\ pc'[p] = "read"
           \/ pc[p] = "recheck" /\ pc'[p] = "reread"
    BY <1>7 DEF SeeLockfile, Goto
  <2> QED
    BY <1>1, <2>1, PinsFrame DEF HavingPins, Locking
<1>8. CASE \/ Start(p) \/ LoadConfig(p) \/ Fail(p) \/ LockBusy(p) \/ Delete(p)
           \/ HaltReturns(p) \/ Unlink(p) \/ Signal(p) \/ Kill(p)
  <2>1. /\ UNCHANGED exported
        /\ pc'[p] \in {"load", "check", "dead", "unlink", "delete", "sigclean"}
    BY <1>8 DEF Start, LoadConfig, Fail, LockBusy, Delete, HaltReturns, Unlink, Signal,
                Kill, Exit, Die, Goto
  <2> QED
    BY <2>1, PinsFrame DEF HavingPins, Locking
<1> QED
  BY <1>2, <1>3, <1>4, <1>5, <1>6, <1>7, <1>8 DEF Step, Run

-----------------------------------------------------------------------------
(* Only a daemon that reads its pin begins a halt, and what the board has    *)
(* asserted stays asserted.                                                 *)
LEMMA HaltedStep ==
  ASSUME NEW p \in Proc, Step(p), ~HaltOnReqOff(p)
  PROVE  halted' = halted /\ (asserted => asserted')
<1>1. CASE WriteOff(p)
  BY <1>1 DEF WriteOff, AdvanceBoard
<1>2. CASE ~WriteOff(p)
  <2>1. UNCHANGED <<asserted, halted>>
    BY <1>2
    DEF Step, Run, Start, LoadConfig, Fail, SeeNoLockfile, SeeLockfile, ProbePid,
        InitPin, SetDirection, ReadLevel, CleanupPin, Open, Lock, LockBusy, Truncate,
        Write, EnterLoop, HaltReturns, Delete, Unlink, Signal, Kill, boardVars
  <2> QED
    BY <2>1
<1> QED
  BY <1>1, <1>2

(***************************************************************************)
(* A halt begins only when the board asserts REQ_OFF_B: a daemon in its     *)
(* loop has the pin it polls, before the halt, and a halt stays justified.  *)
(***************************************************************************)
LEMMA HaltStep ==
  ASSUME TypeOK, QuietInv, [Next]_vars
  PROVE  HaltJustified'
<1>0. ReqOff \in AllPins
  BY PinsAssumption DEF AllPins
<1>1. ASSUME NEW p \in Proc, HaltOnReqOff(p) PROVE HaltJustified'
  <2>1. pc[p] = "loop" /\ ReqOffRead(asserted) /\ asserted' = asserted
    BY <1>1 DEF HaltOnReqOff
  <2>2. ~halted => ReqOff \in exported
    BY <1>0, <2>1 DEF QuietInv, Orderly, PinsKept, HavingPins
  <2>3. asserted
    BY <2>1, <2>2 DEF ReqOffRead, Usable, QuietInv, HaltJustified
  <2> QED
    BY <2>1, <2>3 DEF HaltJustified
<1>2. \A p \in Proc : Step(p) /\ ~HaltOnReqOff(p) => halted' = halted /\ (asserted => asserted')
  BY HaltedStep
<1>3. CASE Press \/ UNCHANGED vars
  BY <1>3 DEF Press, AdvanceBoard, vars, boardVars, QuietInv, HaltJustified
<1> QED
  BY <1>1, <1>2, <1>3 DEF Next, QuietInv, HaltJustified

LEMMA QuietInvStep ==
  ASSUME Disciplined, ~PidReuse, TypeOK, LockInv, QuietInv, [Next]_vars
  PROVE  QuietInv'
<1>1. HaltJustified'
  BY HaltStep
<1>2. ASSUME ~halted' PROVE Orderly'
  <2>1. TypeOK'
    BY TypeStep
  <2>2. ASSUME NEW p \in Proc, Step(p) PROVE Orderly'
    <3>0. ~HaltOnReqOff(p)
      BY <1>2 DEF HaltOnReqOff
    <3>1. ~halted /\ ~HaltOnReqOff(p)
      BY <1>2, <2>2, <3>0, HaltedStep
    <3>2. Orderly
      BY <3>1 DEF QuietInv
    <3>3. OneAtWork'
      BY <2>2, <3>1, <3>2, TurnStep, OneAtWorkStep DEF Orderly
    <3>4. LockfileOrder' /\ DaemonOrder' /\ Exporting' /\ PinsKept'
      BY <2>1, <2>2, <3>1, <3>2, LockfileStep, DaemonOrderStep, PinsStep
    <3> QED
      BY <3>3, <3>4 DEF Orderly, LockfileOrder, DaemonOrder
  <2>3. CASE Press \/ UNCHANGED vars
    <3>1. UNCHANGED <<lockVars, exported, procVars, halted>>
      BY <2>3 DEF Press, vars, boardVars
    <3>2. Orderly
      BY <1>2, <3>1 DEF QuietInv
    <3> QED
      BY <3>1, <3>2
      DEF Orderly, OneAtWork, OnPath, LockOwners, PidWriters, FileFilled, SeenFile,
          KnowsDaemon, AloneWhenCleaning, CommandSeesDaemon, DaemonNoCommand, SomeLoop,
          Exporting, PinsKept, lockVars, procVars
  <2> QED
    BY <2>2, <2>3 DEF Next
<1> QED
  BY <1>1, <1>2 DEF QuietInv

-----------------------------------------------------------------------------
(***************************************************************************)
(* Under the discipline, until a shutdown begins: one process is at work at *)
(* a time, it knows whether a daemon lives, and takes no pin from it.       *)
(***************************************************************************)
THEOREM QuietInvariant ==
  ASSUME Disciplined, ~PidReuse
  PROVE  Spec => []QuietInv
<1>1. ASSUME Init PROVE QuietInv
  <2>1. HaltJustified
    BY <1>1 DEF Init, HaltJustified
  <2>2. /\ \A p \in Proc : pc[p] = "idle"
        /\ path = None /\ \A i \in Inode : owner[i] = None /\ content[i] = None
    BY <1>1 DEF Init, LockfileInit
  <2>3. OneAtWork /\ OnPath /\ LockOwners /\ PidWriters /\ FileFilled /\ SeenFile
    BY <2>2 DEF OneAtWork, Resting, OnPath, Locking, LockOwners, PidWriters, FileFilled,
                SeenFile
  <2>4. KnowsDaemon /\ AloneWhenCleaning /\ CommandSeesDaemon /\ DaemonNoCommand
    BY <2>2 DEF KnowsDaemon, AloneWhenCleaning, CommandSeesDaemon, DaemonNoCommand
  <2>5. Exporting /\ PinsKept
    BY <2>2 DEF Exporting, PinsKept, HavingPins, Locking
  <2> QED
    BY <2>1, <2>3, <2>4, <2>5 DEF QuietInv, Orderly
<1>2. TypeOK /\ LockInv /\ QuietInv /\ [Next]_vars => QuietInv'
  BY QuietInvStep
<1> QED
  BY <1>1, <1>2, TypeCorrect, LockInvariant, PTL DEF Spec

(***************************************************************************)
(* tdaemon.h's SINGLETON: under the discipline at most one daemon runs      *)
(* (Singleton).                                                             *)
(***************************************************************************)
THEOREM OneDaemon ==
  ASSUME Disciplined, ~PidReuse
  PROVE  Spec => []Singleton
<1>1. TypeOK /\ LockInv /\ QuietInv => Singleton
  BY DEF TypeOK, LockfileType, LockInv, LockHeld, QuietInv, Orderly, OnPath, Locking,
         Singleton, Daemons
<1> QED
  BY <1>1, TypeCorrect, LockInvariant, QuietInvariant, PTL

(***************************************************************************)
(* A command never becomes a daemon (CommandsStayCommands): it finds no     *)
(* daemon and exits, or finds one and is turned away by the lock.           *)
(***************************************************************************)
THEOREM CommandsExit ==
  ASSUME Disciplined, ~PidReuse
  PROVE  Spec => []CommandsStayCommands
<1>1. QuietInv => CommandsStayCommands
  BY DEF QuietInv, Orderly, DaemonNoCommand, CommandsStayCommands, Daemons
<1> QED
  BY <1>1, QuietInvariant, PTL

(***************************************************************************)
(* Nobody unexports the pins of a daemon in its loop (LoopHasPins).         *)
(***************************************************************************)
THEOREM DaemonKeepsItsPins ==
  ASSUME Disciplined, ~PidReuse
  PROVE  Spec => []LoopHasPins
<1>1. QuietInv => LoopHasPins
  BY DEF QuietInv, Orderly, PinsKept, HavingPins, LoopHasPins
<1> QED
  BY <1>1, QuietInvariant, PTL

(***************************************************************************)
(* So a daemon halts only when the board asks for it, for the button or for *)
(* an OFF pulse, and never for a pin that is gone (HaltJustified).          *)
(***************************************************************************)
THEOREM HaltsAtTheBoardsRequest ==
  ASSUME Disciplined, ~PidReuse
  PROVE  Spec => []HaltJustified
<1>1. QuietInv => HaltJustified
  BY DEF QuietInv
<1> QED
  BY <1>1, QuietInvariant, PTL

-----------------------------------------------------------------------------
(***************************************************************************)
(* What is left of this order when a shutdown has begun: apart from those   *)
(* that wait for shutdown or delete ROCPMD, one process at a time is at     *)
(* work, and so nobody takes a pin from a process that exports the pins,    *)
(* has exported them for its power-off command, or is between two pulses of *)
(* OFF; a probe may be wrong now.                                           *)
(***************************************************************************)
Working == Labels \ (Resting \cup {"halt", "delete", "unlink"})

OneWorking == \A p, q \in Proc : pc[p] \in Working /\ pc[q] \in Working => p = q

LevelAsked ==
  \A p \in Proc :
    pc[p] \in {"recheck", "reread", "ask", "measure"} => "level" \in opts[p]

PinsItExported ==
  \A p \in Proc : pc[p] = "off" /\ ExportsItself(p) => AllPins \subseteq exported

PulsedPin == \A p \in Proc : pc[p] = "pulsed" => Off \in exported /\ asserted

HaltingInv == OneWorking /\ LevelAsked /\ Exporting /\ PinsItExported /\ PulsedPin

(* Who sets to work finds nobody at work.                                   *)
LEMMA OneWorkingStep ==
  ASSUME Disciplined, TypeOK, OneWorking, NEW p \in Proc, Step(p)
  PROVE  OneWorking'
<1>1. Others(p)
  BY OthersStep
<1>2. CASE pc[p] \in Working
  BY <1>1, <1>2 DEF Others, OneWorking
<1>3. CASE pc'[p] \notin Working
  BY <1>1, <1>3 DEF Others, OneWorking
<1>4. CASE \A q \in Proc \ {p} : pc[q] \in Resting
  BY <1>1, <1>4 DEF Others, OneWorking, Working
<1>5. CASE Start(p) \/ Signal(p) \/ Kill(p)
  BY <1>4, <1>5 DEF Start, Signal, Kill, Interruptible, Quiet, Resting
<1>6. CASE HaltOnReqOff(p) \/ HaltReturns(p) \/ Delete(p) \/ Unlink(p)
  <2>1. pc'[p] \in {"halt", "delete", "unlink", "dead"}
    BY <1>6 DEF HaltOnReqOff, HaltReturns, Delete, Unlink, Die, Goto, TypeOK
  <2> QED
    BY <1>3, <2>1 DEF Working, Resting
<1>7. CASE /\ ~(HaltOnReqOff(p) \/ HaltReturns(p) \/ Delete(p) \/ Unlink(p))
           /\ Run(p) \/ Fail(p)
  <2>1. pc[p] \in Labels \ {"idle", "dead", "halt", "delete", "unlink", "loop"}
    BY <1>7
    DEF Run, Fail, LoadConfig, SeeNoLockfile, SeeLockfile, ProbePid, InitPin,
        SetDirection, ReadLevel, WriteOff, CleanupPin, Open, Lock, LockBusy, Truncate,
        Write, EnterLoop, TypeOK
  <2> QED
    BY <1>2, <2>1 DEF Working, Resting
<1> QED
  BY <1>5, <1>6, <1>7 DEF Step

(* A level is asked for where it is measured.                               *)
LEMMA LevelAskedStep ==
  ASSUME TypeOK, LevelAsked, NEW p \in Proc, Step(p)
  PROVE  LevelAsked'
<1>1. Others(p)
  BY OthersStep
<1> SUFFICES ASSUME pc'[p] \in {"recheck", "reread", "ask", "measure"}
             PROVE  "level" \in opts'[p]
  BY <1>1 DEF Others, LevelAsked
<1> USE DEF TypeOK, Goto
<1>2. CASE SeeNoLockfile(p) \/ ProbePid(p)
  <2>1. PICK a \in BOOLEAN : Decide(p, a)
    BY <1>2 DEF SeeNoLockfile, ProbePid, PidProbe
  <2>2. opts' = opts
    BY <1>2 DEF SeeNoLockfile, ProbePid
  <2>3. CASE pc[p] \in {"recheck", "reread"}
    BY <2>2, <2>3 DEF LevelAsked
  <2>4. CASE pc[p] \in {"check", "read"}
    BY <2>1, <2>2, <2>4 DEF Decide, AfterInit, AfterLevel, Finish
  <2> QED
    BY <2>1, <2>3, <2>4 DEF Decide
<1>3. CASE SetDirection(p)
  BY <1>3 DEF SetDirection, AfterInit, AfterLevel, Finish
<1>4. CASE SeeLockfile(p)
  BY <1>4 DEF SeeLockfile, LevelAsked
<1>5. CASE ReadLevel(p) \/ WriteOff(p)
  BY <1>5 DEF ReadLevel, WriteOff, AfterLevel, Finish
<1>6. CASE Start(p) \/ LoadConfig(p) \/ InitPin(p) \/ Open(p) \/ Lock(p)
  BY <1>6 DEF Start, LoadConfig, InitPin, Open, Lock
<1>7. CASE \/ Truncate(p) \/ Write(p) \/ EnterLoop(p) \/ HaltOnReqOff(p)
           \/ HaltReturns(p) \/ Signal(p)
  BY <1>7 DEF Truncate, Write, EnterLoop, HaltOnReqOff, HaltReturns, Signal
<1>8. CASE \/ Fail(p) \/ LockBusy(p) \/ Kill(p) \/ Delete(p) \/ Unlink(p)
           \/ CleanupPin(p)
  BY <1>8 DEF Fail, LockBusy, Kill, Delete, Unlink, CleanupPin, Exit, Die
<1> QED
  BY <1>2, <1>3, <1>4, <1>5, <1>6, <1>7, <1>8 DEF Step, Run

(* What p exports and unexports concerns no other process's pins.           *)
LEMMA ExportingFrame ==
  ASSUME HaltingInv, NEW p \in Proc, Others(p),
         exported \subseteq exported' \/ pc[p] \in {"exitclean", "sigclean"},
         asserted => asserted',
         \A i \in 1..Len(Pins) :
           \/ pc'[p] = "init" /\ i < k'[p]
           \/ pc'[p] = "direction" /\ i <= k'[p]
           => Pins[i] \in exported',
         pc'[p] = "off" /\ ExportsItself(p)' => AllPins \subseteq exported',
         pc'[p] = "pulsed" => Off \in exported' /\ asserted'
  PROVE  Exporting' /\ PinsItExported' /\ PulsedPin'
<1>1. ASSUME NEW q \in Proc \ {p}, pc[q] \in {"init", "direction", "off", "pulsed"}
      PROVE  exported \subseteq exported'
  BY <1>1 DEF HaltingInv, OneWorking, Working, Labels, Resting
<1>2. Exporting'
  BY <1>1 DEF HaltingInv, Exporting, Others
<1>3. PinsItExported'
  BY <1>1 DEF HaltingInv, PinsItExported, Others, ExportsItself
<1>4. PulsedPin'
  BY <1>1 DEF HaltingInv, PulsedPin, Others
<1> QED
  BY <1>2, <1>3, <1>4

LEMMA ExportingStep ==
  ASSUME Disciplined, TypeOK, HaltingInv, NEW p \in Proc, Step(p)
  PROVE  Exporting' /\ PinsItExported' /\ PulsedPin'
<1>0. Others(p) /\ (asserted => asserted')
  BY OthersStep, HaltedStep DEF HaltOnReqOff
<1> USE <1>0, PinsFacts DEF TypeOK, Goto
<1>1. CASE SeeNoLockfile(p) \/ ProbePid(p)
  <2>1. PICK a \in BOOLEAN : Decide(p, a)
    BY <1>1 DEF SeeNoLockfile, ProbePid, PidProbe
  <2>2. UNCHANGED <<exported, opts>>
    BY <1>1 DEF SeeNoLockfile, ProbePid
  <2>3. /\ pc'[p] \notin {"direction", "pulsed"} /\ (pc'[p] = "init" => k'[p] = 1)
        /\ pc'[p] = "off" => lives'[p]
    BY <2>1 DEF Decide, AfterInit, AfterLevel, Finish
  <2>4. \A i \in 1..Len(Pins) : ~(i < 1)
    OBVIOUS
  <2> QED
    BY <2>2, <2>3, <2>4, ExportingFrame DEF ExportsItself
<1>2. CASE InitPin(p)
  <2>1. /\ pc[p] = "init" /\ pc'[p] = "direction" /\ k'[p] = k[p]
        /\ exported' = exported \cup {Pins[k[p]]}
    BY <1>2 DEF InitPin, ExportPin
  <2>2. \A i \in 1..Len(Pins) : i < k[p] => Pins[i] \in exported
    BY <2>1 DEF HaltingInv, Exporting
  <2>3. \A i \in 1..Len(Pins) : i <= k[p] => i < k[p] \/ i = k[p]
    OBVIOUS
  <2>4. \A i \in 1..Len(Pins) : i <= k[p] => Pins[i] \in exported'
    BY <2>1, <2>2, <2>3
  <2> QED
    BY <2>1, <2>4, ExportingFrame
<1>3. CASE SetDirection(p)
  <2>1. pc[p] = "direction" /\ UNCHANGED exported
    BY <1>3 DEF SetDirection
  <2>2. \A i \in 1..Len(Pins) : i <= k[p] => Pins[i] \in exported
    BY <2>1 DEF HaltingInv, Exporting
  <2>3. k[p] \in 1..Len(Pins) /\ Usable(Pins[k[p]])
    BY <2>2 DEF Usable
  <2>4. CASE k[p] < Len(Pins)
    <3>1. pc'[p] = "init" /\ k'[p] = k[p] + 1
      BY <1>3, <2>3, <2>4 DEF SetDirection
    <3>2. \A i \in 1..Len(Pins) : i < k'[p] => Pins[i] \in exported
      BY <2>2, <2>3, <3>1
    <3> QED
      BY <2>1, <3>1, <3>2, ExportingFrame
  <2>5. CASE ~(k[p] < Len(Pins))
    <3>1. AllPins \subseteq exported
      BY <2>2, <2>3, <2>5 DEF AllPins
    <3>2. pc'[p] \notin {"init", "direction", "pulsed"}
      BY <1>3, <2>5 DEF SetDirection, AfterInit, AfterLevel, Finish
    <3> QED
      BY <2>1, <3>1, <3>2, ExportingFrame
  <2> QED
    BY <2>4, <2>5
<1>4. CASE ReadLevel(p)
  <2>1. UNCHANGED <<exported, opts>> /\ "level" \in opts[p]
    BY <1>4 DEF ReadLevel, HaltingInv, LevelAsked
  <2>2. pc'[p] \notin {"init", "direction", "pulsed"}
    BY <1>4 DEF ReadLevel, AfterLevel, Finish
  <2> QED
    BY <2>1, <2>2, ExportingFrame DEF ExportsItself
<1>5. CASE CleanupPin(p)
  <2>1. pc[p] \in {"exitclean", "sigclean"}
        /\ pc'[p] \in {"exitclean", "sigclean", "delete", "dead"}
    BY <1>5 DEF CleanupPin, Exit, Die
  <2> QED
    BY <2>1, ExportingFrame
<1>6. CASE \/ Start(p) \/ LoadConfig(p) \/ SeeLockfile(p) \/ Open(p) \/ Lock(p)
           \/ Truncate(p) \/ Write(p) \/ EnterLoop(p) \/ HaltOnReqOff(p)
           \/ HaltReturns(p)
  <2>1. UNCHANGED exported /\ pc'[p] \notin {"init", "direction", "off", "pulsed"}
    BY <1>6 DEF Start, LoadConfig, SeeLockfile, Open, Lock, Truncate, Write, EnterLoop,
                HaltOnReqOff, HaltReturns
  <2> QED
    BY <2>1, ExportingFrame
<1>7. CASE Fail(p) \/ LockBusy(p) \/ Delete(p) \/ Unlink(p) \/ Signal(p) \/ Kill(p)
  <2>1. UNCHANGED exported /\ pc'[p] \in {"dead", "unlink", "delete", "sigclean"}
    BY <1>7 DEF Fail, LockBusy, Delete, Unlink, Signal, Kill, Exit, Die
  <2> QED
    BY <2>1, ExportingFrame
<1>8. CASE WriteOff(p)
  <2>1. /\ UNCHANGED exported /\ pc'[p] \notin {"init", "direction", "off"}
        /\ pc'[p] = "pulsed" => Usable(Off) /\ asserted'
    BY <1>8 DEF WriteOff, AdvanceBoard, Finish
  <2> QED
    BY <2>1, ExportingFrame DEF Usable
<1> QED
  BY <1>1, <1>2, <1>3, <1>4, <1>5, <1>6, <1>7, <1>8 DEF Step, Run

LEMMA HaltingStep ==
  ASSUME Disciplined, TypeOK, HaltingInv, [Next]_vars
  PROVE  HaltingInv'
<1>1. ASSUME NEW p \in Proc, Step(p) PROVE HaltingInv'
  BY <1>1, OneWorkingStep, LevelAskedStep, ExportingStep DEF HaltingInv
<1>2. CASE Press \/ UNCHANGED vars
  <2>1. UNCHANGED <<exported, procVars>> /\ (asserted => asserted')
    BY <1>2 DEF Press, AdvanceBoard, vars, boardVars
  <2> QED
    BY <2>1 DEF HaltingInv, OneWorking, LevelAsked, Exporting, PinsItExported,
                PulsedPin, ExportsItself, procVars
<1> QED
  BY <1>1, <1>2 DEF Next

(* A process leaves gpio_write_off() for the next line of main() only by a   *)
(* pulse: the first one if the board is already in REQ_OFF, or the second.  *)
LEMMA PowerOffStep ==
  ASSUME Disciplined, TypeOK, QuietInv, HaltingInv, [Next]_vars,
         NEW p \in Proc, pc'[p] = Finish(opts[p], lives[p]),
         \/ pc[p] = "off" /\ (~halted \/ ExportsItself(p))
         \/ pc[p] = "pulsed"
  PROVE  cut'
<1>1. pc'[p] \in {"exitclean", "open"}
  BY DEF Finish
<1>2. PICK q \in Proc : Step(q)
  <2>1. ~(Press \/ UNCHANGED vars)
    BY <1>1 DEF Press, vars, procVars
  <2> QED
    BY <2>1 DEF Next
<1>3. q = p
  BY <1>1, <1>2, OthersStep DEF Others
<1>4. WriteOff(p)
  <2>1. ~Start(p) /\ ~Fail(p) /\ ~Signal(p) /\ ~Kill(p)
    BY <1>1 DEF Start, Fail, Signal, Kill, Exit, Die, Goto, TypeOK
  <2>2. Run(p)
    BY <1>2, <1>3, <2>1 DEF Step
  <2> QED
    BY <2>2
    DEF Run, LoadConfig, SeeNoLockfile, SeeLockfile, ProbePid, InitPin, SetDirection,
        ReadLevel, CleanupPin, Open, Lock, LockBusy, Truncate, Write, EnterLoop,
        HaltOnReqOff, HaltReturns, Delete, Unlink
<1>5. Off \in AllPins
  BY PinsAssumption DEF AllPins
<1>6. Usable(Off)
  BY <1>5 DEF QuietInv, Orderly, PinsKept, HavingPins, HaltingInv, PinsItExported,
              PulsedPin, Usable
<1>7. asserted
  BY <1>1, <1>4, <1>6 DEF WriteOff, Goto, TypeOK
<1> QED
  BY <1>4, <1>6, <1>7 DEF WriteOff, AdvanceBoard

(***************************************************************************)
(* man rocpmd, --power-off: under the discipline the command finds its pin  *)
(* and cuts the power, with or without a daemon until a shutdown begins,    *)
(* and from then on when it has exported the pins itself or has sent its    *)
(* first pulse (PowerOffWorks).                                             *)
(***************************************************************************)
THEOREM PowerOffCommandWorks ==
  ASSUME Disciplined, ~PidReuse
  PROVE  Spec => PowerOffWorks
<1>1. ASSUME Init PROVE HaltingInv
  <2>1. \A p \in Proc : pc[p] = "idle"
    BY <1>1 DEF Init
  <2> QED
    BY <2>1 DEF HaltingInv, OneWorking, Working, Resting, LevelAsked, Exporting,
                PinsItExported, PulsedPin
<1>2. TypeOK /\ HaltingInv /\ [Next]_vars => HaltingInv'
  BY HaltingStep
<1>3. ASSUME TypeOK, QuietInv, HaltingInv, [Next]_vars
      PROVE  [\A p \in Proc :
                /\ \/ pc[p] = "off" /\ (~halted \/ ExportsItself(p))
                   \/ pc[p] = "pulsed"
                /\ pc'[p] = Finish(opts[p], lives[p])
                => cut']_vars
  BY <1>3, PowerOffStep
<1> QED
  BY <1>1, <1>2, <1>3, TypeCorrect, QuietInvariant, PTL DEF Spec, PowerOffWorks
=============================================================================
