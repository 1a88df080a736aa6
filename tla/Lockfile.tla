------------------------------ MODULE Lockfile ------------------------------
(***************************************************************************)
(* The lock file /var/run/rocpmd.pid that makes a daemon a singleton        *)
(* (tdaemon.cpp), and the way main() asks whether an instance lives         *)
(* (rocpmd.cpp, rocpmd_instance_lives).                                     *)
(*                                                                          *)
(* The file is a directory entry (path) naming an inode; processes keep     *)
(* inodes open after the entry is unlinked.  The lock is a POSIX record     *)
(* lock: it belongs to a process and an inode, and the kernel drops it when *)
(* the process closes the file or ends.  Each operator below is one system  *)
(* call of the code, as an action of process p on these four variables.     *)
(***************************************************************************)
EXTENDS Naturals

CONSTANTS
  Proc,       \* the processes (a process stands for its pid)
  Inode,      \* inodes the lock file may occupy
  None,       \* no inode, no process, no text
  PidReuse    \* may the pid of an ended process belong to another program?

ASSUME LockfileAssumption ==
  /\ None \notin Proc
  /\ None \notin Inode
  /\ PidReuse \in BOOLEAN

VARIABLES
  path,       \* the inode the lock file's path names, None if there is no file
  content,    \* content[i]: the pid written in inode i, None if it is empty
  owner,      \* owner[i]: the process that holds the write lock on inode i
  fd          \* fd[p]: the inode open as lock_fd in p, None if it is not open

lockVars == <<path, content, owner, fd>>

LockfileType ==
  /\ path \in Inode \cup {None}
  /\ content \in [Inode -> Proc \cup {None}]
  /\ owner \in [Inode -> Proc \cup {None}]
  /\ fd \in [Proc -> Inode \cup {None}]

LockfileInit ==
  /\ path = None
  /\ content = [i \in Inode |-> None]
  /\ owner = [i \in Inode |-> None]
  /\ fd = [p \in Proc |-> None]

-----------------------------------------------------------------------------
(***************************************************************************)
(* What rocpmd_instance_lives() may conclude once it has seen that the file *)
(* exists: it reads the first line and probes that pid with kill(pid, 0).   *)
(* A file that is empty, or that was unlinked since, reads as "", atoi      *)
(* makes 0 of it, and kill(0, 0) probes the caller's own process group: it  *)
(* succeeds.                                                                *)
(***************************************************************************)
(* Mutant: an existing file counts as a living instance.                    *)
PidProbeByExistence(alive) == {TRUE}

PidProbe(alive) ==
  IF path = None \/ content[path] = None \/ content[path] \in alive
  THEN {TRUE}
  ELSE IF PidReuse THEN BOOLEAN ELSE {FALSE}

(* Mutant: open() with O_TRUNC, before the lock is asked for.               *)
OpenAndTruncate(p) ==
  \E i \in Inode :
    /\ IF path = None THEN \A q \in Proc : fd[q] # i ELSE i = path
    /\ path' = i
    /\ fd' = [fd EXCEPT ![p] = i]
    /\ content' = [content EXCEPT ![i] = None]
    /\ UNCHANGED owner

(* is_running(): open(O_RDWR | O_CREAT); an inode nobody uses is new.       *)
OpenLockfile(p) ==
  \/ /\ path # None
     /\ fd' = [fd EXCEPT ![p] = path]
     /\ UNCHANGED <<path, content, owner>>
  \/ /\ path = None
     /\ \E i \in Inode :
          /\ \A q \in Proc : fd[q] # i
          /\ fd' = [fd EXCEPT ![p] = i]
          /\ path' = i
          /\ content' = [content EXCEPT ![i] = None]
     /\ UNCHANGED owner

(* Mutant: the lock is shared, as with F_RDLCK.                             *)
LockShared(p) == TRUE

(* lock(): fcntl(F_SETLK, F_WRLCK) fails when another process has the lock. *)
LockFree(p) == owner[fd[p]] = None

TakeLock(p) ==
  /\ LockFree(p)
  /\ owner' = [owner EXCEPT ![fd[p]] = p]
  /\ UNCHANGED <<path, content, fd>>

TruncateLockfile(p) ==
  /\ content' = [content EXCEPT ![fd[p]] = None]
  /\ UNCHANGED <<path, owner, fd>>

WritePid(p) ==
  /\ content' = [content EXCEPT ![fd[p]] = p]
  /\ UNCHANGED <<path, owner, fd>>

(* Mutant: the lock outlives the process.                                   *)
CloseKeepingLock(p) ==
  /\ fd' = [fd EXCEPT ![p] = None]
  /\ UNCHANGED <<path, content, owner>>

(* unlock() and close(lock_fd); also what the kernel does when p ends.      *)
CloseLockfile(p) ==
  /\ owner' = [i \in Inode |-> IF owner[i] = p THEN None ELSE owner[i]]
  /\ fd' = [fd EXCEPT ![p] = None]
  /\ UNCHANGED <<path, content>>

(* cleanup(): unlink() removes the path, whichever inode it names by then.  *)
UnlinkLockfile ==
  /\ path' = None
  /\ UNCHANGED <<content, owner, fd>>
=============================================================================
