-------------------------------- MODULE Lease -------------------------------
(***************************************************************************)
(* What a singleton lock file promises whoever reads the pid in it, with no *)
(* system call, descriptor or program counter left: a file is leased to one *)
(* process at a time, a process leases one file at a time, only the         *)
(* leaseholder changes what the file says, and says its own name there, and *)
(* a file that is put in place is blank and nobody's.  It promises nothing  *)
(* about who takes the file out of place: any process may.                  *)
(***************************************************************************)
CONSTANTS
  Proc,       \* the processes
  Inode,      \* the files that may be put in place
  None        \* no file, no process, blank

VARIABLES
  place,      \* the file in place, None if there is none
  text,       \* text[i]: the process that file i names, None if it is blank
  holder      \* holder[i]: the process that has file i on lease

vars == <<place, text, holder>>

Init ==
  /\ place = None
  /\ text = [i \in Inode |-> None]
  /\ holder = [i \in Inode |-> None]

PutInPlace(i) ==
  /\ place = None
  /\ holder[i] = None
  /\ place' = i
  /\ text' = [text EXCEPT ![i] = None]
  /\ UNCHANGED holder

TakeAway ==
  /\ place' = None
  /\ UNCHANGED <<text, holder>>

Acquire(p, i) ==
  /\ holder[i] = None
  /\ \A j \in Inode : holder[j] # p
  /\ holder' = [holder EXCEPT ![i] = p]
  /\ UNCHANGED <<place, text>>

Blank(p, i) ==
  /\ holder[i] = p
  /\ text' = [text EXCEPT ![i] = None]
  /\ UNCHANGED <<place, holder>>

Sign(p, i) ==
  /\ holder[i] = p
  /\ text' = [text EXCEPT ![i] = p]
  /\ UNCHANGED <<place, holder>>

Release(p) ==
  /\ holder' = [i \in Inode |-> IF holder[i] = p THEN None ELSE holder[i]]
  /\ UNCHANGED <<place, text>>

Next ==
  \/ TakeAway
  \/ \E i \in Inode : PutInPlace(i)
  \/ \E p \in Proc : Release(p)
  \/ \E p \in Proc, i \in Inode : Acquire(p, i) \/ Blank(p, i) \/ Sign(p, i)

Spec == Init /\ [][Next]_vars
=============================================================================
