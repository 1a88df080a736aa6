-------------------------------- MODULE Meter -------------------------------
(***************************************************************************)
(* What a battery measurement promises its caller: the answer is a level    *)
(* between the lowest and the highest the battery had while the measurement *)
(* ran, or Charging if the wall supply was on at some time while it ran.    *)
(***************************************************************************)
EXTENDS Integers

CONSTANTS
  Reader,       \* the callers
  MaxLevel,     \* levels are 0..MaxLevel
  Charging      \* the answer that is not a level

VARIABLES
  level,        \* the battery's level now
  wall,         \* the wall supply is connected
  busy,         \* busy[r]: r is measuring
  lo, hi,       \* the extremes of the level during r's measurement
  onWall,       \* onWall[r]: the wall supply was on during it
  answer        \* answer[r]: what r's last measurement returned

vars == <<level, wall, busy, lo, hi, onWall, answer>>

Init ==
  /\ level \in 0..MaxLevel
  /\ wall \in BOOLEAN
  /\ busy = [r \in Reader |-> FALSE]
  /\ lo = [r \in Reader |-> 0]
  /\ hi = [r \in Reader |-> MaxLevel]
  /\ onWall = [r \in Reader |-> TRUE]
  /\ answer = [r \in Reader |-> Charging]

Begin(r) ==
  /\ ~busy[r]
  /\ busy' = [busy EXCEPT ![r] = TRUE]
  /\ lo' = [lo EXCEPT ![r] = level]
  /\ hi' = [hi EXCEPT ![r] = level]
  /\ onWall' = [onWall EXCEPT ![r] = wall]
  /\ UNCHANGED <<level, wall, answer>>

End(r) ==
  /\ busy[r]
  /\ busy' = [busy EXCEPT ![r] = FALSE]
  /\ \/ \E a \in lo[r]..hi[r] : answer' = [answer EXCEPT ![r] = a]
     \/ onWall[r] /\ answer' = [answer EXCEPT ![r] = Charging]
  /\ UNCHANGED <<level, wall, lo, hi, onWall>>

(* The battery drains or recovers under its load.                            *)
Drift(l) ==
  /\ level' = l
  /\ lo' = [r \in Reader |-> IF busy[r] /\ l < lo[r] THEN l ELSE lo[r]]
  /\ hi' = [r \in Reader |-> IF busy[r] /\ l > hi[r] THEN l ELSE hi[r]]
  /\ UNCHANGED <<wall, busy, onWall, answer>>

Plug ==
  /\ wall' = ~wall
  /\ onWall' = [r \in Reader |-> onWall[r] \/ (busy[r] /\ ~wall)]
  /\ UNCHANGED <<level, busy, lo, hi, answer>>

Next ==
  \/ \E r \in Reader : Begin(r) \/ End(r)
  \/ \E l \in 0..MaxLevel : Drift(l)
  \/ Plug

Spec == Init /\ [][Next]_vars
=============================================================================
