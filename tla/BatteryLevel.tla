---------------------------- MODULE BatteryLevel ----------------------------
(***************************************************************************)
(* gpio_read_battery_level_raw() (gpio.cpp), pin operation by pin operation *)
(* against the board's comparator.  A reader is a process that measures:    *)
(* the daemon, once per interval, or a command that found no daemon.  Any   *)
(* pin operation may fail with GPIO_ERROR (the pin was unexported, open()   *)
(* ran out of descriptors) and end the measurement where it stands, and     *)
(* nothing keeps two processes from measuring at once.                      *)
(***************************************************************************)
EXTENDS Comparator

CONSTANTS
  Reader,       \* the processes that measure
  Exclusive,    \* if TRUE, one measurement at a time
  Faulty        \* if TRUE, pin operations may fail

ASSUME ReaderAssumption == Exclusive \in BOOLEAN /\ Faulty \in BOOLEAN

VARIABLES
  wall,         \* the wall supply is connected: the board asserts D2_B
  pc,           \* pc[r]: r's next pin operation
  i,            \* i[r]: the counter of the reset loop
  battlevel,    \* battlevel[r]: the counter of the reading loop
  result,       \* result[r]: what r's last measurement returned
  (* history, for the properties only *)
  lo, hi,       \* extremes of the battery's level during r's measurement
  onWall,       \* onWall[r]: the wall supply was on during r's measurement
  clean         \* clean[r]: r's measurement began Openable

locals == <<pc, i, battlevel, result>>
history == <<lo, hi, onWall, clean>>
vars == <<pinVars, trip, wall, locals, history>>

CHARGING == -1
GPIO_ERROR == -2

Labels ==
  { "idle", "first", "d2", "udhigh", "cslow", "resetlow", "resethigh",
    "resetread", "cshigh", "settle", "udlow", "open", "sense", "pulse",
    "unpulse", "resense", "release" }

Measuring == {r \in Reader : pc[r] # "idle"}

MayStart(r) ==
  /\ pc[r] = "idle"
  /\ Exclusive => Measuring = {}

Goto(r, label) == pc' = [pc EXCEPT ![r] = label]

(* The counters are automatic variables: they end with the function.         *)
Return(r, value) ==
  /\ Goto(r, "idle")
  /\ i' = [i EXCEPT ![r] = 0]
  /\ battlevel' = [battlevel EXCEPT ![r] = MaxLevel]
  /\ result' = [result EXCEPT ![r] = value]

-----------------------------------------------------------------------------
(* A process that is about to measure for the first time runs gpio_init():   *)
(* CS_B is made an output, which drives it low, and set high; UD_B is made   *)
(* an output, low.                                                           *)
GpioInit(r) ==
  /\ MayStart(r)
  /\ dir' = IF cs = HIGH /\ ud = LOW THEN "down" ELSE IF cs = HIGH THEN "up" ELSE dir
  /\ cs' = HIGH
  /\ ud' = LOW
  /\ UNCHANGED <<wiper, trip, wall, locals, history>>

(* The comparator can be opened upwards: CS_B is negated, or the direction   *)
(* that it has latched is upwards.                                           *)
Openable == cs = HIGH \/ dir = "up"

Begin(r) ==
  /\ MayStart(r)
  /\ Goto(r, "first")
  /\ lo' = [lo EXCEPT ![r] = Level(trip)]
  /\ hi' = [hi EXCEPT ![r] = Level(trip)]
  /\ onWall' = [onWall EXCEPT ![r] = wall]
  /\ clean' = [clean EXCEPT ![r] = Openable]
  /\ UNCHANGED <<pinVars, trip, wall, i, battlevel, result>>

(* The reads of PGOOD_B whose value the code does not look at.               *)
ReadFirst(r) ==
  /\ pc[r] = "first"
  /\ Goto(r, "d2")
  /\ UNCHANGED <<pinVars, trip, wall, i, battlevel, result, history>>

(* gpio_read_d2(): the wall supply asserts D2_B.                             *)
ReadD2(r) ==
  /\ pc[r] = "d2"
  /\ \/ wall /\ Return(r, CHARGING)
     \/ ~wall /\ Goto(r, "udhigh") /\ UNCHANGED <<i, battlevel, result>>
  /\ UNCHANGED <<pinVars, trip, wall, history>>

(* Mutant: CS_B falls before UD_B rises.                                     *)
OpenSwapped(r) ==
  /\ \/ pc[r] = "udhigh" /\ DriveCS(LOW) /\ Goto(r, "cslow") /\ UNCHANGED i
     \/ /\ pc[r] = "cslow"
        /\ DriveUD(HIGH)
        /\ i' = [i EXCEPT ![r] = 0]
        /\ Goto(r, "resetlow")
  /\ UNCHANGED <<trip, wall, battlevel, result, history>>

(* "reset the comparator": open it upwards and pulse it to the rail.         *)
OpenUpwards(r) ==
  /\ \/ pc[r] = "udhigh" /\ DriveUD(HIGH) /\ Goto(r, "cslow") /\ UNCHANGED i
     \/ /\ pc[r] = "cslow"
        /\ DriveCS(LOW)
        /\ i' = [i EXCEPT ![r] = 0]
        /\ Goto(r, "resetlow")
  /\ UNCHANGED <<trip, wall, battlevel, result, history>>

ResetPulse(r) ==
  /\ \/ pc[r] = "resetlow" /\ DriveUD(LOW) /\ Goto(r, "resethigh")
     \/ pc[r] = "resethigh" /\ DriveUD(HIGH) /\ Goto(r, "resetread")
  /\ UNCHANGED <<trip, wall, i, battlevel, result, history>>

(* Mutants: the reset ends when PGOOD_B reads low; the reset does not count. *)
ResetUntilLow(r) ==
  /\ pc[r] = "resetread"
  /\ IF i[r] < MaxLevel /\ Pgood = HIGH
     THEN i' = [i EXCEPT ![r] = @ + 1] /\ Goto(r, "resetlow")
     ELSE Goto(r, "cshigh") /\ UNCHANGED i
  /\ UNCHANGED <<pinVars, trip, wall, battlevel, result, history>>

ResetUncounted(r) ==
  /\ pc[r] = "resetread"
  /\ Goto(r, "resetlow")
  /\ UNCHANGED <<pinVars, trip, wall, i, battlevel, result, history>>

ResetRead(r) ==
  /\ pc[r] = "resetread"
  /\ IF i[r] < MaxLevel
     THEN i' = [i EXCEPT ![r] = @ + 1] /\ Goto(r, "resetlow")
     ELSE Goto(r, "cshigh") /\ UNCHANGED i
  /\ UNCHANGED <<pinVars, trip, wall, battlevel, result, history>>

(* Close it, let PGOOD_B settle, and open it downwards.                      *)
OpenDownwards(r) ==
  /\ \/ pc[r] = "cshigh" /\ DriveCS(HIGH) /\ Goto(r, "settle") /\ UNCHANGED battlevel
     \/ pc[r] = "settle" /\ Goto(r, "udlow") /\ UNCHANGED <<pinVars, battlevel>>
     \/ pc[r] = "udlow" /\ DriveUD(LOW) /\ Goto(r, "open") /\ UNCHANGED battlevel
     \/ /\ pc[r] = "open"
        /\ DriveCS(LOW)
        /\ battlevel' = [battlevel EXCEPT ![r] = MaxLevel]
        /\ Goto(r, "sense")
  /\ UNCHANGED <<trip, wall, i, result, history>>

(* Mutant: the loop relies on PGOOD_B turning low.                           *)
ContinuesUnbounded(level) == Pgood = HIGH

(* The loop condition of "read the level now".                               *)
Continues(level) == Pgood = HIGH /\ level > 0

(* Mutant: the counter is lowered before every read.                         *)
SenseOneLess(r) ==
  /\ pc[r] \in {"sense", "resense"}
  /\ battlevel' = [battlevel EXCEPT ![r] = @ - 1]
  /\ Goto(r, IF Continues(battlevel[r] - 1) THEN "pulse" ELSE "release")
  /\ UNCHANGED <<pinVars, trip, wall, i, result, history>>

(* The first read of PGOOD_B, and the one that ends a pulse.                 *)
Sense(r) ==
  /\ pc[r] \in {"sense", "resense"}
  /\ LET level == IF pc[r] = "sense" THEN battlevel[r] ELSE battlevel[r] - 1
     IN  /\ battlevel' = [battlevel EXCEPT ![r] = level]
         /\ Goto(r, IF Continues(level) THEN "pulse" ELSE "release")
  /\ UNCHANGED <<pinVars, trip, wall, i, result, history>>

Pulse(r) ==
  /\ \/ pc[r] = "pulse" /\ DriveUD(HIGH) /\ Goto(r, "unpulse")
     \/ pc[r] = "unpulse" /\ DriveUD(LOW) /\ Goto(r, "resense")
  /\ UNCHANGED <<trip, wall, i, battlevel, result, history>>

(* Mutant: the comparator is left open.                                      *)
ReleaseLeftOpen(r) ==
  /\ pc[r] = "release"
  /\ Return(r, battlevel[r])
  /\ UNCHANGED <<pinVars, trip, wall, history>>

Release(r) ==
  /\ pc[r] = "release"
  /\ DriveCS(HIGH)
  /\ Return(r, battlevel[r])
  /\ UNCHANGED <<trip, wall, history>>

(* A pin operation fails: the function returns at once, leaving the pins as  *)
(* they are; a failed read of D2_B is non-zero and taken for the wall supply. *)
Fault(r) ==
  /\ Faulty
  /\ pc[r] # "idle"
  /\ Return(r, IF pc[r] = "d2" THEN CHARGING ELSE GPIO_ERROR)
  /\ UNCHANGED <<pinVars, trip, wall, history>>

-----------------------------------------------------------------------------
(* The environment: the battery's level and the wall supply change.          *)
Drift(t) ==
  /\ trip' = t
  /\ lo' = [r \in Reader |-> IF r \in Measuring /\ Level(t) < lo[r] THEN Level(t) ELSE lo[r]]
  /\ hi' = [r \in Reader |-> IF r \in Measuring /\ Level(t) > hi[r] THEN Level(t) ELSE hi[r]]
  /\ UNCHANGED <<pinVars, wall, locals, onWall, clean>>

Plug ==
  /\ wall' = ~wall
  /\ onWall' = [r \in Reader |-> onWall[r] \/ (r \in Measuring /\ ~wall)]
  /\ UNCHANGED <<pinVars, trip, locals, lo, hi, clean>>

-----------------------------------------------------------------------------
(* The system starts after a gpio_init(), with the wiper anywhere.           *)
Init ==
  /\ ud = LOW
  /\ cs = HIGH
  /\ dir = "down"
  /\ wiper \in 0..MaxLevel
  /\ trip \in -1..MaxLevel
  /\ wall \in BOOLEAN
  /\ pc = [r \in Reader |-> "idle"]
  /\ i = [r \in Reader |-> 0]
  /\ battlevel = [r \in Reader |-> MaxLevel]
  /\ result = [r \in Reader |-> CHARGING]
  /\ lo = [r \in Reader |-> 0]
  /\ hi = [r \in Reader |-> MaxLevel]
  /\ onWall = [r \in Reader |-> TRUE]
  /\ clean = [r \in Reader |-> TRUE]

Operation(r) ==
  \/ ReadFirst(r)   \/ ReadD2(r)        \/ OpenUpwards(r)
  \/ ResetPulse(r)  \/ ResetRead(r)     \/ OpenDownwards(r)
  \/ Sense(r)       \/ Pulse(r)         \/ Release(r)

Environment == Plug \/ \E t \in -1..MaxLevel : Drift(t)

Next ==
  \/ \E r \in Reader : GpioInit(r) \/ Begin(r) \/ Operation(r) \/ Fault(r)
  \/ Environment

Spec == Init /\ [][Next]_vars

(* A measurement runs in one thread with bounded delays: it keeps going.     *)
FairSpec == Spec /\ \A r \in Reader : WF_vars(Operation(r))

-----------------------------------------------------------------------------
(* The type of every variable.                                               *)
TypeOK ==
  /\ ComparatorType
  /\ wall \in BOOLEAN
  /\ pc \in [Reader -> Labels]
  /\ i \in [Reader -> 0..MaxLevel]
  /\ battlevel \in [Reader -> 0..MaxLevel]
  /\ result \in [Reader -> GPIO_ERROR..MaxLevel]
  /\ lo \in [Reader -> 0..MaxLevel]
  /\ hi \in [Reader -> 0..MaxLevel]
  /\ onWall \in [Reader -> BOOLEAN]
  /\ clean \in [Reader -> BOOLEAN]

(***************************************************************************)
(* rocpmd.1: CS_B is negated after a measurement; left asserted, the next   *)
(* measurement cannot latch its direction.                                  *)
(***************************************************************************)
Released == Measuring = {} => cs = HIGH

(***************************************************************************)
(* rocpmd.1, --battery-level-raw, where pins may fail: a measurement that   *)
(* returns a level returns one the battery had while it was measured,       *)
(* whatever happened before it, except that one aborted with the comparator *)
(* open downwards spoils the next.                                          *)
(***************************************************************************)
CleanReadingTrue ==
  \A r \in Reader :
    (pc[r] = "idle" /\ result[r] >= 0 /\ clean[r])
      => (lo[r] <= result[r] /\ result[r] <= hi[r])

(***************************************************************************)
(* Why it is: where the pins and the comparator stand at each point of a    *)
(* measurement that began Openable.  The reset has moved the wiper          *)
(* up once per turn, so it ends at the rail wherever the last measurement   *)
(* left it; from there the counter of the reading loop is the wiper's       *)
(* level, and the battery has been below each level it was counted down     *)
(* from.                                                                    *)
(***************************************************************************)
Resetting(r) ==
  /\ pc[r] \in {"first", "d2", "udhigh", "cslow"} => Openable
  /\ pc[r] = "cslow" => ud = HIGH
  /\ pc[r] \in {"resetlow", "resethigh", "resetread", "cshigh"} => cs = LOW /\ dir = "up"
  /\ pc[r] = "resethigh" => ud = LOW
  /\ pc[r] \in {"resetlow", "resethigh"} => wiper >= i[r]
  /\ pc[r] = "resetread" => wiper = MaxLevel \/ wiper > i[r]

Railed(r) ==
  /\ pc[r] \in {"cshigh", "settle", "udlow", "open"} => wiper = MaxLevel
  /\ pc[r] \in {"settle", "udlow", "open"} => cs = HIGH
  /\ pc[r] = "open" => ud = LOW

Counting(r) ==
  /\ pc[r] \in {"sense", "pulse", "unpulse", "resense"} => cs = LOW /\ dir = "down"
  /\ pc[r] \in {"sense", "pulse", "resense"} => ud = LOW
  /\ pc[r] \in {"sense", "pulse"} => wiper = battlevel[r]
  /\ pc[r] \in {"unpulse", "resense"} => wiper = battlevel[r] - 1
  /\ pc[r] = "sense" => wiper = MaxLevel
  /\ pc[r] \in {"pulse", "unpulse", "resense"} => lo[r] < battlevel[r]
  /\ pc[r] = "release" => lo[r] <= battlevel[r] /\ battlevel[r] <= hi[r]

MeasureInv ==
  /\ \A r, q \in Measuring : r = q
  /\ \A r \in Measuring : lo[r] <= Level(trip) /\ Level(trip) <= hi[r]
  /\ \A r \in Measuring : clean[r] => Resetting(r) /\ Railed(r) /\ Counting(r)
  /\ CleanReadingTrue

(***************************************************************************)
(* A measurement ends however the battery's level moves under it: the       *)
(* daemon that waits for it returns to watching the power button.           *)
(***************************************************************************)
MeasurementEnds == \A r \in Reader : pc[r] # "idle" ~> pc[r] = "idle"

(***************************************************************************)
(* One measurement at a time on pins that work keeps the promise of Meter.  *)
(***************************************************************************)
Promise == INSTANCE Meter WITH
  level <- Level(trip),
  busy <- [r \in Reader |-> pc[r] # "idle"],
  answer <- result,
  Charging <- CHARGING

KeepsPromise == Promise!Spec
=============================================================================
