-------------------------- MODULE BatteryLevelProofs ------------------------
(***************************************************************************)
(* The measurement's promises, for every number of comparator levels and    *)
(* any set of processes that take turns.                                    *)
(***************************************************************************)
EXTENDS BatteryLevel, TLAPS

(* A rising edge keeps the wiper between its rails.                         *)
LEMMA MovedType ==
  ASSUME NEW w \in 0..MaxLevel, NEW d PROVE Moved(w, d) \in 0..MaxLevel
  BY MaxLevelAssumption DEF Moved

(* Driving a pin keeps the comparator's types.                              *)
LEMMA DriveType ==
  ASSUME ComparatorType, trip' = trip,
         NEW v \in {LOW, HIGH}, DriveUD(v) \/ DriveCS(v)
  PROVE  ComparatorType'
<1>1. CASE DriveUD(v)
  <2>1. wiper' \in 0..MaxLevel
    BY <1>1, MovedType DEF DriveUD, ComparatorType
  <2> QED
    BY <1>1, <2>1 DEF DriveUD, ComparatorType
<1>2. CASE DriveCS(v)
  BY <1>2 DEF DriveCS, ComparatorType
<1> QED
  BY <1>1, <1>2

(* The level of a trip level is a level.                                    *)
LEMMA LevelType ==
  ASSUME NEW t \in -1..MaxLevel PROVE Level(t) \in 0..MaxLevel
  BY MaxLevelAssumption DEF Level

(***************************************************************************)
(* Every variable keeps its type, with any readers and any faults, as long  *)
(* as the counter of the reading loop is positive where it is lowered.      *)
(***************************************************************************)
CounterPositive ==
  \A r \in Reader : pc[r] \in {"pulse", "unpulse", "resense"} => battlevel[r] > 0

LEMMA TypeStep ==
  TypeOK /\ CounterPositive /\ [Next]_vars => TypeOK' /\ CounterPositive'
<1> SUFFICES ASSUME TypeOK, CounterPositive, [Next]_vars
             PROVE  TypeOK' /\ CounterPositive'
  OBVIOUS
<1> USE MaxLevelAssumption DEF TypeOK, CounterPositive, locals, history
<1>1. CASE UNCHANGED vars
  BY <1>1 DEF vars, pinVars, ComparatorType
<1>2. CASE Plug
  BY <1>2 DEF Plug, pinVars, ComparatorType
<1>3. ASSUME NEW t \in -1..MaxLevel, Drift(t) PROVE TypeOK' /\ CounterPositive'
  BY <1>3, LevelType DEF Drift, pinVars, ComparatorType
<1>4. ASSUME NEW r \in Reader, GpioInit(r) \/ Begin(r) \/ Operation(r) \/ Fault(r)
      PROVE  TypeOK' /\ CounterPositive'
  <2> USE DEF Goto, Return, Labels, GPIO_ERROR, CHARGING
  <2>1. CASE GpioInit(r)
    BY <2>1 DEF GpioInit, ComparatorType, LOW, HIGH
  <2>2. CASE Begin(r)
    <3>1. Level(trip) \in 0..MaxLevel
      BY LevelType DEF ComparatorType
    <3> QED
      BY <2>2, <3>1 DEF Begin, Openable, pinVars, ComparatorType
  <2>3. CASE ReadFirst(r)
    BY <2>3 DEF ReadFirst, pinVars, ComparatorType
  <2>4. CASE ReadD2(r)
    BY <2>4 DEF ReadD2, pinVars, ComparatorType
  <2>5. CASE OpenUpwards(r)
    <3>1. ComparatorType'
      BY <2>5, DriveType DEF OpenUpwards, LOW, HIGH
    <3> QED
      BY <2>5, <3>1 DEF OpenUpwards
  <2>6. CASE ResetPulse(r)
    <3>1. ComparatorType'
      BY <2>6, DriveType DEF ResetPulse, LOW, HIGH
    <3> QED
      BY <2>6, <3>1 DEF ResetPulse
  <2>7. CASE ResetRead(r)
    BY <2>7 DEF ResetRead, pinVars, ComparatorType
  <2>8. CASE OpenDownwards(r)
    <3>1. ComparatorType'
      BY <2>8, DriveType DEF OpenDownwards, LOW, HIGH, pinVars, ComparatorType
    <3> QED
      BY <2>8, <3>1 DEF OpenDownwards
  <2>9. CASE Sense(r)
    BY <2>9 DEF Sense, Continues, pinVars, ComparatorType
  <2>10. CASE Pulse(r)
    <3>1. ComparatorType'
      BY <2>10, DriveType DEF Pulse, LOW, HIGH
    <3> QED
      BY <2>10, <3>1 DEF Pulse
  <2>11. CASE Release(r)
    <3>1. ComparatorType'
      BY <2>11, DriveType DEF Release, LOW, HIGH
    <3> QED
      BY <2>11, <3>1 DEF Release
  <2>12. CASE Fault(r)
    BY <2>12 DEF Fault, pinVars, ComparatorType
  <2> QED
    BY <1>4, <2>1, <2>2, <2>3, <2>4, <2>5, <2>6, <2>7, <2>8, <2>9, <2>10, <2>11, <2>12
    DEF Operation
<1> QED
  BY <1>1, <1>2, <1>3, <1>4 DEF Next, Environment

(* In every reachable state each variable has its type (TypeOK).            *)
THEOREM TypeCorrect == Spec => [](TypeOK /\ CounterPositive)
<1>1. Init => TypeOK /\ CounterPositive
  BY MaxLevelAssumption
  DEF Init, TypeOK, CounterPositive, ComparatorType, LOW, HIGH, Labels, GPIO_ERROR, CHARGING
<1> QED
  BY <1>1, TypeStep, PTL DEF Spec

-----------------------------------------------------------------------------
(***************************************************************************)
(* MeasureInv after a step of the one process r that measures: what it asks *)
(* of the others does not change.                                           *)
(***************************************************************************)
PhaseInv(r) == Resetting(r) /\ Railed(r) /\ Counting(r)

LEMMA OwnStep ==
  ASSUME TypeOK, MeasureInv, NEW r \in Measuring, NEW l \in Labels,
         pc' = [pc EXCEPT ![r] = l],
         UNCHANGED <<trip, lo, hi, clean>>,
         \A q \in Reader : q # r => result'[q] = result[q],
         clean[r] /\ l # "idle" => PhaseInv(r)',
         clean[r] /\ l = "idle" /\ result'[r] >= 0
           => lo[r] <= result'[r] /\ result'[r] <= hi[r]
  PROVE  MeasureInv'
<1> USE DEF TypeOK, MeasureInv, PhaseInv
<1>0. r \in Reader /\ Measuring' \subseteq {r} /\ Measuring = {r}
  BY DEF Measuring
<1>1. (\A p, q \in Measuring : p = q)'
  BY <1>0
<1>2. (\A q \in Measuring : lo[q] <= Level(trip) /\ Level(trip) <= hi[q])'
  BY <1>0 DEF Level
<1>3. (\A q \in Measuring : clean[q] => Resetting(q) /\ Railed(q) /\ Counting(q))'
  <2>1. l = "idle" => Measuring' = {}
    BY <1>0 DEF Measuring
  <2> QED
    BY <1>0, <2>1
<1>4. CleanReadingTrue'
  <2> SUFFICES ASSUME NEW q \in Reader,
                      pc'[q] = "idle", result'[q] >= 0, clean'[q]
               PROVE  lo'[q] <= result'[q] /\ result'[q] <= hi'[q]
    BY DEF CleanReadingTrue
  <2>1. CASE q = r
    BY <1>0, <2>1
  <2>2. CASE q # r
    BY <1>0, <2>2 DEF CleanReadingTrue
  <2> QED
    BY <2>1, <2>2
<1> QED
  BY <1>1, <1>2, <1>3, <1>4

(* The wiper's moves while the comparator is open.                          *)
LEMMA Rising ==
  ASSUME TypeOK
  PROVE  /\ dir = "up" => Moved(wiper, dir) = (IF wiper < MaxLevel THEN wiper + 1 ELSE wiper)
         /\ dir = "down" /\ wiper > 0 => Moved(wiper, dir) = wiper - 1
  BY DEF Moved

(***************************************************************************)
(* The reset: however far below the rail the wiper began, turn i leaves it  *)
(* above i, so the last one leaves it at the rail.                          *)
(***************************************************************************)
LEMMA ResetSteps ==
  ASSUME TypeOK, MeasureInv, NEW r \in Measuring,
         ReadFirst(r) \/ ReadD2(r) \/ OpenUpwards(r) \/ ResetPulse(r) \/ ResetRead(r)
  PROVE  MeasureInv'
<1> USE MaxLevelAssumption DEF Goto, Return, history, pinVars
<1>0. r \in Reader /\ (clean[r] => PhaseInv(r)) /\ clean' = clean
  BY DEF Measuring, MeasureInv, PhaseInv, ReadFirst, ReadD2, OpenUpwards, ResetPulse, ResetRead
<1>1. PICK l \in Labels : pc' = [pc EXCEPT ![r] = l]
  BY DEF ReadFirst, ReadD2, OpenUpwards, ResetPulse, ResetRead, Labels
<1>2. \A q \in Reader : q # r => result'[q] = result[q]
  BY DEF ReadFirst, ReadD2, OpenUpwards, ResetPulse, ResetRead, TypeOK
<1>3. l = "idle" => ~(result'[r] >= 0)
  <2>1. l = "idle" => ReadD2(r) /\ wall
    BY <1>0, <1>1 DEF ReadFirst, ReadD2, OpenUpwards, ResetPulse, ResetRead, TypeOK
  <2> QED
    BY <1>0, <2>1 DEF ReadD2, CHARGING, TypeOK
<1>4. ASSUME clean[r], l # "idle" PROVE PhaseInv(r)'
  <2> USE <1>0, <1>4 DEF PhaseInv, Resetting, Openable, Railed, Counting, TypeOK, ComparatorType, LOW, HIGH
  <2>1. CASE ReadFirst(r)
    BY <2>1 DEF ReadFirst
  <2>2. CASE ReadD2(r)
    BY <1>1, <2>2 DEF ReadD2
  <2>3. CASE OpenUpwards(r)
    BY <2>3 DEF OpenUpwards, DriveUD, DriveCS
  <2>4. CASE ResetPulse(r)
    <3>1. CASE pc[r] = "resetlow"
      BY <2>4, <3>1 DEF ResetPulse, DriveUD
    <3>2. CASE pc[r] = "resethigh"
      BY <2>4, <3>2, Rising DEF ResetPulse, DriveUD
    <3> QED
      BY <2>4, <3>1, <3>2 DEF ResetPulse
  <2>5. CASE ResetRead(r)
    BY <2>5 DEF ResetRead
  <2> QED
    BY <2>1, <2>2, <2>3, <2>4, <2>5
<1>5. UNCHANGED <<trip, lo, hi, clean>>
  BY DEF ReadFirst, ReadD2, OpenUpwards, ResetPulse, ResetRead
<1> QED
  BY <1>1, <1>2, <1>3, <1>4, <1>5, OwnStep

(***************************************************************************)
(* The reading: from the rail down, the counter is the wiper's level, and   *)
(* it is lowered only while the battery is below it.                        *)
(***************************************************************************)
LEMMA ReadingSteps ==
  ASSUME TypeOK, CounterPositive, MeasureInv, NEW r \in Measuring,
         OpenDownwards(r) \/ Sense(r) \/ Pulse(r)
  PROVE  MeasureInv'
<1> USE MaxLevelAssumption DEF Goto, history, pinVars
<1>0. /\ r \in Reader
      /\ clean[r] => PhaseInv(r)
      /\ lo[r] <= Level(trip) /\ Level(trip) <= hi[r]
  BY DEF Measuring, MeasureInv, PhaseInv
<1>1. PICK l \in Labels : pc' = [pc EXCEPT ![r] = l] /\ l # "idle"
  BY DEF OpenDownwards, Sense, Pulse, Labels
<1>2. UNCHANGED <<trip, lo, hi, clean, result>>
  BY DEF OpenDownwards, Sense, Pulse
<1>3. ASSUME clean[r] PROVE PhaseInv(r)'
  <2> USE <1>0, <1>3 DEF PhaseInv, Resetting, Openable, Railed, Counting, TypeOK, ComparatorType, LOW, HIGH
  <2>1. CASE OpenDownwards(r)
    BY <2>1 DEF OpenDownwards, DriveUD, DriveCS
  <2>2. CASE Sense(r)
    <3> DEFINE level == IF pc[r] = "sense" THEN battlevel[r] ELSE battlevel[r] - 1
    <3>1. /\ battlevel'[r] = level
          /\ pc'[r] = IF Continues(level) THEN "pulse" ELSE "release"
          /\ UNCHANGED <<ud, cs, dir, wiper, trip, lo, hi>>
      BY <2>2 DEF Sense
    <3>2. wiper = level /\ lo[r] <= level /\ level \in 0..MaxLevel /\ cs = LOW /\ dir = "down"
      BY <2>2 DEF Sense, CounterPositive
    <3>3. CASE Continues(level)
      <4>1. level > 0 /\ Level(trip) < level
        BY <3>2, <3>3 DEF Continues, Pgood, Level
      <4>2. ud = LOW
        BY <2>2 DEF Sense
      <4>3. lo[r] < level
        BY <4>1, <3>2, LevelType
      <4>4. pc'[r] = "pulse" /\ lo'[r] < battlevel'[r] /\ wiper' = battlevel'[r]
            /\ ud' = LOW /\ cs' = LOW /\ dir' = "down"
        BY <3>1, <3>2, <3>3, <4>2, <4>3
      <4> QED
        BY <4>4
    <3>4. CASE ~Continues(level)
      <4>1. level <= Level(trip) \/ level = 0
        BY <3>2, <3>4 DEF Continues, Pgood, Level
      <4>2. level <= hi[r]
        BY <3>2, <4>1 DEF Level
      <4> HIDE DEF level
      <4> QED
        BY <3>1, <3>2, <3>4, <4>2
    <3> QED
      BY <3>3, <3>4
  <2>3. CASE Pulse(r)
    <3>1. CASE pc[r] = "pulse"
      BY <2>3, <3>1, Rising DEF Pulse, DriveUD, CounterPositive
    <3>2. CASE pc[r] = "unpulse"
      BY <2>3, <3>2 DEF Pulse, DriveUD
    <3> QED
      BY <2>3, <3>1, <3>2 DEF Pulse
  <2> QED
    BY <2>1, <2>2, <2>3
<1> QED
  BY <1>1, <1>2, <1>3, OwnStep

(* The last step: what is returned lies between the extremes.               *)
LEMMA LastSteps ==
  ASSUME TypeOK, MeasureInv, NEW r \in Measuring, Release(r) \/ Fault(r)
  PROVE  MeasureInv'
<1> USE DEF Return, Goto, history
<1>0. r \in Reader /\ (clean[r] => PhaseInv(r))
  BY DEF Measuring, MeasureInv, PhaseInv
<1>1. pc' = [pc EXCEPT ![r] = "idle"] /\ "idle" \in Labels
  BY DEF Release, Fault, Labels
<1>2. /\ UNCHANGED <<trip, lo, hi, clean>>
      /\ \A q \in Reader : q # r => result'[q] = result[q]
  BY DEF Release, Fault, TypeOK
<1>3. ASSUME clean[r], result'[r] >= 0
      PROVE  lo[r] <= result'[r] /\ result'[r] <= hi[r]
  <2>1. CASE Release(r)
    <3>1. lo[r] <= battlevel[r] /\ battlevel[r] <= hi[r]
      BY <1>0, <1>3, <2>1 DEF Release, PhaseInv, Counting
    <3> QED
      BY <1>0, <2>1, <3>1 DEF Release, TypeOK
  <2>2. CASE Fault(r)
    <3>1. result'[r] \in {CHARGING, GPIO_ERROR}
      BY <1>0, <2>2 DEF Fault, TypeOK
    <3> QED
      BY <1>3, <3>1 DEF CHARGING, GPIO_ERROR
  <2> QED
    BY <2>1, <2>2
<1> QED
  BY <1>1, <1>2, <1>3, OwnStep

(***************************************************************************)
(* MeasureInv is inductive where readers take turns.                        *)
(***************************************************************************)
LEMMA MeasureInvStep ==
  ASSUME Exclusive, TypeOK, CounterPositive, MeasureInv, [Next]_vars
  PROVE  MeasureInv'
<1> USE DEF locals, history, pinVars
<1>1. CASE UNCHANGED <<pinVars, trip, locals, lo, hi, clean>>
  BY <1>1 DEF MeasureInv, Measuring, CleanReadingTrue, Resetting, Openable, Railed, Counting
<1>2. ASSUME NEW t \in -1..MaxLevel, Drift(t) PROVE MeasureInv'
  <2> USE <1>2, MaxLevelAssumption DEF Drift
  <2>1. UNCHANGED <<ud, cs, dir, wiper, pc, i, battlevel, result, clean>>
        /\ Measuring' = Measuring
    BY DEF Measuring
  <2>2. Level(t) \in 0..MaxLevel
    BY LevelType
  <2>3. \A r \in Reader :
          /\ lo'[r] <= lo[r] /\ hi'[r] >= hi[r]
          /\ r \in Measuring => lo'[r] <= Level(t) /\ Level(t) <= hi'[r]
          /\ r \notin Measuring => lo'[r] = lo[r] /\ hi'[r] = hi[r]
    BY <2>2 DEF TypeOK
  <2>4. ASSUME NEW r \in Measuring, clean[r]
        PROVE  (Resetting(r) /\ Railed(r) /\ Counting(r))'
    <3>1. r \in Reader /\ Resetting(r) /\ Railed(r) /\ Counting(r)
      BY <2>4 DEF MeasureInv, Measuring
    <3>2. Resetting(r)' /\ Railed(r)'
      BY <2>1, <3>1 DEF Resetting, Openable, Railed
    <3>3. lo'[r] <= lo[r] /\ hi'[r] >= hi[r] /\ {lo[r], hi[r], lo'[r], hi'[r]} \subseteq Int
          /\ battlevel[r] \in Int
      BY <2>2, <2>3, <3>1 DEF TypeOK
    <3>4. Counting(r)'
      BY <2>1, <3>1, <3>3 DEF Counting
    <3> QED
      BY <3>2, <3>4
  <2>5. CleanReadingTrue'
    BY <2>1, <2>3 DEF MeasureInv, CleanReadingTrue, Measuring
  <2>6. trip' = t
    OBVIOUS
  <2>7. (\A r, q \in Measuring : r = q)'
    BY <2>1 DEF MeasureInv
  <2>8. (\A r \in Measuring : lo[r] <= Level(trip) /\ Level(trip) <= hi[r])'
    BY <2>1, <2>3, <2>6 DEF Measuring
  <2> QED
    BY <2>1, <2>4, <2>5, <2>7, <2>8 DEF MeasureInv
<1>3. ASSUME NEW r \in Reader, GpioInit(r) PROVE MeasureInv'
  <2>1. Measuring = {} /\ UNCHANGED <<trip, pc, result, lo, hi, clean>>
    BY <1>3 DEF GpioInit, MayStart
  <2> QED
    BY <2>1 DEF MeasureInv, Measuring, CleanReadingTrue
<1>4. ASSUME NEW r \in Reader, Begin(r) PROVE MeasureInv'
  <2> USE <1>4 DEF Begin, Goto
  <2>1. /\ Measuring = {} /\ pc' = [pc EXCEPT ![r] = "first"]
        /\ lo'[r] = Level(trip) /\ hi'[r] = Level(trip) /\ clean'[r] = Openable
        /\ \A q \in Reader : q # r => lo'[q] = lo[q] /\ hi'[q] = hi[q] /\ clean'[q] = clean[q]
        /\ UNCHANGED <<ud, cs, dir, wiper, trip, result>>
    BY DEF MayStart, TypeOK
  <2>2. Measuring' = {r} /\ pc'[r] = "first"
    BY <2>1 DEF Measuring, TypeOK
  <2>3. Level(trip) \in 0..MaxLevel
    BY LevelType DEF TypeOK, ComparatorType
  <2>4. clean'[r] => (Resetting(r) /\ Railed(r) /\ Counting(r))'
    BY <2>1, <2>2 DEF Resetting, Railed, Counting, Openable
  <2>5. CleanReadingTrue'
    <3> SUFFICES ASSUME NEW q \in Reader,
                        pc'[q] = "idle", result'[q] >= 0, clean'[q]
                 PROVE  lo'[q] <= result'[q] /\ result'[q] <= hi'[q]
      BY DEF CleanReadingTrue
    <3>1. q # r /\ pc[q] = "idle"
      BY <2>1, <2>2 DEF TypeOK
    <3> QED
      BY <2>1, <3>1 DEF MeasureInv, CleanReadingTrue
  <2>6. (\A q \in Measuring : lo[q] <= Level(trip) /\ Level(trip) <= hi[q])'
    BY <2>1, <2>2, <2>3, MaxLevelAssumption DEF Level
  <2> QED
    BY <2>2, <2>4, <2>5, <2>6 DEF MeasureInv
<1>5. ASSUME NEW r \in Reader, Operation(r) \/ Fault(r) PROVE MeasureInv'
  <2>1. r \in Measuring
    BY <1>5 DEF Measuring, Operation, ReadFirst, ReadD2, OpenUpwards, ResetPulse,
                ResetRead, OpenDownwards, Sense, Pulse, Release, Fault
  <2> QED
    BY <1>5, <2>1, ResetSteps, ReadingSteps, LastSteps DEF Operation
<1> QED
  BY <1>1, <1>2, <1>3, <1>4, <1>5 DEF Next, Environment, Plug, vars

(***************************************************************************)
(* Where readers take turns, faults or not: MeasureInv holds throughout.    *)
(***************************************************************************)
THEOREM MeasureInvariant == ASSUME Exclusive PROVE Spec => []MeasureInv
<1>1. Init => MeasureInv
  BY MaxLevelAssumption DEF Init, MeasureInv, Measuring, CleanReadingTrue, CHARGING
<1>2. TypeOK /\ CounterPositive /\ MeasureInv /\ [Next]_vars => MeasureInv'
  BY MeasureInvStep
<1> QED
  BY <1>1, <1>2, TypeCorrect, PTL DEF Spec

(***************************************************************************)
(* A measurement that returns a level returns one the battery had, whatever *)
(* aborted before it, except with the comparator open downwards:            *)
(* CleanReadingTrue.                                                        *)
(***************************************************************************)
THEOREM CleanReadingsAreTrue == ASSUME Exclusive PROVE Spec => []CleanReadingTrue
<1>1. MeasureInv => CleanReadingTrue
  BY DEF MeasureInv
<1> QED
  BY <1>1, MeasureInvariant, PTL

-----------------------------------------------------------------------------
(***************************************************************************)
(* Without faults every measurement begins with CS_B negated, since the     *)
(* last one released the comparator.                                        *)
(***************************************************************************)
AlwaysClean ==
  /\ Released
  /\ \A r \in Measuring : clean[r]
  /\ \A r \in Measuring : pc[r] \in {"first", "d2"} => cs = HIGH
  /\ \A r \in Measuring : wall => onWall[r]

LEMMA AlwaysCleanStep ==
  ASSUME Exclusive, ~Faulty, TypeOK, MeasureInv, AlwaysClean, [Next]_vars
  PROVE  AlwaysClean'
<1> USE DEF AlwaysClean, Released, locals, history, pinVars
<1>1. CASE UNCHANGED <<cs, pc, clean, wall, onWall>>
  BY <1>1 DEF Measuring
<1>2. ASSUME NEW t \in -1..MaxLevel, Drift(t) PROVE AlwaysClean'
  BY <1>2 DEF Drift, Measuring
<1>3. CASE Plug
  BY <1>3 DEF Plug, Measuring
<1>4. ASSUME NEW r \in Reader, GpioInit(r) PROVE AlwaysClean'
  BY <1>4 DEF GpioInit, MayStart, Measuring
<1>5. ASSUME NEW r \in Reader, Begin(r) PROVE AlwaysClean'
  <2>1. Measuring = {} /\ Measuring' = {r}
    BY <1>5 DEF Begin, MayStart, Measuring, Goto, TypeOK
  <2> QED
    BY <1>5, <2>1 DEF Begin, Goto, Openable, TypeOK
<1>6. ASSUME NEW r \in Reader, Operation(r) PROVE AlwaysClean'
  <2>1. /\ Measuring = {r} /\ Measuring' \subseteq {r}
        /\ UNCHANGED <<clean, wall, onWall>>
    <3>1. r \in Measuring
      BY <1>6 DEF Measuring, Operation, ReadFirst, ReadD2, OpenUpwards, ResetPulse,
                  ResetRead, OpenDownwards, Sense, Pulse, Release
    <3>2. \A q \in Reader : q # r => pc'[q] = pc[q]
      BY <1>6 DEF Operation, ReadFirst, ReadD2, OpenUpwards, ResetPulse, ResetRead,
                  OpenDownwards, Sense, Pulse, Release, Goto, Return, TypeOK
    <3> QED
      BY <1>6, <3>1, <3>2 DEF MeasureInv, Measuring, Operation, ReadFirst, ReadD2,
         OpenUpwards, ResetPulse, ResetRead, OpenDownwards, Sense, Pulse, Release
  <2>2. ASSUME Measuring' = {} PROVE cs' = HIGH
    <3>1. pc'[r] = "idle"
      BY <2>2 DEF Measuring
    <3>2. ReadD2(r) \/ Release(r)
      BY <1>6, <3>1 DEF Operation, ReadFirst, OpenUpwards, ResetPulse, ResetRead,
         OpenDownwards, Sense, Pulse, Goto, TypeOK
    <3>3. CASE ReadD2(r)
      BY <2>1, <3>3 DEF ReadD2, pinVars
    <3>4. CASE Release(r)
      BY <3>4 DEF Release, DriveCS
    <3> QED
      BY <3>2, <3>3, <3>4
  <2>3. ASSUME pc'[r] \in {"first", "d2"} PROVE cs' = HIGH
    <3>1. ReadFirst(r)
      BY <1>6, <2>3 DEF Operation, ReadFirst, ReadD2, OpenUpwards, ResetPulse, ResetRead,
         OpenDownwards, Sense, Pulse, Release, Goto, Return, TypeOK
    <3> QED
      BY <2>1, <3>1 DEF ReadFirst
  <2> QED
    BY <2>1, <2>2, <2>3
<1>7. ASSUME NEW r \in Reader, Fault(r) PROVE FALSE
  BY <1>7 DEF Fault
<1> QED
  BY <1>1, <1>2, <1>3, <1>4, <1>5, <1>6, <1>7 DEF Next, Environment, vars

(***************************************************************************)
(* Turns and no faults: CS_B is negated between measurements (Released).    *)
(***************************************************************************)
THEOREM AlwaysCleanInvariant ==
  ASSUME Exclusive, ~Faulty PROVE Spec => []AlwaysClean
<1>1. Init => AlwaysClean
  BY DEF Init, AlwaysClean, Released, Measuring
<1>2. TypeOK /\ MeasureInv /\ AlwaysClean /\ [Next]_vars
        => AlwaysClean'
  BY AlwaysCleanStep
<1> QED
  BY <1>1, <1>2, TypeCorrect, MeasureInvariant, PTL DEF Spec

THEOREM ComparatorReleased ==
  ASSUME Exclusive, ~Faulty PROVE Spec => []Released
<1>1. AlwaysClean => Released
  BY DEF AlwaysClean
<1> QED
  BY <1>1, AlwaysCleanInvariant, PTL

-----------------------------------------------------------------------------
(***************************************************************************)
(* Each step of a measurement is a step of Meter or changes nothing in it.  *)
(***************************************************************************)
LEMMA PromiseStep ==
  ASSUME ~Faulty, TypeOK, MeasureInv, AlwaysClean, [Next]_vars
  PROVE  [Promise!Next]_Promise!vars
<1> USE DEF locals, history, pinVars
<1> DEFINE busy == [r \in Reader |-> pc[r] # "idle"]
<1>1. CASE UNCHANGED vars
  BY <1>1 DEF vars, Promise!vars
<1>2. ASSUME NEW t \in -1..MaxLevel, Drift(t) PROVE Promise!Drift(Level(t))
  BY <1>2 DEF Drift, Measuring, Promise!Drift
<1>3. CASE Plug
  <2>1. \A r \in Reader : r \in Measuring <=> busy[r]
    BY DEF Measuring
  <2>2. busy' = busy
    BY <1>3 DEF Plug
  <2>3. onWall' = [r \in Reader |-> onWall[r] \/ (busy[r] /\ ~wall)]
    BY <1>3, <2>1 DEF Plug
  <2>4. Promise!Plug
    BY <1>3, <2>2, <2>3 DEF Plug, Promise!Plug
  <2> QED
    BY <2>4 DEF Promise!Next
<1>4. ASSUME NEW r \in Reader, GpioInit(r) PROVE UNCHANGED Promise!vars
  BY <1>4 DEF GpioInit, Promise!vars
<1>5. ASSUME NEW r \in Reader, Begin(r) PROVE Promise!Begin(r)
  <2>1. pc[r] = "idle" /\ pc' = [pc EXCEPT ![r] = "first"]
    BY <1>5 DEF Begin, MayStart, Goto
  <2>2. busy' = [busy EXCEPT ![r] = TRUE]
    BY <2>1 DEF TypeOK
  <2> QED
    BY <1>5, <2>1, <2>2 DEF Begin, Promise!Begin
<1>6. ASSUME NEW r \in Reader, (ReadD2(r) /\ wall) \/ Release(r) PROVE Promise!End(r)
  <2>1. pc[r] # "idle" /\ pc' = [pc EXCEPT ![r] = "idle"] /\ r \in Measuring
    BY <1>6 DEF ReadD2, Release, Return, Goto, Measuring
  <2>2. busy[r] /\ busy' = [busy EXCEPT ![r] = FALSE]
    BY <2>1 DEF TypeOK
  <2>3. \/ \E a \in lo[r]..hi[r] : result' = [result EXCEPT ![r] = a]
        \/ onWall[r] /\ result' = [result EXCEPT ![r] = CHARGING]
    <3>1. CASE ReadD2(r) /\ wall
      BY <2>1, <3>1 DEF ReadD2, Return, AlwaysClean
    <3>2. CASE Release(r)
      <4>1. battlevel[r] \in lo[r]..hi[r]
        BY <2>1, <3>2 DEF Release, AlwaysClean, MeasureInv, Counting, TypeOK
      <4> QED
        BY <3>2, <4>1 DEF Release, Return
    <3> QED
      BY <1>6, <3>1, <3>2
  <2> QED
    BY <1>6, <2>2, <2>3 DEF Promise!End, ReadD2, Release
<1>7. ASSUME NEW r \in Reader, Operation(r), ~(ReadD2(r) /\ wall), ~Release(r)
      PROVE  UNCHANGED Promise!vars
  <2>1. UNCHANGED <<trip, wall, lo, hi, onWall, result>>
    BY <1>7 DEF Operation, ReadFirst, ReadD2, OpenUpwards, ResetPulse, ResetRead,
       OpenDownwards, Sense, Pulse
  <2>2. PICK l \in Labels \ {"idle"} : pc' = [pc EXCEPT ![r] = l]
    BY <1>7 DEF Operation, ReadFirst, ReadD2, OpenUpwards, ResetPulse, ResetRead,
       OpenDownwards, Sense, Pulse, Goto, Labels
  <2>3. pc[r] # "idle"
    BY <1>7 DEF Operation, ReadFirst, ReadD2, OpenUpwards, ResetPulse, ResetRead,
       OpenDownwards, Sense, Pulse
  <2>4. busy' = busy
    BY <2>2, <2>3 DEF TypeOK
  <2> QED
    BY <2>1, <2>4 DEF Promise!vars
<1>8. ASSUME NEW r \in Reader, Fault(r) PROVE FALSE
  BY <1>8 DEF Fault
<1>9. \A t \in -1..MaxLevel : Level(t) \in 0..MaxLevel
  BY LevelType
<1> QED
  BY <1>1, <1>2, <1>3, <1>4, <1>5, <1>6, <1>7, <1>8, <1>9
  DEF Next, Environment, Operation, Promise!Next

(***************************************************************************)
(* The pin protocol implements Meter: with turns and without faults, every  *)
(* answer is a level the battery had during the measurement, or Charging    *)
(* with the wall supply on (KeepsPromise).                                  *)
(***************************************************************************)
THEOREM ImplementsMeter ==
  ASSUME Exclusive, ~Faulty PROVE Spec => KeepsPromise
<1>1. Init => Promise!Init
  BY LevelType DEF Init, Promise!Init
<1>2. TypeOK /\ MeasureInv /\ AlwaysClean /\ [Next]_vars
        => [Promise!Next]_Promise!vars
  BY PromiseStep
<1> QED
  BY <1>1, <1>2, TypeCorrect, MeasureInvariant, AlwaysCleanInvariant, PTL
  DEF Spec, KeepsPromise, Promise!Spec
=============================================================================
