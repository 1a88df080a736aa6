----------------------------- MODULE Comparator -----------------------------
(***************************************************************************)
(* The board's battery comparator, as gpio_read_battery_level_raw() uses it *)
(* (external: rocpmd.1 describes the signals).  CS_B low opens the circuit  *)
(* and its falling edge latches the direction from UD_B; while it is open,  *)
(* each rising edge of UD_B moves the wiper one level, up to a rail.        *)
(* PGOOD_B reads high while the wiper is above the battery's trip level; a  *)
(* fuller battery has a lower trip level, -1 when no wiper position trips.  *)
(***************************************************************************)
EXTENDS Integers

CONSTANT MaxLevel       \* the highest wiper level; the board has 0..63

ASSUME MaxLevelAssumption == MaxLevel \in Nat \ {0}

VARIABLES
  ud,       \* level of UD_B
  cs,       \* level of CS_B
  dir,      \* the latched direction
  wiper,    \* the comparator level
  trip      \* the battery: the level at which PGOOD_B turns low

pinVars == <<ud, cs, dir, wiper>>

LOW == 0
HIGH == 1

ComparatorType ==
  /\ ud \in {LOW, HIGH}
  /\ cs \in {LOW, HIGH}
  /\ dir \in {"up", "down"}
  /\ wiper \in 0..MaxLevel
  /\ trip \in -1..MaxLevel

(* The level a faultless measurement would return for trip level t.         *)
Level(t) == IF t < 0 THEN 0 ELSE t

Moved(w, d) ==
  IF d = "up"
  THEN IF w < MaxLevel THEN w + 1 ELSE w
  ELSE IF w > 0 THEN w - 1 ELSE w

DriveUD(v) ==
  /\ ud' = v
  /\ wiper' = IF cs = LOW /\ ud = LOW /\ v = HIGH THEN Moved(wiper, dir) ELSE wiper
  /\ UNCHANGED <<cs, dir>>

DriveCS(v) ==
  /\ cs' = v
  /\ dir' = IF cs = HIGH /\ v = LOW
            THEN IF ud = HIGH THEN "up" ELSE "down"
            ELSE dir
  /\ UNCHANGED <<ud, wiper>>

Pgood == IF wiper > trip THEN HIGH ELSE LOW
=============================================================================
