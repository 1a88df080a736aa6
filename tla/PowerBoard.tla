----------------------------- MODULE PowerBoard -----------------------------
(***************************************************************************)
(* The power controller of the PowerHAT, as the manual describes it         *)
(* (rocpmd.1, "The Power Board State Machine"): a press of the button or a  *)
(* rising edge of OFF moves it on, from REQ_OFF to POWER_OFF, which cuts    *)
(* the power; only the button leads out of POWER_OFF.                       *)
(***************************************************************************)

VARIABLES
  board,      \* the state of the controller
  line        \* the level of OFF

powerVars == <<board, line>>

PowerBoardType ==
  /\ board \in {"POWER_OFF", "POWER_ON", "REQ_OFF"}
  /\ line \in {"LOW", "HIGH"}

PowerBoardInit ==
  /\ board = "POWER_OFF"
  /\ line = "LOW"

Advanced ==
  [POWER_OFF |-> "POWER_ON", POWER_ON |-> "REQ_OFF", REQ_OFF |-> "POWER_OFF"][board]

(* Without power the Pi no longer drives the line.                           *)
Leave(level) == line' = IF board' = "POWER_OFF" THEN "LOW" ELSE level

PressButton ==
  /\ board' = Advanced
  /\ Leave(line)

DriveOff(level) ==
  LET rises == line = "LOW" /\ level = "HIGH" /\ board # "POWER_OFF"
  IN  /\ board' = IF rises THEN Advanced ELSE board
      /\ Leave(level)

RequestsOff == board = "REQ_OFF"
=============================================================================
