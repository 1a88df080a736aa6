------------------------------ MODULE GpioPins ------------------------------
(***************************************************************************)
(* The pins the process exports through /sys/class/gpio (gpio.cpp).  They   *)
(* belong to the machine, not to a process: whoever unexports a pin takes   *)
(* it from every other process, whose reads and writes then fail with       *)
(* GPIO_ERROR because the pin's value file is gone.                         *)
(***************************************************************************)
EXTENDS Naturals, Sequences

CONSTANTS
  Pins,       \* the pins in the order gpio_init() and gpio_cleanup() take them
  Off,        \* the pin that drives the board's OFF input
  ReqOff      \* the pin that reads the board's REQ_OFF_B output

ASSUME PinsAssumption ==
  /\ Pins \in Seq(STRING)
  /\ \E i, j \in 1..Len(Pins) : Pins[i] = Off /\ Pins[j] = ReqOff

VARIABLE exported       \* the pins that have a directory under /sys/class/gpio

AllPins == {Pins[i] : i \in 1..Len(Pins)}

(* digitalRead() and digitalWrite() open the pin's value file.              *)
Usable(pin) == pin \in exported

(* gpio_init_pin(); exporting an exported pin changes nothing.              *)
ExportPin(i) == exported' = exported \cup {Pins[i]}

(* gpio_cleanup_pin()                                                       *)
UnexportPin(i) == exported' = exported \ {Pins[i]}

(* gpio_read_req_off() returns !value, or GPIO_ERROR (-2) when the pin is   *)
(* gone; the main loop only asks whether the result is non-zero.            *)
ReqOffRead(asserted) == asserted \/ ~Usable(ReqOff)
=============================================================================
