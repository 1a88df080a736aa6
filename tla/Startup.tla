------------------------------ MODULE Startup -------------------------------
(***************************************************************************)
(* What main() does before it acts (rocpmd.cpp): the command line, the     *)
(* board, the configuration file (config.cpp), the pins (gpio.cpp); and what *)
(* a daemon later makes of the configuration it has loaded.  Each process    *)
(* may find other contents: -c names another file, or the file was edited.   *)
(*                                                                          *)
(* One process at a time is in main(), beside at most one daemon, which is   *)
(* not signalled meanwhile; and no process is started beside a daemon that   *)
(* has lost its lock file: module Instances has those races.                 *)
(***************************************************************************)
EXTENDS Integers, Sequences

CONSTANTS
  Roles,       \* the roles in the order gpio_init() and gpio_cleanup() take them
  LegalPin,    \* the pins validate_gpio_pin() lets pass
  Exportable,  \* the pins that sysfs can export
  Memory,      \* what uninitialized memory may hold
  Wiring,      \* the pin that each role has on the board
  MaxEntries,  \* how many entries GPIOS may have (40)
  Contents,    \* what a file may contain: the sections of its documents, in
               \* the order the parser yields them
  Options,     \* sets of options on a command line, "?" for any other
  Vendor, ProductId,  \* the expected names, as sequences
  Idents,      \* what the device tree may say for either
  MaxLevel,    \* the highest raw level
  None         \* no file, no pin, no entry in the device tree

RoleSet == {Roles[i] : i \in 1..Len(Roles)}
Sysfs == [Exportable -> {"none", "in", "out"}]

ASSUME StartupAssumption ==
  /\ Roles \in Seq(STRING) /\ Len(Roles) > 0
  /\ \A i, j \in 1..Len(Roles) : Roles[i] = Roles[j] => i = j
  /\ LegalPin \subseteq Int /\ Exportable \subseteq Int /\ Memory \subseteq Int
  /\ None \notin Int
  /\ "REQ_OFF_B" \in RoleSet
  /\ Wiring \in [RoleSet -> Exportable]
  /\ \A r, s \in RoleSet : Wiring[r] = Wiring[s] => r = s
  /\ \A text \in Contents : text \in Seq(
       [key : STRING, sequence : BOOLEAN, directory : BOOLEAN, port : Int,
        entries : Seq([pin : Int, role : STRING, fields : BOOLEAN]),
        delays : Seq(Int), log : BOOLEAN, map : Seq(Int)])
  /\ MaxLevel \in Nat /\ MaxEntries \in Nat

VARIABLES
  vendor, product,  \* the device tree's entries of the board
  step,        \* what the process in main() does next
  commands,    \* its --power-off, --battery-level, --battery-level-raw
  root,        \* geteuid() == 0
  text,        \* the configuration it reads ...
  n, e,        \* ... and the section and entry it has come to
  pins, map,   \* the configuration it has built
  k,           \* the role whose pin it initializes next
  serving,     \* a daemon runs, with the configuration ...
  dtext, dpins, dmap,  \* ... it read from this text
  listed,      \* the lock file names it
  direction,   \* of each pin that is exported
  pressed,     \* the board asserts REQ_OFF_B
  raw,         \* battery_level_raw, once it has ended the daemon
  halted,      \* the daemon has called shutdown
  lost         \* the pins exported when some process was killed

boardVars == <<vendor, product>>
confVars == <<text, pins, map>>
mainVars == <<step, commands, root, confVars, n, e, k>>
servedVars == <<serving, dtext, dpins, dmap, raw>>
daemonVars == <<servedVars, listed>>
worldVars == <<boardVars, pressed>>
vars == <<worldVars, mainVars, daemonVars, direction, halted, lost>>

-----------------------------------------------------------------------------
(* The command line and the board.                                           *)

(* is_board_installed(): the entry is there and readable, and begins with    *)
(* the expected name, whatever follows.                                      *)
Matches(ident, expected) ==
  /\ ident # None
  /\ Len(ident) >= Len(expected)
  /\ SubSeq(ident, 1, Len(expected)) = expected

IsBoardInstalled == Matches(vendor, Vendor) /\ Matches(product, ProductId)

Exit ==
  /\ step' = "none"
  /\ commands' = {} /\ root' = FALSE
  /\ text' = None /\ n' = 1 /\ e' = 1 /\ k' = 1
  /\ pins' = [r \in RoleSet |-> None] /\ map' = <<>>

(* Mutant: anybody's process goes on.                                        *)
MayGoOnAsUser(options, root_) ==
  "?" \notin options /\ IsBoardInstalled /\ "h" \notin options

(* cmdline_options() ends the process at an option it does not know; then    *)
(* main(), lines 428 to 458.                                                 *)
MayGoOn(options, root_) ==
  "?" \notin options /\ IsBoardInstalled /\ "h" \notin options /\ root_

(* ... and the configuration file, where it can be opened.                   *)
Start ==
  /\ step = "none" /\ (serving => listed)
  /\ \E options \in Options, root_ \in BOOLEAN, text_ \in Contents :
       /\ MayGoOn(options, root_)
       /\ step' = "load"
       /\ commands' = options \cap {"p", "l", "r"}
       /\ root' = root_
       /\ text' = text_
  /\ UNCHANGED <<worldVars, pins, map, n, e, k, daemonVars, direction, halted, lost>>

-----------------------------------------------------------------------------
(* config::config(), section by section, with its operators and validators.  *)

Sockets == {"websocket", "berkleysocket"}

ValidPin(pin) == pin \in LegalPin
ValidRole(role) == role \in RoleSet
ValidPort(port) == port \in 0..65535
ValidDelay(delay) == delay > 0

(* operator>>: a pin, a role, and the optional fields.                       *)
ValidGpio(gpio) == ValidPin(gpio.pin) /\ ValidRole(gpio.role) /\ gpio.fields

(* A port, and a directory for the websocket only.                           *)
ValidSocket(s) == ValidPort(s.port) /\ (s.key = "websocket" => s.directory)

(* Three delays and battery-level-log, each of which must be there.          *)
ValidReader(s) ==
  /\ Len(s.delays) = 3 /\ \A i \in 1..3 : ValidDelay(s.delays[i])
  /\ s.log

(* What the constructor asks of a section before it stores anything of it.   *)
(* A key that it does not know it ignores.                                   *)
ValidSection(s) ==
  /\ s.key \in {"GPIOS", "powermap", "battery-level-reader"} \cup Sockets => s.sequence
  /\ s.key = "GPIOS" => Len(s.entries) <= MaxEntries
  /\ s.key = "battery-level-reader" => ValidReader(s)
  /\ s.key \in Sockets => ValidSocket(s)

AtSection == step = "load" /\ n <= Len(text)

NextSection == n' = n + 1 /\ e' = 1

AtEntry == text[n].key = "GPIOS" /\ e <= Len(text[n].entries)

Load ==
  /\ AtSection /\ ValidSection(text[n])
  /\ UNCHANGED <<worldVars, step, commands, root, text, k, daemonVars, direction,
                 halted, lost>>

(* An entry overrides an earlier one of its role.                            *)
LoadGpio ==
  /\ Load /\ AtEntry
  /\ LET gpio == text[n].entries[e]
     IN  /\ ValidGpio(gpio)
         /\ pins' = [pins EXCEPT ![gpio.role] = gpio.pin]
  /\ e' = e + 1
  /\ UNCHANGED <<map, n>>

(* Mutant: a later map comes before an earlier one.                          *)
AppendedInFront(earlier, later) == later \o earlier

(* operator>>: push_back() puts a second map behind the first.               *)
Appended(earlier, later) == earlier \o later

LoadSection ==
  /\ Load /\ ~AtEntry
  /\ map' = IF text[n].key = "powermap" THEN Appended(map, text[n].map) ELSE map
  /\ NextSection
  /\ UNCHANGED pins

(* A runtime_error, of this code or of the yaml library, ends the process.   *)
Reject ==
  /\ AtSection
  /\ ~ValidSection(text[n]) \/ (AtEntry /\ ~ValidGpio(text[n].entries[e]))
  /\ Exit
  /\ UNCHANGED <<worldVars, daemonVars, direction, halted, lost>>

(* The configuration is accepted as it is: a role without an entry keeps     *)
(* what its memory held.  Then main(), lines 487 to 495.                     *)
Accept ==
  /\ step = "load" /\ n > Len(text)
  /\ \E f \in [{r \in RoleSet : pins[r] = None} -> Memory] :
       pins' = [r \in RoleSet |-> IF pins[r] = None THEN f[r] ELSE pins[r]]
  /\ step' = IF serving THEN "act" ELSE "init"
  /\ UNCHANGED <<worldVars, commands, root, text, map, n, e, k, daemonVars, direction,
                 halted, lost>>

-----------------------------------------------------------------------------
(* gpio_init() and gpio_cleanup().                                           *)

DirectionOf(role) == IF role \in {"OFF", "CS_B", "UD_B"} THEN "out" ELSE "in"

(* Mutant: the loop over the pins stops one short.                           *)
LastRoleButOne == k >= Len(Roles) - 1

(* Mutant: the loop over the pins goes on.                                   *)
LastRoleBeyond == k > Len(Roles)

LastRole == k = Len(Roles)

(* gpio_init_pin(), whose failure shows only in gpio_set_pin_direction():    *)
(* that ends gpio_init(), and main() does not look at its status.            *)
InitPin ==
  /\ step = "init"
  /\ LET pin == pins[Roles[k]]
     IN  /\ direction' = IF pin \in Exportable
                         THEN [direction EXCEPT ![pin] = DirectionOf(Roles[k])]
                         ELSE direction
         /\ IF pin \in Exportable /\ ~LastRole
            THEN k' = k + 1 /\ UNCHANGED step
            ELSE step' = "act" /\ UNCHANGED k
  /\ UNCHANGED <<worldVars, commands, root, confVars, n, e, daemonVars, halted, lost>>

(* Mutant: the last role's pin is left out.                                  *)
CleanedButOne(conf) ==
  [q \in Exportable |->
     IF \E i \in 1..(Len(Roles) - 1) : conf[Roles[i]] = q THEN "none" ELSE direction[q]]

Cleaned(conf) ==
  [q \in Exportable |-> IF \E r \in RoleSet : conf[r] = q THEN "none" ELSE direction[q]]

-----------------------------------------------------------------------------
(* The end of main().                                                        *)

(* A command that found no daemon cleans up (what it does: Instances).       *)
EndCommand ==
  /\ step = "act" /\ ~serving /\ commands # {}
  /\ Exit
  /\ direction' = Cleaned(pins)
  /\ UNCHANGED <<worldVars, daemonVars, halted, lost>>

BecomeDaemon ==
  /\ step = "act" /\ ~serving /\ commands = {}
  /\ Exit
  /\ serving' = TRUE /\ listed' = TRUE
  /\ dtext' = text /\ dpins' = pins /\ dmap' = map
  /\ UNCHANGED <<worldVars, raw, direction, halted, lost>>

(* run_daemon() finds the lock file locked, also after a command.            *)
TurnedAway ==
  /\ step = "act" /\ serving
  /\ Exit
  /\ UNCHANGED <<worldVars, daemonVars, direction, halted, lost>>

(* sig_handler(): g_conf is set once the constructor has returned.  Beside a *)
(* daemon too it unexports the pins and ~tdaemon() unlinks the lock file.    *)
Interrupt ==
  /\ step # "none"
  /\ Exit
  /\ direction' = IF step = "load" THEN direction ELSE Cleaned(pins)
  /\ listed' = FALSE
  /\ UNCHANGED <<worldVars, servedVars, halted, lost>>

Exported == {q \in Exportable : direction[q] # "none"}

Kill ==
  /\ step # "none"
  /\ Exit
  /\ lost' = lost \cup Exported
  /\ UNCHANGED <<worldVars, daemonVars, direction, halted>>

-----------------------------------------------------------------------------
(* The daemon.                                                               *)

EndDaemon ==
  /\ serving' = FALSE /\ listed' = FALSE
  /\ dtext' = None /\ dpins' = [r \in RoleSet |-> None] /\ dmap' = <<>>

Stop ==
  /\ serving /\ step = "none"
  /\ EndDaemon
  /\ direction' = Cleaned(dpins)
  /\ UNCHANGED <<worldVars, mainVars, raw, halted, lost>>

KillDaemon ==
  /\ serving /\ step = "none"
  /\ EndDaemon
  /\ lost' = lost \cup Exported
  /\ UNCHANGED <<worldVars, mainVars, raw, direction, halted>>

(* gpio_read_req_off(): a pin that is not exported reads as GPIO_ERROR, which *)
(* is not zero; one that is not the board's may read as anything.            *)
ReqOffRead ==
  LET pin == dpins["REQ_OFF_B"]
  IN  IF pin \notin Exportable \/ pin \notin Exported THEN {TRUE}
      ELSE IF pin = Wiring["REQ_OFF_B"] /\ direction[pin] = "in" THEN {pressed}
      ELSE BOOLEAN

(* Mutant: levels are counted from 1.                                        *)
MapBatteryLevelFromOne(level) ==
  IF level < 0 THEN {-1}
  ELSE IF level \in 1..Len(dmap) THEN {dmap[level]} ELSE Memory

(* map_battery_level(): powermap[i] does not check its index.                *)
MapBatteryLevel(level) ==
  IF level < 0 THEN {-1}
  ELSE IF level < Len(dmap) THEN {dmap[level + 1]} ELSE Memory

(* halt_system(), which leaves the pins as they are.                         *)
HaltSystem ==
  /\ serving
  /\ halted' = TRUE
  /\ EndDaemon
  /\ UNCHANGED <<worldVars, mainVars, direction, lost>>

HaltOnReqOff ==
  /\ TRUE \in ReqOffRead
  /\ HaltSystem
  /\ UNCHANGED raw

(* Any level, at any time; -1 while the wall supply is there.                *)
Measure ==
  /\ raw' \in -1..MaxLevel
  /\ 0 \in MapBatteryLevel(raw')
  /\ HaltSystem

-----------------------------------------------------------------------------
Press ==
  /\ pressed' = TRUE
  /\ UNCHANGED <<boardVars, mainVars, daemonVars, direction, halted, lost>>

-----------------------------------------------------------------------------
Init ==
  /\ vendor \in Idents /\ product \in Idents
  /\ step = "none" /\ commands = {} /\ root = FALSE
  /\ text = None /\ n = 1 /\ e = 1 /\ k = 1
  /\ pins = [r \in RoleSet |-> None] /\ map = <<>>
  /\ serving = FALSE /\ listed = FALSE
  /\ dtext = None /\ dpins = [r \in RoleSet |-> None] /\ dmap = <<>>
  /\ direction = [q \in Exportable |-> "none"]
  /\ pressed = FALSE /\ raw = -1 /\ halted = FALSE
  /\ lost = {}

Main ==
  \/ Start \/ LoadGpio \/ LoadSection \/ Reject \/ Accept \/ InitPin
  \/ EndCommand \/ BecomeDaemon \/ TurnedAway \/ Interrupt \/ Kill

Daemon == Stop \/ KillDaemon \/ HaltOnReqOff \/ Measure

(* After a shutdown nothing of this goes on.                                 *)
Next == ~halted /\ (Main \/ Daemon \/ Press)

Spec == Init /\ [][Next]_vars

-----------------------------------------------------------------------------
(* The type of every variable.                                               *)
ConfPins == [RoleSet -> Int \cup {None}]

WorldType ==
  /\ vendor \in Idents /\ product \in Idents
  /\ pressed \in BOOLEAN

MainType ==
  /\ step \in {"none", "load", "init", "act"}
  /\ commands \subseteq {"p", "l", "r"} /\ root \in BOOLEAN
  /\ text \in Contents \cup {None}
  /\ n \in Nat \ {0} /\ e \in Nat \ {0} /\ k \in 1..Len(Roles)
  /\ pins \in ConfPins /\ map \in Seq(Int)

DaemonType ==
  /\ serving \in BOOLEAN /\ listed \in BOOLEAN
  /\ dtext \in Contents \cup {None} /\ dpins \in ConfPins /\ dmap \in Seq(Int)
  /\ raw \in -1..MaxLevel

TypeOK ==
  /\ WorldType /\ MainType /\ DaemonType
  /\ direction \in Sysfs /\ halted \in BOOLEAN /\ lost \subseteq Exportable

(***************************************************************************)
(* rocpmd.1, GPIOS and powermap: a configuration that main() accepts holds, *)
(* for each role that the file has, the pin of its last entry in any of the *)
(* documents, and maps the levels by the first power map of the file.       *)
(***************************************************************************)
LastEntry(t, i, j) ==
  \A i2 \in 1..Len(t) : t[i2].key = "GPIOS" =>
    \A j2 \in 1..Len(t[i2].entries) :
      t[i2].entries[j2].role = t[i].entries[j].role => i2 < i \/ (i2 = i /\ j2 <= j)

FirstMap(t, i) ==
  t[i].key = "powermap" /\ \A i2 \in 1..(i - 1) : t[i2].key # "powermap"

LoadedAsWritten ==
  step \in {"init", "act"} =>
    \A i \in 1..Len(text) :
      /\ text[i].key = "GPIOS" =>
           \A j \in 1..Len(text[i].entries) :
             LastEntry(text, i, j) => pins[text[i].entries[j].role] = text[i].entries[j].pin
      /\ FirstMap(text, i) =>
           Len(map) >= Len(text[i].map) /\ SubSeq(map, 1, Len(text[i].map)) = text[i].map

(***************************************************************************)
(* tests of main() and config.cpp: no pin is touched but by root, on a      *)
(* board it knows, with a file of which no section and no entry is illegal, *)
(* wherever in the file it stands.                                          *)
(***************************************************************************)
ValidText(t) ==
  \A i \in 1..Len(t) :
    /\ ValidSection(t[i])
    /\ t[i].key = "GPIOS" =>
         \A j \in 1..Len(t[i].entries) : ValidGpio(t[i].entries[j])

OnlyAccepted ==
  [][direction' # direction =>
       /\ IsBoardInstalled
       /\ IF step # "none" THEN root /\ ValidText(text) ELSE ValidText(dtext)]_vars

(***************************************************************************)
(* gpio.cpp, the loop's pins: whenever a daemon runs whose configuration    *)
(* gives each role a pin of its own, each pin is exported with the role's   *)
(* direction, whatever configurations other processes, ended or killed,     *)
(* have loaded before and beside it; until a signal ends one of those:      *)
(* sig_handler() then takes its pins and its lock file.                     *)
(***************************************************************************)
Proper(conf) ==
  /\ \A r \in RoleSet : conf[r] \in Exportable
  /\ \A r, s \in RoleSet : conf[r] = conf[s] => r = s

PinsReady ==
  serving /\ listed /\ Proper(dpins) => \A r \in RoleSet : direction[dpins[r]] = DirectionOf(r)

(***************************************************************************)
(* gpio_cleanup(): when no process is left, no pin is left exported except  *)
(* what was exported when one was killed; not even by configurations with   *)
(* missing roles, shared pins, or pins that do not exist.                   *)
(***************************************************************************)
NothingLeft ==
  step = "none" /\ ~serving /\ ~halted => Exported \subseteq lost

(***************************************************************************)
(* README.md, "safe shutdown when the on/off button on the PowerHAT is      *)
(* pressed, or if the rocpmd daemon detects the battery is about to die": a *)
(* daemon whose file names the board's pins halts for no other reason but   *)
(* two: that the file's first power map has no entry for the level, since   *)
(* get_powermap_element_at() then reads other memory; and that a signal has *)
(* ended a process beside it, whose handler unexports its pins.  Files that *)
(* processes beside it have read are no reason.                             *)
(***************************************************************************)
EmptyBy(t, level) ==
  \E i \in 1..Len(t) :
    FirstMap(t, i) /\ level + 1 \in 1..Len(t[i].map) /\ t[i].map[level + 1] = 0

BeyondMap(t, level) ==
  level >= 0 /\ \A i \in 1..Len(t) : FirstMap(t, i) => level >= Len(t[i].map)

HaltJustified ==
  [][(~halted /\ halted' /\ \A r \in RoleSet : dpins[r] = Wiring[r])
       => pressed \/ EmptyBy(dtext, raw') \/ BeyondMap(dtext, raw') \/ ~listed]_vars

(***************************************************************************)
(* Why these hold: what the process in main() has got through so far, and   *)
(* what it has passed on to the daemon.                                     *)
(***************************************************************************)
GoesOn ==
  /\ step = "none" => n = 1 /\ e = 1 /\ k = 1 /\ map = <<>>
                      /\ pins = [r \in RoleSet |-> None]
  /\ step # "none" => IsBoardInstalled /\ root /\ text \in Contents
  /\ serving => IsBoardInstalled /\ dtext \in Contents
  /\ step = "load" => k = 1
  /\ step = "init" => ~serving

(* The sections and entries before the one it has come to are legal.         *)
Checked ==
  /\ step = "load" =>
       /\ n <= Len(text) + 1
       /\ \A i \in 1..Len(text) : i < n => ValidSection(text[i])
       /\ \A i \in 1..Len(text) : text[i].key = "GPIOS" =>
            \A j \in 1..Len(text[i].entries) :
              i < n \/ (i = n /\ j < e) => ValidGpio(text[i].entries[j])
  /\ step \in {"init", "act"} => ValidText(text)
  /\ serving => ValidText(dtext)

(* The power map begins with the first one read.                             *)
Begins(m, t, last) ==
  \A i \in 1..Len(t) : FirstMap(t, i) /\ i <= last =>
    /\ Len(t[i].map) <= Len(m)
    /\ \A q \in 1..Len(t[i].map) : m[q] = t[i].map[q]

Mapped ==
  /\ step = "load" =>
       /\ Begins(map, text, n - 1)
       /\ (\A i \in 1..Len(text) : i < n => text[i].key # "powermap") => map = <<>>
  /\ step \in {"init", "act"} => Begins(map, text, Len(text))
  /\ serving => Begins(dmap, dtext, Len(dtext))

(* The pin of a role is that of the last entry read.                         *)
LastEntryBefore(t, i, j, n_, e_) ==
  \A i2 \in 1..Len(t) : t[i2].key = "GPIOS" =>
    \A j2 \in 1..Len(t[i2].entries) :
      /\ t[i2].entries[j2].role = t[i].entries[j].role
      /\ i2 < n_ \/ (i2 = n_ /\ j2 < e_)
      => i2 < i \/ (i2 = i /\ j2 <= j)

Stored ==
  /\ step # "none" =>
       \A i \in 1..Len(text) : text[i].key = "GPIOS" =>
         \A j \in 1..Len(text[i].entries) :
           (i < n \/ (i = n /\ j < e)) /\ LastEntryBefore(text, i, j, n, e)
             => pins[text[i].entries[j].role] = text[i].entries[j].pin
  /\ step \in {"init", "act"} => n > Len(text)

(* The pins that gpio_init() has come to are exported, and who has exported  *)
(* them will clean them up.                                                  *)
Initialized ==
  /\ step = "init" /\ Proper(pins) =>
       \A i \in 1..(k - 1) : direction[pins[Roles[i]]] = DirectionOf(Roles[i])
  /\ step = "act" /\ ~serving /\ ~halted /\ Proper(pins) =>
       \A r \in RoleSet : direction[pins[r]] = DirectionOf(r)
  /\ PinsReady

Owned ==
  IF serving THEN {dpins[r] : r \in RoleSet}
  ELSE IF step \in {"init", "act"} THEN {pins[r] : r \in RoleSet} ELSE {}

Cleanable == ~halted => Exported \subseteq lost \cup Owned

StartupInv == GoesOn /\ Checked /\ Mapped /\ Stored /\ Initialized /\ Cleanable
=============================================================================
