--------------------------- MODULE StartupProofs ----------------------------
(***************************************************************************)
(* Proofs about module Startup, for any roles, pins and wiring, and for     *)
(* configuration files of any number of sections and entries.               *)
(***************************************************************************)
EXTENDS Startup, TLAPS

SectionType ==
  [key : STRING, sequence : BOOLEAN, directory : BOOLEAN, port : Int,
   entries : Seq([pin : Int, role : STRING, fields : BOOLEAN]),
   delays : Seq(Int), log : BOOLEAN, map : Seq(Int)]

LEMMA Texts == ASSUME NEW t \in Contents PROVE t \in Seq(SectionType)
BY StartupAssumption DEF SectionType

LEMMA Element ==
  ASSUME NEW S, NEW s \in Seq(S), NEW j \in 1..Len(s)
  PROVE  s[j] \in S
OBVIOUS

LEMMA Sections ==
  ASSUME NEW t \in Contents, NEW i \in 1..Len(t)
  PROVE  /\ t[i] \in SectionType
         /\ t[i].map \in Seq(Int)
         /\ Len(t[i].entries) \in Nat
         /\ \A j \in 1..Len(t[i].entries) : t[i].entries[j].pin \in Int
<1>1. t[i] \in SectionType
  BY Texts
<1>2. t[i].map \in Seq(Int)
  BY <1>1 DEF SectionType
<1>3. t[i].entries \in Seq([pin : Int, role : STRING, fields : BOOLEAN])
  BY <1>1 DEF SectionType
<1>4. ASSUME NEW j \in 1..Len(t[i].entries)
      PROVE  t[i].entries[j].pin \in Int
  <2>1. t[i].entries[j] \in [pin : Int, role : STRING, fields : BOOLEAN]
    BY <1>3, Element
  <2>2. QED
    BY <2>1
<1>5. Len(t[i].entries) \in Nat
  BY <1>3
<1>6. QED
  BY <1>1, <1>2, <1>4, <1>5

(* The roles are numbered from 1, and "REQ_OFF_B" is one of them.            *)
LEMMA RoleOf == ASSUME NEW i \in 1..Len(Roles) PROVE Roles[i] \in RoleSet
BY DEF RoleSet

LEMMA CleanedType ==
  ASSUME direction \in Sysfs, NEW conf
  PROVE  Cleaned(conf) \in Sysfs
BY DEF Cleaned, Sysfs

LEMMA NoPins == [r \in RoleSet |-> None] \in ConfPins
BY DEF ConfPins

LEMMA ExitType == ASSUME Exit PROVE MainType'
<1>1. Len(Roles) \in Nat /\ Len(Roles) > 0
  BY StartupAssumption
<1>2. 1 \in 1..Len(Roles) /\ 1 \in Nat \ {0}
  BY <1>1
<1>3. pins' \in ConfPins
  BY DEF Exit, ConfPins
<1>4. map' \in Seq(Int)
  BY DEF Exit
<1>5. QED
  BY <1>2, <1>3, <1>4 DEF Exit, MainType

LEMMA EndDaemonType ==
  ASSUME EndDaemon, raw' \in -1..MaxLevel
  PROVE  DaemonType'
<1>1. dpins' \in ConfPins
  BY NoPins DEF EndDaemon
<1>2. dmap' \in Seq(Int)
  BY DEF EndDaemon
<1>3. serving' \in BOOLEAN /\ listed' \in BOOLEAN /\ dtext' \in Contents \cup {None}
  BY DEF EndDaemon
<1>4. QED
  BY <1>1, <1>2, <1>3 DEF DaemonType

LEMMA Unmoved ==
  ASSUME TypeOK
  PROVE  /\ UNCHANGED worldVars => WorldType'
         /\ UNCHANGED mainVars => MainType'
         /\ UNCHANGED daemonVars => DaemonType'
         /\ UNCHANGED servedVars /\ listed' = FALSE => DaemonType'
<1>1. UNCHANGED worldVars => WorldType'
  BY DEF TypeOK, worldVars, boardVars, WorldType
<1>2. UNCHANGED mainVars => MainType'
  BY DEF TypeOK, mainVars, confVars, MainType
<1>3. UNCHANGED daemonVars => DaemonType'
  BY DEF TypeOK, daemonVars, servedVars, DaemonType
<1>4. UNCHANGED servedVars /\ listed' = FALSE => DaemonType'
  BY DEF TypeOK, servedVars, DaemonType
<1>5. QED
  BY <1>1, <1>2, <1>3, <1>4

LEMMA TypeInit == ASSUME Init PROVE TypeOK
<1>1. WorldType
  BY DEF Init, WorldType
<1>2. Len(Roles) \in Nat /\ Len(Roles) > 0 /\ MaxLevel \in Nat
  BY StartupAssumption
<1>3. MainType
  <2>1. pins \in ConfPins /\ map \in Seq(Int)
    BY NoPins DEF Init
  <2>2. /\ n \in Nat \ {0} /\ e \in Nat \ {0} /\ k \in 1..Len(Roles)
        /\ step \in {"none", "load", "init", "act"}
    BY <1>2 DEF Init
  <2>3. commands \subseteq {"p", "l", "r"} /\ root \in BOOLEAN /\ text \in Contents \cup {None}
    BY DEF Init
  <2>4. QED
    BY <2>1, <2>2, <2>3 DEF MainType
<1>4. DaemonType
  <2>1. dpins \in ConfPins /\ dmap \in Seq(Int)
    BY NoPins DEF Init
  <2>2. serving \in BOOLEAN /\ listed \in BOOLEAN /\ dtext \in Contents \cup {None}
    BY DEF Init
  <2>3. raw \in -1..MaxLevel
    BY <1>2 DEF Init
  <2>4. QED
    BY <2>1, <2>2, <2>3 DEF DaemonType
<1>5. direction \in Sysfs /\ halted \in BOOLEAN /\ lost \subseteq Exportable
  BY DEF Init, Sysfs
<1>6. QED
  BY <1>1, <1>3, <1>4, <1>5 DEF TypeOK

LEMMA ExportedType == Exported \subseteq Exportable
BY DEF Exported

(* What the constructor reads keeps the types; needs the section it is at.   *)
LEMMA LoadType ==
  ASSUME TypeOK, GoesOn, LoadGpio \/ LoadSection
  PROVE  MainType'
<1>1. /\ step = "load" /\ n \in 1..Len(text) /\ text \in Contents
      /\ UNCHANGED <<step, commands, root, text, k>>
  BY DEF LoadGpio, LoadSection, Load, AtSection, TypeOK, MainType, GoesOn
<1>2. n \in Nat \ {0} /\ e \in Nat \ {0} /\ pins \in ConfPins /\ map \in Seq(Int)
  BY DEF TypeOK, MainType
<1>3. CASE LoadGpio
  <2>1. e \in 1..Len(text[n].entries) /\ text[n].entries[e].role \in RoleSet
    <3>1. Len(text[n].entries) \in Nat
      BY <1>1, Sections
    <3>2. QED
      BY <1>2, <1>3, <3>1 DEF LoadGpio, AtEntry, ValidGpio, ValidRole
  <2>4. text[n].entries[e].pin \in Int
    BY <1>1, <2>1, Sections
  <2>2. pins' \in ConfPins
    BY <1>2, <1>3, <2>1, <2>4 DEF LoadGpio, ConfPins
  <2>3. n' = n /\ e' \in Nat \ {0} /\ map' = map
    BY <1>2, <1>3 DEF LoadGpio
  <2> QED
    BY <1>1, <1>2, <2>2, <2>3 DEF TypeOK, MainType
<1>4. CASE LoadSection
  <2>1. text[n].map \in Seq(Int)
    BY <1>1, Sections
  <2>2. map' \in Seq(Int)
    BY <1>2, <1>4, <2>1 DEF LoadSection, Appended
  <2>3. n' \in Nat \ {0} /\ e' \in Nat \ {0} /\ pins' = pins
    BY <1>2, <1>4 DEF LoadSection, NextSection
  <2> QED
    BY <1>1, <1>2, <2>2, <2>3 DEF TypeOK, MainType
<1>5. QED
  BY <1>3, <1>4

(* Whoever may be in main(), in the daemon and in the world besides.         *)
LEMMA TypeStep == ASSUME TypeOK, GoesOn, [Next]_vars PROVE TypeOK'
<1> USE DEF TypeOK
<1>1. CASE Start
  <2>1. MainType'
    BY <1>1 DEF Start, MainType
  <2>2. QED
    BY <1>1, <2>1, Unmoved DEF Start
<1>2. CASE LoadGpio \/ LoadSection
  BY <1>2, LoadType, Unmoved DEF LoadGpio, LoadSection, Load
<1>3. CASE Reject \/ TurnedAway
  BY <1>3, ExitType, Unmoved DEF Reject, TurnedAway
<1>4. CASE Accept
  <2>1. pins' \in ConfPins
    <3>1. PICK f \in [{r \in RoleSet : pins[r] = None} -> Memory] :
            pins' = [r \in RoleSet |-> IF pins[r] = None THEN f[r] ELSE pins[r]]
      BY <1>4 DEF Accept
    <3>2. Memory \subseteq Int
      BY StartupAssumption
    <3>3. \A r \in RoleSet : pins[r] \in Int \cup {None}
      BY DEF MainType, ConfPins
    <3>4. \A r \in RoleSet : pins'[r] \in Int \cup {None}
      BY <3>1, <3>2, <3>3
    <3>5. QED
      BY <3>1, <3>4 DEF ConfPins
  <2>2. MainType'
    BY <1>4, <2>1 DEF Accept, MainType
  <2>3. QED
    BY <1>4, <2>2, Unmoved DEF Accept
<1>5. CASE InitPin
  <2>1. direction' \in Sysfs
    BY <1>5 DEF InitPin, Sysfs, DirectionOf
  <2>2. k' \in 1..Len(Roles)
    <3>1. Len(Roles) \in Nat /\ k \in 1..Len(Roles)
      BY StartupAssumption DEF MainType
    <3>2. QED
      BY <1>5, <3>1 DEF InitPin, LastRole
  <2>3. MainType'
    BY <1>5, <2>2 DEF InitPin, MainType, confVars
  <2>4. QED
    BY <1>5, <2>1, <2>3, Unmoved DEF InitPin
<1>6. CASE EndCommand
  BY <1>6, ExitType, CleanedType, Unmoved DEF EndCommand
<1>7. CASE BecomeDaemon
  <2>1. DaemonType'
    BY <1>7 DEF BecomeDaemon, MainType, DaemonType
  <2>2. QED
    BY <1>7, <2>1, ExitType, Unmoved DEF BecomeDaemon
<1>8. CASE Interrupt
  BY <1>8, ExitType, CleanedType, Unmoved DEF Interrupt
<1>9. CASE Kill
  BY <1>9, ExitType, ExportedType, Unmoved DEF Kill
<1>10. CASE Stop
  BY <1>10, EndDaemonType, CleanedType, Unmoved DEF Stop, DaemonType
<1>11. CASE KillDaemon
  BY <1>11, EndDaemonType, ExportedType, Unmoved DEF KillDaemon, DaemonType
<1>12. CASE HaltOnReqOff
  BY <1>12, EndDaemonType, Unmoved DEF HaltOnReqOff, HaltSystem, DaemonType
<1>13. CASE Measure
  BY <1>13, EndDaemonType, Unmoved DEF Measure, HaltSystem
<1>14. CASE Press
  <2>1. WorldType'
    BY <1>14 DEF Press, WorldType, boardVars
  <2>2. QED
    BY <1>14, <2>1, Unmoved DEF Press
<1>15. CASE UNCHANGED vars
  BY <1>15, Unmoved DEF vars
<1>16. QED
  BY <1>1, <1>2, <1>3, <1>4, <1>5, <1>6, <1>7, <1>8, <1>9, <1>10, <1>11, <1>12,
     <1>13, <1>14, <1>15 DEF Next, Main, Daemon

-----------------------------------------------------------------------------
(* The steps that end the process in main(), and those that end the daemon.  *)
Ends == Reject \/ EndCommand \/ BecomeDaemon \/ TurnedAway \/ Interrupt \/ Kill

Falls == Stop \/ KillDaemon \/ HaltOnReqOff \/ Measure

LEMMA Cases ==
  ASSUME [Next]_vars
  PROVE  Start \/ LoadGpio \/ LoadSection \/ Accept \/ InitPin \/ Ends \/ Falls
           \/ Press \/ UNCHANGED vars
BY DEF Next, Main, Daemon, Ends, Falls

LEMMA BoardStays ==
  ASSUME [Next]_vars
  PROVE  UNCHANGED boardVars
<1>1. ASSUME Start \/ LoadGpio \/ LoadSection \/ Accept \/ InitPin \/ Press
      PROVE  UNCHANGED boardVars
  BY <1>1 DEF Start, LoadGpio, LoadSection, Load, Accept, InitPin, Press, worldVars
<1>2. ASSUME Ends \/ Falls
      PROVE  UNCHANGED boardVars
  BY <1>2 DEF Ends, Falls, Reject, EndCommand, BecomeDaemon, TurnedAway, Interrupt, Kill,
              Stop, KillDaemon, HaltOnReqOff, Measure, HaltSystem, worldVars
<1>3. QED
  BY <1>1, <1>2, Cases DEF vars, worldVars

(* An ending process leaves the daemon alone but for its lock file, or       *)
(* becomes it.                                                               *)
LEMMA EndsFacts ==
  ASSUME Ends
  PROVE  /\ Exit
         /\ halted' = halted
         /\ \/ BecomeDaemon
            \/ UNCHANGED servedVars
BY DEF Ends, Reject, EndCommand, BecomeDaemon, TurnedAway, Interrupt, Kill, daemonVars

(* An ending daemon leaves the process in main() alone.                      *)
LEMMA FallsFacts ==
  ASSUME Falls
  PROVE  EndDaemon /\ UNCHANGED mainVars
BY DEF Falls, Stop, KillDaemon, HaltOnReqOff, Measure, HaltSystem

(* The other steps leave the daemon alone.                                   *)
LEMMA OthersFacts ==
  ASSUME Start \/ LoadGpio \/ LoadSection \/ Accept \/ InitPin \/ Press \/ UNCHANGED vars
  PROVE  UNCHANGED daemonVars /\ UNCHANGED halted
BY DEF Start, LoadGpio, LoadSection, Load, Accept, InitPin, Press, vars

LEMMA GoesOnStep == ASSUME TypeOK, GoesOn, [Next]_vars PROVE GoesOn'
<1>0. IsBoardInstalled' = IsBoardInstalled
  BY BoardStays DEF boardVars, IsBoardInstalled, Matches
<1> USE DEF GoesOn
<1>1. CASE Start
  BY <1>0, <1>1 DEF Start, MayGoOn, daemonVars, servedVars
<1>2. CASE LoadGpio \/ LoadSection
  BY <1>0, <1>2 DEF LoadGpio, LoadSection, Load, AtSection, daemonVars, servedVars
<1>3. CASE Accept
  BY <1>0, <1>3 DEF Accept, daemonVars, servedVars
<1>4. CASE InitPin
  BY <1>0, <1>4 DEF InitPin, daemonVars, servedVars, confVars
<1>5. CASE Ends
  <2>1. CASE BecomeDaemon
    BY <1>0, <2>1 DEF BecomeDaemon, Exit
  <2>2. CASE UNCHANGED servedVars
    BY <1>0, <1>5, <2>2, EndsFacts DEF servedVars, Exit
  <2>3. QED
    BY <1>5, <2>1, <2>2, EndsFacts
<1>6. CASE Falls
  BY <1>0, <1>6, FallsFacts DEF mainVars, confVars, EndDaemon
<1>7. CASE Press
  BY <1>0, <1>7 DEF Press, mainVars, confVars, daemonVars, servedVars
<1>8. CASE UNCHANGED vars
  BY <1>0, <1>8 DEF vars, mainVars, confVars, daemonVars, servedVars
<1>9. QED
  BY <1>1, <1>2, <1>3, <1>4, <1>5, <1>6, <1>7, <1>8, Cases

-----------------------------------------------------------------------------
(* Where the constructor is in the text.                                     *)
LEMMA AtFacts ==
  ASSUME TypeOK, GoesOn, step = "load"
  PROVE  /\ text \in Contents /\ Len(text) \in Nat
         /\ n \in Nat \ {0} /\ e \in Nat \ {0} /\ k = 1
         /\ \A i \in 1..Len(text) : Len(text[i].entries) \in Nat /\ Len(text[i].map) \in Nat
<1>1. text \in Contents /\ k = 1
  BY DEF GoesOn
<1>2. Len(text) \in Nat
  BY <1>1, Texts
<1>3. ASSUME NEW i \in 1..Len(text)
      PROVE  Len(text[i].entries) \in Nat /\ Len(text[i].map) \in Nat
  BY <1>1, Sections
<1>4. QED
  BY <1>1, <1>2, <1>3 DEF TypeOK, MainType

LEMMA LoadFacts ==
  ASSUME LoadGpio \/ LoadSection
  PROVE  /\ step = "load" /\ step' = "load" /\ text' = text /\ k' = k
         /\ n <= Len(text) /\ ValidSection(text[n])
BY DEF LoadGpio, LoadSection, Load, AtSection

LEMMA CheckedStep ==
  ASSUME TypeOK, GoesOn, Checked, [Next]_vars
  PROVE  Checked'
<1>1. CASE Start
  <2>1. n' = 1 /\ e' = 1 /\ step' = "load" /\ text' \in Contents
    BY <1>1 DEF Start, GoesOn
  <2>2. Len(text') \in Nat
    BY <2>1, Texts
  <2>3. \A i \in 1..Len(text') : Len(text'[i].entries) \in Nat
    BY <2>1, Sections
  <2>4. (serving => ValidText(dtext))'
    BY <1>1, OthersFacts DEF Checked, daemonVars, servedVars, ValidText, ValidSection
  <2>5. QED
    BY <2>1, <2>2, <2>3, <2>4 DEF Checked
<1>2. CASE LoadGpio
  <2>1. n' = n /\ e' = e + 1 /\ ValidGpio(text[n].entries[e])
    BY <1>2 DEF LoadGpio
  <2>2. \A i \in 1..Len(text) : text[i].key = "GPIOS" =>
          \A j \in 1..Len(text[i].entries) :
            i < n' \/ (i = n' /\ j < e') => ValidGpio(text[i].entries[j])
    BY <1>2, <2>1, AtFacts, LoadFacts DEF Checked
  <2>3. (serving => ValidText(dtext))'
    BY <1>2, OthersFacts DEF Checked, daemonVars, servedVars, ValidText, ValidSection
  <2>4. QED
    BY <1>2, <2>1, <2>2, <2>3, LoadFacts DEF Checked, ValidSection, ValidGpio
<1>3. CASE LoadSection
  <2>1. n' = n + 1 /\ e' = 1 /\ ~AtEntry
    BY <1>3 DEF LoadSection, NextSection
  <2>2. \A i \in 1..Len(text) : text[i].key = "GPIOS" =>
          \A j \in 1..Len(text[i].entries) :
            i < n' \/ (i = n' /\ j < e') => ValidGpio(text[i].entries[j])
    <3>1. SUFFICES ASSUME NEW i \in 1..Len(text), text[i].key = "GPIOS",
                          NEW j \in 1..Len(text[i].entries),
                          i < n' \/ (i = n' /\ j < e')
                   PROVE  ValidGpio(text[i].entries[j])
      OBVIOUS
    <3>2. step = "load" /\ n \in Nat /\ i \in Nat /\ j \in Nat
      BY <1>3, AtFacts, LoadFacts
    <3>3. i < n \/ i = n
      BY <2>1, <3>1, <3>2
    <3>4. CASE i < n
      BY <3>1, <3>2, <3>4 DEF Checked
    <3>5. CASE i = n
      <4>1. e > Len(text[i].entries)
        BY <2>1, <3>1, <3>2, <3>5, AtFacts DEF AtEntry
      <4>2. j < e
        BY <3>1, <3>2, <4>1, AtFacts
      <4>3. QED
        BY <3>1, <3>2, <3>5, <4>2 DEF Checked
    <3>6. QED
      BY <3>3, <3>4, <3>5
  <2>3. \A i \in 1..Len(text) : i < n' => ValidSection(text[i])
    BY <1>3, <2>1, AtFacts, LoadFacts DEF Checked
  <2>4. n' <= Len(text) + 1
    BY <1>3, <2>1, AtFacts, LoadFacts
  <2>5. (serving => ValidText(dtext))'
    BY <1>3, OthersFacts DEF Checked, daemonVars, servedVars, ValidText, ValidSection
  <2>6. QED
    BY <1>3, <2>2, <2>3, <2>4, <2>5, LoadFacts DEF Checked, ValidSection, ValidGpio
<1>4. CASE Accept
  <2>1. step = "load" /\ n > Len(text) /\ text' = text /\ step' \in {"init", "act"}
    BY <1>4 DEF Accept
  <2>2. ValidText(text)
    <3>1. ASSUME NEW i \in 1..Len(text)
          PROVE  i < n
      BY <2>1, AtFacts
    <3>2. QED
      BY <2>1, <3>1 DEF Checked, ValidText
  <2>3. (serving => ValidText(dtext))'
    BY <1>4, OthersFacts DEF Checked, daemonVars, servedVars, ValidText, ValidSection
  <2>4. QED
    BY <2>1, <2>2, <2>3 DEF Checked, ValidText, ValidSection, ValidGpio
<1>5. CASE InitPin
  <2>1. step = "init" /\ text' = text /\ step' \in {"init", "act"}
    BY <1>5 DEF InitPin, confVars
  <2>2. (serving => ValidText(dtext))'
    BY <1>5, OthersFacts DEF Checked, daemonVars, servedVars, ValidText, ValidSection
  <2>3. QED
    BY <2>1, <2>2 DEF Checked, ValidText, ValidSection, ValidGpio
<1>6. CASE Ends
  <2>1. step' = "none"
    BY <1>6, EndsFacts DEF Exit
  <2>2. CASE BecomeDaemon
    BY <2>1, <2>2 DEF BecomeDaemon, Checked, ValidText, ValidSection
  <2>3. CASE UNCHANGED servedVars
    BY <2>1, <2>3 DEF Checked, servedVars, ValidText, ValidSection
  <2>4. QED
    BY <1>6, <2>2, <2>3, EndsFacts
<1>7. CASE Falls
  BY <1>7, FallsFacts DEF EndDaemon, mainVars, confVars, Checked, ValidText, ValidSection
<1>8. CASE Press \/ UNCHANGED vars
  <2>1. UNCHANGED mainVars /\ UNCHANGED daemonVars
    BY <1>8 DEF Press, vars
  <2>2. QED
    BY <2>1 DEF mainVars, confVars, daemonVars, servedVars, Checked, ValidText, ValidSection
<1>9. QED
  BY <1>1, <1>2, <1>3, <1>4, <1>5, <1>6, <1>7, <1>8, Cases

-----------------------------------------------------------------------------
(* Appending leaves what is there where it is.                               *)
LEMMA AppendedMap ==
  ASSUME NEW a \in Seq(Int), NEW b \in Seq(Int)
  PROVE  /\ Appended(a, b) \in Seq(Int)
         /\ Len(Appended(a, b)) = Len(a) + Len(b)
         /\ \A q \in 1..Len(a) : Appended(a, b)[q] = a[q]
         /\ a = <<>> => Appended(a, b) = b
<1>1. /\ Appended(a, b) \in Seq(Int)
      /\ Len(Appended(a, b)) = Len(a) + Len(b)
  BY DEF Appended
<1>2. \A q \in 1..Len(a) : Appended(a, b)[q] = a[q]
  BY DEF Appended
<1>3. ASSUME a = <<>>
      PROVE  Appended(a, b) = b
  BY <1>3 DEF Appended
<1>4. QED
  BY <1>1, <1>2, <1>3

LEMMA BeginsFirst ==
  ASSUME NEW t \in Contents, NEW m
  PROVE  Begins(m, t, 0)
<1>1. Len(t) \in Nat
  BY Texts
<1>2. QED
  BY <1>1 DEF Begins

(* The map after one more section.                                           *)
LEMMA BeginsNext ==
  ASSUME NEW t \in Contents, NEW m \in Seq(Int), NEW c \in 1..Len(t), NEW m2,
         Begins(m, t, c - 1),
         (\A i \in 1..Len(t) : i < c => t[i].key # "powermap") => m = <<>>,
         m2 = IF t[c].key = "powermap" THEN Appended(m, t[c].map) ELSE m
  PROVE  /\ Begins(m2, t, c)
         /\ (\A i \in 1..Len(t) : i < c + 1 => t[i].key # "powermap") => m2 = <<>>
<1>0. Len(t) \in Nat /\ t[c].map \in Seq(Int)
  BY Texts, Sections
<1>1. ASSUME NEW i \in 1..Len(t), FirstMap(t, i), i <= c
      PROVE  /\ Len(t[i].map) <= Len(m2)
             /\ \A q \in 1..Len(t[i].map) : m2[q] = t[i].map[q]
  <2>0. t[i].map \in Seq(Int) /\ Len(t[i].map) \in Nat /\ Len(m) \in Nat
        /\ Len(t[c].map) \in Nat
    BY <1>0, Sections
  <2>1. CASE i < c
    <3>1. Len(t[i].map) <= Len(m) /\ \A q \in 1..Len(t[i].map) : m[q] = t[i].map[q]
      BY <1>0, <1>1, <2>1 DEF Begins
    <3>2. Len(m) <= Len(m2) /\ \A q \in 1..Len(m) : m2[q] = m[q]
      <4>1. CASE t[c].key = "powermap"
        <5>1. m2 = Appended(m, t[c].map)
          BY <4>1
        <5>2. Len(m2) = Len(m) + Len(t[c].map)
          BY <1>0, <5>1 DEF Appended
        <5>3. Len(m) <= Len(m2)
          BY <2>0, <5>2
        <5>4. \A q \in 1..Len(m) : m2[q] = m[q]
          BY <1>0, <5>1 DEF Appended
        <5>5. QED
          BY <5>3, <5>4
      <4>2. CASE t[c].key # "powermap"
        <5>1. m2 = m
          BY <4>2
        <5>2. QED
          BY <2>0, <5>1
      <4>3. QED
        BY <4>1, <4>2
    <3>3. m2 \in Seq(Int)
      BY <1>0, AppendedMap
    <3>4. Len(t[i].map) <= Len(m2)
      BY <2>0, <3>1, <3>2, <3>3
    <3>5. ASSUME NEW q \in 1..Len(t[i].map)
          PROVE  m2[q] = t[i].map[q]
      <4>1. q \in 1..Len(m)
        BY <2>0, <3>1
      <4>2. QED
        BY <3>1, <3>2, <4>1
    <3>6. QED
      BY <3>4, <3>5
  <2>2. CASE i = c
    <3>1. t[c].key = "powermap" /\ \A i2 \in 1..Len(t) : i2 < c => t[i2].key # "powermap"
      BY <1>0, <1>1, <2>2 DEF FirstMap
    <3>2. m2 = t[c].map
      BY <1>0, <3>1, AppendedMap
    <3>3. QED
      BY <2>0, <2>2, <3>2
  <2>3. QED
    BY <1>0, <1>1, <2>1, <2>2
<1>2. Begins(m2, t, c)
  BY <1>1 DEF Begins
<1>3. ASSUME \A i \in 1..Len(t) : i < c + 1 => t[i].key # "powermap"
      PROVE  m2 = <<>>
  BY <1>0, <1>3
<1>4. QED
  BY <1>2, <1>3

LEMMA MappedStep ==
  ASSUME TypeOK, GoesOn, Checked, Mapped, [Next]_vars
  PROVE  Mapped'
<1>00. ASSUME UNCHANGED servedVars
       PROVE  (serving => Begins(dmap, dtext, Len(dtext)))'
  BY <1>00 DEF Mapped, servedVars, Begins, FirstMap
<1>0. ASSUME UNCHANGED daemonVars
      PROVE  (serving => Begins(dmap, dtext, Len(dtext)))'
  BY <1>0, <1>00 DEF daemonVars
<1>1. CASE Start
  <2>1. n' = 1 /\ map' = <<>> /\ step' = "load" /\ text' \in Contents
    BY <1>1 DEF Start, GoesOn
  <2>2. Begins(map', text', 0)
    BY <2>1, BeginsFirst
  <2>3. QED
    BY <1>0, <1>1, <2>1, <2>2, OthersFacts DEF Mapped
<1>2. CASE LoadGpio
  <2>1. n' = n /\ map' = map /\ text' = text /\ step = "load" /\ step' = "load"
    BY <1>2, LoadFacts DEF LoadGpio
  <2>2. Begins(map', text', n' - 1)
    BY <2>1 DEF Mapped
  <2>3. QED
    BY <1>0, <1>2, <2>1, <2>2, OthersFacts DEF Mapped
<1>3. CASE LoadSection
  <2>1. /\ n' = n + 1 /\ text' = text /\ step = "load" /\ step' = "load"
        /\ n \in 1..Len(text) /\ text \in Contents /\ map \in Seq(Int)
        /\ map' = IF text[n].key = "powermap" THEN Appended(map, text[n].map) ELSE map
    BY <1>3, LoadFacts, AtFacts DEF LoadSection, NextSection, TypeOK, MainType
  <2>2. /\ Begins(map', text, n)
        /\ (\A i \in 1..Len(text) : i < n + 1 => text[i].key # "powermap") => map' = <<>>
    BY <2>1, BeginsNext DEF Mapped
  <2>3. n' - 1 = n
    BY <2>1, AtFacts
  <2>4. QED
    BY <1>0, <1>3, <2>1, <2>2, <2>3, OthersFacts DEF Mapped
<1>4. CASE Accept
  <2>1. step = "load" /\ n > Len(text) /\ text' = text /\ map' = map
        /\ step' \in {"init", "act"}
    BY <1>4 DEF Accept
  <2>2. n - 1 = Len(text)
    BY <2>1, AtFacts DEF Checked
  <2>3. Begins(map', text', Len(text'))
    BY <2>1, <2>2 DEF Mapped
  <2>4. QED
    BY <1>0, <1>4, <2>1, <2>3, OthersFacts DEF Mapped
<1>5. CASE InitPin
  <2>1. step = "init" /\ text' = text /\ map' = map /\ step' \in {"init", "act"}
    BY <1>5 DEF InitPin, confVars
  <2>2. Begins(map', text', Len(text'))
    BY <2>1 DEF Mapped
  <2>3. QED
    BY <1>0, <1>5, <2>1, <2>2, OthersFacts DEF Mapped
<1>6. CASE Ends
  <2>1. step' = "none"
    BY <1>6, EndsFacts DEF Exit
  <2>2. CASE BecomeDaemon
    <3>1. step = "act" /\ dmap' = map /\ dtext' = text
      BY <2>2 DEF BecomeDaemon
    <3>2. Begins(dmap', dtext', Len(dtext'))
      BY <3>1 DEF Mapped
    <3>3. QED
      BY <2>1, <3>2 DEF Mapped
  <2>3. CASE UNCHANGED servedVars
    BY <1>00, <2>1, <2>3 DEF Mapped
  <2>4. QED
    BY <1>6, <2>2, <2>3, EndsFacts
<1>7. CASE Falls
  <2>1. UNCHANGED mainVars /\ serving' = FALSE
    BY <1>7, FallsFacts DEF EndDaemon
  <2>2. QED
    BY <2>1 DEF Mapped, mainVars, confVars, Begins, FirstMap
<1>8. CASE Press \/ UNCHANGED vars
  <2>1. UNCHANGED mainVars /\ UNCHANGED daemonVars
    BY <1>8 DEF Press, vars
  <2>2. QED
    BY <1>0, <2>1 DEF Mapped, mainVars, confVars, Begins, FirstMap
<1>9. QED
  BY <1>1, <1>2, <1>3, <1>4, <1>5, <1>6, <1>7, <1>8, Cases

-----------------------------------------------------------------------------
(* A pin in /sys is another role's where each role has a pin of its own.     *)
LEMMA OtherPin ==
  ASSUME NEW i \in 1..Len(Roles), NEW j \in 1..Len(Roles), i # j, Proper(pins)
  PROVE  pins[Roles[i]] # pins[Roles[j]]
<1>1. Roles[i] \in RoleSet /\ Roles[j] \in RoleSet /\ Roles[i] # Roles[j]
  BY StartupAssumption, RoleOf
<1>2. QED
  BY <1>1 DEF Proper

(* One more pin is initialized, and those before it stay so.                 *)
LEMMA InitPinFacts ==
  ASSUME TypeOK, InitPin, Proper(pins), Initialized
  PROVE  /\ \A i \in 1..k : direction'[pins[Roles[i]]] = DirectionOf(Roles[i])
         /\ step' = "init" => k' = k + 1
         /\ step' = "act" => k = Len(Roles)
<1>0. /\ Len(Roles) \in Nat /\ k \in 1..Len(Roles) /\ direction \in Sysfs
      /\ step = "init"
  BY StartupAssumption DEF TypeOK, MainType, InitPin
<1>1. pins[Roles[k]] \in Exportable
  BY <1>0, RoleOf DEF Proper
<1>2. direction' = [direction EXCEPT ![pins[Roles[k]]] = DirectionOf(Roles[k])]
  BY <1>1 DEF InitPin
<1>3. ASSUME NEW i \in 1..k
      PROVE  direction'[pins[Roles[i]]] = DirectionOf(Roles[i])
  <2>1. i \in 1..Len(Roles)
    BY <1>0
  <2>2. pins[Roles[i]] \in Exportable
    BY <2>1, RoleOf DEF Proper
  <2>3. CASE i = k
    BY <1>0, <1>1, <1>2, <2>3 DEF Sysfs
  <2>4. CASE i # k
    <3>1. direction[pins[Roles[i]]] = DirectionOf(Roles[i])
      BY <1>0, <2>4 DEF Initialized
    <3>2. pins[Roles[i]] # pins[Roles[k]]
      BY <1>0, <2>1, <2>4, OtherPin
    <3>3. QED
      BY <1>0, <1>2, <2>2, <3>1, <3>2 DEF Sysfs
  <2>5. QED
    BY <2>3, <2>4
<1>4. step' = "init" => k' = k + 1
  BY <1>1 DEF InitPin
<1>5. step' = "act" => k = Len(Roles)
  BY <1>0, <1>1 DEF InitPin, LastRole
<1>6. QED
  BY <1>3, <1>4, <1>5

LEMMA EachRole ==
  ASSUME NEW r \in RoleSet
  PROVE  \E i \in 1..Len(Roles) : Roles[i] = r
BY DEF RoleSet

LEMMA InitializedStep ==
  ASSUME TypeOK, GoesOn, Initialized, [Next]_vars
  PROVE  Initialized'
<1>0. ASSUME UNCHANGED daemonVars, UNCHANGED direction
      PROVE  PinsReady'
  BY <1>0 DEF Initialized, PinsReady, daemonVars, servedVars, Proper
<1>1. CASE Start
  <2>1. step' = "load" /\ UNCHANGED daemonVars /\ UNCHANGED direction
    BY <1>1 DEF Start
  <2>2. QED
    BY <1>0, <2>1 DEF Initialized
<1>2. CASE LoadGpio \/ LoadSection
  <2>1. step' = "load" /\ UNCHANGED daemonVars /\ UNCHANGED direction
    BY <1>2, LoadFacts DEF LoadGpio, LoadSection, Load
  <2>2. QED
    BY <1>0, <2>1 DEF Initialized
<1>3. CASE Accept
  <2>1. UNCHANGED daemonVars /\ UNCHANGED direction /\ k' = k /\ step = "load"
    BY <1>3 DEF Accept
  <2>2. k' = 1 /\ (step' = "init" \/ (step' = "act" /\ serving'))
    BY <1>3, <2>1 DEF Accept, GoesOn, daemonVars, servedVars
  <2>3. QED
    BY <1>0, <2>1, <2>2 DEF Initialized
<1>4. CASE InitPin
  <2>1. /\ UNCHANGED daemonVars /\ ~serving /\ pins' = pins
        /\ step = "init" /\ step' \in {"init", "act"}
    BY <1>4 DEF InitPin, confVars, GoesOn
  <2>2. PinsReady'
    BY <2>1 DEF PinsReady, daemonVars, servedVars
  <2>3. CASE ~Proper(pins)
    BY <2>1, <2>2, <2>3 DEF Initialized, Proper
  <2>4. CASE Proper(pins)
    <3>1. k \in Nat
      BY DEF TypeOK, MainType
    <3>2. CASE step' = "init"
      <4>1. \A i \in 1..(k' - 1) : direction'[pins'[Roles[i]]] = DirectionOf(Roles[i])
        BY <1>4, <2>1, <2>4, <3>1, <3>2, InitPinFacts
      <4>2. QED
        BY <2>2, <3>2, <4>1 DEF Initialized
    <3>3. CASE step' = "act"
      <4>1. \A i \in 1..Len(Roles) : direction'[pins'[Roles[i]]] = DirectionOf(Roles[i])
        BY <1>4, <2>1, <2>4, <3>3, InitPinFacts
      <4>2. \A r \in RoleSet : direction'[pins'[r]] = DirectionOf(r)
        BY <4>1, EachRole
      <4>3. QED
        BY <2>2, <3>3, <4>2 DEF Initialized
    <3>4. QED
      BY <2>1, <3>2, <3>3
  <2>5. QED
    BY <2>3, <2>4
<1>5. CASE Ends
  <2>1. step' = "none"
    BY <1>5, EndsFacts DEF Exit
  <2>2. CASE BecomeDaemon
    <3>1. step = "act" /\ ~serving /\ UNCHANGED direction /\ dpins' = pins
      BY <2>2 DEF BecomeDaemon
    <3>2. ~halted
      BY <2>1, <3>1 DEF Next, vars, mainVars
    <3>3. PinsReady'
      BY <3>1, <3>2 DEF PinsReady, Initialized, Proper
    <3>4. QED
      BY <2>1, <3>3 DEF Initialized
  <2>3. CASE UNCHANGED servedVars
    <3>1. CASE serving /\ listed'
      <4>1. ~EndCommand /\ ~Interrupt
        BY <3>1 DEF EndCommand, Interrupt
      <4>2. ~BecomeDaemon
        BY <3>1 DEF BecomeDaemon
      <4>3. UNCHANGED direction /\ UNCHANGED daemonVars
        BY <1>5, <4>1, <4>2 DEF Ends, Reject, TurnedAway, Kill
      <4>4. QED
        BY <1>0, <2>1, <4>3 DEF Initialized
    <3>2. CASE ~serving \/ ~listed'
      BY <2>1, <2>3, <3>2 DEF Initialized, PinsReady, servedVars
    <3>3. QED
      BY <3>1, <3>2
  <2>4. QED
    BY <1>5, <2>2, <2>3, EndsFacts
<1>6. CASE Falls
  <2>1. UNCHANGED mainVars /\ serving' = FALSE /\ serving
    BY <1>6, FallsFacts DEF EndDaemon, Falls, Stop, KillDaemon, HaltOnReqOff, Measure,
                            HaltSystem
  <2>2. step # "init"
    BY <2>1 DEF GoesOn
  <2>3. step = "none" \/ halted'
    BY <1>6 DEF Falls, Stop, KillDaemon, HaltOnReqOff, Measure, HaltSystem
  <2>4. QED
    BY <2>1, <2>2, <2>3 DEF Initialized, PinsReady, mainVars, confVars
<1>7. CASE Press \/ UNCHANGED vars
  <2>1. /\ UNCHANGED mainVars /\ UNCHANGED daemonVars /\ UNCHANGED direction
        /\ UNCHANGED halted
    BY <1>7 DEF Press, vars
  <2>2. PinsReady'
    BY <1>0, <2>1
  <2>3. QED
    BY <2>1, <2>2 DEF Initialized, mainVars, confVars, daemonVars, servedVars, Proper
<1>8. QED
  BY <1>1, <1>2, <1>3, <1>4, <1>5, <1>6, <1>7, Cases

-----------------------------------------------------------------------------
(* Whoever exports a pin, the process that goes on can clean it up.          *)
LEMMA CleanedFacts ==
  ASSUME NEW conf, direction' = Cleaned(conf)
  PROVE  Exported' \subseteq Exported \ {conf[r] : r \in RoleSet}
BY DEF Cleaned, Exported

LEMMA ExportedStays == ASSUME UNCHANGED direction PROVE Exported' = Exported
BY DEF Exported

LEMMA CleanableStep ==
  ASSUME TypeOK, GoesOn, Cleanable, [Next]_vars
  PROVE  Cleanable'
<1>1. CASE Start \/ LoadGpio \/ LoadSection
  <2>1. /\ step \in {"none", "load"} /\ step' = "load" /\ UNCHANGED daemonVars
        /\ UNCHANGED direction /\ UNCHANGED halted /\ UNCHANGED lost
    BY <1>1, LoadFacts DEF Start, LoadGpio, LoadSection, Load
  <2>2. QED
    BY <2>1, ExportedStays DEF Cleanable, Owned, daemonVars, servedVars
<1>2. CASE Accept
  <2>1. /\ step = "load" /\ UNCHANGED daemonVars
        /\ UNCHANGED direction /\ UNCHANGED halted /\ UNCHANGED lost
    BY <1>2 DEF Accept
  <2>2. Owned \subseteq Owned'
    BY <2>1 DEF Owned, daemonVars, servedVars
  <2>3. QED
    BY <2>1, <2>2, ExportedStays DEF Cleanable
<1>3. CASE InitPin
  <2>1. /\ step = "init" /\ step' \in {"init", "act"} /\ ~serving /\ ~serving'
        /\ pins' = pins /\ UNCHANGED halted /\ UNCHANGED lost
    BY <1>3 DEF InitPin, GoesOn, daemonVars, servedVars, confVars
  <2>2. Owned' = Owned /\ Owned = {pins[r] : r \in RoleSet}
    BY <2>1 DEF Owned
  <2>3. Exported' \subseteq Exported \cup {pins[Roles[k]]}
    BY <1>3 DEF InitPin, Exported
  <2>4. pins[Roles[k]] \in Owned
    BY <2>2, RoleOf DEF TypeOK, MainType
  <2>5. QED
    BY <2>1, <2>2, <2>3, <2>4 DEF Cleanable
<1>4. CASE Ends
  <2>1. step' = "none" /\ halted' = halted
    BY <1>4, EndsFacts DEF Exit
  <2>2. CASE BecomeDaemon
    <3>1. /\ step = "act" /\ ~serving /\ serving' /\ dpins' = pins
          /\ UNCHANGED direction /\ UNCHANGED lost
      BY <2>2 DEF BecomeDaemon
    <3>2. Owned' = Owned
      BY <3>1 DEF Owned
    <3>3. QED
      BY <2>1, <3>1, <3>2, ExportedStays DEF Cleanable
  <2>3. CASE Reject \/ TurnedAway
    <3>1. /\ UNCHANGED daemonVars /\ UNCHANGED direction /\ UNCHANGED lost
          /\ serving \/ step = "load"
      BY <2>3 DEF Reject, TurnedAway, AtSection
    <3>2. Owned' = Owned
      BY <2>1, <3>1 DEF Owned, daemonVars, servedVars
    <3>3. QED
      BY <2>1, <3>1, <3>2, ExportedStays DEF Cleanable
  <2>4. CASE EndCommand \/ Interrupt
    <3>1. UNCHANGED lost /\ UNCHANGED servedVars
      BY <2>4 DEF EndCommand, Interrupt, daemonVars
    <3>2. CASE step \in {"none", "load"}
      <4>1. UNCHANGED direction
        BY <2>4, <3>2 DEF EndCommand, Interrupt
      <4>2. QED
        BY <2>1, <3>1, <3>2, <4>1, ExportedStays DEF Cleanable, Owned, servedVars
    <3>3. CASE step \in {"init", "act"}
      <4>1. direction' = Cleaned(pins)
        BY <2>4, <3>3 DEF EndCommand, Interrupt
      <4>2. Exported' \subseteq Exported \ {pins[r] : r \in RoleSet}
        BY <4>1, CleanedFacts
      <4>3. QED
        BY <2>1, <3>1, <3>3, <4>2 DEF Cleanable, Owned, servedVars
    <3>4. QED
      BY <3>2, <3>3 DEF TypeOK, MainType
  <2>5. CASE Kill
    <3>1. lost' = lost \cup Exported /\ UNCHANGED direction
      BY <2>5 DEF Kill
    <3>2. QED
      BY <3>1, ExportedStays DEF Cleanable
  <2>6. QED
    BY <1>4, <2>2, <2>3, <2>4, <2>5 DEF Ends
<1>5. CASE Falls
  <2>1. UNCHANGED mainVars
    BY <1>5, FallsFacts
  <2>2. CASE Stop
    <3>1. serving /\ UNCHANGED lost /\ UNCHANGED halted /\ direction' = Cleaned(dpins)
      BY <2>2 DEF Stop
    <3>2. Exported' \subseteq Exported \ {dpins[r] : r \in RoleSet}
      BY <3>1, CleanedFacts
    <3>3. QED
      BY <3>1, <3>2 DEF Cleanable, Owned
  <2>3. CASE KillDaemon
    <3>1. lost' = lost \cup Exported /\ UNCHANGED direction
      BY <2>3 DEF KillDaemon
    <3>2. QED
      BY <3>1, ExportedStays DEF Cleanable
  <2>4. CASE HaltOnReqOff \/ Measure
    BY <2>4 DEF HaltOnReqOff, Measure, HaltSystem, Cleanable
  <2>5. QED
    BY <1>5, <2>2, <2>3, <2>4 DEF Falls
<1>6. CASE Press \/ UNCHANGED vars
  <2>1. /\ UNCHANGED mainVars /\ UNCHANGED daemonVars /\ UNCHANGED direction
        /\ UNCHANGED halted /\ UNCHANGED lost
    BY <1>6 DEF Press, vars
  <2>2. Owned' = Owned
    BY <2>1 DEF Owned, mainVars, confVars, daemonVars, servedVars
  <2>3. QED
    BY <2>1, <2>2, ExportedStays DEF Cleanable
<1>7. QED
  BY <1>1, <1>2, <1>3, <1>4, <1>5, <1>6, Cases

-----------------------------------------------------------------------------
(* The text before a place in it.                                            *)
Before(i, j, n_, e_) == i < n_ \/ (i = n_ /\ j < e_)

StoredAt(i, j) ==
  Before(i, j, n, e) /\ LastEntryBefore(text, i, j, n, e)
    => pins[text[i].entries[j].role] = text[i].entries[j].pin

(* An entry that was the last of its role before another was read is still   *)
(* the last, or is overridden by the one just read.                          *)
LEMMA StoredGpio ==
  ASSUME TypeOK, GoesOn, Stored, LoadGpio,
         NEW i \in 1..Len(text), text[i].key = "GPIOS",
         NEW j \in 1..Len(text[i].entries)
  PROVE  StoredAt(i, j)'
<1>1. /\ step = "load" /\ text' = text /\ n' = n /\ e' = e + 1
      /\ n \in 1..Len(text) /\ text[n].key = "GPIOS" /\ e \in 1..Len(text[n].entries)
      /\ text[n].entries[e].role \in RoleSet
      /\ pins' = [pins EXCEPT ![text[n].entries[e].role] = text[n].entries[e].pin]
  BY LoadFacts, AtFacts DEF LoadGpio, AtEntry, ValidGpio, ValidRole
<1>2. n \in Nat /\ e \in Nat /\ i \in Nat /\ j \in Nat /\ pins \in ConfPins
  BY <1>1, AtFacts DEF TypeOK, MainType
<1>3. SUFFICES ASSUME Before(i, j, n, e + 1), LastEntryBefore(text, i, j, n, e + 1)
               PROVE  pins'[text[i].entries[j].role] = text[i].entries[j].pin
  BY <1>1 DEF StoredAt, Before, LastEntryBefore
<1>4. CASE i = n /\ j = e
  BY <1>1, <1>2, <1>4 DEF ConfPins
<1>5. CASE ~(i = n /\ j = e)
  <2>1. Before(i, j, n, e)
    BY <1>2, <1>3, <1>5 DEF Before
  <2>2. text[n].entries[e].role # text[i].entries[j].role
    <3>1. SUFFICES ASSUME text[n].entries[e].role = text[i].entries[j].role
                   PROVE  FALSE
      OBVIOUS
    <3>2. n < i \/ (n = i /\ e <= j)
      BY <1>1, <1>2, <1>3, <3>1 DEF LastEntryBefore
    <3>3. QED
      BY <1>2, <1>5, <2>1, <3>2 DEF Before
  <2>3. LastEntryBefore(text, i, j, n, e)
    BY <1>1, <1>2, <1>3, AtFacts DEF LastEntryBefore
  <2>4. pins[text[i].entries[j].role] = text[i].entries[j].pin
    BY <1>1, <2>1, <2>3 DEF Stored, Before
  <2>5. QED
    BY <1>1, <1>2, <2>2, <2>4 DEF ConfPins
<1>6. QED
  BY <1>4, <1>5

LEMMA StoredSection ==
  ASSUME TypeOK, GoesOn, Stored, LoadSection,
         NEW i \in 1..Len(text), text[i].key = "GPIOS",
         NEW j \in 1..Len(text[i].entries)
  PROVE  StoredAt(i, j)'
<1>1. /\ step = "load" /\ text' = text /\ n' = n + 1 /\ e' = 1 /\ pins' = pins
      /\ n \in 1..Len(text) /\ ~AtEntry
  BY LoadFacts, AtFacts DEF LoadSection, NextSection
<1>2. n \in Nat /\ e \in Nat /\ i \in Nat /\ j \in Nat
  BY <1>1, AtFacts
<1>3. SUFFICES ASSUME Before(i, j, n + 1, 1), LastEntryBefore(text, i, j, n + 1, 1)
               PROVE  pins[text[i].entries[j].role] = text[i].entries[j].pin
  BY <1>1 DEF StoredAt, Before, LastEntryBefore
<1>4. i < n \/ i = n
  BY <1>2, <1>3 DEF Before
<1>5. Before(i, j, n, e)
  <2>1. CASE i = n
    <3>1. Len(text[i].entries) \in Nat
      BY <1>1, AtFacts
    <3>2. e > Len(text[i].entries)
      BY <1>1, <1>2, <2>1, <3>1 DEF AtEntry
    <3>3. j < e
      BY <1>2, <3>1, <3>2
    <3>4. QED
      BY <2>1, <3>3 DEF Before
  <2>2. QED
    BY <1>4, <2>1 DEF Before
<1>6. LastEntryBefore(text, i, j, n, e)
  BY <1>1, <1>2, <1>3, AtFacts DEF LastEntryBefore
<1>7. QED
  BY <1>1, <1>5, <1>6 DEF Stored, Before

LEMMA StoredSame ==
  ASSUME Stored, UNCHANGED <<text, pins, n, e>>, step' = step \/ step = "init"
  PROVE  Stored'
<1>1. \A i, j : LastEntryBefore(text, i, j, n, e)' = LastEntryBefore(text, i, j, n, e)
  BY DEF LastEntryBefore
<1>2. step # "none" \/ step' = "none"
  OBVIOUS
<1>3. step \in {"init", "act"} => n > Len(text)
  BY DEF Stored
<1>4. step' \in {"init", "act"} => n' > Len(text')
  BY <1>3
<1>5. QED
  BY <1>1, <1>2, <1>4 DEF Stored

LEMMA StoredStep ==
  ASSUME TypeOK, GoesOn, Checked, Stored, [Next]_vars
  PROVE  Stored'
<1>1. CASE Start
  <2>1. n' = 1 /\ e' = 1 /\ step' = "load" /\ text' \in Contents
    BY <1>1 DEF Start, GoesOn
  <2>2. ASSUME NEW i \in 1..Len(text'), NEW j \in 1..Len(text'[i].entries)
        PROVE  ~(i < n' \/ (i = n' /\ j < e'))
    <3>1. Len(text') \in Nat /\ Len(text'[i].entries) \in Nat
      BY <2>1, Texts, Sections
    <3>2. QED
      BY <2>1, <3>1
  <2>3. QED
    BY <2>1, <2>2 DEF Stored
<1>2. CASE LoadGpio
  <2>1. step' = "load" /\ text' = text
    BY <1>2, LoadFacts
  <2>2. \A i \in 1..Len(text) : text[i].key = "GPIOS" =>
          \A j \in 1..Len(text[i].entries) : StoredAt(i, j)'
    BY <1>2, StoredGpio
  <2>3. QED
    BY <2>1, <2>2 DEF Stored, StoredAt, Before, LastEntryBefore
<1>3. CASE LoadSection
  <2>1. step' = "load" /\ text' = text
    BY <1>3, LoadFacts
  <2>2. \A i \in 1..Len(text) : text[i].key = "GPIOS" =>
          \A j \in 1..Len(text[i].entries) : StoredAt(i, j)'
    BY <1>3, StoredSection
  <2>3. QED
    BY <2>1, <2>2 DEF Stored, StoredAt, Before, LastEntryBefore
<1>4. CASE Accept
  <2>1. /\ step = "load" /\ n > Len(text) /\ UNCHANGED <<text, n, e>>
        /\ step' \in {"init", "act"}
    BY <1>4 DEF Accept
  <2>2. \A r \in RoleSet : pins[r] # None => pins'[r] = pins[r]
    BY <1>4 DEF Accept
  <2>3. ASSUME NEW i \in 1..Len(text), text[i].key = "GPIOS",
               NEW j \in 1..Len(text[i].entries), LastEntryBefore(text, i, j, n, e)
        PROVE  pins'[text[i].entries[j].role] = text[i].entries[j].pin
    <3>1. text \in Contents /\ i < n
      BY <2>1, AtFacts
    <3>2. pins[text[i].entries[j].role] = text[i].entries[j].pin
      BY <2>1, <2>3, <3>1 DEF Stored
    <3>3. text[i].entries[j].role \in RoleSet
      BY <2>1, <2>3, <3>1 DEF Checked, ValidGpio, ValidRole
    <3>4. text[i].entries[j].pin \in Int
      BY <3>1, Sections
    <3>5. None \notin Int
      BY StartupAssumption
    <3>6. QED
      BY <2>2, <3>2, <3>3, <3>4, <3>5
  <2>4. QED
    BY <2>1, <2>3 DEF Stored, LastEntryBefore
<1>5. CASE InitPin
  <2>1. step = "init" /\ step' # "none" /\ UNCHANGED <<text, pins, n, e>>
    BY <1>5 DEF InitPin, confVars
  <2>2. QED
    BY <2>1, StoredSame
<1>6. CASE Ends
  <2>1. step' = "none"
    BY <1>6, EndsFacts DEF Exit
  <2>2. QED
    BY <2>1 DEF Stored
<1>7. CASE Falls \/ Press \/ UNCHANGED vars
  <2>1. UNCHANGED mainVars
    BY <1>7, FallsFacts DEF Press, vars
  <2>2. step' = step /\ UNCHANGED <<text, pins, n, e>>
    BY <2>1 DEF mainVars, confVars
  <2>3. QED
    BY <2>2, StoredSame
<1>8. QED
  BY <1>1, <1>2, <1>3, <1>4, <1>5, <1>6, <1>7, Cases

-----------------------------------------------------------------------------
LEMMA InvInit == ASSUME Init PROVE StartupInv
<1>1. GoesOn /\ Checked /\ Mapped /\ Stored
  BY DEF Init, GoesOn, Checked, Mapped, Stored
<1>2. Initialized
  BY DEF Init, Initialized, PinsReady
<1>3. Cleanable
  BY DEF Init, Cleanable, Exported
<1>4. QED
  BY <1>1, <1>2, <1>3 DEF StartupInv

LEMMA InvStep == ASSUME TypeOK, StartupInv, [Next]_vars PROVE StartupInv'
BY GoesOnStep, CheckedStep, MappedStep, StoredStep, InitializedStep, CleanableStep
   DEF StartupInv

(***************************************************************************)
(* How far the process in main() has come with a file, and what of it it    *)
(* has passed on to the daemon and to the pins, at every step.              *)
(***************************************************************************)
THEOREM StartupInvariant == Spec => [](TypeOK /\ StartupInv)
<1>1. Init => TypeOK /\ StartupInv
  BY TypeInit, InvInit
<1>2. (TypeOK /\ StartupInv) /\ [Next]_vars => (TypeOK /\ StartupInv)'
  <2>1. SUFFICES ASSUME TypeOK, StartupInv, [Next]_vars
                 PROVE  TypeOK' /\ StartupInv'
    OBVIOUS
  <2>2. TypeOK'
    BY <2>1, TypeStep DEF StartupInv
  <2>3. StartupInv'
    BY <2>1, InvStep
  <2>4. QED
    BY <2>2, <2>3
<1>3. QED
  BY <1>1, <1>2, PTL DEF Spec

(***************************************************************************)
(* Every variable of module Startup keeps its type: gpio_init()'s role in   *)
(* particular stays among the roles.                                        *)
(***************************************************************************)
THEOREM TypeCorrect == Spec => []TypeOK
BY StartupInvariant, PTL

(***************************************************************************)
(* An accepted configuration has the pin of each role's last entry and      *)
(* begins its map with the file's first, for files of any length.           *)
(***************************************************************************)
THEOREM LoadsAsWritten == Spec => []LoadedAsWritten
<1>1. TypeOK /\ StartupInv => LoadedAsWritten
  <2>1. SUFFICES ASSUME TypeOK, StartupInv, step \in {"init", "act"},
                        NEW i \in 1..Len(text)
                 PROVE  /\ text[i].key = "GPIOS" =>
                              \A j \in 1..Len(text[i].entries) :
                                LastEntry(text, i, j)
                                  => pins[text[i].entries[j].role] = text[i].entries[j].pin
                        /\ FirstMap(text, i) =>
                              /\ Len(map) >= Len(text[i].map)
                              /\ SubSeq(map, 1, Len(text[i].map)) = text[i].map
    BY DEF LoadedAsWritten
  <2>2. text \in Contents /\ map \in Seq(Int) /\ n > Len(text)
    BY <2>1 DEF TypeOK, MainType, StartupInv, GoesOn, Stored
  <2>3. Len(text) \in Nat /\ n \in Nat
    BY <2>1, <2>2, Texts DEF TypeOK, MainType
  <2>4. ASSUME text[i].key = "GPIOS", NEW j \in 1..Len(text[i].entries),
               LastEntry(text, i, j)
        PROVE  pins[text[i].entries[j].role] = text[i].entries[j].pin
    <3>1. i < n
      BY <2>2, <2>3
    <3>2. LastEntryBefore(text, i, j, n, e)
      BY <2>4 DEF LastEntry, LastEntryBefore
    <3>3. QED
      BY <2>1, <2>4, <3>1, <3>2 DEF StartupInv, Stored
  <2>5. ASSUME FirstMap(text, i)
        PROVE  Len(map) >= Len(text[i].map) /\ SubSeq(map, 1, Len(text[i].map)) = text[i].map
    <3>1. text[i].map \in Seq(Int) /\ Len(text[i].map) \in Nat /\ Len(map) \in Nat
      BY <2>2, Sections
    <3>2. /\ Len(text[i].map) <= Len(map)
          /\ \A q \in 1..Len(text[i].map) : map[q] = text[i].map[q]
      BY <2>1, <2>3, <2>5 DEF StartupInv, Mapped, Begins
    <3>3. SubSeq(map, 1, Len(text[i].map)) = text[i].map
      BY <2>2, <3>1, <3>2
    <3>4. QED
      BY <3>1, <3>2, <3>3
  <2>6. QED
    BY <2>4, <2>5
<1>2. QED
  BY <1>1, StartupInvariant, PTL

(***************************************************************************)
(* A daemon's pins are exported with their roles' directions for as long as *)
(* it runs and no signal ends a process beside it, where its configuration  *)
(* gives each role a pin of its own: PinsReady.                             *)
(***************************************************************************)
THEOREM PinsAreReady == Spec => []PinsReady
<1>1. StartupInv => PinsReady
  BY DEF StartupInv, Initialized
<1>2. QED
  BY <1>1, StartupInvariant, PTL

(***************************************************************************)
(* Nobody leaves a pin exported but who is killed, whatever configurations  *)
(* were loaded.                                                             *)
(***************************************************************************)
THEOREM NothingIsLeft == Spec => []NothingLeft
<1>1. StartupInv => NothingLeft
  BY DEF StartupInv, Cleanable, NothingLeft, Owned
<1>2. QED
  BY <1>1, StartupInvariant, PTL

(***************************************************************************)
(* No pin changes but by root's process, on a known board, with a file that *)
(* is legal to its last entry.                                              *)
(***************************************************************************)
THEOREM PinsOfAcceptedFiles == Spec => OnlyAccepted
<1>1. TypeOK /\ StartupInv /\ [Next]_vars =>
        (direction' # direction =>
           /\ IsBoardInstalled
           /\ IF step # "none" THEN root /\ ValidText(text) ELSE ValidText(dtext))
  <2>1. SUFFICES ASSUME TypeOK, StartupInv, [Next]_vars, direction' # direction
                 PROVE  /\ IsBoardInstalled
                        /\ IF step # "none" THEN root /\ ValidText(text)
                           ELSE ValidText(dtext)
    OBVIOUS
  <2>2. step \in {"init", "act"} \/ (step = "none" /\ serving)
    <3>1. ~Start /\ ~LoadGpio /\ ~LoadSection /\ ~Accept /\ ~Press /\ ~UNCHANGED vars
      BY <2>1 DEF Start, LoadGpio, LoadSection, Load, Accept, Press, vars
    <3>2. CASE InitPin
      BY <3>2 DEF InitPin
    <3>3. CASE Ends
      <4>1. EndCommand \/ Interrupt
        BY <2>1, <3>3 DEF Ends, Reject, BecomeDaemon, TurnedAway, Kill
      <4>2. step # "none" /\ step # "load"
        BY <2>1, <4>1 DEF EndCommand, Interrupt
      <4>3. QED
        BY <2>1, <4>2 DEF TypeOK, MainType
    <3>4. CASE Falls
      BY <2>1, <3>4 DEF Falls, Stop, KillDaemon, HaltOnReqOff, Measure, HaltSystem
    <3>5. QED
      BY <2>1, <3>1, <3>2, <3>3, <3>4, Cases
  <2>3. QED
    BY <2>1, <2>2 DEF StartupInv, GoesOn, Checked
<1>2. QED
  BY <1>1, StartupInvariant, PTL DEF Spec, OnlyAccepted

(* What the daemon sees of the button, and makes of a level.                 *)
LEMMA SeesButton ==
  ASSUME TypeOK, StartupInv, serving, listed, \A r \in RoleSet : dpins[r] = Wiring[r],
         TRUE \in ReqOffRead
  PROVE  pressed
<1>1. /\ "REQ_OFF_B" \in RoleSet /\ Wiring \in [RoleSet -> Exportable]
      /\ \A r, s \in RoleSet : Wiring[r] = Wiring[s] => r = s
  BY StartupAssumption
<1>2. Proper(dpins)
  BY <1>1 DEF Proper
<1>3. direction[dpins["REQ_OFF_B"]] = "in"
  BY <1>1, <1>2 DEF StartupInv, Initialized, PinsReady, DirectionOf
<1>4. dpins["REQ_OFF_B"] = Wiring["REQ_OFF_B"] /\ dpins["REQ_OFF_B"] \in Exportable
  BY <1>1
<1>5. dpins["REQ_OFF_B"] \in Exported
  BY <1>3, <1>4 DEF Exported
<1>6. ReqOffRead = {pressed}
  BY <1>3, <1>4, <1>5, Zenon DEF ReqOffRead
<1>7. TRUE \in {pressed}
  BY <1>6, Zenon
<1>8. QED
  BY <1>7, Zenon

LEMMA MapsToEmpty ==
  ASSUME TypeOK, StartupInv, serving, NEW level \in -1..MaxLevel,
         0 \in MapBatteryLevel(level)
  PROVE  EmptyBy(dtext, level) \/ BeyondMap(dtext, level)
<1>1. dtext \in Contents /\ dmap \in Seq(Int) /\ MaxLevel \in Nat
  BY StartupAssumption DEF TypeOK, DaemonType, StartupInv, GoesOn
<1>2. level \in Int /\ Len(dmap) \in Nat /\ Len(dtext) \in Nat
  BY <1>1, Texts
<1>3. level >= 0
  BY <1>2 DEF MapBatteryLevel
<1>4. ASSUME NEW i \in 1..Len(dtext), FirstMap(dtext, i), level < Len(dtext[i].map)
      PROVE  dtext[i].map[level + 1] = 0
  <2>1. Len(dtext[i].map) \in Nat
    BY <1>1, Sections
  <2>2. /\ Len(dtext[i].map) <= Len(dmap)
        /\ \A q \in 1..Len(dtext[i].map) : dmap[q] = dtext[i].map[q]
    BY <1>2, <1>4 DEF StartupInv, Mapped, Begins
  <2>3. level + 1 \in 1..Len(dtext[i].map) /\ level < Len(dmap)
    BY <1>2, <1>3, <1>4, <2>1, <2>2
  <2>4. dmap[level + 1] = 0
    BY <1>2, <1>3, <2>3 DEF MapBatteryLevel
  <2>5. QED
    BY <2>2, <2>3, <2>4
<1>5. ASSUME NEW i \in 1..Len(dtext), FirstMap(dtext, i)
      PROVE  level >= Len(dtext[i].map) \/ EmptyBy(dtext, level)
  <2>1. Len(dtext[i].map) \in Nat
    BY <1>1, Sections
  <2>2. CASE level < Len(dtext[i].map)
    <3>1. dtext[i].map[level + 1] = 0 /\ level + 1 \in 1..Len(dtext[i].map)
      BY <1>2, <1>3, <1>4, <1>5, <2>1, <2>2
    <3>2. QED
      BY <1>5, <3>1 DEF EmptyBy
  <2>3. QED
    BY <1>2, <2>1, <2>2
<1>6. QED
  BY <1>3, <1>5 DEF BeyondMap

(***************************************************************************)
(* A daemon whose file names the board's pins halts only for the button,    *)
(* for a level that its file's first power map maps to 0 or has no entry    *)
(* for, or after a signal has ended a process beside it: HaltJustified.     *)
(***************************************************************************)
THEOREM HaltsAreJustified == Spec => HaltJustified
<1>1. TypeOK /\ StartupInv /\ [Next]_vars =>
        ((~halted /\ halted' /\ \A r \in RoleSet : dpins[r] = Wiring[r])
           => pressed \/ EmptyBy(dtext, raw') \/ BeyondMap(dtext, raw') \/ ~listed)
  <2>1. SUFFICES ASSUME TypeOK, StartupInv, [Next]_vars, ~halted, halted',
                        \A r \in RoleSet : dpins[r] = Wiring[r]
                 PROVE  pressed \/ EmptyBy(dtext, raw') \/ BeyondMap(dtext, raw') \/ ~listed
    OBVIOUS
  <2>2. HaltOnReqOff \/ Measure
    <3>1. ~Ends
      BY <2>1, EndsFacts
    <3>2. ~Start /\ ~LoadGpio /\ ~LoadSection /\ ~Accept /\ ~InitPin /\ ~Press
          /\ ~UNCHANGED vars
      BY <2>1, OthersFacts
    <3>3. ~Stop /\ ~KillDaemon
      BY <2>1 DEF Stop, KillDaemon
    <3>4. QED
      BY <2>1, <3>1, <3>2, <3>3, Cases DEF Falls
  <2>3. CASE HaltOnReqOff
    BY <2>1, <2>3, SeesButton DEF HaltOnReqOff, HaltSystem
  <2>4. CASE Measure
    BY <2>1, <2>4, MapsToEmpty DEF Measure, HaltSystem
  <2>5. QED
    BY <2>2, <2>3, <2>4
<1>2. QED
  BY <1>1, StartupInvariant, PTL DEF Spec, HaltJustified
=============================================================================
