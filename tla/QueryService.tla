---------------------------- MODULE QueryService ----------------------------
(***************************************************************************)
(* What the daemon promises those who query it, without sockets, queues,    *)
(* descriptors and the order in which its loop serves them: a call of       *)
(* ud_client_send_command() takes effect at one point between its start and *)
(* its return.  A level query returns the level measured last at that       *)
(* point; an off request is noted before it is acknowledged, and the power  *)
(* is cut only when one has been noted; a call is answered once, and fails  *)
(* only if the daemon is not there: then it may return anything, and does   *)
(* not tell.  A caller may give up; its request may be noted even then.     *)
(***************************************************************************)
CONSTANTS
  Client,     \* the calls
  Value,      \* what a measurement may yield
  None        \* no measurement, no answer

VARIABLES
  service,    \* "starting", "up" or "ended"
  level,      \* the level measured last
  noted,      \* an off request has been noted
  cut,        \* the power has been cut
  phase,      \* phase[c]: "idle", "open" or "closed"
  cmd,        \* cmd[c]: what c asks for, "level" or "off"
  reply,      \* reply[c]: the answer c is due, None until it takes effect
  result      \* result[c]: what the call returned, None until then

daemonVars == <<service, level, noted, cut>>
callVars == <<phase, cmd, reply, result>>
vars == <<daemonVars, callVars>>

Init ==
  /\ service = "starting"
  /\ level = None
  /\ noted = FALSE
  /\ cut = FALSE
  /\ phase = [c \in Client |-> "idle"]
  /\ cmd \in [Client -> {"level", "off"}]
  /\ reply = [c \in Client |-> None]
  /\ result = [c \in Client |-> None]

Begin ==
  /\ service = "starting"
  /\ service' = "up"
  /\ UNCHANGED <<level, noted, cut, callVars>>

End ==
  /\ service # "ended"
  /\ service' = "ended"
  /\ UNCHANGED <<level, noted, cut, callVars>>

(* A measurement, on which the daemon may end: the battery is empty.         *)
Measure(v) ==
  /\ service = "up"
  /\ level' = v
  /\ service' \in {"up", "ended"}
  /\ UNCHANGED <<noted, cut, callVars>>

CutPower ==
  /\ service = "up"
  /\ noted
  /\ cut' = TRUE
  /\ UNCHANGED <<service, level, noted, callVars>>

-----------------------------------------------------------------------------
Call(c) ==
  /\ phase[c] = "idle"
  /\ service = "up"
  /\ phase' = [phase EXCEPT ![c] = "open"]
  /\ \E s \in {"level", "off"} : cmd' = [cmd EXCEPT ![c] = s]
  /\ UNCHANGED <<daemonVars, reply, result>>

(* Nobody listens.                                                           *)
Refuse(c) ==
  /\ phase[c] = "idle"
  /\ service # "up"
  /\ phase' = [phase EXCEPT ![c] = "closed"]
  /\ \E s \in {"level", "off"} : cmd' = [cmd EXCEPT ![c] = s]
  /\ result' = [result EXCEPT ![c] = "error"]
  /\ UNCHANGED <<daemonVars, reply>>

(* The off request takes effect.                                             *)
Note(c) ==
  /\ service = "up"
  /\ phase[c] # "idle" /\ cmd[c] = "off"
  /\ noted' = TRUE
  /\ UNCHANGED <<service, level, cut, callVars>>

Answer(c) ==
  /\ service = "up"
  /\ phase[c] = "open" /\ reply[c] = None
  /\ \/ cmd[c] = "level" /\ level # None /\ reply' = [reply EXCEPT ![c] = level]
     \/ cmd[c] = "off" /\ noted /\ reply' = [reply EXCEPT ![c] = "ack"]
  /\ UNCHANGED <<daemonVars, phase, cmd, result>>

Return(c) ==
  /\ phase[c] = "open" /\ reply[c] # None
  /\ phase' = [phase EXCEPT ![c] = "closed"]
  /\ result' = [result EXCEPT ![c] = reply[c]]
  /\ UNCHANGED <<daemonVars, cmd, reply>>

(* The daemon has ended: an error, or what the caller takes for an answer,  *)
(* a level even, whatever was measured.                                      *)
Fail(c) ==
  /\ phase[c] = "open" /\ reply[c] = None
  /\ service = "ended"
  /\ phase' = [phase EXCEPT ![c] = "closed"]
  /\ \E r \in Value \cup {"error", "ack", "garbage"} : result' = [result EXCEPT ![c] = r]
  /\ UNCHANGED <<daemonVars, cmd, reply>>

GiveUp(c) ==
  /\ phase[c] = "open"
  /\ phase' = [phase EXCEPT ![c] = "closed"]
  /\ UNCHANGED <<daemonVars, cmd, reply, result>>

-----------------------------------------------------------------------------
Next ==
  /\ ~cut
  /\ \/ Begin \/ End \/ CutPower
     \/ \E v \in Value : Measure(v)
     \/ \E c \in Client :
          \/ Call(c) \/ Refuse(c) \/ Note(c) \/ Answer(c) \/ Return(c) \/ Fail(c)
          \/ GiveUp(c)

Spec == Init /\ [][Next]_vars
=============================================================================
