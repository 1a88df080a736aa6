----------------------------- MODULE UdService ------------------------------
(***************************************************************************)
(* The daemon's main loop (rocpmd.cpp, daemon_main) and its two Unix domain *)
(* sockets (ud_server.cpp), with the clients that query them                *)
(* (ud_client.cpp).  A client is one call of ud_client_send_command(): one  *)
(* connection, one command, one answer.  The daemon has one thread: while   *)
(* it serves a connection it watches neither the button nor the battery,    *)
(* and it never closes the descriptors that accept() returns.               *)
(***************************************************************************)
EXTENDS Naturals, Sequences

CONSTANTS
  Client,     \* the calls of ud_client_send_command()
  Value,      \* what a measurement may yield
  Charging,   \* ... the wall supply is connected (a negative raw level)
  Empty,      \* ... the level that the power map takes to 0%
  None,       \* no client, no value
  MaxFd,      \* connections the daemon can accept before open() fails
  Stops,      \* may the daemon be stopped by a signal?
  Kills       \* may clients be killed while they wait?

ASSUME ServiceAssumption ==
  /\ {Charging, Empty} \subseteq Value
  /\ None \notin Client \cup Value
  /\ {"error", "garbage", "ack"} \cap Value = {}
  /\ MaxFd \in Nat \ {0}
  /\ Stops \in BOOLEAN
  /\ Kills \in BOOLEAN

VARIABLES
  dpc,        \* the daemon's next step
  conn,       \* the client whose connection is served, None if there is none
  offToo,     \* select() reported the off socket, too
  leaked,     \* connection descriptors accepted and never closed
  value,      \* the last measurement, None before the first
  powerOff,   \* power_off_flag
  queue,      \* queue[s]: connections that wait for accept() on socket s
  cpc,        \* cpc[c]: where client c is
  cmd,        \* cmd[c]: the socket and command of c
  sent,       \* clients whose command is in the socket, unread
  reply,      \* reply[c]: what the daemon wrote to c, None so far
  result,     \* result[c]: what the call of c returned, None so far
  measured,   \* history: the last measurement
  during,     \* history: during[c]: measurements in force since c connected
  pressed,    \* the button was pressed
  halted,     \* halt_system() has run
  cut         \* gpio_write_off() made the board cut the power

daemonVars == <<dpc, conn, offToo, leaked, value, powerOff, halted, cut>>
clientVars == <<cpc, cmd, result>>
socketVars == <<queue, sent, reply>>
history == <<measured, during>>
vars == <<daemonVars, clientVars, socketVars, history, pressed>>

Socket == {"level", "off"}

DaemonLabels ==
  { "start", "first", "poll", "interval", "select", "level", "off", "read",
    "write", "flag", "gone" }

ClientLabels == {"idle", "connected", "sent", "done", "dead"}

(* What an int that nothing has written may hold: any level, what an        *)
(* acknowledgement leaves in it (one byte, 1), or another number.           *)
Uninitialized == Value \cup {"ack", "garbage"}

Listening == dpc \notin {"start", "gone"}

(* c's end of the connection is closed.                                      *)
Closed(c) == cpc[c] \in {"done", "dead"}

-----------------------------------------------------------------------------
(* new ud_server(): the files of an earlier daemon are unlinked and bound    *)
(* anew; the descriptor table is the process's own.                          *)
Listen ==
  /\ dpc = "start"
  /\ dpc' = "first"
  /\ UNCHANGED <<conn, offToo, leaked, value, powerOff, halted, cut>>
  /\ UNCHANGED <<clientVars, socketVars, history, pressed>>

Remember(v) ==
  /\ measured' = v
  /\ during' = [c \in Client |->
                  IF cpc[c] \in {"connected", "sent"} THEN during[c] \cup {v} ELSE during[c]]

(* Mutant: the server is told the first measurement only.                    *)
PublishOnce(v) == value' = IF value = None THEN v ELSE value

(* set_battery_level_percent(), set_battery_level_raw()                      *)
Publish(v) == value' = v

(* Mutant: every measurement that is not above 0% halts, a charging one too. *)
MeasureHaltsOnCharging ==
  /\ dpc \in {"first", "interval"}
  /\ \E v \in Value :
       /\ Remember(v) /\ Publish(v)
       /\ halted' = (dpc = "interval" /\ v \in {Empty, Charging})
       /\ dpc' = IF dpc = "first" THEN "poll"
                 ELSE IF v \in {Empty, Charging} THEN "gone" ELSE "select"
  /\ UNCHANGED <<conn, offToo, leaked, powerOff, cut>>
  /\ UNCHANGED <<clientVars, socketVars, pressed>>

(* The first measurement, before the loop, and the one of an expired         *)
(* interval, which halts on 0%.  halt_system() ends the process.             *)
Measure ==
  /\ dpc \in {"first", "interval"}
  /\ \E v \in Value :
       /\ Remember(v) /\ Publish(v)
       /\ halted' = (dpc = "interval" /\ v = Empty)
       /\ dpc' = IF dpc = "first" THEN "poll"
                 ELSE IF v = Empty THEN "gone" ELSE "select"
  /\ UNCHANGED <<conn, offToo, leaked, powerOff, cut>>
  /\ UNCHANGED <<clientVars, socketVars, pressed>>

IntervalNotExpired ==
  /\ dpc = "interval"
  /\ dpc' = "select"
  /\ UNCHANGED <<conn, offToo, leaked, value, powerOff, halted, cut>>
  /\ UNCHANGED <<clientVars, socketVars, history, pressed>>

(* Line 319: with no descriptor left, digitalRead() cannot open the pin and  *)
(* gpio_read_req_off() returns GPIO_ERROR, which is not zero.                *)
Poll ==
  /\ dpc = "poll"
  /\ IF pressed \/ leaked = MaxFd
     THEN halted' = TRUE /\ dpc' = "gone"
     ELSE dpc' = "interval" /\ UNCHANGED halted
  /\ UNCHANGED <<conn, offToo, leaked, value, powerOff, cut>>
  /\ UNCHANGED <<clientVars, socketVars, history, pressed>>

(* handle_requests(): which sockets have a connection, or the timeout.       *)
Select ==
  /\ dpc = "select"
  /\ offToo' = (queue["level"] # <<>> /\ queue["off"] # <<>>)
  /\ dpc' = IF queue["level"] # <<>> THEN "level"
            ELSE IF queue["off"] # <<>> THEN "off" ELSE "flag"
  /\ UNCHANGED <<conn, leaked, value, powerOff, halted, cut>>
  /\ UNCHANGED <<clientVars, socketVars, history, pressed>>

(* Mutant: the result of accept() is not tested.                             *)
AcceptUnchecked ==
  /\ dpc \in Socket
  /\ conn' = Head(queue[dpc])
  /\ queue' = [queue EXCEPT ![dpc] = Tail(@)]
  /\ leaked' = leaked + 1
  /\ dpc' = "read"
  /\ UNCHANGED <<offToo, value, powerOff, halted, cut>>
  /\ UNCHANGED <<clientVars, sent, reply, history, pressed>>

(* accept(); without a descriptor it fails, and the exception leaves         *)
(* handle_requests() and skips the test of power_off_flag.                   *)
Accept ==
  /\ dpc \in Socket
  /\ IF leaked < MaxFd
     THEN /\ conn' = Head(queue[dpc])
          /\ queue' = [queue EXCEPT ![dpc] = Tail(@)]
          /\ leaked' = leaked + 1
          /\ dpc' = "read"
     ELSE /\ dpc' = "poll"
          /\ UNCHANGED <<conn, queue, leaked>>
  /\ UNCHANGED <<offToo, value, powerOff, halted, cut>>
  /\ UNCHANGED <<clientVars, sent, reply, history, pressed>>

(* Mutant: every command asks for power off.                                 *)
ReadCommandAsOff ==
  /\ dpc = "read"
  /\ conn \in sent
  /\ sent' = sent \ {conn}
  /\ powerOff' = TRUE
  /\ dpc' = "write"
  /\ UNCHANGED <<conn, offToo, leaked, value, halted, cut>>
  /\ UNCHANGED <<clientVars, queue, reply, history, pressed>>

(* Mutant: the request is acknowledged and not noted.                        *)
ReadCommandUnnoted ==
  /\ dpc = "read"
  /\ conn \in sent
  /\ sent' = sent \ {conn}
  /\ dpc' = "write"
  /\ UNCHANGED <<conn, offToo, leaked, value, powerOff, halted, cut>>
  /\ UNCHANGED <<clientVars, queue, reply, history, pressed>>

(* read() returns a command; an off request sets the flag for good.          *)
ReadCommand ==
  /\ dpc = "read"
  /\ conn \in sent
  /\ sent' = sent \ {conn}
  /\ powerOff' = (powerOff \/ cmd[conn] = "off")
  /\ dpc' = "write"
  /\ UNCHANGED <<conn, offToo, leaked, value, halted, cut>>
  /\ UNCHANGED <<clientVars, queue, reply, history, pressed>>

(* Mutants: the end of the connection is taken for a command that is yet to  *)
(* come; the off socket is served again; the request is taken back.          *)
EndConnectionNever ==
  /\ dpc = "read"
  /\ conn \notin sent
  /\ Closed(conn)
  /\ UNCHANGED vars

EndConnectionThenOff ==
  /\ dpc = "read"
  /\ conn \notin sent
  /\ Closed(conn)
  /\ conn' = None
  /\ dpc' = IF offToo THEN "off" ELSE "flag"
  /\ UNCHANGED <<offToo, leaked, value, powerOff, halted, cut>>
  /\ UNCHANGED <<clientVars, socketVars, history, pressed>>

EndConnectionForgets ==
  /\ dpc = "read"
  /\ conn \notin sent
  /\ Closed(conn)
  /\ conn' = None
  /\ powerOff' = FALSE
  /\ dpc' = IF cmd[conn] = "level" /\ offToo THEN "off" ELSE "flag"
  /\ UNCHANGED <<offToo, leaked, value, halted, cut>>
  /\ UNCHANGED <<clientVars, socketVars, history, pressed>>

(* read() returns 0: the client has closed.  Until then read() blocks.       *)
EndConnection ==
  /\ dpc = "read"
  /\ conn \notin sent
  /\ Closed(conn)
  /\ conn' = None
  /\ dpc' = IF cmd[conn] = "level" /\ offToo THEN "off" ELSE "flag"
  /\ UNCHANGED <<offToo, leaked, value, powerOff, halted, cut>>
  /\ UNCHANGED <<clientVars, socketVars, history, pressed>>

Answer(c) == IF cmd[c] = "off" THEN "ack" ELSE value

(* write() of the answer; to a client that is gone it raises SIGPIPE, which  *)
(* the daemon neither handles nor ignores.                                   *)
WriteAnswer ==
  /\ dpc = "write"
  /\ IF Closed(conn)
     THEN dpc' = "gone" /\ UNCHANGED reply
     ELSE dpc' = "read" /\ reply' = [reply EXCEPT ![conn] = Answer(conn)]
  /\ UNCHANGED <<conn, offToo, leaked, value, powerOff, halted, cut>>
  /\ UNCHANGED <<clientVars, queue, sent, history, pressed>>

(* is_power_off(), gpio_write_off(): OFF cannot be written without a         *)
(* descriptor.                                                               *)
TestFlag ==
  /\ dpc = "flag"
  /\ cut' = (powerOff /\ leaked < MaxFd)
  /\ dpc' = "poll"
  /\ UNCHANGED <<conn, offToo, leaked, value, powerOff, halted>>
  /\ UNCHANGED <<clientVars, socketVars, history, pressed>>

(* SIGTERM or SIGKILL, wherever the daemon is; the kernel closes its files.  *)
Stop ==
  /\ Stops
  /\ dpc # "gone"
  /\ dpc' = "gone"
  /\ UNCHANGED <<conn, offToo, leaked, value, powerOff, halted, cut>>
  /\ UNCHANGED <<clientVars, socketVars, history, pressed>>

-----------------------------------------------------------------------------
(* A client.  Without a listening socket connect() fails at once.            *)
Connect(c) ==
  /\ cpc[c] = "idle"
  /\ \E s \in Socket :
       /\ cmd' = [cmd EXCEPT ![c] = s]
       /\ IF Listening
          THEN /\ queue' = [queue EXCEPT ![s] = Append(@, c)]
               /\ cpc' = [cpc EXCEPT ![c] = "connected"]
               /\ during' = [during EXCEPT ![c] = {measured} \ {None}]
               /\ UNCHANGED <<measured, result>>
          ELSE /\ cpc' = [cpc EXCEPT ![c] = "done"]
               /\ result' = [result EXCEPT ![c] = "error"]
               /\ UNCHANGED <<queue, history>>
  /\ UNCHANGED <<daemonVars, sent, reply, pressed>>

(* write() of the command; it raises SIGPIPE when the daemon is gone.        *)
Send(c) ==
  /\ cpc[c] = "connected"
  /\ IF dpc = "gone"
     THEN cpc' = [cpc EXCEPT ![c] = "dead"] /\ UNCHANGED sent
     ELSE cpc' = [cpc EXCEPT ![c] = "sent"] /\ sent' = sent \cup {c}
  /\ UNCHANGED <<daemonVars, cmd, result, queue, reply, history, pressed>>

(***************************************************************************)
(* read() of the answer.  When the daemon is gone it fails if the command   *)
(* was left unread; otherwise it returns 0, the code takes that for success *)
(* and returns power_level, which nothing has written: main() prints it.    *)
(***************************************************************************)
Return(c, r) ==
  /\ cpc' = [cpc EXCEPT ![c] = "done"]
  /\ result' = [result EXCEPT ![c] = r]

(* Mutant: nobody waits for the acknowledgement of an off command.           *)
ReceiveUnlessOff(c) ==
  /\ cpc[c] = "sent"
  /\ reply[c] # None \/ cmd[c] = "off"
  /\ Return(c, IF reply[c] # None THEN reply[c] ELSE "ack")
  /\ UNCHANGED <<daemonVars, cmd, socketVars, history, pressed>>

Receive(c) ==
  /\ cpc[c] = "sent"
  /\ \/ reply[c] # None /\ Return(c, reply[c])
     \/ reply[c] = None /\ dpc = "gone" /\ c \in sent /\ Return(c, "error")
     \/ /\ reply[c] = None /\ dpc = "gone" /\ c \notin sent
        /\ \E r \in Uninitialized : Return(c, r)
  /\ UNCHANGED <<daemonVars, cmd, socketVars, history, pressed>>

(* The user interrupts a client that waits.                                  *)
Die(c) ==
  /\ Kills
  /\ cpc[c] \in {"connected", "sent"}
  /\ cpc' = [cpc EXCEPT ![c] = "dead"]
  /\ UNCHANGED <<daemonVars, cmd, result, socketVars, history, pressed>>

Press ==
  /\ ~pressed
  /\ pressed' = TRUE
  /\ UNCHANGED <<daemonVars, clientVars, socketVars, history>>

-----------------------------------------------------------------------------
Init ==
  /\ dpc = "start"
  /\ conn = None
  /\ offToo = FALSE
  /\ leaked = 0
  /\ value = None
  /\ powerOff = FALSE
  /\ halted = FALSE
  /\ cut = FALSE
  /\ cpc = [c \in Client |-> "idle"]
  /\ cmd = [c \in Client |-> "level"]
  /\ result = [c \in Client |-> None]
  /\ queue = [s \in Socket |-> <<>>]
  /\ sent = {}
  /\ reply = [c \in Client |-> None]
  /\ measured = None
  /\ during = [c \in Client |-> {}]
  /\ pressed = FALSE

DaemonStep ==
  \/ Listen        \/ Measure   \/ IntervalNotExpired \/ Poll
  \/ Select        \/ Accept    \/ ReadCommand        \/ EndConnection
  \/ WriteAnswer   \/ TestFlag

ClientStep(c) == Send(c) \/ Receive(c)

(* Once the power is cut nothing runs any more.                              *)
Next ==
  /\ ~cut
  /\ \/ DaemonStep \/ Stop \/ Press
     \/ \E c \in Client : Connect(c) \/ ClientStep(c) \/ Die(c)

Spec == Init /\ [][Next]_vars

(* The daemon is scheduled, and every wait of its loop but read() is bounded. *)
DaemonFairSpec == Spec /\ WF_vars(~cut /\ DaemonStep)

(* So are its clients, unless they are stopped or killed.                    *)
FairSpec == DaemonFairSpec /\ \A c \in Client : WF_vars(~cut /\ ClientStep(c))

-----------------------------------------------------------------------------
(* The type of every variable.                                               *)
TypeOK ==
  /\ dpc \in DaemonLabels
  /\ conn \in Client \cup {None}
  /\ offToo \in BOOLEAN
  /\ leaked \in 0..MaxFd
  /\ value \in Value \cup {None}
  /\ powerOff \in BOOLEAN
  /\ queue \in [Socket -> Seq(Client)]
  /\ cpc \in [Client -> ClientLabels]
  /\ cmd \in [Client -> Socket]
  /\ sent \in SUBSET Client
  /\ reply \in [Client -> Value \cup {None, "ack"}]
  /\ result \in [Client -> Value \cup {None, "ack", "error", "garbage"}]
  /\ measured \in Value \cup {None}
  /\ during \in [Client -> SUBSET Value]
  /\ pressed \in BOOLEAN
  /\ halted \in BOOLEAN
  /\ cut \in BOOLEAN

(***************************************************************************)
(* rocpmd.1, --battery-level: a level that a client returns is a            *)
(* measurement that was in force while it was connected, never one from     *)
(* before, and an off request is never answered with one; except that a     *)
(* client which the daemon has left without an answer, by ending, returns   *)
(* whatever its uninitialized int held (ud_client.cpp).                     *)
(***************************************************************************)
LeftUnanswered(c) == reply[c] = None /\ dpc = "gone"

AnswerTrue ==
  \A c \in Client :
    result[c] \in Value =>
      (cmd[c] = "level" /\ result[c] \in during[c]) \/ LeftUnanswered(c)

(***************************************************************************)
(* The daemon pulses OFF only when some client has sent an off command.     *)
(***************************************************************************)
OffAsked == \E c \in Client : cmd[c] = "off" /\ cpc[c] # "idle"

OffRequested == cut => OffAsked

(***************************************************************************)
(* The flag is not lost: a client whose off command was acknowledged is     *)
(* obeyed, unless a shutdown is on its way first.                           *)
(***************************************************************************)
OffObeyed ==
  (\E c \in Client : reply[c] = "ack" /\ result[c] = "ack") ~> (cut \/ halted)

(***************************************************************************)
(* README: the daemon initiates a shutdown when the switch is pressed or    *)
(* the battery is low, so the machine is not shut down for another reason.  *)
(***************************************************************************)
HaltJustified == halted => pressed \/ measured = Empty

(***************************************************************************)
(* The same where descriptors run out: a halt has one of three reasons.     *)
(***************************************************************************)
HaltExplained == halted => pressed \/ measured = Empty \/ leaked = MaxFd

(***************************************************************************)
(* Why: a socket is accepted from only when a connection waits there (the   *)
(* off socket's readiness is from before the level connection was served),  *)
(* what waits on a socket sent that socket's command, the level published   *)
(* is the last one measured, and the daemon does nothing after a halt.      *)
(***************************************************************************)
QueueInv ==
  \A s \in Socket : \A n \in 1..Len(queue[s]) :
    cmd[queue[s][n]] = s /\ cpc[queue[s][n]] # "idle"

ServedInv ==
  /\ dpc \in Socket => queue[dpc] # <<>>
  /\ dpc \in {"read", "write"} => conn \in Client /\ cpc[conn] # "idle"
  /\ offToo /\ (dpc = "level" \/ (dpc \in {"read", "write"} /\ cmd[conn] = "level"))
       => queue["off"] # <<>>

LevelInv ==
  /\ value = measured
  /\ \A c \in Client :
       /\ cpc[c] = "idle" => reply[c] = None
       /\ cpc[c] \in {"idle", "connected", "sent"} => result[c] = None
       /\ cpc[c] \in {"connected", "sent"} => measured = None \/ measured \in during[c]
       /\ reply[c] \in Value => cmd[c] = "level" /\ reply[c] \in during[c]

ServiceInv ==
  /\ QueueInv
  /\ ServedInv
  /\ LevelInv
  /\ powerOff => OffAsked
  /\ halted => dpc = "gone"
  /\ AnswerTrue
  /\ OffRequested
  /\ HaltExplained

(***************************************************************************)
(* A client that has sent its command gets to the end of its call.          *)
(***************************************************************************)
Answered == \A c \in Client : cpc[c] = "sent" ~> (Closed(c) \/ cut)

(***************************************************************************)
(* README: the daemon monitors the switch; a press is noticed whatever the  *)
(* clients of the sockets do.                                               *)
(***************************************************************************)
ButtonHalts == pressed ~> (halted \/ cut)

(***************************************************************************)
(* README: the daemon monitors the power switch and the battery until it    *)
(* shuts the system down: none of its clients is gone when its answer is    *)
(* written, which would end the daemon with SIGPIPE, unless one is killed.  *)
(***************************************************************************)
DaemonSurvives == dpc = "gone" => halted

-----------------------------------------------------------------------------
(***************************************************************************)
(* The loop and its sockets keep the promise of QueryService: each call     *)
(* takes effect at one point, a level query in WriteAnswer and an off       *)
(* request in ReadCommand, and is answered once, although the loop serves   *)
(* what it has sampled earlier and publishes a level it measures elsewhere. *)
(***************************************************************************)
Condition(label) ==
  IF label = "start" THEN "starting" ELSE IF label = "gone" THEN "ended" ELSE "up"

Phase(label) ==
  IF label = "idle" THEN "idle"
  ELSE IF label \in {"connected", "sent"} THEN "open" ELSE "closed"

Promise == INSTANCE QueryService WITH
  service <- Condition(dpc),
  level <- measured,
  noted <- powerOff,
  phase <- [c \in Client |-> Phase(cpc[c])]

KeepsPromise == Promise!Spec
=============================================================================
