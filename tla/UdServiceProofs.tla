-------------------------- MODULE UdServiceProofs ---------------------------
(***************************************************************************)
(* The socket service's safety, proved for any clients, any measurements    *)
(* and any number of descriptors, with the daemon stopped and clients       *)
(* killed at any point: the invariant ServiceInv and what follows from it.  *)
(***************************************************************************)
EXTENDS UdService, FiniteSets, FiniteSetTheorems, TLAPS

(* Removing the first of the connections that wait leaves the others.       *)
LEMMA TailFacts ==
  ASSUME NEW q \in Seq(Client), q # <<>>
  PROVE  /\ Head(q) \in Client
         /\ Tail(q) \in Seq(Client)
         /\ Len(q) > 0 /\ Head(q) = q[1]
         /\ \A n \in 1..Len(Tail(q)) : n + 1 \in 1..Len(q) /\ Tail(q)[n] = q[n + 1]
  OBVIOUS

(* A connection that arrives waits behind the others.                       *)
LEMMA AppendFacts ==
  ASSUME NEW q \in Seq(Client), NEW c \in Client
  PROVE  /\ Append(q, c) \in Seq(Client)
         /\ Append(q, c) # <<>>
         /\ \A n \in 1..Len(Append(q, c)) :
              \/ n \in 1..Len(q) /\ Append(q, c)[n] = q[n]
              \/ Append(q, c)[n] = c
  OBVIOUS

(* One socket's queue changes, the others stay.                             *)
LEMMA QueueUpdate ==
  ASSUME NEW q \in [Socket -> Seq(Client)], NEW s \in Socket, NEW r \in Seq(Client)
  PROVE  [q EXCEPT ![s] = r] \in [Socket -> Seq(Client)]
  OBVIOUS

IInv == TypeOK /\ ServiceInv

-----------------------------------------------------------------------------
(* Every variable keeps its type.                                           *)
LEMMA TypeStep == IInv /\ [Next]_vars => TypeOK'
<1> SUFFICES ASSUME IInv, [Next]_vars PROVE TypeOK'
  OBVIOUS
<1> USE ServiceAssumption
    DEF IInv, TypeOK, daemonVars, clientVars, socketVars, history, DaemonLabels,
        ClientLabels, Socket
<1>1. CASE UNCHANGED vars
  BY <1>1 DEF vars
<1>2. CASE Listen
  BY <1>2 DEF Listen
<1>3. CASE Measure
  BY <1>3 DEF Measure, Remember, Publish
<1>4. CASE IntervalNotExpired
  BY <1>4 DEF IntervalNotExpired
<1>5. CASE Poll
  BY <1>5 DEF Poll
<1>6. CASE Select
  BY <1>6 DEF Select
<1>7. CASE Accept
  <2>1. queue[dpc] \in Seq(Client) /\ queue[dpc] # <<>>
    BY <1>7 DEF Accept, ServiceInv, ServedInv
  <2>2. Head(queue[dpc]) \in Client /\ Tail(queue[dpc]) \in Seq(Client)
    BY <2>1, TailFacts
  <2>3. queue' = [queue EXCEPT ![dpc] = Tail(queue[dpc])] \/ queue' = queue
    BY <1>7 DEF Accept
  <2>4. queue' \in [Socket -> Seq(Client)]
    <3>1. queue \in [Socket -> Seq(Client)] /\ dpc \in Socket
      BY <1>7 DEF Accept
    <3> HIDE ServiceAssumption DEF IInv, TypeOK, Socket
    <3> QED
      BY <2>2, <2>3, <3>1, QueueUpdate
  <2>5. conn' \in Client \cup {None}
    BY <1>7, <2>2 DEF Accept
  <2>6. leaked' \in 0..MaxFd /\ dpc' \in DaemonLabels
    BY <1>7 DEF Accept
  <2> QED
    BY <1>7, <2>4, <2>5, <2>6 DEF Accept
<1>8. CASE ReadCommand
  BY <1>8 DEF ReadCommand
<1>9. CASE EndConnection
  BY <1>9 DEF EndConnection
<1>10. CASE WriteAnswer
  <2>1. conn \in Client
    BY <1>10 DEF WriteAnswer, ServiceInv, ServedInv
  <2> QED
    BY <1>10, <2>1 DEF WriteAnswer, Answer
<1>11. CASE TestFlag
  BY <1>11 DEF TestFlag
<1>12. CASE Stop
  BY <1>12 DEF Stop
<1>13. CASE Press
  BY <1>13 DEF Press
<1>14. ASSUME NEW c \in Client, Connect(c) PROVE TypeOK'
  <2>1. PICK s \in Socket :
          /\ cmd' = [cmd EXCEPT ![c] = s]
          /\ \/ queue' = [queue EXCEPT ![s] = Append(queue[s], c)]
             \/ queue' = queue
    BY <1>14 DEF Connect
  <2>2. Append(queue[s], c) \in Seq(Client)
    BY AppendFacts
  <2>3. queue' \in [Socket -> Seq(Client)]
    <3>1. CASE queue' = queue
      BY <3>1
    <3>2. CASE queue' = [queue EXCEPT ![s] = Append(queue[s], c)]
      BY <3>2, <2>2
    <3> QED
      BY <2>1, <3>1, <3>2
  <2>4. cmd' \in [Client -> Socket]
    BY <2>1
  <2>5. CASE Listening
    <3>1. /\ cpc' = [cpc EXCEPT ![c] = "connected"]
          /\ during' = [during EXCEPT ![c] = {measured} \ {None}]
          /\ UNCHANGED <<measured, result>>
      BY <1>14, <2>5 DEF Connect
    <3>2. {measured} \ {None} \in SUBSET Value
      OBVIOUS
    <3>3. during' \in [Client -> SUBSET Value]
      BY <3>1, <3>2
    <3> QED
      BY <1>14, <2>3, <2>4, <3>1, <3>3 DEF Connect
  <2>6. CASE ~Listening
    <3>1. /\ cpc' = [cpc EXCEPT ![c] = "done"]
          /\ result' = [result EXCEPT ![c] = "error"]
          /\ UNCHANGED <<measured, during>>
      BY <1>14, <2>6 DEF Connect
    <3> QED
      BY <1>14, <2>3, <2>4, <3>1 DEF Connect
  <2> QED
    BY <2>5, <2>6
<1>15. ASSUME NEW c \in Client, Send(c) PROVE TypeOK'
  BY <1>15 DEF Send
<1>16. ASSUME NEW c \in Client, Receive(c) PROVE TypeOK'
  <2>1. PICK r \in Value \cup {None, "ack", "error", "garbage"} : Return(c, r)
    BY <1>16 DEF Receive, Uninitialized
  <2>2. cpc' \in [Client -> ClientLabels]
    BY <2>1 DEF Return
  <2>3. result' \in [Client -> Value \cup {None, "ack", "error", "garbage"}]
    BY <2>1 DEF Return
  <2> QED
    BY <1>16, <2>2, <2>3 DEF Receive
<1>17. ASSUME NEW c \in Client, Die(c) PROVE TypeOK'
  BY <1>17 DEF Die
<1> HIDE ServiceAssumption DEF IInv, TypeOK, DaemonLabels, ClientLabels, Socket
<1> QED
  BY <1>1, <1>2, <1>3, <1>4, <1>5, <1>6, <1>7, <1>8, <1>9, <1>10, <1>11, <1>12,
     <1>13, <1>14, <1>15, <1>16, <1>17 DEF Next, DaemonStep, ClientStep

-----------------------------------------------------------------------------
(* What waits on a socket keeps its command and is not idle again.          *)
LEMMA QueueStep == IInv /\ [Next]_vars => QueueInv'
<1> SUFFICES ASSUME IInv, [Next]_vars PROVE QueueInv'
  OBVIOUS
<1> USE DEF IInv, TypeOK, ServiceInv, QueueInv
<1>1. CASE UNCHANGED <<queue, cmd, cpc>>
  BY <1>1
<1>2. CASE Accept
  <2>1. queue[dpc] \in Seq(Client) /\ queue[dpc] # <<>> /\ dpc \in Socket
    BY <1>2 DEF Accept, ServedInv
  <2>2. CASE leaked < MaxFd
    <3>1. queue' = [queue EXCEPT ![dpc] = Tail(queue[dpc])] /\ UNCHANGED <<cmd, cpc>>
      BY <1>2, <2>2 DEF Accept, clientVars
    <3> SUFFICES ASSUME NEW s \in Socket, NEW n \in 1..Len(queue'[s])
                 PROVE  cmd[queue'[s][n]] = s /\ cpc[queue'[s][n]] # "idle"
      BY <3>1
    <3>2. CASE s = dpc
      BY <2>1, <3>1, <3>2, TailFacts
    <3>3. CASE s # dpc
      BY <3>1, <3>3
    <3> QED
      BY <3>2, <3>3
  <2> QED
    BY <1>1, <1>2, <2>2 DEF Accept, clientVars
<1>3. ASSUME NEW c \in Client, Connect(c) PROVE QueueInv'
  <2>1. PICK t \in Socket :
          /\ cmd' = [cmd EXCEPT ![c] = t]
          /\ \/ queue' = [queue EXCEPT ![t] = Append(queue[t], c)]
             \/ queue' = queue
          /\ \E l \in {"connected", "done"} : cpc' = [cpc EXCEPT ![c] = l]
    BY <1>3 DEF Connect
  <2> SUFFICES ASSUME NEW s \in Socket, NEW n \in 1..Len(queue'[s])
               PROVE  cmd'[queue'[s][n]] = s /\ cpc'[queue'[s][n]] # "idle"
    OBVIOUS
  <2>2. cpc'[c] # "idle" /\ cmd'[c] = t /\ cpc[c] = "idle"
    BY <1>3, <2>1 DEF Connect
  <2>3. CASE n \in 1..Len(queue[s]) /\ queue'[s][n] = queue[s][n]
    <3>1. queue[s][n] \in Client /\ queue[s][n] # c
      BY <2>2, <2>3
    <3> QED
      BY <2>1, <2>3, <3>1
  <2>4. CASE s = t /\ queue'[s][n] = c
    BY <2>2, <2>4
  <2>5. CASE s = t /\ queue' = [queue EXCEPT ![t] = Append(queue[t], c)]
    <3>1. queue'[s] = Append(queue[t], c) /\ queue[t] \in Seq(Client)
      BY <2>5
    <3>2. \/ n \in 1..Len(queue[t]) /\ queue'[s][n] = queue[t][n]
          \/ queue'[s][n] = c
      BY <3>1, AppendFacts
    <3> QED
      BY <2>3, <2>4, <2>5, <3>2
  <2>6. CASE s # t \/ queue' = queue
    <3>1. queue'[s] = queue[s]
      BY <2>1, <2>6
    <3> QED
      BY <2>3, <3>1
  <2> QED
    BY <2>1, <2>5, <2>6
<1>4. ASSUME NEW c \in Client, Send(c) \/ Receive(c) \/ Die(c) PROVE QueueInv'
  <2>1. UNCHANGED <<queue, cmd>>
    BY <1>4 DEF Send, Receive, Return, Die, socketVars
  <2>2. PICK l \in {"sent", "done", "dead"} : cpc' = [cpc EXCEPT ![c] = l]
    BY <1>4 DEF Send, Receive, Return, Die
  <2> QED
    BY <2>1, <2>2
<1>5. ASSUME \/ UNCHANGED vars \/ Listen \/ Measure \/ IntervalNotExpired \/ Poll
             \/ Select \/ ReadCommand \/ EndConnection \/ WriteAnswer \/ TestFlag
             \/ Stop \/ Press
      PROVE  UNCHANGED <<queue, cmd, cpc>>
  BY <1>5 DEF vars, Listen, Measure, IntervalNotExpired, Poll, Select, ReadCommand,
              EndConnection, WriteAnswer, TestFlag, Stop, Press, clientVars, socketVars
<1> QED
  BY <1>1, <1>2, <1>3, <1>4, <1>5 DEF Next, DaemonStep, ClientStep

(* The daemon accepts only where a connection waits, and serves a client.   *)
LEMMA ServedStep == IInv /\ [Next]_vars => ServedInv'
<1> SUFFICES ASSUME IInv, [Next]_vars PROVE ServedInv'
  OBVIOUS
<1> USE DEF IInv, TypeOK, ServiceInv, ServedInv, Socket
<1>1. CASE UNCHANGED vars \/ Press
  BY <1>1 DEF vars, Press, daemonVars, clientVars, socketVars
<1>2. CASE Listen \/ Measure \/ IntervalNotExpired \/ Poll \/ TestFlag \/ Stop
  <2>1. dpc' \in {"first", "poll", "interval", "select", "gone"}
    BY <1>2 DEF Listen, Measure, IntervalNotExpired, Poll, TestFlag, Stop
  <2> QED
    BY <2>1
<1>3. CASE Select
  BY <1>3 DEF Select, socketVars
<1>4. CASE Accept
  <2>1. CASE leaked < MaxFd
    <3>1. dpc \in Socket /\ queue[dpc] \in Seq(Client) /\ queue[dpc] # <<>>
      BY <1>4 DEF Accept
    <3>2. Head(queue[dpc]) \in Client /\ cmd[Head(queue[dpc])] = dpc
          /\ cpc[Head(queue[dpc])] # "idle"
      BY <3>1, TailFacts DEF QueueInv
    <3>3. /\ conn' = Head(queue[dpc]) /\ dpc' = "read"
          /\ queue' = [queue EXCEPT ![dpc] = Tail(queue[dpc])]
          /\ UNCHANGED <<offToo, cpc, cmd>>
      BY <1>4, <2>1 DEF Accept, clientVars
    <3> QED
      BY <3>1, <3>2, <3>3
  <2>2. CASE dpc' = "poll"
    BY <2>2
  <2> QED
    BY <1>4, <2>1, <2>2 DEF Accept
<1>5. CASE ReadCommand \/ WriteAnswer
  <2>1. dpc \in {"read", "write"} /\ dpc' \in {"read", "write", "gone"}
    BY <1>5 DEF ReadCommand, WriteAnswer
  <2>2. UNCHANGED <<conn, offToo, queue, cmd, cpc>>
    BY <1>5 DEF ReadCommand, WriteAnswer, clientVars
  <2> QED
    BY <2>1, <2>2
<1>6. CASE EndConnection
  BY <1>6 DEF EndConnection, clientVars, socketVars
<1>7. ASSUME NEW c \in Client, Connect(c) PROVE ServedInv'
  <2>1. UNCHANGED <<dpc, conn, offToo>> /\ cpc[c] = "idle"
    BY <1>7 DEF Connect, daemonVars
  <2>2. PICK t \in Socket :
          /\ cmd' = [cmd EXCEPT ![c] = t]
          /\ \/ queue' = [queue EXCEPT ![t] = Append(queue[t], c)]
             \/ queue' = queue
    BY <1>7 DEF Connect
  <2>3. \A s \in Socket : queue[s] # <<>> => queue'[s] # <<>>
    BY <2>2, AppendFacts
  <2>4. \A d \in Client : d # c => cmd'[d] = cmd[d] /\ cpc'[d] = cpc[d]
    BY <1>7 DEF Connect
  <2>5. dpc \in {"read", "write"} => conn # c
    BY <2>1
  <2> QED
    BY <2>1, <2>3, <2>4, <2>5
<1>8. ASSUME NEW c \in Client, Send(c) \/ Receive(c) \/ Die(c) PROVE ServedInv'
  <2>1. UNCHANGED <<dpc, conn, offToo, queue, cmd>>
    BY <1>8 DEF Send, Receive, Return, Die, socketVars, daemonVars
  <2>2. PICK l \in {"sent", "done", "dead"} : cpc' = [cpc EXCEPT ![c] = l]
    BY <1>8 DEF Send, Receive, Return, Die
  <2> QED
    BY <2>1, <2>2
<1> QED
  BY <1>1, <1>2, <1>3, <1>4, <1>5, <1>6, <1>7, <1>8 DEF Next, DaemonStep, ClientStep

(* An answer was in force when it was written, and stays what it was.       *)
LEMMA LevelStep == IInv /\ [Next]_vars => (LevelInv /\ AnswerTrue)'
<1> SUFFICES ASSUME IInv, [Next]_vars PROVE (LevelInv /\ AnswerTrue)'
  OBVIOUS
<1> USE ServiceAssumption
    DEF IInv, TypeOK, ServiceInv, LevelInv, AnswerTrue, LeftUnanswered
<1>0. dpc = "gone" => dpc' = "gone" /\ \A c \in Client : reply'[c] = reply[c]
  BY DEF Next, vars, daemonVars, socketVars, Socket, DaemonStep, ClientStep, Listen,
         Measure, IntervalNotExpired, Poll, Select, Accept, ReadCommand, WriteAnswer,
         EndConnection, TestFlag, Stop, Press, Connect, Send, Receive, Die
<1>1. CASE UNCHANGED <<value, measured, during, cpc, cmd, reply, result>>
  BY <1>0, <1>1
<1>2. CASE Measure
  <2>1. PICK v \in Value : Remember(v) /\ Publish(v)
    BY <1>2 DEF Measure
  <2>2. UNCHANGED <<cpc, cmd, reply, result>>
    BY <1>2 DEF Measure, clientVars, socketVars
  <2>3. value' = v /\ measured' = v
    BY <2>1 DEF Remember, Publish
  <2>4. \A c \in Client :
          /\ during[c] \subseteq during'[c]
          /\ cpc[c] \in {"connected", "sent"} => v \in during'[c]
    BY <2>1 DEF Remember
  <2> QED
    BY <1>0, <2>2, <2>3, <2>4
<1>3. CASE WriteAnswer
  <2>1. UNCHANGED <<value, measured, during, cpc, cmd, result>>
    BY <1>3 DEF WriteAnswer, clientVars, history
  <2>2. CASE Closed(conn)
    BY <1>1, <1>3, <2>1, <2>2 DEF WriteAnswer
  <2>3. CASE ~Closed(conn)
    <3>1. conn \in Client /\ cpc[conn] \in {"connected", "sent"}
      BY <1>3, <2>3 DEF WriteAnswer, ServedInv, Closed, ClientLabels
    <3>2. reply' = [reply EXCEPT ![conn] = Answer(conn)]
      BY <1>3, <2>3 DEF WriteAnswer
    <3>3. Answer(conn) \in Value => cmd[conn] = "level" /\ Answer(conn) \in during[conn]
      BY <3>1 DEF Answer, Socket
    <3> QED
      BY <1>0, <2>1, <3>1, <3>2, <3>3
  <2> QED
    BY <2>2, <2>3
<1>4. ASSUME NEW c \in Client, Connect(c) PROVE (LevelInv /\ AnswerTrue)'
  <2>1. UNCHANGED <<value, measured, reply>> /\ cpc[c] = "idle"
    BY <1>4 DEF Connect, daemonVars, history
  <2>2. reply[c] = None /\ result[c] = None
    BY <2>1
  <2>3. \A d \in Client \ {c} : /\ cpc'[d] = cpc[d] /\ cmd'[d] = cmd[d]
                                /\ result'[d] = result[d] /\ during'[d] = during[d]
    BY <1>4 DEF Connect, history
  <2>4. \/ /\ cpc'[c] = "connected" /\ result'[c] = None
           /\ measured = None \/ measured \in during'[c]
        \/ cpc'[c] = "done" /\ result'[c] = "error"
    BY <1>4, <2>2 DEF Connect
  <2>5. LevelInv'
    <3>1. /\ cpc'[c] = "idle" => reply'[c] = None
          /\ cpc'[c] \in {"idle", "connected", "sent"} => result'[c] = None
          /\ cpc'[c] \in {"connected", "sent"} => measured' = None \/ measured' \in during'[c]
          /\ reply'[c] \notin Value
      BY <2>1, <2>2, <2>4
    <3>2. value' = measured'
      BY <2>1
    <3> QED
      BY <2>1, <2>3, <3>1, <3>2
  <2>6. AnswerTrue'
    BY <1>0, <2>1, <2>2, <2>3, <2>4
  <2> QED
    BY <2>5, <2>6
<1>5. ASSUME NEW c \in Client, Send(c) \/ Die(c) PROVE (LevelInv /\ AnswerTrue)'
  <2>1. UNCHANGED <<value, measured, during, cmd, reply, result>>
    BY <1>5 DEF Send, Die, daemonVars, socketVars, history
  <2>2. PICK l \in {"sent", "dead"} : cpc' = [cpc EXCEPT ![c] = l]
    BY <1>5 DEF Send, Die
  <2>3. cpc[c] \in {"connected", "sent"}
    BY <1>5 DEF Send, Die
  <2> QED
    BY <1>0, <2>1, <2>2, <2>3
<1>6. ASSUME NEW c \in Client, Receive(c) PROVE (LevelInv /\ AnswerTrue)'
  <2>1. UNCHANGED <<value, measured, during, cmd, reply>>
    BY <1>6 DEF Receive, daemonVars, socketVars, history
  <2>2. PICK r :
          /\ cpc' = [cpc EXCEPT ![c] = "done"] /\ result' = [result EXCEPT ![c] = r]
          /\ IF reply[c] # None THEN r = reply[c] ELSE dpc = "gone"
    BY <1>6 DEF Receive, Return
  <2>3. reply[c] # None /\ r \in Value => cmd[c] = "level" /\ r \in during[c]
    BY <2>2
  <2>4. LevelInv'
    BY <2>1, <2>2
  <2>5. AnswerTrue'
    BY <1>0, <2>1, <2>2, <2>3
  <2> QED
    BY <2>4, <2>5
<1>7. ASSUME \/ UNCHANGED vars \/ Listen \/ IntervalNotExpired \/ Poll
             \/ Select \/ Accept \/ ReadCommand \/ EndConnection \/ TestFlag
             \/ Stop \/ Press
      PROVE  UNCHANGED <<value, measured, during, cpc, cmd, reply, result>>
  BY <1>7 DEF vars, Listen, IntervalNotExpired, Poll, Select, Accept, ReadCommand,
              EndConnection, TestFlag, Stop, Press, clientVars, socketVars, daemonVars,
              history
<1> QED
  BY <1>1, <1>2, <1>3, <1>4, <1>5, <1>6, <1>7 DEF Next, DaemonStep, ClientStep

(* The flag is raised, and the power cut, only after an off command.        *)
LEMMA RequestStep == IInv /\ [Next]_vars => (powerOff => OffAsked)' /\ OffRequested'
<1> SUFFICES ASSUME IInv, [Next]_vars PROVE (powerOff => OffAsked)' /\ OffRequested'
  OBVIOUS
<1> USE DEF IInv, TypeOK, ServiceInv, OffRequested
<1>1. OffAsked => OffAsked'
  <2> SUFFICES ASSUME NEW c \in Client, cmd[c] = "off", cpc[c] # "idle"
               PROVE  cmd'[c] = "off" /\ cpc'[c] # "idle"
    BY DEF OffAsked
  <2>1. CASE UNCHANGED <<cmd, cpc>>
    BY <2>1
  <2>2. ASSUME NEW d \in Client, Connect(d) PROVE cmd'[c] = "off" /\ cpc'[c] # "idle"
    <3>1. c # d
      BY <2>2 DEF Connect
    <3> QED
      BY <2>2, <3>1 DEF Connect
  <2>3. ASSUME NEW d \in Client, Send(d) \/ Receive(d) \/ Die(d)
        PROVE  cmd'[c] = "off" /\ cpc'[c] # "idle"
    BY <2>3 DEF Send, Receive, Return, Die
  <2>4. ASSUME UNCHANGED vars \/ DaemonStep \/ Stop \/ Press PROVE UNCHANGED <<cmd, cpc>>
    BY <2>4 DEF vars, DaemonStep, Listen, Measure, IntervalNotExpired, Poll, Select,
                Accept, ReadCommand, EndConnection, WriteAnswer, TestFlag, Stop, Press,
                clientVars
  <2> QED
    BY <2>1, <2>2, <2>3, <2>4 DEF Next, ClientStep
<1>2. CASE UNCHANGED <<powerOff, cut>>
  BY <1>1, <1>2
<1>3. CASE ReadCommand
  <2>1. conn \in Client /\ cpc[conn] # "idle"
    BY <1>3 DEF ReadCommand, ServedInv
  <2>2. powerOff' => OffAsked
    BY <1>3, <2>1 DEF ReadCommand, OffAsked
  <2>3. cut' = cut
    BY <1>3 DEF ReadCommand
  <2> QED
    BY <1>1, <2>2, <2>3
<1>4. CASE TestFlag
  <2>1. (cut' => powerOff) /\ powerOff' = powerOff
    BY <1>4 DEF TestFlag
  <2> QED
    BY <1>1, <2>1
<1>5. ASSUME \/ UNCHANGED vars \/ Listen \/ Measure \/ IntervalNotExpired \/ Poll
             \/ Select \/ Accept \/ EndConnection \/ WriteAnswer \/ Stop \/ Press
             \/ \E c \in Client : Connect(c) \/ ClientStep(c) \/ Die(c)
      PROVE  UNCHANGED <<powerOff, cut>>
  BY <1>5 DEF vars, Listen, Measure, IntervalNotExpired, Poll, Select, Accept,
              EndConnection, WriteAnswer, Stop, Press, Connect, ClientStep, Send,
              Receive, Die, daemonVars
<1> QED
  BY <1>2, <1>3, <1>4, <1>5 DEF Next, DaemonStep

(* A halt has a reason, which the daemon, gone by then, does not change.    *)
LEMMA HaltStep == IInv /\ [Next]_vars => (halted => dpc = "gone")' /\ HaltExplained'
<1> SUFFICES ASSUME IInv, [Next]_vars PROVE (halted => dpc = "gone")' /\ HaltExplained'
  OBVIOUS
<1> USE DEF IInv, TypeOK, ServiceInv, HaltExplained
<1>1. CASE Measure
  BY <1>1 DEF Measure, Remember
<1>2. CASE Poll
  BY <1>2 DEF Poll, history
<1>3. CASE Accept
  BY <1>3 DEF Accept, history, Socket
<1>4. ASSUME Listen \/ IntervalNotExpired \/ Select \/ ReadCommand \/ EndConnection
             \/ WriteAnswer \/ TestFlag
      PROVE  dpc # "gone" /\ halted' = halted
  BY <1>4 DEF Listen, IntervalNotExpired, Select, ReadCommand, EndConnection,
              WriteAnswer, TestFlag
<1>5. ASSUME Stop \/ UNCHANGED vars
      PROVE  dpc' \in {dpc, "gone"} /\ UNCHANGED <<halted, pressed, measured, leaked>>
  BY <1>5 DEF Stop, vars, daemonVars, history
<1>6. ASSUME Press \/ \E c \in Client : Connect(c) \/ ClientStep(c) \/ Die(c)
      PROVE  UNCHANGED <<dpc, halted, measured, leaked>> /\ (pressed => pressed')
  BY <1>6 DEF Press, Connect, ClientStep, Send, Receive, Die, daemonVars, history
<1> QED
  BY <1>1, <1>2, <1>3, <1>4, <1>5, <1>6 DEF Next, DaemonStep

(***************************************************************************)
(* The invariant that keeps the service's promises is inductive and holds   *)
(* at the start (ServiceInv).                                               *)
(***************************************************************************)
THEOREM ServiceInvariant == Spec => [](TypeOK /\ ServiceInv)
<1>1. ASSUME Init PROVE IInv
  <2> USE <1>1, ServiceAssumption DEF Init
  <2>1. TypeOK
    <3>1. <<>> \in Seq(Client)
      OBVIOUS
    <3>2. queue \in [Socket -> Seq(Client)]
      BY <3>1
    <3>3. leaked \in 0..MaxFd
      OBVIOUS
    <3>4. cpc \in [Client -> ClientLabels] /\ cmd \in [Client -> Socket]
      BY DEF ClientLabels, Socket
    <3>5. /\ reply \in [Client -> Value \cup {None, "ack"}]
          /\ result \in [Client -> Value \cup {None, "ack", "error", "garbage"}]
      OBVIOUS
    <3>6. during \in [Client -> SUBSET Value]
      OBVIOUS
    <3> QED
      BY <3>2, <3>3, <3>4, <3>5, <3>6 DEF TypeOK, DaemonLabels
  <2>2. QueueInv
    BY DEF QueueInv
  <2>3. ServedInv
    BY DEF ServedInv, Socket
  <2>4. LevelInv /\ AnswerTrue
    BY DEF LevelInv, AnswerTrue
  <2> QED
    BY <2>1, <2>2, <2>3, <2>4 DEF IInv, ServiceInv, OffRequested, HaltExplained
<1>2. IInv /\ [Next]_vars => IInv'
  BY TypeStep, QueueStep, ServedStep, LevelStep, RequestStep, HaltStep
  DEF IInv, ServiceInv
<1>3. IInv <=> TypeOK /\ ServiceInv
  BY DEF IInv
<1> QED
  BY <1>1, <1>2, <1>3, PTL DEF Spec

(* A level that a client returns is a measurement in force during its call, *)
(* and an off request is never answered with one, unless the daemon has     *)
(* ended without answering it (AnswerTrue): nothing more can be said of an  *)
(* int that nothing has written.                                            *)
THEOREM AnswersAreTrue == Spec => []AnswerTrue
<1>1. ServiceInv => AnswerTrue
  BY DEF ServiceInv
<1> QED
  BY <1>1, ServiceInvariant, PTL

(* The daemon pulses OFF only when a client asked for it (OffRequested).    *)
THEOREM OffOnlyOnRequest == Spec => []OffRequested
<1>1. ServiceInv => OffRequested
  BY DEF ServiceInv
<1> QED
  BY <1>1, ServiceInvariant, PTL

(***************************************************************************)
(* The daemon shuts the machine down for the button, for an empty battery   *)
(* or because its descriptors have run out (HaltExplained).                 *)
(***************************************************************************)
THEOREM HaltsAreExplained == Spec => []HaltExplained
<1>1. ServiceInv => HaltExplained
  BY DEF ServiceInv
<1> QED
  BY <1>1, ServiceInvariant, PTL

(* Every variable of the service keeps its type (TypeOK).                   *)
THEOREM TypeCorrect == Spec => []TypeOK
<1>1. TypeOK /\ ServiceInv => TypeOK
  OBVIOUS
<1> QED
  BY <1>1, ServiceInvariant, PTL

-----------------------------------------------------------------------------
(***************************************************************************)
(* Why no client is gone when its answer is written: while the daemon runs, *)
(* a client whose command is unread, or read and not yet answered, waits,   *)
(* and it has had no other answer that could have let it go.                *)
(***************************************************************************)
Waits(c) == cpc[c] = "sent" /\ reply[c] = None

CallInv ==
  /\ \A c \in Client : cpc[c] \in {"idle", "connected"} => reply[c] = None
  /\ dpc # "gone" => \A c \in sent : Waits(c)
  /\ dpc = "write" => Waits(conn) /\ conn \notin sent
  /\ DaemonSurvives

(* No step ends a call before its answer is written.                        *)
LEMMA CallStep ==
  ASSUME ~Stops, ~Kills, IInv, CallInv, [Next]_vars
  PROVE  CallInv'
<1> USE DEF IInv, TypeOK, CallInv, Waits, DaemonSurvives
<1>1. ASSUME dpc \in {"read", "write"} PROVE conn \in Client
  BY <1>1 DEF ServiceInv, ServedInv
<1>2. CASE UNCHANGED vars
  BY <1>2 DEF vars, daemonVars, clientVars, socketVars
<1>3. CASE Measure \/ Poll
  BY <1>3 DEF Measure, Poll, clientVars, socketVars
<1>4. CASE \/ Listen \/ IntervalNotExpired \/ Select \/ Accept \/ EndConnection
           \/ TestFlag
  <2>1. /\ dpc # "gone" /\ dpc' \notin {"gone", "write"}
        /\ UNCHANGED <<cpc, sent, reply, halted>>
    BY <1>4 DEF Listen, IntervalNotExpired, Select, Accept, EndConnection, TestFlag,
                clientVars, socketVars, Socket
  <2> QED
    BY <2>1
<1>5. CASE ReadCommand
  BY <1>1, <1>5 DEF ReadCommand, clientVars
<1>6. CASE WriteAnswer
  <2>1. conn \in Client /\ ~Closed(conn)
    BY <1>1, <1>6 DEF WriteAnswer, Closed
  <2>2. /\ dpc # "gone" /\ dpc' = "read"
        /\ UNCHANGED <<cpc, sent, halted>>
        /\ \A c \in Client \ {conn} : reply'[c] = reply[c]
    BY <1>6, <2>1 DEF WriteAnswer, clientVars
  <2>3. conn \notin sent /\ cpc[conn] = "sent"
    BY <1>6 DEF WriteAnswer
  <2> QED
    BY <2>1, <2>2, <2>3
<1>7. CASE Press
  BY <1>7 DEF Press, daemonVars, clientVars, socketVars
<1>8. ASSUME NEW c \in Client, Connect(c) PROVE CallInv'
  <2>1. /\ cpc[c] = "idle" /\ cpc'[c] \in {"connected", "done"}
        /\ \A d \in Client \ {c} : cpc'[d] = cpc[d]
        /\ UNCHANGED <<dpc, conn, halted, sent, reply>>
    BY <1>8 DEF Connect, daemonVars
  <2> QED
    BY <1>1, <2>1
<1>9. ASSUME NEW c \in Client, Send(c) PROVE CallInv'
  <2>1. /\ cpc[c] = "connected" /\ cpc'[c] \in {"sent", "dead"}
        /\ \A d \in Client \ {c} : cpc'[d] = cpc[d]
        /\ UNCHANGED <<dpc, conn, halted, reply>>
        /\ dpc # "gone" => cpc'[c] = "sent" /\ sent' = sent \cup {c}
        /\ dpc = "gone" => sent' = sent
    BY <1>9 DEF Send, daemonVars
  <2> QED
    BY <1>1, <2>1
<1>10. ASSUME NEW c \in Client, Receive(c) PROVE CallInv'
  <2>1. /\ cpc[c] = "sent" /\ cpc'[c] = "done"
        /\ \A d \in Client \ {c} : cpc'[d] = cpc[d]
        /\ UNCHANGED <<dpc, conn, halted, sent, reply>>
        /\ reply[c] # None \/ dpc = "gone"
    BY <1>10 DEF Receive, Return, daemonVars, socketVars
  <2> QED
    BY <1>1, <2>1
<1>11. ~Stop /\ \A c \in Client : ~Die(c)
  BY DEF Stop, Die
<1> QED
  BY <1>2, <1>3, <1>4, <1>5, <1>6, <1>7, <1>8, <1>9, <1>10, <1>11
  DEF Next, DaemonStep, ClientStep

(***************************************************************************)
(* The daemon runs until it shuts the machine down, for any clients and any *)
(* number of descriptors, as long as nothing stops it and no client is      *)
(* killed: its own protocol never ends it with SIGPIPE (DaemonSurvives).    *)
(***************************************************************************)
THEOREM DaemonSurvivesItsClients ==
  ASSUME ~Stops, ~Kills
  PROVE  Spec => []DaemonSurvives
<1>1. Init => CallInv
  BY DEF Init, CallInv, Waits, DaemonSurvives
<1>2. TypeOK /\ ServiceInv /\ CallInv /\ [Next]_vars => CallInv'
  BY CallStep DEF IInv
<1>3. CallInv => DaemonSurvives
  BY DEF CallInv
<1> QED
  BY <1>1, <1>2, <1>3, ServiceInvariant, PTL DEF Spec

-----------------------------------------------------------------------------
(***************************************************************************)
(* Why descriptors last as long as there are fewer calls than descriptors:  *)
(* a call's connection waits once, on the socket of its command, so it is   *)
(* accepted once, and each descriptor that leaks is one call's.             *)
(***************************************************************************)
Holds(q, c) == \E n \in 1..Len(q) : q[n] = c

Distinct(q) == \A m, n \in 1..Len(q) : q[m] = q[n] => m = n

Accepted ==
  {c \in Client : cpc[c] # "idle" /\ \A s \in Socket : ~Holds(queue[s], c)}

LeakInv ==
  /\ \A s \in Socket : Distinct(queue[s])
  /\ leaked <= Cardinality(Accepted)

LEMMA HeadLeaves ==
  ASSUME NEW q \in Seq(Client), q # <<>>, Distinct(q)
  PROVE  /\ Head(q) \in Client /\ Holds(q, Head(q))
         /\ Distinct(Tail(q)) /\ ~Holds(Tail(q), Head(q))
         /\ \A c : Holds(Tail(q), c) => Holds(q, c)
<1>1. /\ Head(q) \in Client /\ Head(q) = q[1] /\ 1 \in 1..Len(q)
      /\ \A n \in 1..Len(Tail(q)) : n + 1 \in 1..Len(q) /\ Tail(q)[n] = q[n + 1]
  BY TailFacts
<1>2. Distinct(Tail(q))
  <2> SUFFICES ASSUME NEW m \in 1..Len(Tail(q)), NEW n \in 1..Len(Tail(q)),
                      Tail(q)[m] = Tail(q)[n]
               PROVE  m = n
    BY DEF Distinct
  <2>1. m + 1 = n + 1
    BY <1>1 DEF Distinct
  <2> QED
    BY <2>1
<1>3. ASSUME Holds(Tail(q), Head(q)) PROVE FALSE
  <2>1. PICK n \in 1..Len(Tail(q)) : Tail(q)[n] = Head(q)
    BY <1>3 DEF Holds
  <2>2. n + 1 = 1
    BY <1>1, <2>1 DEF Distinct
  <2> QED
    BY <2>2
<1> QED
  BY <1>1, <1>2, <1>3 DEF Holds

LEMMA LastArrives ==
  ASSUME NEW q \in Seq(Client), NEW c \in Client, Distinct(q), ~Holds(q, c)
  PROVE  /\ Distinct(Append(q, c))
         /\ \A d : Holds(Append(q, c), d) => d = c \/ Holds(q, d)
<1>1. \A n \in 1..Len(Append(q, c)) :
        \/ n \in 1..Len(q) /\ Append(q, c)[n] = q[n]
        \/ n = Len(q) + 1 /\ Append(q, c)[n] = c
  OBVIOUS
<1> HIDE DEF Holds, Distinct
<1>2. Distinct(Append(q, c))
  <2> SUFFICES ASSUME NEW m \in 1..Len(Append(q, c)), NEW n \in 1..Len(Append(q, c)),
                      Append(q, c)[m] = Append(q, c)[n]
               PROVE  m = n
    BY DEF Distinct
  <2> QED
    BY <1>1 DEF Distinct, Holds
<1> QED
  BY <1>1, <1>2 DEF Holds

(* What has been accepted is finite, and no call drops out of it.           *)
LEMMA AcceptedGrows ==
  ASSUME IsFiniteSet(Client), leaked \in Nat, leaked <= Cardinality(Accepted),
         Accepted \subseteq Accepted', leaked' = leaked
  PROVE  leaked' <= Cardinality(Accepted')
<1>1. IsFiniteSet(Accepted')
  BY FS_Subset DEF Accepted
<1>2. Cardinality(Accepted) <= Cardinality(Accepted') /\ IsFiniteSet(Accepted)
  BY <1>1, FS_Subset
<1>3. Cardinality(Accepted) \in Nat /\ Cardinality(Accepted') \in Nat
  BY <1>1, <1>2, FS_CardinalityType
<1> QED
  BY <1>2, <1>3

(* accept() takes one connection that waits, and one descriptor.            *)
LEMMA AcceptLeaks ==
  ASSUME IsFiniteSet(Client), IInv, LeakInv, Accept
  PROVE  LeakInv'
<1>1. CASE ~(leaked < MaxFd)
  <2>1. UNCHANGED <<queue, leaked, cpc>>
    BY <1>1 DEF Accept, clientVars
  <2> QED
    BY <2>1 DEF LeakInv, Accepted
<1>2. CASE leaked < MaxFd
  <2> DEFINE h == Head(queue[dpc])
  <2>1. /\ dpc \in Socket /\ queue[dpc] \in Seq(Client) /\ queue[dpc] # <<>>
        /\ leaked \in Nat
    BY DEF Accept, ServedInv, IInv, ServiceInv, TypeOK
  <2>2. leaked' = leaked + 1 /\ UNCHANGED cpc
    BY <1>2 DEF Accept, clientVars
  <2>3. queue'[dpc] = Tail(queue[dpc]) /\ \A s \in Socket \ {dpc} : queue'[s] = queue[s]
    BY <1>2, <2>1 DEF Accept, IInv, TypeOK
  <2>4. /\ h \in Client /\ Holds(queue[dpc], h)
        /\ Distinct(Tail(queue[dpc])) /\ ~Holds(Tail(queue[dpc]), h)
        /\ \A c : Holds(Tail(queue[dpc]), c) => Holds(queue[dpc], c)
    BY <2>1, HeadLeaves DEF LeakInv
  <2>5. \A s \in Socket : Distinct(queue'[s])
    BY <2>3, <2>4 DEF LeakInv
  <2>6. cpc[h] # "idle" /\ \A s \in Socket : Holds(queue[s], h) => s = dpc
    BY <2>1, <2>4 DEF Holds, IInv, ServiceInv, QueueInv
  <2>7. h \notin Accepted /\ Accepted \cup {h} \subseteq Accepted'
    BY <2>1, <2>2, <2>3, <2>4, <2>6 DEF Accepted
  <2>8. IsFiniteSet(Accepted) /\ IsFiniteSet(Accepted')
    BY FS_Subset DEF Accepted
  <2>9. Cardinality(Accepted \cup {h}) = Cardinality(Accepted) + 1
    BY <2>7, <2>8, FS_AddElement
  <2>10. Cardinality(Accepted \cup {h}) <= Cardinality(Accepted')
    BY <2>7, <2>8, FS_Subset
  <2>11. Cardinality(Accepted) \in Nat /\ Cardinality(Accepted') \in Nat
    BY <2>8, FS_CardinalityType
  <2> HIDE DEF h
  <2>12. leaked' <= Cardinality(Accepted')
    BY <2>1, <2>2, <2>9, <2>10, <2>11 DEF LeakInv
  <2> QED
    BY <2>5, <2>12 DEF LeakInv
<1> QED
  BY <1>1, <1>2

(* connect() queues a call that has not waited before.                      *)
LEMMA ConnectLeaks ==
  ASSUME IsFiniteSet(Client), IInv, LeakInv, NEW c \in Client, Connect(c)
  PROVE  LeakInv'
<1>0. leaked \in Nat /\ queue \in [Socket -> Seq(Client)]
  BY DEF IInv, TypeOK
<1>1. PICK t \in Socket :
        \/ queue' = [queue EXCEPT ![t] = Append(queue[t], c)]
        \/ queue' = queue
  BY DEF Connect
<1>2. /\ cpc[c] = "idle" /\ leaked' = leaked
      /\ \A d \in Client : cpc[d] # "idle" => cpc'[d] # "idle"
  BY DEF Connect, daemonVars, IInv, TypeOK
<1>3. \A s \in Socket : ~Holds(queue[s], c)
  BY <1>2 DEF Holds, IInv, ServiceInv, QueueInv
<1>4. \A s \in Socket : \/ queue'[s] = queue[s]
                        \/ queue'[s] = Append(queue[s], c)
  BY <1>0, <1>1
<1>5. \A s \in Socket : Distinct(queue'[s])
  BY <1>0, <1>3, <1>4, LastArrives DEF LeakInv
<1>6. \A s \in Socket : \A d : Holds(queue'[s], d) => d = c \/ Holds(queue[s], d)
  BY <1>0, <1>3, <1>4, LastArrives DEF LeakInv
<1>7. Accepted \subseteq Accepted'
  BY <1>2, <1>6 DEF Accepted
<1> QED
  BY <1>0, <1>2, <1>5, <1>7, AcceptedGrows DEF LeakInv

LEMMA LeakStep ==
  ASSUME IsFiniteSet(Client), IInv, LeakInv, [Next]_vars
  PROVE  LeakInv'
<1>1. CASE /\ UNCHANGED <<queue, leaked>>
           /\ \A d \in Client : cpc[d] # "idle" => cpc'[d] # "idle"
  <2>1. Accepted \subseteq Accepted' /\ leaked \in Nat
    BY <1>1 DEF Accepted, IInv, TypeOK
  <2> QED
    BY <1>1, <2>1, AcceptedGrows DEF LeakInv
<1>2. ASSUME NEW c \in Client, Send(c) \/ Receive(c) \/ Die(c)
      PROVE  /\ UNCHANGED <<queue, leaked>>
             /\ \A d \in Client : cpc[d] # "idle" => cpc'[d] # "idle"
  BY <1>2 DEF Send, Receive, Return, Die, daemonVars, socketVars, IInv, TypeOK
<1>3. ASSUME \/ UNCHANGED vars \/ Listen \/ Measure \/ IntervalNotExpired \/ Poll
             \/ Select \/ ReadCommand \/ EndConnection \/ WriteAnswer \/ TestFlag
             \/ Stop \/ Press
      PROVE  UNCHANGED <<queue, leaked, cpc>>
  BY <1>3 DEF vars, Listen, Measure, IntervalNotExpired, Poll, Select, ReadCommand,
              EndConnection, WriteAnswer, TestFlag, Stop, Press, daemonVars,
              clientVars, socketVars
<1> QED
  BY <1>1, <1>2, <1>3, AcceptLeaks, ConnectLeaks DEF Next, DaemonStep, ClientStep

(***************************************************************************)
(* README: the daemon shuts the machine down for the switch or an empty     *)
(* battery and for nothing else (HaltJustified), as long as its clients     *)
(* make fewer calls than it has descriptors: it never closes those that     *)
(* accept() returns, and takes the pin it cannot open for a pressed button. *)
(***************************************************************************)
THEOREM HaltsForButtonOrBattery ==
  ASSUME IsFiniteSet(Client), Cardinality(Client) < MaxFd
  PROVE  Spec => []HaltJustified
<1>1. ASSUME Init PROVE LeakInv
  <2>1. \A s \in Socket : Distinct(queue[s])
    BY <1>1 DEF Init, Distinct
  <2>2. Cardinality(Accepted) \in Nat
    BY FS_Subset, FS_CardinalityType DEF Accepted
  <2> QED
    BY <1>1, <2>1, <2>2 DEF Init, LeakInv
<1>2. TypeOK /\ ServiceInv /\ LeakInv /\ [Next]_vars => LeakInv'
  BY LeakStep DEF IInv
<1>3. ASSUME TypeOK, ServiceInv, LeakInv PROVE HaltJustified
  <2>1. Cardinality(Accepted) <= Cardinality(Client) /\ IsFiniteSet(Accepted)
    BY FS_Subset DEF Accepted
  <2>2. Cardinality(Accepted) \in Nat /\ Cardinality(Client) \in Nat
    BY <2>1, FS_CardinalityType
  <2>3. leaked # MaxFd
    BY <1>3, <2>1, <2>2, ServiceAssumption DEF TypeOK, LeakInv
  <2> QED
    BY <1>3, <2>3 DEF ServiceInv, HaltExplained, HaltJustified
<1> QED
  BY <1>1, <1>2, <1>3, ServiceInvariant, PTL DEF Spec

-----------------------------------------------------------------------------
(***************************************************************************)
(* Why a call takes effect at one point: a command is in its socket once    *)
(* and unanswered, the daemon answers what it has read and, if it was an    *)
(* off request, noted, and it accepts nobody before it has measured.        *)
(***************************************************************************)
OnceInv ==
  /\ \A c \in Client : cpc[c] \in {"idle", "connected"} => reply[c] = None /\ c \notin sent
  /\ \A c \in sent : reply[c] = None
  /\ dpc = "write" => /\ cpc[conn] \notin {"idle", "connected"}
                      /\ conn \notin sent /\ reply[conn] = None
                      /\ cmd[conn] = "off" => powerOff
  /\ dpc \notin {"start", "first", "gone"} => measured # None

LEMMA OnceStep ==
  ASSUME IInv, OnceInv, [Next]_vars
  PROVE  OnceInv'
<1> USE DEF IInv, TypeOK, OnceInv
<1>1. ASSUME dpc \in {"read", "write"} PROVE conn \in Client /\ cpc[conn] # "idle"
  BY <1>1 DEF ServiceInv, ServedInv
<1>2. CASE UNCHANGED vars \/ Press
  BY <1>2 DEF vars, Press, daemonVars, clientVars, socketVars, history
<1>3. CASE Measure
  BY <1>3, ServiceAssumption DEF Measure, Remember, clientVars, socketVars
<1>4. CASE \/ Listen \/ IntervalNotExpired \/ Poll \/ Select \/ Accept \/ EndConnection
           \/ TestFlag \/ Stop
  <2>1. /\ UNCHANGED <<cpc, sent, reply, measured>> /\ dpc' # "write"
        /\ dpc' \notin {"start", "first", "gone"} => dpc \notin {"start", "first", "gone"}
    BY <1>4 DEF Listen, IntervalNotExpired, Poll, Select, Accept, EndConnection,
                TestFlag, Stop, clientVars, socketVars, history, Socket
  <2> QED
    BY <2>1
<1>5. CASE ReadCommand
  <2>1. conn \in sent /\ conn \in Client /\ cpc[conn] \notin {"idle", "connected"}
    BY <1>1, <1>5 DEF ReadCommand
  <2>2. /\ sent' = sent \ {conn} /\ dpc = "read" /\ dpc' = "write"
        /\ UNCHANGED <<conn, cpc, cmd, reply, measured>>
        /\ cmd[conn] = "off" => powerOff'
    BY <1>5 DEF ReadCommand, clientVars, history
  <2> QED
    BY <2>1, <2>2
<1>6. CASE WriteAnswer
  <2>1. /\ dpc = "write" /\ dpc' \in {"read", "gone"}
        /\ UNCHANGED <<cpc, sent, measured>>
        /\ \A c \in Client \ {conn} : reply'[c] = reply[c]
    BY <1>6 DEF WriteAnswer, clientVars, history
  <2> QED
    BY <2>1
<1>7. ASSUME NEW c \in Client, Connect(c) PROVE OnceInv'
  <2>1. /\ cpc[c] = "idle"
        /\ \A d \in Client \ {c} : cpc'[d] = cpc[d] /\ cmd'[d] = cmd[d]
        /\ UNCHANGED <<dpc, conn, powerOff, sent, reply, measured>>
    BY <1>7 DEF Connect, daemonVars, history
  <2> QED
    BY <1>1, <2>1
<1>8. ASSUME NEW c \in Client, Send(c) \/ Receive(c) \/ Die(c) PROVE OnceInv'
  <2>1. /\ UNCHANGED <<dpc, conn, powerOff, cmd, reply, measured>>
        /\ cpc'[c] \in {"sent", "done", "dead"}
        /\ \A d \in Client \ {c} : cpc'[d] = cpc[d]
    BY <1>8 DEF Send, Receive, Return, Die, daemonVars, socketVars, history
  <2>2. \/ sent' = sent
        \/ cpc[c] = "connected" /\ sent' = sent \cup {c}
    BY <1>8 DEF Send, Receive, Die, socketVars
  <2> QED
    BY <1>1, <2>1, <2>2
<1> QED
  BY <1>2, <1>3, <1>4, <1>5, <1>6, <1>7, <1>8 DEF Next, DaemonStep, ClientStep

(* One call's phase changes, the others stay.                               *)
LEMMA PhaseStep ==
  ASSUME TypeOK, NEW c \in Client, NEW l, cpc' = [cpc EXCEPT ![c] = l]
  PROVE  [d \in Client |-> Phase(cpc'[d])]
           = [[d \in Client |-> Phase(cpc[d])] EXCEPT ![c] = Phase(l)]
<1>1. \A d \in Client : cpc'[d] = IF d = c THEN l ELSE cpc[d]
  BY DEF TypeOK
<1>2. \A d \in Client : Phase(cpc'[d]) = IF d = c THEN Phase(l) ELSE Phase(cpc[d])
  BY <1>1
<1>3. [d \in Client |-> Phase(cpc'[d])]
        = [d \in Client |-> IF d = c THEN Phase(l) ELSE Phase(cpc[d])]
  BY <1>2, Zenon
<1> HIDE DEF Phase
<1> QED
  BY <1>3

(* The daemon's steps: those that the promise sees, and the others.         *)
LEMMA DaemonPromise ==
  ASSUME IInv, OnceInv, ~cut, DaemonStep \/ Stop \/ Press
  PROVE  \/ Promise!Begin \/ Promise!End \/ Promise!CutPower
         \/ \E v \in Value : Promise!Measure(v)
         \/ \E c \in Client : Promise!Note(c) \/ Promise!Answer(c)
         \/ UNCHANGED Promise!vars
<1> USE DEF IInv, TypeOK, clientVars, socketVars, history, Condition
<1>1. CASE Listen
  BY <1>1 DEF Listen, Promise!Begin, Promise!callVars
<1>2. CASE Measure
  <2>1. PICK v \in Value : /\ measured' = v
                           /\ dpc' \in {"poll", "gone", "select"}
    BY <1>2 DEF Measure, Remember
  <2>2. UNCHANGED <<powerOff, cut, cpc, cmd, reply, result>> /\ dpc \in {"first", "interval"}
    BY <1>2 DEF Measure
  <2> QED
    BY <2>1, <2>2 DEF Promise!Measure, Promise!callVars
<1>3. CASE Stop \/ (Poll /\ dpc' = "gone") \/ (WriteAnswer /\ dpc' = "gone")
  BY <1>3 DEF Stop, Poll, WriteAnswer, Promise!End, Promise!callVars
<1>4. CASE TestFlag
  BY <1>4 DEF TestFlag, Promise!CutPower, Promise!callVars, Promise!vars,
              Promise!daemonVars
<1>5. CASE ReadCommand
  <2>1. conn \in Client /\ cpc[conn] # "idle" /\ dpc = "read" /\ dpc' = "write"
    BY <1>5 DEF ReadCommand, ServiceInv, ServedInv
  <2>2. UNCHANGED <<measured, cut, cpc, cmd, reply, result>>
    BY <1>5 DEF ReadCommand
  <2>3. CASE cmd[conn] = "off"
    <3>1. powerOff' = TRUE
      BY <1>5, <2>3 DEF ReadCommand
    <3>2. Promise!Note(conn)
      BY <2>1, <2>2, <2>3, <3>1 DEF Promise!Note, Promise!callVars, Phase
    <3> QED
      BY <2>1, <3>2
  <2>4. CASE cmd[conn] # "off"
    <3>1. powerOff' = powerOff
      BY <1>5, <2>4 DEF ReadCommand
    <3> QED
      BY <2>1, <2>2, <3>1 DEF Promise!vars, Promise!daemonVars, Promise!callVars
  <2> QED
    BY <2>3, <2>4
<1>6. CASE WriteAnswer /\ dpc' # "gone"
  <2>1. /\ conn \in Client /\ dpc = "write" /\ dpc' = "read" /\ ~Closed(conn)
        /\ reply' = [reply EXCEPT ![conn] = Answer(conn)]
        /\ UNCHANGED <<measured, powerOff, cut, cpc, cmd, result>>
    BY <1>6 DEF WriteAnswer, ServiceInv, ServedInv
  <2>2. Phase(cpc[conn]) = "open"
    BY <2>1 DEF OnceInv, Closed, ClientLabels, Phase
  <2>3. reply[conn] = None /\ measured # None /\ value = measured
    BY <2>1 DEF OnceInv, ServiceInv, LevelInv
  <2>4. Promise!Answer(conn)
    <3>1. CASE cmd[conn] = "level"
      BY <2>1, <2>2, <2>3, <3>1
      DEF Promise!Answer, Promise!daemonVars, Answer
    <3>2. CASE cmd[conn] = "off"
      BY <2>1, <2>2, <2>3, <3>2
      DEF Promise!Answer, Promise!daemonVars, Answer, OnceInv
    <3> QED
      BY <2>1, <3>1, <3>2 DEF Socket
  <2> QED
    BY <2>1, <2>4
<1>7. CASE \/ IntervalNotExpired \/ (Poll /\ dpc' # "gone") \/ Select \/ Accept
           \/ EndConnection \/ Press
  <2>1. UNCHANGED <<measured, powerOff, cut, cpc, cmd, reply, result>>
    BY <1>7 DEF IntervalNotExpired, Poll, Select, Accept, EndConnection, Press, daemonVars
  <2>2. Condition(dpc') = Condition(dpc)
    BY <1>7 DEF IntervalNotExpired, Poll, Select, Accept, EndConnection, Press,
                daemonVars, Socket
  <2> QED
    BY <2>1, <2>2 DEF Promise!vars, Promise!daemonVars, Promise!callVars
<1> QED
  BY <1>1, <1>2, <1>3, <1>4, <1>5, <1>6, <1>7 DEF DaemonStep

(* The steps of a call.                                                     *)
LEMMA CallPromise ==
  ASSUME IInv, OnceInv, NEW c \in Client, Connect(c) \/ ClientStep(c) \/ Die(c)
  PROVE  \/ Promise!Call(c) \/ Promise!Refuse(c) \/ Promise!Return(c)
         \/ Promise!Fail(c) \/ Promise!GiveUp(c)
         \/ UNCHANGED Promise!vars
<1> DEFINE phase == [d \in Client |-> Phase(cpc[d])]
<1>0. /\ TypeOK
      /\ \A l : cpc' = [cpc EXCEPT ![c] = l] => phase' = [phase EXCEPT ![c] = Phase(l)]
  BY PhaseStep DEF IInv
<1>1. /\ phase[c] = Phase(cpc[c])
      /\ Phase("idle") = "idle" /\ Phase("done") = "closed" /\ Phase("dead") = "closed"
      /\ Phase("connected") = "open" /\ Phase("sent") = "open"
  BY DEF Phase
<1>2. /\ Condition(dpc) = "up" <=> Listening
      /\ dpc = "gone" => Condition(dpc) = "ended"
  BY DEF Condition, Listening
<1>3. CASE Connect(c)
  <2>1. /\ cpc[c] = "idle" /\ UNCHANGED <<dpc, powerOff, cut, reply, measured>>
        /\ \E s \in {"level", "off"} : cmd' = [cmd EXCEPT ![c] = s]
    BY <1>3 DEF Connect, daemonVars, history, Socket
  <2>2. CASE Listening
    <3>1. cpc' = [cpc EXCEPT ![c] = "connected"] /\ result' = result
      BY <1>3, <2>2 DEF Connect
    <3>2. phase' = [phase EXCEPT ![c] = "open"]
      BY <1>0, <1>1, <3>1
    <3> QED
      BY <1>1, <1>2, <2>1, <2>2, <3>1, <3>2 DEF Promise!Call, Promise!daemonVars
  <2>3. CASE ~Listening
    <3>1. /\ cpc' = [cpc EXCEPT ![c] = "done"]
          /\ result' = [result EXCEPT ![c] = "error"]
      BY <1>3, <2>3 DEF Connect
    <3>2. phase' = [phase EXCEPT ![c] = "closed"]
      BY <1>0, <1>1, <3>1
    <3> QED
      BY <1>1, <1>2, <2>1, <2>3, <3>1, <3>2 DEF Promise!Refuse, Promise!daemonVars
  <2> QED
    BY <2>2, <2>3
<1>4. CASE \/ Die(c)
           \/ Send(c) /\ dpc = "gone"
  <2>1. /\ cpc[c] \in {"connected", "sent"} /\ cpc' = [cpc EXCEPT ![c] = "dead"]
        /\ UNCHANGED <<dpc, powerOff, cut, measured, cmd, reply, result>>
    BY <1>4 DEF Die, Send, daemonVars, socketVars, history
  <2>2. phase' = [phase EXCEPT ![c] = "closed"]
    BY <1>0, <1>1, <2>1
  <2>3. phase[c] = "open"
    BY <2>1 DEF Phase
  <2> QED
    BY <2>1, <2>2, <2>3 DEF Promise!GiveUp, Promise!daemonVars
<1>5. CASE Send(c) /\ dpc # "gone"
  <2>1. /\ cpc[c] = "connected" /\ cpc' = [cpc EXCEPT ![c] = "sent"]
        /\ UNCHANGED <<dpc, powerOff, cut, measured, cmd, reply, result>>
    BY <1>5 DEF Send, daemonVars, history
  <2>2. phase' = phase
    <3>1. phase' = [phase EXCEPT ![c] = phase[c]]
      BY <1>0, <1>1, <2>1
    <3> QED
      BY <3>1
  <2> QED
    BY <2>1, <2>2 DEF Promise!vars, Promise!daemonVars, Promise!callVars
<1>6. CASE Receive(c)
  <2>1. /\ cpc[c] = "sent" /\ cpc' = [cpc EXCEPT ![c] = "done"]
        /\ UNCHANGED <<dpc, powerOff, cut, measured, cmd, reply>>
    BY <1>6 DEF Receive, Return, daemonVars, socketVars, history
  <2>2. phase' = [phase EXCEPT ![c] = "closed"] /\ phase[c] = "open"
    BY <1>0, <1>1, <2>1
  <2>3. \/ reply[c] # None /\ result' = [result EXCEPT ![c] = reply[c]]
        \/ /\ reply[c] = None /\ dpc = "gone"
           /\ \E r \in Value \cup {"error", "ack", "garbage"} :
                result' = [result EXCEPT ![c] = r]
    BY <1>6 DEF Receive, Return, Uninitialized
  <2> QED
    BY <1>2, <2>1, <2>2, <2>3 DEF Promise!Return, Promise!Fail, Promise!daemonVars
<1> QED
  BY <1>3, <1>4, <1>5, <1>6 DEF ClientStep

(***************************************************************************)
(* The daemon's loop and its sockets implement the query service, for any   *)
(* clients, measurements and descriptors, with the daemon stopped and       *)
(* clients killed anywhere: every call takes effect at one point between    *)
(* its start and its return, and is answered once (KeepsPromise).           *)
(***************************************************************************)
THEOREM ImplementsQueryService == Spec => KeepsPromise
<1>1. ASSUME Init PROVE OnceInv /\ Promise!Init
  <2>1. OnceInv
    BY <1>1 DEF Init, OnceInv
  <2>2. Promise!Init
    BY <1>1 DEF Init, Promise!Init, Condition, Phase
  <2> QED
    BY <2>1, <2>2
<1>2. TypeOK /\ ServiceInv /\ OnceInv /\ [Next]_vars => OnceInv'
  BY OnceStep DEF IInv
<1>3. ASSUME TypeOK, ServiceInv, OnceInv, [Next]_vars
      PROVE  [Promise!Next]_Promise!vars
  <2>1. CASE UNCHANGED vars
    BY <1>3, <2>1 DEF vars, daemonVars, clientVars, socketVars, history, Promise!vars,
                      Promise!daemonVars, Promise!callVars
  <2>2. CASE Next
    BY <1>3, <2>2, DaemonPromise, CallPromise DEF IInv, Next, Promise!Next
  <2> QED
    BY <1>3, <2>1, <2>2
<1> QED
  BY <1>1, <1>2, <1>3, ServiceInvariant, PTL DEF Spec, KeepsPromise, Promise!Spec
=============================================================================
