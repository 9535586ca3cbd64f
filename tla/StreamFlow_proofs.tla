-------------------------- MODULE StreamFlow_proofs --------------------------
(***************************************************************************)
(* Proofs about StreamFlow, for any number of agents, commands, policies   *)
(* and sessions, and queues of any capacity.                               *)
(***************************************************************************)
EXTENDS StreamFlow, WellFoundedInduction, TLAPS

\* The queues hold messages, and the bounds of the model are kept: an attempt
\* uses up a session number, so that attempts are never more than these.
Message == {HeartbeatAck, PolicyUpdate} \cup {Command(c) : c \in 1 .. Commands}

QueuesOK ==
    /\ up \in [Sessions -> Seq({"heartbeat", "ack"})]
    /\ down \in [Sessions -> Seq(Message)]
    /\ received \in [Agents -> Seq(1 .. Commands)]
    /\ accepted \in Seq(Agents) /\ Len(accepted) <= Commands
    /\ cmdChan \in Seq(1 .. Commands)
    /\ \A i \in DOMAIN cmdChan : cmdChan[i] <= Len(accepted)
    /\ bridge # Waiting => bridge.cmd \in 1 .. Len(accepted) /\ bridge.session \in Sessions

Attempts(a) == ends[a] + (IF phase[a] = "session" THEN 1 ELSE 0)

AttemptsCounted ==
    \A a \in Agents :
        /\ Attempts(a) <= MaxAttempts
        /\ \A s \in Sessions : link[s] = "new" => Attempts(a) < s

TypeInv == TypeOK /\ QueuesOK /\ AttemptsCounted

\* A session belongs to one agent from its start on; nobody knows it before.
OwnersKnown ==
    /\ \A s \in Sessions : link[s] = "new" => down[s] = <<>> /\ owner[s] = 0
    /\ \A a \in Agents : session[a] # 0 => owner[session[a]] = a
    /\ \A a \in Agents : registry[a] # 0 => owner[registry[a]] = a
    /\ bridge # Waiting => owner[bridge.session] = accepted[bridge.cmd]
    /\ \A s \in Sessions : \A k \in DOMAIN down[s] :
          down[s][k].kind = "command" => /\ down[s][k].cmd <= Len(accepted)
                                         /\ accepted[down[s][k].cmd] = owner[s]

\* Every command that was handed to a session is below n.
HandedBelow(n) ==
    /\ \A a \in Agents : \A i \in DOMAIN received[a] : received[a][i] < n
    /\ \A s \in Sessions : \A k \in DOMAIN down[s] : down[s][k].cmd < n

\* Behind what was handed out come the command of the bridge, then those of
\* the channel, then those that are still to be accepted.
BridgeInOrder ==
    /\ \A i, j \in DOMAIN cmdChan : i < j => cmdChan[i] < cmdChan[j]
    /\ \A i \in DOMAIN cmdChan : bridge.cmd < cmdChan[i] /\ HandedBelow(cmdChan[i])
    /\ bridge # Waiting => HandedBelow(bridge.cmd)
    /\ HandedBelow(Len(accepted) + 1)

\* And within what was handed to a session, the agent has received the front.
SessionsInOrder ==
    /\ \A s \in Sessions : \A j, k \in DOMAIN down[s] :
          j < k /\ down[s][j].kind = "command" /\ down[s][k].kind = "command"
              => down[s][j].cmd < down[s][k].cmd
    /\ \A a \in Agents : session[a] # 0 =>
          \A i \in DOMAIN received[a] : \A k \in DOMAIN down[session[a]] :
              down[session[a]][k].kind = "command" => received[a][i] < down[session[a]][k].cmd
    /\ CommandsInOrder

OrderInv == OwnersKnown /\ BridgeInOrder /\ SessionsInOrder

----------------------------------------------------------------------------
(* Types. *)

\* What a send and a receive make of a queue.
LEMMA ElementFact ==
  ASSUME NEW S, NEW q \in Seq(S), NEW i \in DOMAIN q
  PROVE  q[i] \in S
  OBVIOUS

LEMMA AppendFacts ==
  ASSUME NEW S, NEW q \in Seq(S), NEW m \in S
  PROVE  /\ Append(q, m) \in Seq(S)
         /\ Len(Append(q, m)) = Len(q) + 1
         /\ Append(q, m)[Len(q) + 1] = m
         /\ \A k \in DOMAIN Append(q, m) : \/ k \in DOMAIN q /\ Append(q, m)[k] = q[k]
                                           \/ k = Len(q) + 1
         /\ \A k \in DOMAIN q : k < Len(q) + 1
  OBVIOUS

LEMMA TailFacts ==
  ASSUME NEW S, NEW q \in Seq(S), q # <<>>
  PROVE  /\ Head(q) \in S /\ Head(q) = q[1] /\ 1 \in DOMAIN q
         /\ Tail(q) \in Seq(S) /\ Len(Tail(q)) <= Len(q)
         /\ \A k \in DOMAIN Tail(q) : k + 1 \in DOMAIN q /\ Tail(q)[k] = q[k + 1] /\ k + 1 > 1
  OBVIOUS

LEMMA TypeInit == Init => TypeInv
<1> SUFFICES ASSUME Init
             PROVE  TypeInv
  OBVIOUS
<1> USE StreamAssumption
<1>1. TypeOK
  BY DEF Init, TypeOK, Waiting
<1>2. QueuesOK
  BY DEF Init, QueuesOK
<1>3. AttemptsCounted
  BY DEF Init, AttemptsCounted, Attempts, Sessions
<1> QED
  BY <1>1, <1>2, <1>3 DEF TypeInv

\* What the types say of one agent.
LEMMA AgentTypes ==
  ASSUME TypeInv, NEW a \in Agents
  PROVE  /\ phase[a] \in {"sleep", "connect", "session", "stopped"}
         /\ session[a] \in 0 .. MaxAttempts
         /\ phase[a] = "session" <=> session[a] # 0
         /\ phase[a] = "session" => session[a] \in Sessions
         /\ ends[a] \in Nat
         /\ acks[a] \in 0 .. PolicyCount
         /\ backoff[a] \in RECONNECT_MIN .. RECONNECT_MAX
<1>1. /\ phase[a] \in {"sleep", "connect", "session", "stopped"}
      /\ session[a] \in 0 .. MaxAttempts
      /\ phase[a] = "session" <=> session[a] # 0
      /\ ends[a] \in 0 .. MaxAttempts
      /\ acks[a] \in 0 .. PolicyCount
      /\ backoff[a] \in RECONNECT_MIN .. RECONNECT_MAX
  BY DEF TypeInv, TypeOK
<1> QED
  BY <1>1, StreamAssumption DEF Sessions

LEMMA AttemptsType ==
  ASSUME TypeInv, NEW a \in Agents
  PROVE  /\ Attempts(a) \in Nat
         /\ phase[a] = "session" => Attempts(a) = ends[a] + 1
         /\ phase[a] # "session" => Attempts(a) = ends[a]
         /\ Attempts(a) <= MaxAttempts
         /\ \A s \in Sessions : link[s] = "new" => Attempts(a) < s
<1>1. Attempts(a) <= MaxAttempts /\ \A s \in Sessions : link[s] = "new" => Attempts(a) < s
  BY DEF TypeInv, AttemptsCounted
<1> QED
  BY <1>1, AgentTypes DEF Attempts

\* An attempt takes the lowest session number that is left.
LEMMA ConnectType ==
  ASSUME TypeInv, NEW a \in Agents, NEW s \in Sessions, Connect(a, s) \/ ConnectFails(a, s)
  PROVE  TypeInv'
<1> USE StreamAssumption
<1>1. s \in 1 .. MaxAttempts /\ phase[a] = "connect" /\ link[s] = "new"
      /\ \A r \in Sessions : r < s => link[r] # "new"
  BY DEF Connect, ConnectFails, Sessions
<1>2. Attempts(a) = ends[a] /\ ends[a] < s /\ ends[a] \in Nat
  BY <1>1, AgentTypes, AttemptsType
<1>3. QueuesOK'
  BY DEF Connect, ConnectFails, TypeInv, QueuesOK, managerVars
<1>4. TypeOK'
  <2>1. CASE Connect(a, s)
    <3>1. /\ phase' \in [Agents -> {"sleep", "connect", "session", "stopped"}]
          /\ session' \in [Agents -> 0 .. MaxAttempts]
          /\ registry' \in [Agents -> 0 .. MaxAttempts]
      BY <1>1, <2>1 DEF Connect, TypeInv, TypeOK
    <3>2. \A b \in Agents : phase'[b] = "session" <=> session'[b] # 0
      BY <1>1, <2>1, <3>1 DEF Connect, TypeInv, TypeOK
    <3>3. /\ owner' \in [Sessions -> Agents \cup {0}]
          /\ link' \in [Sessions -> {"new", "up", "broken"}]
          /\ inbound' \in [Sessions -> {"off", "recv", "ack"}]
      BY <2>1 DEF Connect, TypeInv, TypeOK
    <3> QED
      BY <2>1, <3>1, <3>2, <3>3 DEF Connect, TypeInv, TypeOK
  <2>2. CASE ConnectFails(a, s)
    <3>1. session[a] = 0
      BY <1>1, AgentTypes
    <3>2. phase' \in [Agents -> {"sleep", "connect", "session", "stopped"}]
          /\ \A b \in Agents : phase'[b] = "session" <=> session[b] # 0
      BY <2>2, <3>1 DEF ConnectFails, TypeInv, TypeOK
    <3>3. ends[a] + 1 \in 0 .. MaxAttempts
      BY <1>1, <1>2
    <3>4. ends' \in [Agents -> 0 .. MaxAttempts]
      BY <2>2, <3>3 DEF ConnectFails, TypeInv, TypeOK
    <3>5. link' \in [Sessions -> {"new", "up", "broken"}]
      BY <2>2 DEF ConnectFails, TypeInv, TypeOK
    <3> QED
      BY <2>2, <3>2, <3>4, <3>5 DEF ConnectFails, TypeInv, TypeOK, managerVars
  <2> QED
    BY <2>1, <2>2
<1>5. AttemptsCounted'
  <2>1. \A t \in Sessions : link'[t] = "new" => link[t] = "new" /\ s < t
    <3>1. link' = [link EXCEPT ![s] = "up"] \/ link' = [link EXCEPT ![s] = "broken"]
      BY DEF Connect, ConnectFails
    <3>2. link \in [Sessions -> {"new", "up", "broken"}]
      BY DEF TypeInv, TypeOK
    <3>3. \A t \in Sessions : link'[t] = "new" => link[t] = "new" /\ t # s
      BY <3>1, <3>2
    <3> QED
      BY <1>1, <3>3 DEF Sessions
  <2>2. Attempts(a)' = ends[a] + 1
    BY <1>1, <1>2, SMTT(40) DEF Connect, ConnectFails, TypeInv, TypeOK, Attempts
  <2>3. \A b \in Agents : b # a => Attempts(b)' = Attempts(b)
    BY DEF Connect, ConnectFails, TypeInv, TypeOK, Attempts
  <2>4. \A b \in Agents : Attempts(b)' = Attempts(b) \/ Attempts(b)' <= s
    BY <1>1, <1>2, <2>2, <2>3
  <2>5. \A b \in Agents : Attempts(b) \in Int
    BY AttemptsType
  <2> QED
    BY <1>1, <1>2, <2>1, <2>2, <2>3, <2>5 DEF TypeInv, AttemptsCounted, Sessions
<1> QED
  BY <1>3, <1>4, <1>5 DEF TypeInv

\* A session that ends counts as one attempt that ended.
LEMMA LeaveType ==
  ASSUME TypeInv, NEW a \in Agents, StopSession(a) \/ SessionEnds(a)
  PROVE  TypeInv'
<1> USE StreamAssumption
<1>1. PICK clean \in BOOLEAN : LeaveSession(a, clean)
  BY DEF StopSession, SessionEnds
<1>2. UNCHANGED <<shutdown, acks, received, managerVars, owner>>
  BY DEF StopSession, SessionEnds
<1>3. /\ phase[a] = "session" /\ session[a] \in Sessions
      /\ ends[a] \in Nat /\ ends[a] + 1 <= MaxAttempts
      /\ \A s \in Sessions : link[s] = "new" => ends[a] + 1 < s
      /\ Attempts(a) = ends[a] + 1
  BY AgentTypes, AttemptsType DEF StopSession, SessionEnds
<1>4. QueuesOK'
  BY <1>1, <1>2, <1>3 DEF LeaveSession, TypeInv, QueuesOK, managerVars
<1>5. TypeOK'
  <2>1. /\ phase' = [phase EXCEPT ![a] = "sleep"]
        /\ session' = [session EXCEPT ![a] = 0]
        /\ link' = [link EXCEPT ![session[a]] = "broken"]
        /\ up' = [up EXCEPT ![session[a]] = <<>>]
        /\ down' = [down EXCEPT ![session[a]] = <<>>]
        /\ backoff' = [backoff EXCEPT ![a] = RECONNECT_MIN] \/ UNCHANGED backoff
        /\ ends' = [ends EXCEPT ![a] = 1] \/ ends' = [ends EXCEPT ![a] = ends[a] + 1]
    BY <1>1 DEF LeaveSession
  <2>2. \A s \in Sessions : Len(up'[s]) <= UpCapacity /\ Len(down'[s]) <= DownCapacity
    BY <1>3, <2>1 DEF TypeInv, TypeOK, QueuesOK
  <2>3. ends' \in [Agents -> 0 .. MaxAttempts]
    <3>1. ends[a] + 1 \in 0 .. MaxAttempts /\ 1 \in 0 .. MaxAttempts
      BY <1>3
    <3> QED
      BY <2>1, <3>1 DEF TypeInv, TypeOK
  <2>4. /\ phase' \in [Agents -> {"sleep", "connect", "session", "stopped"}]
        /\ session' \in [Agents -> 0 .. MaxAttempts]
        /\ \A b \in Agents : phase'[b] = "session" <=> session'[b] # 0
        /\ backoff' \in [Agents -> RECONNECT_MIN .. RECONNECT_MAX]
        /\ link' \in [Sessions -> {"new", "up", "broken"}]
    <3>1. /\ phase' \in [Agents -> {"sleep", "connect", "session", "stopped"}]
          /\ session' \in [Agents -> 0 .. MaxAttempts]
      BY <2>1 DEF TypeInv, TypeOK
    <3>2. \A b \in Agents : phase'[b] = "session" <=> session'[b] # 0
      BY <2>1 DEF TypeInv, TypeOK
    <3>3. RECONNECT_MIN \in RECONNECT_MIN .. RECONNECT_MAX
      OBVIOUS
    <3>4. backoff' \in [Agents -> RECONNECT_MIN .. RECONNECT_MAX]
      BY <2>1, <3>3 DEF TypeInv, TypeOK
    <3>5. link' \in [Sessions -> {"new", "up", "broken"}]
      BY <2>1 DEF TypeInv, TypeOK
    <3> QED
      BY <3>1, <3>2, <3>4, <3>5
  <2> QED
    BY <1>2, <2>2, <2>3, <2>4 DEF TypeInv, TypeOK, managerVars
<1>6. AttemptsCounted'
  <2>1. \A s \in Sessions : link'[s] = "new" => link[s] = "new"
    BY <1>1, <1>3 DEF LeaveSession, TypeInv, TypeOK
  <2>2. Attempts(a)' \in Nat /\ Attempts(a)' <= Attempts(a) /\ Attempts(a) \in Nat
    <3>1. phase'[a] = "sleep" /\ (ends'[a] = 1 \/ ends'[a] = ends[a] + 1)
      BY <1>1 DEF LeaveSession, TypeInv, TypeOK
    <3> QED
      BY <1>3, <3>1 DEF Attempts
  <2>3. \A b \in Agents : b # a => Attempts(b)' = Attempts(b)
    BY <1>1 DEF LeaveSession, TypeInv, TypeOK, Attempts
  <2>4. \A b \in Agents : Attempts(b)' <= Attempts(b) /\ Attempts(b)' \in Int /\ Attempts(b) \in Int
    BY <2>2, <2>3, AttemptsType
  <2> QED
    BY <2>1, <2>4 DEF TypeInv, AttemptsCounted, Sessions
<1> QED
  BY <1>4, <1>5, <1>6 DEF TypeInv

\* The other steps of the agent's main loop.
LEMMA LoopType ==
  ASSUME TypeInv, NEW a \in Agents, SleepOver(a) \/ Shutdown(a)
  PROVE  TypeInv'
<1> USE StreamAssumption
<1>1. QueuesOK'
  BY DEF SleepOver, Shutdown, TypeInv, QueuesOK, managerVars
<1>2. TypeOK'
  <2>1. CASE SleepOver(a)
    <3>1. Double(backoff[a]) \in RECONNECT_MIN .. RECONNECT_MAX
      BY SMTT(40) DEF TypeInv, TypeOK, Double
    <3>2. /\ phase' \in [Agents -> {"sleep", "connect", "session", "stopped"}]
          /\ \A b \in Agents : phase'[b] = "session" <=> session[b] # 0
          /\ backoff' \in [Agents -> RECONNECT_MIN .. RECONNECT_MAX]
      BY <2>1, <3>1 DEF SleepOver, TypeInv, TypeOK
    <3> QED
      BY <2>1, <3>2 DEF SleepOver, TypeInv, TypeOK, managerVars
  <2>2. CASE Shutdown(a)
    BY <2>2 DEF Shutdown, TypeInv, TypeOK, managerVars
  <2> QED
    BY <2>1, <2>2
<1>3. AttemptsCounted'
  <2>1. UNCHANGED <<ends, link>> /\ \A b \in Agents : phase'[b] = "session" <=> phase[b] = "session"
    BY DEF SleepOver, Shutdown, TypeInv, TypeOK
  <2> QED
    BY <2>1 DEF TypeInv, AttemptsCounted, Attempts
<1> QED
  BY <1>1, <1>2, <1>3 DEF TypeInv

\* A step that leaves the main loops alone keeps the counts.
LEMMA CountsKept ==
  ASSUME TypeInv, UNCHANGED <<phase, ends>>,
         \A s \in Sessions : link'[s] = "new" => link[s] = "new"
  PROVE  AttemptsCounted'
  BY DEF TypeInv, AttemptsCounted, Attempts

\* The tasks of the agent in a session.
LEMMA TaskType ==
  ASSUME TypeInv, NEW a \in Agents,
         Heartbeat(a) \/ ReaderTakes(a) \/ ReaderAcks(a) \/ ReaderGivesUp(a)
  PROVE  TypeInv'
<1> USE StreamAssumption
<1> DEFINE s == session[a]
<1>1. /\ s \in Sessions
      /\ up[s] \in Seq({"heartbeat", "ack"}) /\ down[s] \in Seq(Message)
      /\ received[a] \in Seq(1 .. Commands)
  <2>1. s \in Sessions
    BY AgentTypes DEF Heartbeat, ReaderTakes, ReaderAcks, ReaderGivesUp
  <2> QED
    BY <2>1 DEF TypeInv, QueuesOK
<1>2. AttemptsCounted'
  BY CountsKept DEF Heartbeat, ReaderTakes, ReaderAcks, ReaderGivesUp, agentVars
<1>3. CASE Heartbeat(a) \/ ReaderAcks(a)
  <2>1. PICK m \in {"heartbeat", "ack"} : up' = [up EXCEPT ![s] = Append(up[s], m)]
    BY <1>3 DEF Heartbeat, ReaderAcks
  <2>2. Append(up[s], m) \in Seq({"heartbeat", "ack"}) /\ Len(Append(up[s], m)) <= UpCapacity
    BY <1>1, <1>3, AppendFacts, SMTT(40)
    DEF Heartbeat, ReaderAcks, Room, TypeInv, TypeOK
  <2>3. QueuesOK'
    BY <1>1, <1>3, <2>1, <2>2
    DEF Heartbeat, ReaderAcks, TypeInv, QueuesOK, managerVars, agentVars
  <2>4. \A t \in Sessions : Len(up'[t]) <= UpCapacity
    BY <1>1, <2>1, <2>2 DEF TypeInv, TypeOK, QueuesOK
  <2>5. acks' \in [Agents -> 0 .. PolicyCount]
    <3>1. UNCHANGED acks \/ (acks[a] > 0 /\ acks' = [acks EXCEPT ![a] = acks[a] - 1])
      BY <1>3 DEF Heartbeat, ReaderAcks, agentVars
    <3>2. acks[a] > 0 => acks[a] - 1 \in 0 .. PolicyCount
      BY AgentTypes
    <3> QED
      BY <3>1, <3>2 DEF TypeInv, TypeOK
  <2>6. TypeOK'
    <3>1. UNCHANGED <<phase, session, backoff, ends, shutdown, owner, link, down, managerVars>>
      BY <1>3 DEF Heartbeat, ReaderAcks, agentVars
    <3> QED
      BY <2>4, <2>5, <3>1 DEF TypeInv, TypeOK, managerVars
  <2> QED
    BY <1>2, <2>3, <2>6 DEF TypeInv
<1>4. CASE ReaderTakes(a)
  <2> DEFINE m == Head(down[s])
  <2>1. /\ m \in Message /\ Tail(down[s]) \in Seq(Message)
        /\ Len(Tail(down[s])) <= DownCapacity
    <3>1. down[s] # <<>> /\ Len(down[s]) <= DownCapacity /\ Len(down[s]) \in Nat
      BY <1>1, <1>4, SMTT(40) DEF ReaderTakes, TypeInv, TypeOK
    <3>2. m \in Message /\ Tail(down[s]) \in Seq(Message) /\ Len(Tail(down[s])) <= Len(down[s])
      BY <1>1, <3>1, TailFacts
    <3>3. Len(Tail(down[s])) \in Nat
      BY <3>2
    <3> QED
      BY <3>1, <3>2, <3>3
  <2>2. down' = [down EXCEPT ![s] = Tail(down[s])]
    BY <1>4 DEF ReaderTakes
  <2>3. received' \in [Agents -> Seq(1 .. Commands)]
    <3>1. CASE m.kind # "command"
      BY <1>4, <3>1 DEF ReaderTakes, TypeInv, QueuesOK
    <3>2. CASE m.kind = "command"
      <4>1. m.cmd \in 1 .. Commands
        BY <2>1, <3>2 DEF Message, HeartbeatAck, PolicyUpdate, Command
      <4>2. received' = [received EXCEPT ![a] = Append(received[a], m.cmd)]
        BY <1>4, <3>2 DEF ReaderTakes
      <4>3. Append(received[a], m.cmd) \in Seq(1 .. Commands)
        BY <1>1, <4>1, AppendFacts
      <4> QED
        BY <4>2, <4>3 DEF TypeInv, QueuesOK
    <3> QED
      BY <3>1, <3>2
  <2>4. acks' \in [Agents -> 0 .. PolicyCount]
    BY <1>4 DEF ReaderTakes, TypeInv, TypeOK
  <2>5. QueuesOK'
    BY <1>4, <2>1, <2>2, <2>3 DEF ReaderTakes, TypeInv, QueuesOK, managerVars
  <2>6. \A t \in Sessions : Len(down'[t]) <= DownCapacity
    BY <1>1, <2>1, <2>2 DEF TypeInv, TypeOK, QueuesOK
  <2>7. TypeOK'
    BY <1>4, <2>4, <2>6 DEF ReaderTakes, TypeInv, TypeOK, managerVars
  <2> QED
    BY <1>2, <2>5, <2>7 DEF TypeInv
<1>5. CASE ReaderGivesUp(a)
  <2>1. QueuesOK'
    BY <1>5 DEF ReaderGivesUp, TypeInv, QueuesOK, managerVars
  <2>2. TypeOK'
    <3>1. acks' \in [Agents -> 0 .. PolicyCount]
      BY <1>5 DEF ReaderGivesUp, TypeInv, TypeOK
    <3> QED
      BY <1>5, <3>1 DEF ReaderGivesUp, TypeInv, TypeOK, managerVars
  <2> QED
    BY <1>2, <2>1, <2>2 DEF TypeInv
<1> QED
  BY <1>3, <1>4, <1>5

\* A message for the agent, put in a queue that has room.
LEMMA DownRoom ==
  ASSUME TypeInv, NEW s \in Sessions, NEW m \in Message, Room(down[s], DownCapacity),
         down' = [down EXCEPT ![s] = Append(down[s], m)]
  PROVE  /\ down' \in [Sessions -> Seq(Message)]
         /\ \A t \in Sessions : Len(down'[t]) <= DownCapacity
<1>1. down[s] \in Seq(Message) /\ DownCapacity \in Nat
  BY StreamAssumption DEF TypeInv, QueuesOK
<1>2. Append(down[s], m) \in Seq(Message) /\ Len(Append(down[s], m)) <= DownCapacity
  BY <1>1, AppendFacts DEF Room
<1> QED
  BY <1>1, <1>2 DEF TypeInv, TypeOK, QueuesOK

\* The manager's tasks of a session, and a failure of its connection.
LEMMA ManagerType ==
  ASSUME TypeInv, NEW s \in Sessions, ManagerStep(s) \/ Break(s)
  PROVE  TypeInv'
<1> USE StreamAssumption
<1>1. up[s] \in Seq({"heartbeat", "ack"}) /\ Len(up[s]) <= UpCapacity
  BY DEF TypeInv, TypeOK, QueuesOK
<1>2. CASE InboundTakes(s)
  <2>1. up' = [up EXCEPT ![s] = Tail(up[s])] /\ up[s] # <<>>
    BY <1>2 DEF InboundTakes
  <2>2. Tail(up[s]) \in Seq({"heartbeat", "ack"}) /\ Len(Tail(up[s])) <= UpCapacity
    <3>1. Tail(up[s]) \in Seq({"heartbeat", "ack"}) /\ Len(Tail(up[s])) <= Len(up[s])
      BY <1>1, <2>1, TailFacts
    <3>2. Len(up[s]) \in Nat /\ Len(Tail(up[s])) \in Nat
      BY <1>1, <3>1
    <3> QED
      BY <1>1, <3>1, <3>2
  <2>3. QueuesOK'
    BY <1>2, <2>1, <2>2 DEF InboundTakes, TypeInv, QueuesOK, agentVars
  <2>4. \A t \in Sessions : Len(up'[t]) <= UpCapacity
    BY <2>1, <2>2 DEF TypeInv, TypeOK, QueuesOK
  <2>5. TypeOK'
    BY <1>2, <2>4 DEF InboundTakes, TypeInv, TypeOK, agentVars
  <2> QED
    BY <1>2, <2>3, <2>5, CountsKept DEF InboundTakes, agentVars, TypeInv
<1>3. CASE InboundAcks(s) \/ PushPolicy(s)
  <2>1. PICK m \in Message : down' = [down EXCEPT ![s] = Append(down[s], m)]
    BY <1>3 DEF InboundAcks, PushPolicy, Message
  <2>2. /\ down' \in [Sessions -> Seq(Message)]
        /\ \A t \in Sessions : Len(down'[t]) <= DownCapacity
    BY <1>3, <2>1, DownRoom DEF InboundAcks, PushPolicy
  <2>3. QueuesOK'
    BY <1>3, <2>2 DEF InboundAcks, PushPolicy, TypeInv, QueuesOK, agentVars
  <2>4. TypeOK'
    <3>1. inbound' \in [Sessions -> {"off", "recv", "ack"}]
      BY <1>3 DEF InboundAcks, PushPolicy, TypeInv, TypeOK
    <3>2. pushes \in 0 .. MaxPushes
      BY DEF TypeInv, TypeOK
    <3>3. pushes' \in 0 .. MaxPushes
      BY <1>3, <3>2 DEF InboundAcks, PushPolicy
    <3> QED
      BY <1>3, <2>2, <3>1, <3>3 DEF InboundAcks, PushPolicy, TypeInv, TypeOK, agentVars
  <2> QED
    BY <1>3, <2>3, <2>4, CountsKept DEF InboundAcks, PushPolicy, agentVars, TypeInv
<1>4. CASE InboundEnds(s)
  <2>1. QueuesOK'
    BY <1>4 DEF InboundEnds, TypeInv, QueuesOK, agentVars
  <2>2. TypeOK'
    <3>1. inbound' \in [Sessions -> {"off", "recv", "ack"}]
      BY <1>4 DEF InboundEnds, TypeInv, TypeOK
    <3>2. registry \in [Agents -> 0 .. MaxAttempts] /\ 0 \in 0 .. MaxAttempts
      BY DEF TypeInv, TypeOK
    <3>3. registry' \in [Agents -> 0 .. MaxAttempts]
      BY <1>4, <3>2 DEF InboundEnds
    <3> QED
      BY <1>4, <3>1, <3>3 DEF InboundEnds, TypeInv, TypeOK, agentVars
  <2> QED
    BY <1>4, <2>1, <2>2, CountsKept DEF InboundEnds, agentVars, TypeInv
<1>5. CASE Break(s)
  <2>1. QueuesOK'
    BY <1>5 DEF Break, TypeInv, QueuesOK, agentVars, managerVars
  <2>2. TypeOK'
    <3>1. link' \in [Sessions -> {"new", "up", "broken"}]
      BY <1>5 DEF Break, TypeInv, TypeOK
    <3>2. \A t \in Sessions : Len(up'[t]) <= UpCapacity
      BY <1>5 DEF Break, TypeInv, TypeOK, QueuesOK
    <3> QED
      BY <1>5, <3>1, <3>2 DEF Break, TypeInv, TypeOK, agentVars, managerVars
  <2>3. AttemptsCounted'
    BY <1>5, CountsKept DEF Break, agentVars, TypeInv, TypeOK
  <2> QED
    BY <2>1, <2>2, <2>3 DEF TypeInv
<1> QED
  BY <1>2, <1>3, <1>4, <1>5 DEF ManagerStep

\* Commands, from the REST handler through the bridge to a session.
LEMMA CommandType ==
  ASSUME TypeInv, BridgeTakes \/ BridgeSends \/ \E a \in Agents : SendCommand(a)
  PROVE  TypeInv'
<1> USE StreamAssumption
<1>1. accepted \in Seq(Agents) /\ cmdChan \in Seq(1 .. Commands) /\ Len(cmdChan) <= CommandCapacity
  BY DEF TypeInv, TypeOK, QueuesOK
<1>2. AttemptsCounted'
  BY CountsKept DEF BridgeTakes, BridgeSends, SendCommand, agentVars
<1>3. ASSUME NEW a \in Agents, SendCommand(a)
      PROVE  TypeInv'
  <2>1. /\ accepted' = Append(accepted, a)
        /\ cmdChan' = Append(cmdChan, Len(accepted) + 1)
        /\ Len(accepted) < Commands /\ Len(cmdChan) < CommandCapacity
    BY <1>3 DEF SendCommand, Room
  <2>2. Len(accepted) + 1 \in 1 .. Commands
    BY <1>1, <2>1
  <2>3. accepted' \in Seq(Agents) /\ Len(accepted') <= Commands
    BY <1>1, <2>1, AppendFacts
  <2>4. cmdChan' \in Seq(1 .. Commands) /\ Len(cmdChan') <= CommandCapacity
    BY <1>1, <2>1, <2>2, AppendFacts
  <2>7. \A i \in DOMAIN cmdChan' : cmdChan'[i] <= Len(accepted')
    <3>1. Len(accepted') = Len(accepted) + 1 /\ Len(accepted) \in Nat
      BY <1>1, <2>1, AppendFacts
    <3>2. \A i \in DOMAIN cmdChan : cmdChan[i] <= Len(accepted) /\ cmdChan[i] \in Nat
      BY <1>1 DEF TypeInv, QueuesOK
    <3>3. /\ cmdChan'[Len(cmdChan) + 1] = Len(accepted) + 1
          /\ \A i \in DOMAIN cmdChan' : \/ i \in DOMAIN cmdChan /\ cmdChan'[i] = cmdChan[i]
                                        \/ i = Len(cmdChan) + 1
      BY <1>1, <2>1, <2>2, AppendFacts
    <3> QED
      BY <3>1, <3>2, <3>3
  <2>8. bridge # Waiting => bridge.cmd \in 1 .. Len(accepted') /\ bridge.session \in Sessions
    BY <1>1, <2>1, AppendFacts DEF TypeInv, QueuesOK
  <2>5. QueuesOK'
    BY <1>3, <2>3, <2>4, <2>7, <2>8 DEF SendCommand, TypeInv, QueuesOK, agentVars
  <2>6. TypeOK'
    BY <1>3, <2>4 DEF SendCommand, TypeInv, TypeOK, agentVars
  <2> QED
    BY <1>2, <2>5, <2>6 DEF TypeInv
<1>4. CASE BridgeTakes
  <2> DEFINE c == Head(cmdChan)
  <2>1. /\ cmdChan # <<>> /\ cmdChan' = Tail(cmdChan)
        /\ bridge' = Waiting \/ bridge' = [cmd |-> c, session |-> registry[accepted[c]]]
    BY <1>4 DEF BridgeTakes
  <2>2. c \in 1 .. Commands /\ Tail(cmdChan) \in Seq(1 .. Commands)
        /\ Len(Tail(cmdChan)) <= Len(cmdChan)
    BY <1>1, <2>1, TailFacts
  <2>3. Len(cmdChan') <= CommandCapacity
    BY <1>1, <2>1, <2>2
  <2>4. c \in 1 .. Len(accepted) /\ accepted[c] \in Agents
    <3>1. c = cmdChan[1] /\ 1 \in DOMAIN cmdChan
      BY <1>1, <2>1, TailFacts
    <3> QED
      BY <1>1, <2>2, <3>1 DEF TypeInv, QueuesOK
  <2>5. \A i \in DOMAIN cmdChan' : cmdChan'[i] <= Len(accepted)
    BY <1>1, <2>1, TailFacts DEF TypeInv, QueuesOK
  <2>6. bridge' # Waiting => bridge'.cmd \in 1 .. Len(accepted) /\ bridge'.session \in Sessions
    <3>1. CASE registry[accepted[c]] = 0
      BY <1>4, <3>1 DEF BridgeTakes
    <3>2. CASE registry[accepted[c]] # 0
      <4>1. registry[accepted[c]] \in 0 .. MaxAttempts
        BY <2>4 DEF TypeInv, TypeOK
      <4> QED
        BY <2>1, <2>4, <3>2, <4>1 DEF Sessions
    <3> QED
      BY <3>1, <3>2
  <2>7. QueuesOK'
    BY <1>4, <2>1, <2>2, <2>5, <2>6 DEF BridgeTakes, TypeInv, QueuesOK, agentVars
  <2>8. bridge' \in [cmd : 0 .. Commands, session : 0 .. MaxAttempts]
    <3>1. Waiting \in [cmd : 0 .. Commands, session : 0 .. MaxAttempts]
      BY DEF Waiting
    <3>2. registry[accepted[c]] \in 0 .. MaxAttempts
      BY <2>4 DEF TypeInv, TypeOK
    <3> QED
      BY <2>1, <2>2, <3>1, <3>2
  <2>9. TypeOK'
    BY <1>4, <2>3, <2>8 DEF BridgeTakes, TypeInv, TypeOK, agentVars
  <2> QED
    BY <1>2, <2>7, <2>9 DEF TypeInv
<1>5. CASE BridgeSends
  <2>1. bridge' = Waiting /\ Waiting \in [cmd : 0 .. Commands, session : 0 .. MaxAttempts]
    BY <1>5 DEF BridgeSends, Waiting
  <2>2. /\ down' \in [Sessions -> Seq(Message)]
        /\ \A t \in Sessions : Len(down'[t]) <= DownCapacity
    <3>1. CASE UNCHANGED down
      BY <3>1 DEF TypeInv, TypeOK, QueuesOK
    <3>2. CASE ~UNCHANGED down
      <4>1. bridge.session \in Sessions /\ Command(bridge.cmd) \in Message
        <5>1. bridge.cmd \in 1 .. Commands /\ bridge.session \in Sessions
          BY <1>1, <1>5 DEF BridgeSends, TypeInv, QueuesOK
        <5> QED
          BY <5>1 DEF Message
      <4> QED
        BY <1>5, <3>2, <4>1, DownRoom DEF BridgeSends
    <3> QED
      BY <3>1, <3>2
  <2>3. QueuesOK'
    BY <1>5, <2>2 DEF BridgeSends, TypeInv, QueuesOK, agentVars
  <2>4. TypeOK'
    BY <1>5, <2>1, <2>2 DEF BridgeSends, TypeInv, TypeOK, agentVars
  <2> QED
    BY <1>2, <2>3, <2>4 DEF TypeInv
<1> QED
  BY <1>3, <1>4, <1>5

LEMMA TypeStep ==
  ASSUME TypeInv, [Next]_vars
  PROVE  TypeInv'
<1>1. CASE UNCHANGED vars
  BY <1>1 DEF vars, agentVars, managerVars, TypeInv, TypeOK, QueuesOK, AttemptsCounted, Attempts
<1> QED
  BY <1>1, ConnectType, LeaveType, LoopType, TaskType, ManagerType, CommandType
  DEF Next, AgentStep

\* The types hold in every state, and with them: no queue exceeds its capacity,
\* the backoff stays between its limits, an agent has a session exactly while
\* it is in one (stream.rs, grpc.rs), for any number of agents and sessions.
THEOREM StreamTypes == Spec => []TypeOK
<1>1. TypeInv /\ [Next]_vars => TypeInv'
  BY TypeStep
<1>2. TypeInv => TypeOK
  BY DEF TypeInv
<1> QED
  BY <1>1, <1>2, TypeInit, PTL DEF Spec

----------------------------------------------------------------------------
(* Commands arrive in order. *)

LEMMA OrderInit == Init => OrderInv
<1> SUFFICES ASSUME Init
             PROVE  OrderInv
  OBVIOUS
<1>1. OwnersKnown
  BY DEF Init, OwnersKnown
<1>2. BridgeInOrder
  BY DEF Init, BridgeInOrder, HandedBelow
<1>3. SessionsInOrder
  BY DEF Init, SessionsInOrder, CommandsInOrder
<1> QED
  BY <1>1, <1>2, <1>3 DEF OrderInv

\* The commands in a queue, and those received, have numbers.
LEMMA QueueTypes ==
  ASSUME TypeInv
  PROVE  /\ \A s \in Sessions : \A k \in DOMAIN down[s] :
               down[s][k] \in Message /\ down[s][k].cmd \in Nat
               /\ (down[s][k].kind = "command" => down[s][k].cmd \in 1 .. Commands)
         /\ \A a \in Agents : \A i \in DOMAIN received[a] : received[a][i] \in 1 .. Commands
         /\ \A i \in DOMAIN cmdChan : cmdChan[i] \in 1 .. Len(accepted)
         /\ bridge.cmd \in Nat
<1>1. \A m \in Message : m.cmd \in Nat /\ (m.kind = "command" => m.cmd \in 1 .. Commands)
  BY DEF Message, HeartbeatAck, PolicyUpdate, Command
<1>2. \A s \in Sessions : \A k \in DOMAIN down[s] : down[s][k] \in Message
  BY DEF TypeInv, QueuesOK
<1>3. \A i \in DOMAIN cmdChan : cmdChan[i] \in 1 .. Len(accepted)
  <2>1. /\ cmdChan \in Seq(1 .. Commands) /\ accepted \in Seq(Agents)
        /\ \A i \in DOMAIN cmdChan : cmdChan[i] <= Len(accepted)
    BY DEF TypeInv, QueuesOK
  <2>2. \A i \in DOMAIN cmdChan : cmdChan[i] \in 1 .. Commands
    BY <2>1, ElementFact
  <2> QED
    BY <2>1, <2>2, StreamAssumption
<1>4. \A a \in Agents : \A i \in DOMAIN received[a] : received[a][i] \in 1 .. Commands
  <2>1. \A a \in Agents : received[a] \in Seq(1 .. Commands)
    BY DEF TypeInv, QueuesOK
  <2> QED
    BY <2>1, ElementFact
<1>5. bridge.cmd \in Nat
  BY StreamAssumption DEF TypeInv, TypeOK
<1> QED
  BY <1>1, <1>2, <1>3, <1>4, <1>5

\* Steps that move no command: what they add to a queue is not one, what they
\* drop does not come back.
LEMMA OrderFrame ==
  ASSUME TypeInv, OrderInv,
         UNCHANGED <<received, accepted, cmdChan, bridge, owner>>,
         \A s \in Sessions : link'[s] = "new" => link[s] = "new" /\ down'[s] = down[s],
         \A a \in Agents : session'[a] = session[a] \/ session'[a] = 0,
         \A a \in Agents : registry'[a] = registry[a] \/ registry'[a] = 0,
         \A s \in Sessions : \A k \in DOMAIN down'[s] :
             \/ k \in DOMAIN down[s] /\ down'[s][k] = down[s][k]
             \/ down'[s][k].kind # "command" /\ down'[s][k].cmd = 0
  PROVE  OrderInv'
<1>1. \A a \in Agents : session'[a] # 0 => session'[a] = session[a]
  OBVIOUS
<1>2. \A s \in Sessions : \A k \in DOMAIN down'[s] :
          down'[s][k].kind = "command" => k \in DOMAIN down[s] /\ down'[s][k] = down[s][k]
  OBVIOUS
<1>3. OwnersKnown'
  BY <1>1, <1>2 DEF OrderInv, OwnersKnown
<1>4. BridgeInOrder'
  <2>1. ASSUME NEW n \in Nat, n > 0, HandedBelow(n)
        PROVE  HandedBelow(n)'
    BY <2>1 DEF HandedBelow
  <2>2. \A i \in DOMAIN cmdChan : cmdChan[i] \in Nat /\ cmdChan[i] > 0
    BY QueueTypes
  <2>3. bridge # Waiting => bridge.cmd \in Nat /\ bridge.cmd > 0
    BY DEF TypeInv, QueuesOK
  <2>4. Len(accepted) + 1 \in Nat /\ Len(accepted) + 1 > 0
    BY DEF TypeInv, QueuesOK
  <2> QED
    BY <2>1, <2>2, <2>3, <2>4 DEF OrderInv, BridgeInOrder
<1>5. SessionsInOrder'
  <2>1. CommandsInOrder'
    BY DEF OrderInv, SessionsInOrder, CommandsInOrder
  <2>2. \A a \in Agents : session'[a] # 0 => session'[a] \in Sessions
    BY <1>1 DEF TypeInv, TypeOK, Sessions
  <2> QED
    BY <1>1, <1>2, <2>1, <2>2 DEF OrderInv, SessionsInOrder
<1> QED
  BY <1>3, <1>4, <1>5 DEF OrderInv

\* A session starts with empty queues.
LEMMA ConnectOrder ==
  ASSUME TypeInv, OrderInv, NEW a \in Agents, NEW s \in Sessions, Connect(a, s)
  PROVE  OrderInv'
<1>1. /\ link[s] = "new"
      /\ session' = [session EXCEPT ![a] = s]
      /\ owner' = [owner EXCEPT ![s] = a]
      /\ link' = [link EXCEPT ![s] = "up"]
      /\ registry' = [registry EXCEPT ![a] = s]
      /\ UNCHANGED <<received, accepted, cmdChan, bridge, down>>
  BY DEF Connect
<1>2. /\ session \in [Agents -> 0 .. MaxAttempts]
      /\ registry \in [Agents -> 0 .. MaxAttempts]
      /\ owner \in [Sessions -> Agents \cup {0}]
      /\ link \in [Sessions -> {"new", "up", "broken"}]
      /\ 0 \notin Agents
      /\ accepted \in Seq(Agents)
  BY StreamAssumption DEF TypeInv, TypeOK, QueuesOK
<1>3. down[s] = <<>> /\ owner[s] = 0
  BY <1>1 DEF OrderInv, OwnersKnown
<1>4. OwnersKnown'
  <2>1. \A t \in Sessions : link'[t] = "new" => link[t] = "new" /\ t # s
    BY <1>1, <1>2
  <2>2. \A t \in Sessions : t # s => owner'[t] = owner[t]
    BY <1>1, <1>2
  <2>3. owner'[s] = a
    BY <1>1, <1>2
  <2>4. \A b \in Agents : session'[b] # 0 => owner'[session'[b]] = b
    BY <1>1, <1>2, <1>3, <2>2, <2>3 DEF OrderInv, OwnersKnown, Sessions
  <2>5. \A b \in Agents : registry'[b] # 0 => owner'[registry'[b]] = b
    BY <1>1, <1>2, <1>3, <2>2, <2>3 DEF OrderInv, OwnersKnown, Sessions
  <2>6. bridge # Waiting => owner'[bridge.session] = accepted[bridge.cmd]
    <3>1. bridge # Waiting => /\ bridge.session \in Sessions
                              /\ owner[bridge.session] = accepted[bridge.cmd]
                              /\ accepted[bridge.cmd] \in Agents
      BY <1>2, SMTT(40) DEF TypeInv, QueuesOK, OrderInv, OwnersKnown
    <3> QED
      BY <1>2, <1>3, <2>2, <3>1
  <2>7. \A t \in Sessions : \A k \in DOMAIN down[t] : t # s
    BY <1>3
  <2> QED
    BY <1>1, <2>1, <2>2, <2>4, <2>5, <2>6, <2>7 DEF OrderInv, OwnersKnown
<1>5. BridgeInOrder'
  BY <1>1 DEF OrderInv, BridgeInOrder, HandedBelow
<1>6. SessionsInOrder'
  <2>1. CommandsInOrder'
    BY <1>1 DEF OrderInv, SessionsInOrder, CommandsInOrder
  <2>2. ASSUME NEW b \in Agents, session'[b] # 0
        PROVE  \A i \in DOMAIN received[b] : \A k \in DOMAIN down[session'[b]] :
                  down[session'[b]][k].kind = "command"
                      => received[b][i] < down[session'[b]][k].cmd
    <3>1. CASE session'[b] = s
      BY <1>3, <3>1
    <3>2. CASE session'[b] = session[b]
      BY <2>2, <3>2 DEF OrderInv, SessionsInOrder
    <3> QED
      BY <1>1, <1>2, <3>1, <3>2
  <2> QED
    BY <1>1, <2>1, <2>2 DEF OrderInv, SessionsInOrder
<1> QED
  BY <1>4, <1>5, <1>6 DEF OrderInv

\* The reader takes the front of its queue: all that is left is larger.
LEMMA TakeOrder ==
  ASSUME TypeInv, OrderInv, NEW a \in Agents, ReaderTakes(a)
  PROVE  OrderInv'
<1> DEFINE s == session[a]
           m == down[s][1]
<1>1. s \in Sessions /\ s # 0 /\ down[s] \in Seq(Message) /\ down[s] # <<>>
  <2>1. s \in Sessions /\ s # 0
    BY AgentTypes DEF ReaderTakes
  <2> QED
    BY <2>1 DEF ReaderTakes, TypeInv, QueuesOK
<1>2. /\ down \in [Sessions -> Seq(Message)]
      /\ received \in [Agents -> Seq(1 .. Commands)]
  BY DEF TypeInv, QueuesOK
<1>3. /\ Head(down[s]) = m /\ 1 \in DOMAIN down[s] /\ m \in Message
      /\ \A k \in DOMAIN Tail(down[s]) : /\ k + 1 \in DOMAIN down[s]
                                         /\ Tail(down[s])[k] = down[s][k + 1]
                                         /\ k + 1 > 1
  BY <1>1, TailFacts
<1>4. /\ down' = [down EXCEPT ![s] = Tail(down[s])]
      /\ m.kind # "command" => UNCHANGED received
      /\ m.kind = "command" => received' = [received EXCEPT ![a] = Append(received[a], m.cmd)]
      /\ UNCHANGED <<accepted, cmdChan, bridge, owner, link, session, registry>>
  BY <1>3 DEF ReaderTakes, managerVars
<1>5. \A t \in Sessions : \A k \in DOMAIN down'[t] :
         \E j \in DOMAIN down[t] : /\ down'[t][k] = down[t][j]
                                   /\ t # s => j = k
                                   /\ t = s => j = k + 1
  BY <1>1, <1>2, <1>3, <1>4
<1>6. \A b \in Agents : \A i \in DOMAIN received'[b] :
         \/ i \in DOMAIN received[b] /\ received'[b][i] = received[b][i]
         \/ b = a /\ i = Len(received[a]) + 1 /\ received'[a][i] = m.cmd /\ m.kind = "command"
  <2>1. CASE m.kind # "command"
    BY <1>4, <2>1
  <2>2. CASE m.kind = "command"
    <3>1. m.cmd \in 1 .. Commands /\ received[a] \in Seq(1 .. Commands)
      BY <1>1, <1>2, <1>3, <2>2, QueueTypes
    <3>2. \A i \in DOMAIN Append(received[a], m.cmd) :
             \/ i \in DOMAIN received[a] /\ Append(received[a], m.cmd)[i] = received[a][i]
             \/ i = Len(received[a]) + 1 /\ Append(received[a], m.cmd)[i] = m.cmd
      BY <3>1, AppendFacts
    <3> QED
      BY <1>2, <1>4, <2>2, <3>2
  <2> QED
    BY <2>1, <2>2
<1>7. OwnersKnown'
  <2>1. \A t \in Sessions : link'[t] = "new" => down'[t] = <<>> /\ owner'[t] = 0
    <3>1. link[s] = "new" => down[s] = <<>>
      BY <1>1 DEF OrderInv, OwnersKnown
    <3> QED
      BY <1>1, <1>2, <1>4, <3>1 DEF OrderInv, OwnersKnown
  <2>2. \A t \in Sessions : \A k \in DOMAIN down'[t] :
           down'[t][k].kind = "command" => /\ down'[t][k].cmd <= Len(accepted)
                                           /\ accepted[down'[t][k].cmd] = owner[t]
    BY <1>5 DEF OrderInv, OwnersKnown
  <2> QED
    BY <1>4, <2>1, <2>2 DEF OrderInv, OwnersKnown
<1>8. \A n : HandedBelow(n) => HandedBelow(n)'
  <2> SUFFICES ASSUME NEW n, HandedBelow(n)
               PROVE  HandedBelow(n)'
    OBVIOUS
  <2>1. m.cmd < n
    BY <1>1, <1>3 DEF HandedBelow
  <2> QED
    BY <1>5, <1>6, <2>1 DEF HandedBelow
<1>9. BridgeInOrder'
  BY <1>4, <1>8 DEF OrderInv, BridgeInOrder
<1>10. SessionsInOrder'
  <2>1. \A t \in Sessions : \A j, k \in DOMAIN down'[t] :
           j < k /\ down'[t][j].kind = "command" /\ down'[t][k].kind = "command"
              => down'[t][j].cmd < down'[t][k].cmd
    <3> SUFFICES ASSUME NEW t \in Sessions, NEW j \in DOMAIN down'[t], NEW k \in DOMAIN down'[t],
                        j < k, down'[t][j].kind = "command", down'[t][k].kind = "command"
                 PROVE  down'[t][j].cmd < down'[t][k].cmd
      OBVIOUS
    <3>1. j \in Int /\ k \in Int
      <4>1. down'[t] \in Seq(Message)
        BY <1>1, <1>2, <1>4, TailFacts
      <4> QED
        BY <4>1
    <3>2. PICK u \in DOMAIN down[t], v \in DOMAIN down[t] :
             u < v /\ down'[t][j] = down[t][u] /\ down'[t][k] = down[t][v]
      BY <1>5, <3>1
    <3> QED
      BY <3>2 DEF OrderInv, SessionsInOrder
  <2>2. \A k \in DOMAIN down'[s] :
           m.kind = "command" /\ down'[s][k].kind = "command" => m.cmd < down'[s][k].cmd
    <3>1. \A k \in DOMAIN down'[s] : \E j \in DOMAIN down[s] : down'[s][k] = down[s][j] /\ 1 < j
      BY <1>1, <1>2, <1>3, <1>4
    <3> QED
      BY <1>1, <1>3, <3>1 DEF OrderInv, SessionsInOrder
  <2>3. ASSUME NEW b \in Agents, session[b] # 0
        PROVE  \A i \in DOMAIN received'[b] : \A k \in DOMAIN down'[session[b]] :
                  down'[session[b]][k].kind = "command"
                      => received'[b][i] < down'[session[b]][k].cmd
    <3>1. session[b] \in Sessions
      BY <2>3, AgentTypes
    <3>2. ASSUME NEW i \in DOMAIN received'[b], NEW k \in DOMAIN down'[session[b]],
                 down'[session[b]][k].kind = "command"
          PROVE  received'[b][i] < down'[session[b]][k].cmd
      <4>1. PICK j \in DOMAIN down[session[b]] : down'[session[b]][k] = down[session[b]][j]
        BY <1>5, <3>1
      <4>2. CASE i \in DOMAIN received[b] /\ received'[b][i] = received[b][i]
        BY <2>3, <3>2, <4>1, <4>2 DEF OrderInv, SessionsInOrder
      <4>3. CASE b = a /\ received'[a][i] = m.cmd /\ m.kind = "command"
        BY <2>2, <3>2, <4>3
      <4> QED
        BY <1>6, <4>2, <4>3
    <3> QED
      BY <3>2
  <2>4. m.kind = "command" => accepted[m.cmd] = a
    BY <1>1, <1>3 DEF OrderInv, OwnersKnown
  <2>5. \A i \in DOMAIN received[a] : m.kind = "command" => received[a][i] < m.cmd
    BY <1>1, <1>3 DEF OrderInv, SessionsInOrder
  <2>6. CommandsInOrder'
    <3>1. \A b \in Agents : \A i \in DOMAIN received'[b] : accepted[received'[b][i]] = b
      BY <1>6, <2>4 DEF OrderInv, SessionsInOrder, CommandsInOrder
    <3>2. \A b \in Agents : \A i, j \in DOMAIN received'[b] :
             i < j => received'[b][i] < received'[b][j]
      <4>1. \A i \in DOMAIN received[a] : i < Len(received[a]) + 1 /\ i \in Int
        BY <1>2
      <4>2. Len(received[a]) \in Nat
        BY <1>2
      <4> QED
        BY <1>6, <2>5, <4>1, <4>2 DEF OrderInv, SessionsInOrder, CommandsInOrder
    <3> QED
      BY <1>4, <3>1, <3>2 DEF CommandsInOrder
  <2> QED
    BY <1>4, <2>1, <2>3, <2>6 DEF SessionsInOrder
<1> QED
  BY <1>7, <1>9, <1>10 DEF OrderInv

\* A new command is larger than all before it.
LEMMA SendOrder ==
  ASSUME TypeInv, OrderInv, NEW a \in Agents, SendCommand(a)
  PROVE  OrderInv'
<1>1. /\ accepted' = Append(accepted, a)
      /\ cmdChan' = Append(cmdChan, Len(accepted) + 1)
      /\ UNCHANGED <<received, session, owner, link, down, registry, bridge>>
      /\ Len(accepted) < Commands
  BY DEF SendCommand, agentVars
<1>2. accepted \in Seq(Agents) /\ cmdChan \in Seq(1 .. Commands) /\ Len(accepted) + 1 \in 1 .. Commands
  <2>1. accepted \in Seq(Agents) /\ cmdChan \in Seq(1 .. Commands)
    BY DEF TypeInv, QueuesOK
  <2> QED
    BY <1>1, <2>1, StreamAssumption
<1>3. /\ Len(accepted') = Len(accepted) + 1
      /\ \A c \in 1 .. Len(accepted) : accepted'[c] = accepted[c]
  BY <1>1, <1>2
<1>4. /\ \A i \in DOMAIN cmdChan' : \/ i \in DOMAIN cmdChan /\ cmdChan'[i] = cmdChan[i]
                                    \/ i = Len(cmdChan) + 1 /\ cmdChan'[i] = Len(accepted) + 1
      /\ \A i \in DOMAIN cmdChan : i < Len(cmdChan) + 1 /\ i \in Int
      /\ \A i \in DOMAIN cmdChan : cmdChan[i] < Len(accepted) + 1
      /\ Len(cmdChan) \in Nat
  <2>1. \A i \in DOMAIN cmdChan : cmdChan[i] \in 1 .. Len(accepted)
    BY QueueTypes
  <2> QED
    BY <1>1, <1>2, <2>1, AppendFacts
<1>5. OwnersKnown'
  <2>1. bridge # Waiting => bridge.cmd \in 1 .. Len(accepted)
    BY DEF TypeInv, QueuesOK
  <2>2. \A s \in Sessions : \A k \in DOMAIN down[s] :
           down[s][k].kind = "command" => /\ down[s][k].cmd \in 1 .. Len(accepted)
                                          /\ accepted[down[s][k].cmd] = owner[s]
    BY <1>2, QueueTypes DEF OrderInv, OwnersKnown
  <2>3. \A s \in Sessions : \A k \in DOMAIN down[s] :
           down[s][k].kind = "command" => /\ down[s][k].cmd <= Len(accepted')
                                          /\ accepted'[down[s][k].cmd] = owner[s]
    BY <1>2, <1>3, <2>2
  <2> QED
    BY <1>1, <1>3, <2>1, <2>3 DEF OrderInv, OwnersKnown
<1>6. BridgeInOrder'
  <2>1. HandedBelow(Len(accepted) + 1) /\ HandedBelow(Len(accepted) + 2)
    <3>1. HandedBelow(Len(accepted) + 1)
      BY DEF OrderInv, BridgeInOrder
    <3>2. HandedBelow(Len(accepted) + 2)
      BY <1>2, <3>1, QueueTypes DEF HandedBelow
    <3> QED
      BY <3>1, <3>2
  <2>2. \A n : HandedBelow(n)' <=> HandedBelow(n)
    BY <1>1 DEF HandedBelow
  <2>3. bridge.cmd < Len(accepted) + 1
    BY <1>2 DEF TypeInv, QueuesOK, Waiting
  <2>4. \A i, j \in DOMAIN cmdChan' : i < j => cmdChan'[i] < cmdChan'[j]
    BY <1>4 DEF OrderInv, BridgeInOrder
  <2>5. \A i \in DOMAIN cmdChan' : bridge.cmd < cmdChan'[i] /\ HandedBelow(cmdChan'[i])
    BY <1>4, <2>1, <2>3 DEF OrderInv, BridgeInOrder
  <2>6. HandedBelow(Len(accepted') + 1)
    BY <1>2, <1>3, <2>1
  <2> QED
    BY <1>1, <2>2, <2>4, <2>5, <2>6 DEF OrderInv, BridgeInOrder
<1>7. SessionsInOrder'
  <2>1. \A b \in Agents : \A i \in DOMAIN received[b] : received[b][i] \in 1 .. Len(accepted)
    BY <1>2, QueueTypes DEF OrderInv, BridgeInOrder, HandedBelow
  <2>2. CommandsInOrder'
    BY <1>1, <1>3, <2>1 DEF OrderInv, SessionsInOrder, CommandsInOrder
  <2> QED
    BY <1>1, <2>2 DEF OrderInv, SessionsInOrder
<1> QED
  BY <1>5, <1>6, <1>7 DEF OrderInv

\* The bridge takes the smallest command of the channel.
LEMMA BridgeOrder ==
  ASSUME TypeInv, OrderInv, BridgeTakes
  PROVE  OrderInv'
<1> DEFINE c == cmdChan[1]
<1>1. /\ cmdChan # <<>> /\ cmdChan \in Seq(1 .. Commands) /\ accepted \in Seq(Agents)
      /\ cmdChan' = Tail(cmdChan)
      /\ UNCHANGED <<received, session, owner, link, down, registry, accepted>>
      /\ bridge = Waiting
  BY DEF BridgeTakes, agentVars, TypeInv, QueuesOK
<1>2. /\ Head(cmdChan) = c /\ 1 \in DOMAIN cmdChan
      /\ \A k \in DOMAIN Tail(cmdChan) : /\ k + 1 \in DOMAIN cmdChan
                                         /\ Tail(cmdChan)[k] = cmdChan[k + 1]
                                         /\ k + 1 > 1
      /\ Tail(cmdChan) \in Seq(1 .. Commands)
  BY <1>1, TailFacts
<1>3. c \in 1 .. Len(accepted) /\ accepted[c] \in Agents
  BY <1>1, <1>2, QueueTypes
<1>4. bridge' = Waiting \/ /\ bridge' = [cmd |-> c, session |-> registry[accepted[c]]]
                           /\ registry[accepted[c]] # 0
  BY <1>2 DEF BridgeTakes
<1>5. OwnersKnown'
  <2>1. bridge' # Waiting => owner[bridge'.session] = accepted[bridge'.cmd]
    BY <1>3, <1>4 DEF OrderInv, OwnersKnown
  <2> QED
    BY <1>1, <2>1 DEF OrderInv, OwnersKnown
<1>6. BridgeInOrder'
  <2>1. \A n : HandedBelow(n)' <=> HandedBelow(n)
    BY <1>1 DEF HandedBelow
  <2>2. HandedBelow(c)
    BY <1>2 DEF OrderInv, BridgeInOrder
  <2>3. \A i \in DOMAIN cmdChan' : \E j \in DOMAIN cmdChan :
           j = i + 1 /\ 1 < j /\ cmdChan'[i] = cmdChan[j]
    BY <1>1, <1>2
  <2>4. \A i \in DOMAIN cmdChan' : bridge'.cmd < cmdChan'[i] /\ HandedBelow(cmdChan'[i])
    <3>1. \A i \in DOMAIN cmdChan' : c < cmdChan'[i] /\ HandedBelow(cmdChan'[i])
      BY <1>2, <2>3 DEF OrderInv, BridgeInOrder
    <3>2. \A i \in DOMAIN cmdChan' : 0 < cmdChan'[i]
      BY <2>3, QueueTypes
    <3> QED
      BY <1>4, <3>1, <3>2 DEF Waiting
  <2>5. \A i, j \in DOMAIN cmdChan' : i < j => cmdChan'[i] < cmdChan'[j]
    <3>1. \A i \in DOMAIN cmdChan' : i \in Int
      BY <1>1, <1>2
    <3> QED
      BY <2>3, <3>1 DEF OrderInv, BridgeInOrder
  <2>6. bridge' # Waiting => HandedBelow(bridge'.cmd)
    BY <1>4, <2>2
  <2> QED
    BY <1>1, <2>1, <2>4, <2>5, <2>6 DEF OrderInv, BridgeInOrder
<1>7. SessionsInOrder'
  BY <1>1 DEF OrderInv, SessionsInOrder, CommandsInOrder
<1> QED
  BY <1>5, <1>6, <1>7 DEF OrderInv

\* The bridge hands its command to a session: it is the largest there, and the
\* session is one of the agent it names.
LEMMA HandOrder ==
  ASSUME TypeInv, OrderInv, BridgeSends
  PROVE  OrderInv'
<1> DEFINE s == bridge.session
           m == Command(bridge.cmd)
<1>1. /\ bridge # Waiting /\ bridge' = Waiting
      /\ UNCHANGED <<received, session, owner, link, registry, accepted, cmdChan>>
      /\ \/ UNCHANGED down
         \/ link[s] = "up" /\ down' = [down EXCEPT ![s] = Append(down[s], m)]
  BY DEF BridgeSends, agentVars
<1>2. /\ s \in Sessions /\ bridge.cmd \in 1 .. Len(accepted) /\ m \in Message
      /\ down \in [Sessions -> Seq(Message)]
      /\ owner[s] = accepted[bridge.cmd]
      /\ HandedBelow(bridge.cmd)
      /\ \A i \in DOMAIN cmdChan : bridge.cmd < cmdChan[i]
  <2>1. s \in Sessions /\ bridge.cmd \in 1 .. Len(accepted) /\ bridge.cmd \in 1 .. Commands
    <3>1. /\ s \in Sessions /\ bridge.cmd \in 1 .. Len(accepted)
          /\ accepted \in Seq(Agents) /\ Len(accepted) <= Commands
      BY <1>1 DEF TypeInv, QueuesOK
    <3> QED
      BY <3>1, StreamAssumption
  <2> QED
    BY <1>1, <2>1 DEF TypeInv, QueuesOK, Message, OrderInv, OwnersKnown, BridgeInOrder
<1>3. m.kind = "command" /\ m.cmd = bridge.cmd
  BY DEF Command
<1>4. \A t \in Sessions : \A k \in DOMAIN down'[t] :
         \/ k \in DOMAIN down[t] /\ down'[t][k] = down[t][k]
         \/ t = s /\ k = Len(down[s]) + 1 /\ down'[t][k] = m
  <2>1. /\ down[s] \in Seq(Message)
        /\ \A k \in DOMAIN Append(down[s], m) :
              \/ k \in DOMAIN down[s] /\ Append(down[s], m)[k] = down[s][k]
              \/ k = Len(down[s]) + 1 /\ Append(down[s], m)[k] = m
    BY <1>2, AppendFacts
  <2> QED
    BY <1>1, <1>2, <2>1
<1>5. OwnersKnown'
  <2>1. \A t \in Sessions : link'[t] = "new" => down'[t] = <<>> /\ owner'[t] = 0
    BY <1>1, <1>2 DEF OrderInv, OwnersKnown
  <2>2. \A t \in Sessions : \A k \in DOMAIN down'[t] :
           down'[t][k].kind = "command" => /\ down'[t][k].cmd <= Len(accepted)
                                           /\ accepted[down'[t][k].cmd] = owner[t]
    BY <1>2, <1>3, <1>4 DEF OrderInv, OwnersKnown
  <2> QED
    BY <1>1, <2>1, <2>2 DEF OrderInv, OwnersKnown
<1>6. BridgeInOrder'
  <2>1. ASSUME NEW n, bridge.cmd < n, HandedBelow(n)
        PROVE  HandedBelow(n)'
    BY <1>1, <1>3, <1>4, <2>1 DEF HandedBelow
  <2>2. bridge.cmd < Len(accepted) + 1
    BY <1>2 DEF TypeInv, QueuesOK
  <2>3. \A i \in DOMAIN cmdChan : 0 < cmdChan[i]
    BY QueueTypes
  <2> QED
    BY <1>1, <1>2, <2>1, <2>2, <2>3 DEF OrderInv, BridgeInOrder, Waiting
<1>7. SessionsInOrder'
  <2>1. \A t \in Sessions : \A k \in DOMAIN down[t] : k < Len(down[t]) + 1 /\ k \in Int
    BY <1>2
  <2>2. \A t \in Sessions : \A j, k \in DOMAIN down'[t] :
           j < k /\ down'[t][j].kind = "command" /\ down'[t][k].kind = "command"
              => down'[t][j].cmd < down'[t][k].cmd
    <3> SUFFICES ASSUME NEW t \in Sessions, NEW j \in DOMAIN down'[t], NEW k \in DOMAIN down'[t],
                        j < k, down'[t][j].kind = "command", down'[t][k].kind = "command"
                 PROVE  down'[t][j].cmd < down'[t][k].cmd
      OBVIOUS
    <3>1. j \in DOMAIN down[t] /\ down'[t][j] = down[t][j]
      BY <1>2, <1>4, <2>1
    <3>2. CASE k \in DOMAIN down[t] /\ down'[t][k] = down[t][k]
      BY <3>1, <3>2 DEF OrderInv, SessionsInOrder
    <3>3. CASE t = s /\ down'[t][k] = m
      BY <1>2, <1>3, <3>1, <3>3 DEF HandedBelow
    <3> QED
      BY <1>4, <3>2, <3>3
  <2>3. ASSUME NEW b \in Agents, session[b] # 0
        PROVE  \A i \in DOMAIN received[b] : \A k \in DOMAIN down'[session[b]] :
                  down'[session[b]][k].kind = "command"
                      => received[b][i] < down'[session[b]][k].cmd
    <3>1. session[b] \in Sessions
      BY <2>3, AgentTypes
    <3> QED
      BY <1>2, <1>3, <1>4, <2>3, <3>1 DEF OrderInv, SessionsInOrder, HandedBelow
  <2>4. CommandsInOrder'
    BY <1>1 DEF OrderInv, SessionsInOrder, CommandsInOrder
  <2> QED
    BY <1>1, <2>2, <2>3, <2>4 DEF SessionsInOrder
<1> QED
  BY <1>5, <1>6, <1>7 DEF OrderInv

\* The steps that move no command.
LEMMA FrameSteps ==
  ASSUME TypeInv, OrderInv,
         \/ \E a \in Agents, s \in Sessions : ConnectFails(a, s)
         \/ \E a \in Agents : \/ SleepOver(a) \/ Shutdown(a) \/ StopSession(a) \/ SessionEnds(a)
                              \/ Heartbeat(a) \/ ReaderAcks(a) \/ ReaderGivesUp(a)
         \/ \E s \in Sessions : ManagerStep(s) \/ Break(s)
         \/ UNCHANGED vars
  PROVE  OrderInv'
<1>1. /\ down \in [Sessions -> Seq(Message)]
      /\ link \in [Sessions -> {"new", "up", "broken"}]
      /\ session \in [Agents -> 0 .. MaxAttempts]
      /\ registry \in [Agents -> 0 .. MaxAttempts]
  BY DEF TypeInv, TypeOK, QueuesOK
<1>2. ASSUME UNCHANGED <<received, accepted, cmdChan, bridge, owner, session, registry, down>>,
             \A s \in Sessions : link'[s] = "new" => link[s] = "new"
      PROVE  OrderInv'
  BY <1>2, OrderFrame
<1>3. ASSUME NEW a \in Agents, NEW s \in Sessions, ConnectFails(a, s)
      PROVE  OrderInv'
  BY <1>1, <1>2, <1>3 DEF ConnectFails, managerVars
<1>4. ASSUME NEW a \in Agents, SleepOver(a) \/ Shutdown(a) \/ Heartbeat(a) \/ ReaderAcks(a)
                               \/ ReaderGivesUp(a)
      PROVE  OrderInv'
  BY <1>2, <1>4 DEF SleepOver, Shutdown, Heartbeat, ReaderAcks, ReaderGivesUp, managerVars, agentVars
<1>5. ASSUME NEW a \in Agents, StopSession(a) \/ SessionEnds(a)
      PROVE  OrderInv'
  <2>1. /\ session' = [session EXCEPT ![a] = 0]
        /\ link' = [link EXCEPT ![session[a]] = "broken"]
        /\ down' = [down EXCEPT ![session[a]] = <<>>]
        /\ UNCHANGED <<received, accepted, cmdChan, bridge, owner, registry>>
    BY <1>5 DEF StopSession, SessionEnds, LeaveSession, managerVars
  <2>2. \A s \in Sessions : \/ link'[s] = link[s] /\ down'[s] = down[s]
                            \/ link'[s] = "broken" /\ down'[s] = <<>>
    BY <1>1, <2>1
  <2>3. \A b \in Agents : session'[b] = session[b] \/ session'[b] = 0
    BY <1>1, <2>1
  <2> QED
    BY <2>1, <2>2, <2>3, OrderFrame
<1>6. ASSUME NEW s \in Sessions, InboundTakes(s) \/ Break(s)
      PROVE  OrderInv'
  BY <1>1, <1>2, <1>6 DEF InboundTakes, Break, managerVars, agentVars
<1>7. ASSUME NEW s \in Sessions, InboundEnds(s)
      PROVE  OrderInv'
  <2>1. \A a \in Agents : registry'[a] = registry[a] \/ registry'[a] = 0
    BY <1>1, <1>7 DEF InboundEnds
  <2> QED
    BY <1>7, <2>1, OrderFrame DEF InboundEnds, agentVars
<1>8. ASSUME NEW s \in Sessions, InboundAcks(s) \/ PushPolicy(s)
      PROVE  OrderInv'
  <2>1. PICK m \in {HeartbeatAck, PolicyUpdate} : down' = [down EXCEPT ![s] = Append(down[s], m)]
    BY <1>8 DEF InboundAcks, PushPolicy
  <2>2. /\ link[s] = "up"
        /\ UNCHANGED <<received, accepted, cmdChan, bridge, owner, session, registry, link>>
    BY <1>8 DEF InboundAcks, PushPolicy, agentVars
  <2>3. m \in Message /\ m.kind # "command" /\ m.cmd = 0
    BY DEF Message, HeartbeatAck, PolicyUpdate
  <2>4. \A k \in DOMAIN Append(down[s], m) :
            \/ k \in DOMAIN down[s] /\ Append(down[s], m)[k] = down[s][k]
            \/ Append(down[s], m)[k] = m
    BY <1>1, <2>3, AppendFacts
  <2>5. \A t \in Sessions : \A k \in DOMAIN down'[t] :
             \/ k \in DOMAIN down[t] /\ down'[t][k] = down[t][k]
             \/ down'[t][k].kind # "command" /\ down'[t][k].cmd = 0
    BY <1>1, <2>1, <2>3, <2>4
  <2>6. \A t \in Sessions : link[t] = "new" => down'[t] = down[t]
    BY <1>1, <2>1, <2>2
  <2> QED
    BY <2>2, <2>5, <2>6, OrderFrame
<1>9. CASE UNCHANGED vars
  BY <1>2, <1>9 DEF vars, agentVars, managerVars
<1> QED
  BY <1>3, <1>4, <1>5, <1>6, <1>7, <1>8, <1>9 DEF ManagerStep

\* Commands reach an agent at most once, in the order they were accepted, and
\* only the agent they name (send_command, run_command_bridge, the agent's
\* reader), for any number of agents, commands and sessions, through broken and
\* overlapping sessions.
THEOREM CommandsArriveInOrder == Spec => []CommandsInOrder
<1>1. TypeInv /\ OrderInv /\ [Next]_vars => TypeInv' /\ OrderInv'
  <2> SUFFICES ASSUME TypeInv, OrderInv, [Next]_vars
               PROVE  TypeInv' /\ OrderInv'
    OBVIOUS
  <2>1. TypeInv'
    BY TypeStep
  <2>2. OrderInv'
    BY FrameSteps, ConnectOrder, TakeOrder, SendOrder, BridgeOrder, HandOrder
    DEF Next, AgentStep
  <2> QED
    BY <2>1, <2>2
<1>2. OrderInv => CommandsInOrder
  BY DEF OrderInv, SessionsInOrder
<1> QED
  BY <1>1, <1>2, TypeInit, OrderInit, PTL DEF Spec
----------------------------------------------------------------------------
(* The backoff.  The waits without a limit are defined by recursion; that  *)
(* the recursion has a solution is proved by induction, from the fact that *)
(* a set of natural numbers has a least member.                            *)

Less == OpToRel(<, Nat)

LEMMA Least ==
  ASSUME NEW T \in SUBSET Nat, T # {}
  PROVE  \E x \in T : \A y \in T : x <= y
<1>1. IsWellFoundedOn(Less, Nat)
  BY NatLessThanWellFounded DEF Less
<1>2. PICK x \in T : \A y \in T : <<y, x>> \notin Less
  BY <1>1, WFMin
<1>3. \A y \in T : ~(y < x)
  <2> SUFFICES ASSUME NEW y \in T, y < x
               PROVE  FALSE
    OBVIOUS
  <2>1. <<y, x>> \in Nat \X Nat /\ <<y, x>>[1] < <<y, x>>[2]
    OBVIOUS
  <2>2. Less = {ss \in Nat \X Nat : ss[1] < ss[2]}
    BY DEF Less, OpToRel
  <2>3. <<y, x>> \in Less
    BY <2>1, <2>2
  <2> QED
    BY <1>2, <2>3
<1> QED
  BY <1>3

LEMMA Induction ==
  ASSUME NEW S, 0 \in S, \A n \in Nat : n \in S => n + 1 \in S
  PROVE  Nat \subseteq S
<1> SUFFICES ASSUME Nat \ S # {}
             PROVE  FALSE
  OBVIOUS
<1>1. PICK x \in Nat \ S : \A y \in Nat \ S : x <= y
  BY Least
<1>2. x - 1 \in Nat /\ x - 1 \in S
  BY <1>1
<1> QED
  BY <1>1, <1>2

\* For every length there is a sequence of doublings: the next one extends it.
Solves(f, m) ==
    /\ f \in [0 .. m -> Nat]
    /\ f[0] = RECONNECT_MIN
    /\ \A k \in 1 .. m : f[k] = 2 * f[k - 1]

LEMMA DoublingsExist == \A m \in Nat : \E f : Solves(f, m)
<1> DEFINE S == {m \in Nat : \E f : Solves(f, m)}
<1>1. 0 \in S
  <2>1. Solves([k \in 0 .. 0 |-> RECONNECT_MIN], 0)
    BY StreamAssumption DEF Solves
  <2> QED
    BY <2>1
<1>2. ASSUME NEW m \in Nat, m \in S
      PROVE  m + 1 \in S
  <2>1. PICK f : Solves(f, m)
    BY <1>2
  <2> DEFINE g == [k \in 0 .. m + 1 |-> IF k = m + 1 THEN 2 * f[m] ELSE f[k]]
  <2>2. f[m] \in Nat
    BY <2>1 DEF Solves
  <2>3. g \in [0 .. m + 1 -> Nat] /\ g[0] = RECONNECT_MIN
    BY <2>1, <2>2 DEF Solves
  <2>4. \A k \in 1 .. m + 1 : g[k] = 2 * g[k - 1]
    <3> SUFFICES ASSUME NEW k \in 1 .. m + 1
                 PROVE  g[k] = 2 * g[k - 1]
      OBVIOUS
    <3>1. k - 1 \in 0 .. m + 1 /\ k - 1 # m + 1 /\ g[k - 1] = f[k - 1]
      OBVIOUS
    <3>2. CASE k = m + 1
      BY <3>1, <3>2
    <3>3. CASE k # m + 1
      BY <2>1, <3>1, <3>3 DEF Solves
    <3> QED
      BY <3>2, <3>3
  <2>5. Solves(g, m + 1)
    BY <2>3, <2>4 DEF Solves
  <2> QED
    BY <2>5
<1> HIDE DEF S
<1>3. Nat \subseteq S
  BY <1>1, <1>2, Induction
<1> QED
  BY <1>3 DEF S

LEMMA DoublingsDef ==
  /\ Doublings[0] = RECONNECT_MIN
  /\ \A k \in 0 .. MaxAttempts : Doublings[k] \in Nat
  /\ \A k \in 1 .. MaxAttempts : Doublings[k] = 2 * Doublings[k - 1]
<1>0. MaxAttempts \in Nat
  BY StreamAssumption
<1>1. PICK f : Solves(f, MaxAttempts)
  BY <1>0, DoublingsExist
<1>2. f = [k \in 0 .. MaxAttempts |-> IF k = 0 THEN RECONNECT_MIN ELSE 2 * f[k - 1]]
  <2>1. \A k \in 0 .. MaxAttempts : f[k] = IF k = 0 THEN RECONNECT_MIN ELSE 2 * f[k - 1]
    BY <1>0, <1>1 DEF Solves
  <2>2. f = [k \in 0 .. MaxAttempts |-> f[k]]
    BY <1>1 DEF Solves
  <2> QED
    BY <2>1, <2>2
<1>3. Doublings = [k \in 0 .. MaxAttempts |->
                      IF k = 0 THEN RECONNECT_MIN ELSE 2 * Doublings[k - 1]]
  BY <1>2, Zenon DEF Doublings
<1>4. /\ Doublings[0] = RECONNECT_MIN
      /\ \A k \in 1 .. MaxAttempts : Doublings[k] = 2 * Doublings[k - 1]
  BY <1>0, <1>3
<1>5. \A k \in 0 .. MaxAttempts : Doublings[k] \in Nat
  <2> DEFINE S == {k \in Nat : k <= MaxAttempts => Doublings[k] \in Nat}
  <2>1. 0 \in S
    BY <1>4, StreamAssumption
  <2>2. ASSUME NEW k \in Nat, k \in S
        PROVE  k + 1 \in S
    BY <1>0, <1>4, <2>2
  <2> HIDE DEF S
  <2>3. Nat \subseteq S
    BY <2>1, <2>2, Induction
  <2> QED
    BY <1>0, <2>3 DEF S
<1> QED
  BY <1>4, <1>5

\* The backoff while it is slept is that of the attempts that ended before the
\* last one; the doubling at the end of the sleep makes it that of all.
Wait(k) == IF Doublings[k] <= RECONNECT_MAX THEN Doublings[k] ELSE RECONNECT_MAX

BackoffFollows ==
    \A a \in Agents :
        /\ phase[a] = "sleep" => ends[a] > 0 /\ backoff[a] = Wait(ends[a] - 1)
        /\ phase[a] \in {"connect", "session"} => backoff[a] = Wait(ends[a])

LEMMA WaitDoubles ==
  ASSUME NEW k \in 1 .. MaxAttempts
  PROVE  Wait(0) = RECONNECT_MIN /\ Double(Wait(k - 1)) = Wait(k)
<1>1. /\ Doublings[k] = 2 * Doublings[k - 1]
      /\ Doublings[k - 1] \in Nat
      /\ Doublings[0] = RECONNECT_MIN
  BY DoublingsDef, StreamAssumption
<1> QED
  BY <1>1, StreamAssumption DEF Wait, Double

LEMMA BackoffInit == Init => BackoffFollows
  BY DoublingsDef, StreamAssumption DEF Init, BackoffFollows, Wait

\* Only the main loop changes what the backoff depends on.
LEMMA BackoffStep ==
  ASSUME TypeInv, BackoffFollows, [Next]_vars
  PROVE  BackoffFollows'
<1>1. /\ phase \in [Agents -> {"sleep", "connect", "session", "stopped"}]
      /\ ends \in [Agents -> 0 .. MaxAttempts]
      /\ backoff \in [Agents -> RECONNECT_MIN .. RECONNECT_MAX]
  BY DEF TypeInv, TypeOK
<1>2. /\ ends' \in [Agents -> 0 .. MaxAttempts]
  BY TypeStep DEF TypeInv, TypeOK
<1>3. ASSUME NEW a \in Agents, NEW s \in Sessions, Connect(a, s)
      PROVE  BackoffFollows'
  BY <1>1, <1>3 DEF Connect, BackoffFollows, Wait
<1>4. ASSUME NEW a \in Agents, NEW s \in Sessions, ConnectFails(a, s)
      PROVE  BackoffFollows'
  BY <1>1, <1>4 DEF ConnectFails, BackoffFollows, Wait
<1>5. ASSUME NEW a \in Agents, SleepOver(a)
      PROVE  BackoffFollows'
  <2>1. ends[a] \in 1 .. MaxAttempts /\ backoff[a] = Wait(ends[a] - 1)
    BY <1>1, <1>5, StreamAssumption DEF SleepOver, BackoffFollows
  <2>2. Double(backoff[a]) = Wait(ends[a])
    BY <2>1, WaitDoubles
  <2>3. /\ UNCHANGED ends
        /\ phase' = [phase EXCEPT ![a] = phase'[a]] /\ phase'[a] \in {"stopped", "connect"}
        /\ backoff' = [backoff EXCEPT ![a] = Double(backoff[a])]
    BY <1>1, <1>5 DEF SleepOver
  <2> QED
    BY <1>1, <2>2, <2>3 DEF BackoffFollows, Wait
<1>6. ASSUME NEW a \in Agents, StopSession(a) \/ SessionEnds(a)
      PROVE  BackoffFollows'
  <2>1. PICK clean \in BOOLEAN : LeaveSession(a, clean)
    BY <1>6 DEF StopSession, SessionEnds
  <2>2. phase[a] = "session"
    BY <1>6 DEF StopSession, SessionEnds
  <2>3. phase' = [phase EXCEPT ![a] = "sleep"]
    BY <2>1 DEF LeaveSession
  <2>4. CASE clean
    <3>1. /\ backoff' = [backoff EXCEPT ![a] = RECONNECT_MIN]
          /\ ends' = [ends EXCEPT ![a] = 1]
      BY <2>1, <2>4 DEF LeaveSession
    <3>2. Wait(0) = RECONNECT_MIN
      BY DoublingsDef, StreamAssumption DEF Wait
    <3> QED
      BY <1>1, <2>3, <3>1, <3>2 DEF BackoffFollows, Wait
  <2>5. CASE ~clean
    <3>1. UNCHANGED backoff /\ ends' = [ends EXCEPT ![a] = ends[a] + 1]
      BY <2>1, <2>5 DEF LeaveSession
    <3> QED
      BY <1>1, <2>2, <2>3, <3>1 DEF BackoffFollows, Wait
  <2> QED
    BY <2>4, <2>5
<1>7. CASE UNCHANGED <<phase, ends, backoff>>
  BY <1>7 DEF BackoffFollows, Wait
<1> QED
  BY <1>3, <1>4, <1>5, <1>6, <1>7
  DEF Next, AgentStep, ManagerStep, vars, agentVars, managerVars, Shutdown, Heartbeat, ReaderTakes,
      ReaderAcks, ReaderGivesUp, Break, InboundTakes, InboundAcks, InboundEnds, PushPolicy,
      SendCommand, BridgeTakes, BridgeSends

\* The wait before an attempt is RECONNECT_MIN doubled once for every attempt
\* that ended since the last clean end, up to RECONNECT_MAX, however long the
\* sessions between lasted (run_with_reconnect), for any limits and any number
\* of agents and attempts.
THEOREM BackoffCounts == Spec => []BackoffCountsEnds
<1>1. TypeInv /\ BackoffFollows /\ [Next]_vars => TypeInv' /\ BackoffFollows'
  BY TypeStep, BackoffStep
<1>2. BackoffFollows => BackoffCountsEnds
  BY DEF BackoffFollows, BackoffCountsEnds, Wait
<1> QED
  BY <1>1, <1>2, TypeInit, BackoffInit, PTL DEF Spec
==============================================================================
