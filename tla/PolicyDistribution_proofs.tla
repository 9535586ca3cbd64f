--------------------- MODULE PolicyDistribution_proofs ---------------------
(***************************************************************************)
(* Proofs about PolicyDistribution, for any number of agents, sessions,    *)
(* policies and concurrent requests, and any set of faults.                *)
(***************************************************************************)
EXTENDS PolicyDistribution, PolicyStore_proofs

\* What a session is.
LEMMA SessionFacts ==
  /\ \A s \in Sessions : Owner(s) \in Agents
  /\ Bridge \in Pushers
  /\ Sessions \subseteq Pushers
  BY DEF Sessions, Owner, Pushers

\* A row of `policies`, as it is pushed.
LEMMA AsRefType == \A p \in Row : AsRef(p) \in Ref
<1> TAKE p \in Row
<1>1. CASE p.version < 0
  BY <1>1 DEF AsRef, Row, Ref
<1>2. CASE ~(p.version < 0)
  BY <1>2 DEF AsRef, Row, Ref
<1> QED
  BY <1>1, <1>2

LEMMA LoadPendingType ==
  ASSUME StoreTypeOK, NEW a \in Agents
  PROVE  LoadPending(a) \subseteq Ref
  BY AsRefType DEF LoadPending, StoreTypeOK

\* A pusher that has work to do knows its session.
LEMMA JobAtType ==
  ASSUME NEW w \in JobPc, NEW s \in Sessions, NEW todo \in SUBSET Ref, NEW b \in SUBSET Ref
  PROVE  JobAt(w, s, todo, b) \in Job /\ JobAt(w, s, todo, b).to \in Sessions
  BY DEF JobAt, Job

LEMMA NoJobType == NoJob \in Job /\ NoJob.pc = "off"
  BY DEF NoJob, JobAt, Job, JobPc

\* The program starts with no agent connected.
LEMMA InitType == Init => TypeOK
  BY StoreInitType, NoJobType, DistributionAssumption DEF Init, TypeOK

\* The REST handlers preserve the types, the cascade of DELETE included.
LEMMA RestType ==
  ASSUME TypeOK, NEW r \in Handlers, Rest(r)
  PROVE  TypeOK'
  BY HandlerStepType DEF Rest, TypeOK, distVars, manVars, linkVars, agtVars

LEMMA RestDeleteType ==
  ASSUME TypeOK, NEW r \in Handlers, NEW n \in Names, RestDelete(r, n)
  PROVE  TypeOK'
<1>1. StoreTypeOK'
  BY DeleteRowType DEF RestDelete, TypeOK
<1> QED
  BY <1>1 DEF RestDelete, TypeOK, linkVars, agtVars

\* Messages leave a channel, or one joins it where there is room.
LEMMA ChannelsType ==
  ASSUME TypeOK,
         \/ UNCHANGED down
         \/ \E s \in Sessions : down' = [down EXCEPT ![s] = <<>>]
         \/ \E s \in Sessions : down[s] # <<>> /\ down' = [down EXCEPT ![s] = Tail(down[s])]
         \/ \E s \in Sessions, b \in SUBSET Ref :
               Len(down[s]) < OutCapacity /\ down' = [down EXCEPT ![s] = Append(down[s], b)],
         \/ UNCHANGED up
         \/ up' = [s \in Sessions |-> <<>>]
         \/ \E s \in Sessions : up' = [up EXCEPT ![s] = <<>>]
         \/ \E s \in Sessions : up[s] # <<>> /\ up' = [up EXCEPT ![s] = Tail(up[s])]
         \/ \E s \in Sessions, m \in Ack \cup {NoAck} :
               Len(up[s]) < UpCapacity /\ up' = [up EXCEPT ![s] = Append(up[s], m)]
  PROVE  /\ down' \in [Sessions -> Seq(SUBSET Ref)]
         /\ up' \in [Sessions -> Seq(Ack \cup {NoAck})]
         /\ \A s \in Sessions : Len(up'[s]) <= UpCapacity /\ Len(down'[s]) <= OutCapacity
<1>1. ASSUME NEW S, NEW cap \in Nat \ {0}, NEW q, NEW q2, q \in [Sessions -> Seq(S)],
             \A s \in Sessions : Len(q[s]) <= cap,
             \/ q2 = q
             \/ q2 = [s \in Sessions |-> <<>>]
             \/ \E s \in Sessions : q2 = [q EXCEPT ![s] = <<>>]
             \/ \E s \in Sessions : q[s] # <<>> /\ q2 = [q EXCEPT ![s] = Tail(q[s])]
             \/ \E s \in Sessions, b \in S :
                   Len(q[s]) < cap /\ q2 = [q EXCEPT ![s] = Append(q[s], b)]
      PROVE  q2 \in [Sessions -> Seq(S)] /\ \A s \in Sessions : Len(q2[s]) <= cap
  <2>1. CASE q2 = q
    BY <1>1, <2>1
  <2>2. CASE q2 = [s \in Sessions |-> <<>>]
    BY <1>1, <2>2
  <2>3. ASSUME NEW s \in Sessions, NEW new \in Seq(S), Len(new) <= cap, q2 = [q EXCEPT ![s] = new]
        PROVE  q2 \in [Sessions -> Seq(S)] /\ \A t \in Sessions : Len(q2[t]) <= cap
    BY <1>1, <2>3
  <2>4. ASSUME NEW s \in Sessions, q[s] # <<>>
        PROVE  Tail(q[s]) \in Seq(S) /\ Len(Tail(q[s])) <= cap
    <3>1. q[s] \in Seq(S) /\ Len(q[s]) <= cap
      BY <1>1
    <3> QED
      BY <2>4, <3>1
  <2>5. ASSUME NEW s \in Sessions, NEW b \in S, Len(q[s]) < cap
        PROVE  Append(q[s], b) \in Seq(S) /\ Len(Append(q[s], b)) <= cap
    <3>1. q[s] \in Seq(S)
      BY <1>1
    <3> QED
      BY <2>5, <3>1
  <2>6. <<>> \in Seq(S) /\ Len(<<>>) <= cap
    BY <1>1
  <2> QED
    BY <1>1, <2>1, <2>2, <2>3, <2>4, <2>5, <2>6
<1>2. /\ down' \in [Sessions -> Seq(SUBSET Ref)]
      /\ \A s \in Sessions : Len(down'[s]) <= OutCapacity
  BY <1>1, DistributionAssumption DEF TypeOK
<1>3. /\ up' \in [Sessions -> Seq(Ack \cup {NoAck})]
      /\ \A s \in Sessions : Len(up'[s]) <= UpCapacity
  BY <1>1, DistributionAssumption DEF TypeOK
<1> QED
  BY <1>2, <1>3

\* Opening, breaking and closing a session preserves the types.
LEMMA SessionType ==
  ASSUME TypeOK, NEW s \in Sessions,
         OpenStream(s) \/ Break(s) \/ AgentClose(s) \/ InboundEnd(s)
  PROVE  TypeOK'
<1> USE SessionFacts DEF TypeOK, storeVars, manVars, linkVars, agtVars, StoreTypeOK
<1>1. CASE OpenStream(s)
  <2>1. JobAt("load", s, {}, {}) \in Job /\ JobAt("load", s, {}, {}).to \in Sessions
    BY JobAtType DEF JobPc
  <2> QED
    BY <1>1, <2>1 DEF OpenStream
<1>2. CASE Break(s)
  BY <1>2 DEF Break
<1>3. CASE AgentClose(s)
  <2>1. /\ down' \in [Sessions -> Seq(SUBSET Ref)]
        /\ \A t \in Sessions : Len(down'[t]) <= OutCapacity
    BY <1>3, ChannelsType DEF AgentClose
  <2> QED
    BY <1>3, <2>1 DEF AgentClose
<1>4. CASE InboundEnd(s)
  <2>1. /\ up' \in [Sessions -> Seq(Ack \cup {NoAck})]
        /\ \A t \in Sessions : Len(up'[t]) <= UpCapacity
    BY <1>4, ChannelsType DEF InboundEnd
  <2> QED
    BY <1>4, <2>1 DEF InboundEnd
<1> QED
  BY <1>1, <1>2, <1>3, <1>4

\* A restart of the manager preserves the types.
LEMMA RestartType ==
  ASSUME TypeOK, ManagerRestart
  PROVE  TypeOK'
<1>1. StoreTypeOK'
  BY StoreAssumption DEF ManagerRestart, TypeOK, StoreTypeOK, HandlerPc
<1>2. /\ up' \in [Sessions -> Seq(Ack \cup {NoAck})]
      /\ \A t \in Sessions : Len(up'[t]) <= UpCapacity
  BY ChannelsType DEF ManagerRestart
<1> QED
  BY <1>1, <1>2, NoJobType DEF ManagerRestart, TypeOK, agtVars

\* A pusher's new job preserves the types of the jobs.
LEMMA JobsType ==
  ASSUME TypeOK, NEW p \in Pushers, NEW next \in Job,
         next.pc # "off" => next.to \in Sessions,
         job' = [job EXCEPT ![p] = next]
  PROVE  /\ job' \in [Pushers -> Job]
         /\ \A q \in Pushers : job'[q].pc # "off" => job'[q].to \in Sessions
  BY DEF TypeOK

\* The bridge and the pushes preserve the types.
LEMMA BridgeType ==
  ASSUME TypeOK, BridgeRecv \/ \E a \in Agents : BridgeVisit(a)
  PROVE  TypeOK'
<1>1. CASE BridgeRecv
  <2>1. StoreTypeOK'
    BY <1>1, TakePushType DEF BridgeRecv, TypeOK
  <2> QED
    BY <1>1, <2>1 DEF BridgeRecv, TypeOK, linkVars, agtVars
<1>2. ASSUME NEW a \in Agents, BridgeVisit(a)
      PROVE  TypeOK'
  <2>1. PICK next \in Job : /\ next.pc # "off" => next.to \in Sessions
                            /\ job' = [job EXCEPT ![Bridge] = next]
    <3>1. CASE registry[a] = None
      BY <1>2, <3>1, NoJobType DEF BridgeVisit
    <3>2. CASE registry[a] # None
      <4>1. registry[a] \in Sessions
        BY <3>2 DEF TypeOK
      <4> QED
        BY <1>2, <3>2, <4>1, JobAtType DEF BridgeVisit, JobPc
    <3> QED
      BY <3>1, <3>2
  <2>2. /\ job' \in [Pushers -> Job]
        /\ \A q \in Pushers : job'[q].pc # "off" => job'[q].to \in Sessions
    BY <2>1, JobsType, SessionFacts
  <2>3. visiting' \subseteq Agents
    BY <1>2 DEF BridgeVisit, TypeOK
  <2>4. UNCHANGED <<storeVars, assigned, acked, registry, inbound, answering, linkVars, agtVars>>
    BY <1>2 DEF BridgeVisit
  <2> QED
    BY <2>2, <2>3, <2>4 DEF TypeOK, StoreTypeOK, storeVars, linkVars, agtVars
<1> QED
  BY <1>1, <1>2

LEMMA PushType ==
  ASSUME TypeOK, NEW p \in Pushers, PushStep(p)
  PROVE  TypeOK'
<1>1. job[p] \in Job /\ job[p].to \in Sessions /\ Owner(job[p].to) \in Agents
  BY SessionFacts DEF PushStep, PushLoad, PushMark, PushSend, TypeOK
<1>2. job[p].todo \in SUBSET Ref /\ job[p].batch \in SUBSET Ref
  BY <1>1 DEF Job
<1>3. CASE PushLoad(p)
  <2>1. PICK pending \in {LoadPending(Owner(job[p].to))}
                         \cup (IF "db" \in Faults THEN {{}} ELSE {}) :
          job' = [job EXCEPT ![p] =
                    IF pending = {} THEN NoJob ELSE JobAt("mark", job[p].to, pending, pending)]
    BY <1>3 DEF PushLoad
  <2>2. pending \in SUBSET Ref
    BY <1>1, LoadPendingType DEF TypeOK
  <2>3. PICK next \in Job : /\ next.pc # "off" => next.to \in Sessions
                            /\ job' = [job EXCEPT ![p] = next]
    BY <1>1, <2>1, <2>2, NoJobType, JobAtType DEF JobPc
  <2>4. /\ job' \in [Pushers -> Job]
        /\ \A q \in Pushers : job'[q].pc # "off" => job'[q].to \in Sessions
    BY <2>3, JobsType
  <2> QED
    BY <1>3, <2>4 DEF PushLoad, TypeOK, StoreTypeOK, storeVars, linkVars, agtVars
<1>4. CASE PushMark(p)
  <2>1. PICK ref \in job[p].todo :
          LET a    == Owner(job[p].to)
              rest == job[p].todo \ {ref}
              row  == IF Rows(ref.name) = {} THEN assigned[a] ELSE assigned[a] \cup {ref.name}
          IN
          /\ \/ assigned' = [assigned EXCEPT ![a] = row]
             \/ "db" \in Faults /\ UNCHANGED assigned
          /\ job' = [job EXCEPT ![p] = JobAt(IF rest = {} THEN "send" ELSE "mark",
                                             job[p].to, rest, job[p].batch)]
    BY <1>4 DEF PushMark
  <2>2. assigned' \in [Agents -> SUBSET Names]
    <3>1. assigned \in [Agents -> SUBSET Names] /\ ref.name \in Names
      BY <1>2 DEF TypeOK, Ref
    <3> QED
      BY <1>1, <2>1, <3>1
  <2>3. PICK next \in Job : /\ next.pc # "off" => next.to \in Sessions
                            /\ job' = [job EXCEPT ![p] = next]
    <3>1. job[p].todo \ {ref} \in SUBSET Ref
      BY <1>2
    <3> QED
      BY <1>1, <1>2, <2>1, <3>1, JobAtType DEF JobPc
  <2>4. /\ job' \in [Pushers -> Job]
        /\ \A q \in Pushers : job'[q].pc # "off" => job'[q].to \in Sessions
    BY <2>3, JobsType
  <2> QED
    BY <1>4, <2>2, <2>4 DEF PushMark, TypeOK, StoreTypeOK, storeVars, linkVars, agtVars
<1>5. CASE PushSend(p)
  <2>1. /\ down' \in [Sessions -> Seq(SUBSET Ref)]
        /\ \A t \in Sessions : Len(down'[t]) <= OutCapacity
    BY <1>1, <1>2, <1>5, ChannelsType DEF PushSend
  <2>2. /\ job' \in [Pushers -> Job]
        /\ \A q \in Pushers : job'[q].pc # "off" => job'[q].to \in Sessions
    BY <1>5, NoJobType, JobsType DEF PushSend
  <2> QED
    BY <1>5, <2>1, <2>2 DEF PushSend, TypeOK, StoreTypeOK, storeVars, agtVars
<1> QED
  BY <1>3, <1>4, <1>5 DEF PushStep

\* What one step of AgentApply writes, and what it is to acknowledge.
LEMMA AgentApplyFacts ==
  ASSUME TypeOK, NEW s \in Sessions, AgentApply(s)
  PROVE  \E ref \in applying[s], ok \in BOOLEAN :
           /\ ref \in Ref
           /\ applying' = [applying EXCEPT ![s] = applying[s] \ {ref}]
           /\ acking' = [acking EXCEPT ![s] = {AckOf(ref, ok)}]
           /\ IF ok THEN applied' = [applied EXCEPT ![Owner(s)] = applied[Owner(s)] \cup {ref}]
                    ELSE UNCHANGED applied
           /\ \/ disk' = [disk EXCEPT ![Owner(s)] =
                               {f \in disk[Owner(s)] : f.name # ref.name} \cup {ref}]
              \/ disk' = [disk EXCEPT ![Owner(s)] = {f \in disk[Owner(s)] : f.name # ref.name}]
              \/ UNCHANGED disk
<1>1. applying[s] \in SUBSET Ref
  BY DEF TypeOK
<1> QED
  BY <1>1 DEF AgentApply

LEMMA AckOfType == \A ref \in Ref, ok \in BOOLEAN : AckOf(ref, ok) \in Ack
  BY DEF AckOf, Ack, Ref

\* So does the agent's side of a session.
LEMMA ReaderType ==
  ASSUME TypeOK, NEW s \in Sessions,
         AgentReceive(s) \/ AgentApply(s) \/ AgentAck(s) \/ AgentOther(s)
  PROVE  TypeOK'
<1>1. Owner(s) \in Agents
  BY SessionFacts
<1>2. CASE AgentReceive(s)
  <2>1. /\ down \in [Sessions -> Seq(SUBSET Ref)]
        /\ applying \in [Sessions -> SUBSET Ref]
        /\ down[s] # <<>>
    BY <1>2 DEF TypeOK, AgentReceive
  <2>2. Head(down[s]) \in SUBSET Ref
    <3>1. down[s] \in Seq(SUBSET Ref)
      BY <2>1
    <3> QED
      BY <2>1, <3>1
  <2>3. /\ down' \in [Sessions -> Seq(SUBSET Ref)]
        /\ \A t \in Sessions : Len(down'[t]) <= OutCapacity
    BY <1>2, <2>1, ChannelsType DEF AgentReceive
  <2>4. applying' \in [Sessions -> SUBSET Ref]
    BY <1>2, <2>1, <2>2 DEF AgentReceive
  <2> QED
    BY <1>2, <2>3, <2>4 DEF AgentReceive, TypeOK, StoreTypeOK, storeVars, manVars
<1>3. CASE AgentApply(s)
  <2>1. PICK ref \in applying[s], ok \in BOOLEAN :
           /\ ref \in Ref
           /\ applying' = [applying EXCEPT ![s] = applying[s] \ {ref}]
           /\ acking' = [acking EXCEPT ![s] = {AckOf(ref, ok)}]
           /\ IF ok THEN applied' = [applied EXCEPT ![Owner(s)] = applied[Owner(s)] \cup {ref}]
                    ELSE UNCHANGED applied
           /\ \/ disk' = [disk EXCEPT ![Owner(s)] =
                               {f \in disk[Owner(s)] : f.name # ref.name} \cup {ref}]
              \/ disk' = [disk EXCEPT ![Owner(s)] = {f \in disk[Owner(s)] : f.name # ref.name}]
              \/ UNCHANGED disk
    BY <1>3, AgentApplyFacts
  <2>2. acking' \in [Sessions -> SUBSET Ack]
    <3>1. {AckOf(ref, ok)} \in SUBSET Ack
      BY <2>1, AckOfType
    <3> QED
      BY <2>1, <3>1 DEF TypeOK
  <2>3. applying' \in [Sessions -> SUBSET Ref]
    BY <2>1 DEF TypeOK
  <2>4. applied' \in [Agents -> SUBSET Ref]
    <3>1. applied \in [Agents -> SUBSET Ref]
      BY DEF TypeOK
    <3> QED
      BY <1>1, <2>1, <3>1
  <2>5. disk' \in [Agents -> SUBSET Ref]
    <3>1. disk \in [Agents -> SUBSET Ref]
      BY DEF TypeOK
    <3> QED
      BY <1>1, <2>1, <3>1
  <2> QED
    BY <1>3, <2>2, <2>3, <2>4, <2>5 DEF AgentApply, TypeOK, StoreTypeOK, storeVars, manVars
<1>4. CASE AgentAck(s)
  <2>1. PICK m \in acking[s] :
          \/ Len(up[s]) < UpCapacity /\ up' = [up EXCEPT ![s] = Append(up[s], m)]
          \/ UNCHANGED up
    BY <1>4 DEF AgentAck
  <2>2. m \in Ack
    BY <2>1 DEF TypeOK
  <2>3. UNCHANGED down
    BY <1>4 DEF AgentAck
  <2>4. /\ up' \in [Sessions -> Seq(Ack \cup {NoAck})]
        /\ \A t \in Sessions : Len(up'[t]) <= UpCapacity
    BY <2>1, <2>2, <2>3, ChannelsType
  <2>5. /\ applying' \in [Sessions -> SUBSET Ref]
        /\ acking' \in [Sessions -> SUBSET Ack]
    BY <1>4 DEF AgentAck, TypeOK
  <2> QED
    BY <1>4, <2>4, <2>5 DEF AgentAck, TypeOK, StoreTypeOK, storeVars, manVars
<1>5. CASE AgentOther(s)
  <2>1. /\ up' \in [Sessions -> Seq(Ack \cup {NoAck})]
        /\ \A t \in Sessions : Len(up'[t]) <= UpCapacity
    BY <1>5, ChannelsType DEF AgentOther
  <2> QED
    BY <1>5, <2>1 DEF AgentOther, TypeOK, StoreTypeOK, storeVars, manVars, agtVars
<1> QED
  BY <1>2, <1>3, <1>4, <1>5

\* And the manager's.
LEMMA InboundType ==
  ASSUME TypeOK, NEW s \in Sessions,
         InboundAck(s) \/ InboundOther(s) \/ InboundAnswer(s) \/ CommandSent(s)
  PROVE  TypeOK'
<1>1. Owner(s) \in Agents
  BY SessionFacts
<1>2. CASE InboundAck(s)
  <2> DEFINE a == Owner(s)
             m == Head(up[s])
             val == IF m.ok /\ m.name \in assigned[a] THEN {m.version} ELSE acked[a][m.name]
  <2>1. /\ up \in [Sessions -> Seq(Ack \cup {NoAck})]
        /\ acked \in [Agents -> [Names -> SUBSET Nat]]
        /\ up[s] # <<>> /\ m # NoAck
    BY <1>2 DEF TypeOK, InboundAck
  <2>2. m \in Ack
    <3>1. up[s] \in Seq(Ack \cup {NoAck})
      BY <2>1
    <3>2. m \in Ack \cup {NoAck}
      BY <2>1, <3>1
    <3> QED
      BY <2>1, <3>2
  <2>3. acked' = [acked EXCEPT ![a] = [acked[a] EXCEPT ![m.name] = val]] \/ UNCHANGED acked
    BY <1>2 DEF InboundAck
  <2>4. m.name \in Names /\ acked[a] \in [Names -> SUBSET Nat] /\ val \in SUBSET Nat
    BY <1>1, <2>1, <2>2 DEF Ack
  <2> HIDE DEF val, m
  <2>5. [acked[a] EXCEPT ![m.name] = val] \in [Names -> SUBSET Nat]
    BY <2>4
  <2>6. acked' \in [Agents -> [Names -> SUBSET Nat]]
    BY <1>1, <2>1, <2>3, <2>5
  <2>7. /\ up' \in [Sessions -> Seq(Ack \cup {NoAck})]
        /\ \A t \in Sessions : Len(up'[t]) <= UpCapacity
    BY <1>2, <2>1, ChannelsType DEF InboundAck
  <2> QED
    BY <1>2, <2>6, <2>7 DEF InboundAck, TypeOK, StoreTypeOK, storeVars, agtVars
<1>3. CASE InboundOther(s)
  <2>1. /\ up' \in [Sessions -> Seq(Ack \cup {NoAck})]
        /\ \A t \in Sessions : Len(up'[t]) <= UpCapacity
    BY <1>3, ChannelsType DEF InboundOther
  <2> QED
    BY <1>3, <2>1 DEF InboundOther, TypeOK, StoreTypeOK, storeVars, agtVars
<1>4. CASE InboundAnswer(s) \/ CommandSent(s)
  <2>1. NoPolicies \in SUBSET Ref
    BY DEF NoPolicies
  <2>2. /\ down' \in [Sessions -> Seq(SUBSET Ref)]
        /\ \A t \in Sessions : Len(down'[t]) <= OutCapacity
    BY <1>4, <2>1, ChannelsType DEF InboundAnswer, CommandSent
  <2> QED
    BY <1>4, <2>2 DEF InboundAnswer, CommandSent, TypeOK, StoreTypeOK, storeVars, manVars, agtVars
<1> QED
  BY <1>2, <1>3, <1>4

\* The types hold in every state, and with them: every push knows a session of
\* the agent it is for, and the registry holds sessions of the right agent.
THEOREM Types == Spec => []TypeOK
<1>1. TypeOK /\ [Next]_vars => TypeOK'
  <2> SUFFICES ASSUME TypeOK, [Next]_vars
               PROVE  TypeOK'
    OBVIOUS
  <2>1. CASE UNCHANGED vars
    BY <2>1 DEF vars, storeVars, distVars, manVars, linkVars, agtVars, TypeOK, StoreTypeOK
  <2> QED
    BY <2>1, RestType, RestDeleteType, SessionType, ReaderType, InboundType, PushType,
       BridgeType, RestartType
    DEF Next, SessionStep
<1> QED
  BY <1>1, InitType, PTL DEF Spec

----------------------------------------------------------------------------
(* Acknowledgements. *)

\* The inductive invariant behind AckHonest: an APPLIED acknowledgement that is
\* being sent, or on its way to the manager, is of a version the agent has
\* written, too.
Written(files, m) == m.ok => \E f \in files : f.name = m.name /\ f.version = m.version

AcksTrue ==
    \A s \in Sessions :
        /\ \A k \in 1 .. Len(up[s]) : Written(applied[Owner(s)], up[s][k])
        /\ \A m \in acking[s] : Written(applied[Owner(s)], m)

AckInv == AcksTrue /\ AckHonest

\* The elements of a queue after a send and after a receive.
LEMMA AppendElement ==
  ASSUME NEW S, NEW q \in Seq(S), NEW m \in S, NEW k \in 1 .. Len(Append(q, m))
  PROVE  (k \in 1 .. Len(q) /\ Append(q, m)[k] = q[k]) \/ Append(q, m)[k] = m
  OBVIOUS

LEMMA TailElement ==
  ASSUME NEW S, NEW q \in Seq(S), q # <<>>, NEW k \in 1 .. Len(Tail(q))
  PROVE  k + 1 \in 1 .. Len(q) /\ Tail(q)[k] = q[k + 1]
  OBVIOUS

\* What an agent has written stays written.
LEMMA AppliedGrows ==
  ASSUME TypeOK, [Next]_vars
  PROVE  \A a \in Agents : applied[a] \subseteq applied'[a]
<1>1. ASSUME NEW s \in Sessions, AgentApply(s)
      PROVE  \A a \in Agents : applied[a] \subseteq applied'[a]
  <2>1. PICK ref : \/ applied' = [applied EXCEPT ![Owner(s)] = applied[Owner(s)] \cup {ref}]
                   \/ UNCHANGED applied
    BY <1>1, AgentApplyFacts
  <2>2. applied \in [Agents -> SUBSET Ref]
    BY DEF TypeOK
  <2> QED
    BY <2>1, <2>2
<1>2. CASE UNCHANGED applied
  BY <1>2
<1> QED
  BY <1>1, <1>2
  DEF Next, vars, distVars, agtVars, Rest, RestDelete, SessionStep, OpenStream, Break,
      AgentClose, InboundEnd, AgentReceive, AgentAck, AgentOther, InboundAck, InboundOther,
      InboundAnswer, CommandSent, ManagerRestart,
      BridgeRecv, BridgeVisit, PushStep, PushLoad, PushMark, PushSend

LEMMA WrittenGrows ==
  ASSUME TypeOK, [Next]_vars, NEW a \in Agents, NEW m, Written(applied[a], m)
  PROVE  Written(applied'[a], m)
  BY AppliedGrows DEF Written

\* Acknowledgements stay true as they go from the reader to the channel and
\* through it.
LEMMA AcksTrueStep ==
  ASSUME TypeOK, AckInv, [Next]_vars,
         \A t \in Sessions :
            \/ up'[t] = up[t]
            \/ up'[t] = <<>>
            \/ up[t] # <<>> /\ up'[t] = Tail(up[t])
            \/ \E m \in Ack \cup {NoAck} : Written(applied[Owner(t)], m) /\ up'[t] = Append(up[t], m),
         \A t \in Sessions : \A m \in acking'[t] : m \in acking[t] \/ Written(applied'[Owner(t)], m)
  PROVE  AcksTrue'
<1> SUFFICES ASSUME NEW t \in Sessions
             PROVE  /\ \A k \in 1 .. Len(up'[t]) : Written(applied'[Owner(t)], up'[t][k])
                    /\ \A m \in acking'[t] : Written(applied'[Owner(t)], m)
  BY DEF AcksTrue
<1>1. Owner(t) \in Agents /\ up[t] \in Seq(Ack \cup {NoAck})
  BY SessionFacts DEF TypeOK
<1>2. \A k \in 1 .. Len(up[t]) : Written(applied'[Owner(t)], up[t][k])
  BY <1>1, WrittenGrows DEF AckInv, AcksTrue
<1>3. \A m \in acking'[t] : Written(applied'[Owner(t)], m)
  BY <1>1, WrittenGrows DEF AckInv, AcksTrue
<1>4. ASSUME NEW k \in 1 .. Len(up'[t])
      PROVE  Written(applied'[Owner(t)], up'[t][k])
  <2>1. CASE up'[t] = up[t]
    BY <1>2, <2>1
  <2>2. CASE up'[t] = <<>>
    BY <2>2
  <2>3. CASE up[t] # <<>> /\ up'[t] = Tail(up[t])
    <3>1. k \in 1 .. Len(Tail(up[t]))
      BY <2>3
    <3>2. k + 1 \in 1 .. Len(up[t]) /\ up'[t][k] = up[t][k + 1]
      BY <1>1, <2>3, <3>1, TailElement
    <3> QED
      BY <1>2, <3>2
  <2>4. ASSUME NEW m \in Ack \cup {NoAck}, Written(applied[Owner(t)], m), up'[t] = Append(up[t], m)
        PROVE  Written(applied'[Owner(t)], up'[t][k])
    <3>1. k \in 1 .. Len(Append(up[t], m))
      BY <2>4
    <3>2. (k \in 1 .. Len(up[t]) /\ up'[t][k] = up[t][k]) \/ up'[t][k] = m
      BY <1>1, <2>4, <3>1, AppendElement
    <3>3. Written(applied'[Owner(t)], m)
      BY <1>1, <2>4, WrittenGrows
    <3> QED
      BY <1>2, <3>2, <3>3
  <2> QED
    BY <2>1, <2>2, <2>3, <2>4
<1> QED
  BY <1>3, <1>4

\* A step that leaves the acknowledgements alone, or loses some, preserves it.
LEMMA AckInvFrame ==
  ASSUME TypeOK, AckInv, [Next]_vars,
         \A s \in Sessions : up'[s] = up[s] \/ up'[s] = <<>>,
         \A s \in Sessions : acking'[s] \subseteq acking[s],
         \A a \in Agents, n \in Names : acked'[a][n] \subseteq acked[a][n]
  PROVE  AckInv'
<1>1. AcksTrue'
  BY AcksTrueStep
<1>2. AckHonest'
  BY AppliedGrows DEF AckInv, AckHonest
<1> QED
  BY <1>1, <1>2 DEF AckInv

\* The write of a policy file makes one acknowledgement, true if it is APPLIED;
\* the reader then sends it, and other tasks send what acknowledges nothing.
LEMMA AgentAckInv ==
  ASSUME TypeOK, AckInv, NEW s \in Sessions, AgentApply(s) \/ AgentAck(s) \/ AgentOther(s)
  PROVE  AckInv'
<1>0. /\ Owner(s) \in Agents
      /\ up \in [Sessions -> Seq(Ack \cup {NoAck})]
      /\ acking \in [Sessions -> SUBSET Ack]
      /\ applied \in [Agents -> SUBSET Ref]
      /\ [Next]_vars
  BY SessionFacts DEF TypeOK, Next, SessionStep
<1>1. AckHonest'
  <2>1. UNCHANGED acked
    BY DEF AgentApply, AgentAck, AgentOther, manVars
  <2> QED
    BY <1>0, <2>1, AppliedGrows DEF AckInv, AckHonest
<1>2. CASE AgentApply(s)
  <2>1. PICK ref \in Ref, ok \in BOOLEAN :
           /\ acking' = [acking EXCEPT ![s] = {AckOf(ref, ok)}]
           /\ ok => applied' = [applied EXCEPT ![Owner(s)] = applied[Owner(s)] \cup {ref}]
    BY <1>2, AgentApplyFacts
  <2>2. Written(applied'[Owner(s)], AckOf(ref, ok))
    <3>1. ok => ref \in applied'[Owner(s)]
      BY <1>0, <2>1
    <3> QED
      BY <3>1 DEF Written, AckOf
  <2>3. UNCHANGED up
    BY <1>2 DEF AgentApply
  <2>4. \A t \in Sessions : \A m \in acking'[t] : m \in acking[t] \/ Written(applied'[Owner(t)], m)
    BY <1>0, <2>1, <2>2
  <2>5. AcksTrue'
    BY <1>0, <2>3, <2>4, AcksTrueStep
  <2> QED
    BY <1>1, <2>5 DEF AckInv
<1>3. CASE AgentAck(s)
  <2>1. PICK m \in acking[s] : up' = [up EXCEPT ![s] = Append(up[s], m)] \/ UNCHANGED up
    BY <1>3 DEF AgentAck
  <2>2. m \in Ack /\ Written(applied[Owner(s)], m)
    BY <1>0, <2>1 DEF AckInv, AcksTrue
  <2>3. \A t \in Sessions : acking'[t] \subseteq acking[t]
    BY <1>0, <1>3 DEF AgentAck
  <2>4. \A t \in Sessions : \/ up'[t] = up[t]
                           \/ \E a \in Ack \cup {NoAck} :
                                 Written(applied[Owner(t)], a) /\ up'[t] = Append(up[t], a)
    BY <1>0, <2>1, <2>2
  <2>5. AcksTrue'
    BY <1>0, <2>3, <2>4, AcksTrueStep
  <2> QED
    BY <1>1, <2>5 DEF AckInv
<1>4. CASE AgentOther(s)
  <2>1. up' = [up EXCEPT ![s] = Append(up[s], NoAck)] /\ UNCHANGED acking
    BY <1>4 DEF AgentOther, agtVars
  <2>2. Written(applied[Owner(s)], NoAck)
    BY DEF Written, NoAck
  <2>3. \A t \in Sessions : \/ up'[t] = up[t]
                           \/ \E a \in Ack \cup {NoAck} :
                                 Written(applied[Owner(t)], a) /\ up'[t] = Append(up[t], a)
    BY <1>0, <2>1, <2>2
  <2>4. AcksTrue'
    BY <1>0, <2>1, <2>3, AcksTrueStep
  <2> QED
    BY <1>1, <2>4 DEF AckInv
<1> QED
  BY <1>2, <1>3, <1>4

\* mark_acked records a true acknowledgement; the other messages the inbound
\* task reads record nothing.
LEMMA InboundAckInv ==
  ASSUME TypeOK, AckInv, NEW s \in Sessions, InboundAck(s) \/ InboundOther(s)
  PROVE  AckInv'
<1> DEFINE m == Head(up[s])
           a == Owner(s)
           val == IF m.ok /\ m.name \in assigned[a] THEN {m.version} ELSE acked[a][m.name]
<1>1. /\ a \in Agents
      /\ up \in [Sessions -> Seq(Ack \cup {NoAck})]
      /\ acked \in [Agents -> [Names -> SUBSET Nat]]
      /\ UNCHANGED <<applied, acking>>
      /\ [Next]_vars
  BY SessionFacts DEF TypeOK, InboundAck, InboundOther, agtVars, Next, SessionStep
<1>2. up[s] # <<>> /\ up' = [up EXCEPT ![s] = Tail(up[s])]
  BY DEF InboundAck, InboundOther
<1>3. AcksTrue'
  <2>1. \A t \in Sessions : up'[t] = up[t] \/ (up[t] # <<>> /\ up'[t] = Tail(up[t]))
    BY <1>1, <1>2
  <2> QED
    BY <1>1, <2>1, AcksTrueStep
<1>4. CASE InboundAck(s)
  <2>1. m = up[s][1] /\ 1 \in 1 .. Len(up[s]) /\ m \in Ack
    <3>1. up[s] \in Seq(Ack \cup {NoAck}) /\ m # NoAck
      BY <1>1, <1>4 DEF InboundAck
    <3>2. m = up[s][1] /\ 1 \in 1 .. Len(up[s]) /\ m \in Ack \cup {NoAck}
      BY <1>2, <3>1
    <3> QED
      BY <3>1, <3>2
  <2>2. AckHonest'
    <3> SUFFICES ASSUME NEW b \in Agents, NEW n \in Names, NEW v \in acked'[b][n]
                 PROVE  \E f \in applied[b] : f.name = n /\ f.version = v
      BY <1>1 DEF AckHonest
    <3>1. CASE v \in acked[b][n]
      BY <3>1 DEF AckInv, AckHonest
    <3>2. CASE b = a /\ n = m.name /\ m.ok /\ v = m.version
      BY <2>1, <3>2 DEF AckInv, AcksTrue, Written
    <3>3. acked' = [acked EXCEPT ![a] = [acked[a] EXCEPT ![m.name] = val]] \/ UNCHANGED acked
      BY <1>4 DEF InboundAck
    <3>4. acked[a] \in [Names -> SUBSET Nat] /\ m.name \in Names
      BY <1>1, <2>1 DEF Ack
    <3> QED
      BY <1>1, <3>1, <3>2, <3>3, <3>4
  <2> QED
    BY <1>3, <2>2 DEF AckInv
<1>5. CASE InboundOther(s)
  BY <1>1, <1>3, <1>5 DEF InboundOther, AckInv, AckHonest
<1> QED
  BY <1>4, <1>5

\* Every acked_version of policy_assignments is a version number that agent has
\* written under that name (mark_acked, handle_inbound), for any number of
\* sessions, any requests and in the presence of every fault.
THEOREM AcksAreHonest == Spec => []AckHonest
<1>1. Init => AckInv
  BY DEF Init, AckInv, AcksTrue, AckHonest
<1>2. TypeOK /\ AckInv /\ [Next]_vars => AckInv'
  <2> SUFFICES ASSUME TypeOK, AckInv, [Next]_vars
               PROVE  AckInv'
    OBVIOUS
  <2>1. CASE UNCHANGED <<up, acking, acked>>
    BY <2>1, AckInvFrame
  <2>2. ASSUME NEW r \in Handlers, NEW n \in Names, RestDelete(r, n)
        PROVE  AckInv'
    <3>1. \A b \in Agents, k \in Names : acked'[b][k] \subseteq acked[b][k]
      BY <2>2 DEF RestDelete, TypeOK
    <3> QED
      BY <2>2, <3>1, AckInvFrame DEF RestDelete, linkVars, agtVars
  <2>3. ASSUME NEW s \in Sessions, InboundEnd(s) \/ AgentClose(s)
        PROVE  AckInv'
    <3>1. CASE InboundEnd(s)
      BY <2>3, <3>1, AckInvFrame DEF InboundEnd, TypeOK, agtVars
    <3>2. CASE AgentClose(s)
      BY <2>3, <3>2, AckInvFrame DEF AgentClose, TypeOK, manVars
    <3> QED
      BY <2>3, <3>1, <3>2
  <2>4. CASE ManagerRestart
    BY <2>4, AckInvFrame DEF ManagerRestart, agtVars
  <2>5. ASSUME NEW r \in Handlers, Rest(r)
        PROVE  UNCHANGED <<up, acking, acked>>
    BY <2>5 DEF Rest, distVars, manVars, linkVars, agtVars
  <2>6. ASSUME NEW p \in Pushers, PushStep(p)
        PROVE  UNCHANGED <<up, acking, acked>>
    BY <2>6 DEF PushStep, PushLoad, PushMark, PushSend, linkVars, agtVars
  <2>7. ASSUME BridgeRecv \/ \E a \in Agents : BridgeVisit(a)
        PROVE  UNCHANGED <<up, acking, acked>>
    BY <2>7 DEF BridgeRecv, BridgeVisit, linkVars, agtVars
  <2>8. ASSUME NEW s \in Sessions, \/ OpenStream(s) \/ Break(s) \/ AgentReceive(s)
                                   \/ InboundAnswer(s) \/ CommandSent(s)
        PROVE  UNCHANGED <<up, acking, acked>>
    BY <2>8 DEF OpenStream, Break, AgentReceive, InboundAnswer, CommandSent, manVars, agtVars
  <2>9. CASE UNCHANGED vars
    BY <2>1, <2>9 DEF vars, distVars, manVars, linkVars, agtVars
  <2> QED
    BY <2>1, <2>2, <2>3, <2>4, <2>5, <2>6, <2>7, <2>8, <2>9, AgentAckInv, InboundAckInv
    DEF Next, SessionStep
<1>3. AckInv => AckHonest
  BY DEF AckInv
<1> QED
  BY <1>1, <1>2, <1>3, Types, PTL DEF Spec

----------------------------------------------------------------------------
(* What is under way. *)

\* Whatever a pusher, a session or an agent carries is in the set K.
PushersCarry(K) == \A p \in Pushers : job[p].todo \subseteq K /\ job[p].batch \subseteq K

SessionsCarry(K) ==
    \A s \in Sessions :
        /\ applying[s] \subseteq K
        /\ \A k \in 1 .. Len(down[s]) : down[s][k] \subseteq K

AgentsCarry(K) == \A a \in Agents : disk[a] \subseteq K /\ applied[a] \subseteq K

Carries(K) == PushersCarry(K) /\ SessionsCarry(K) /\ AgentsCarry(K)

\* What the pushers read.
Current == {AsRef(p) : p \in policies}

\* A step of the whole system is a step of the store, or a restart.
LEMMA StoreStepOrRestart ==
  ASSUME [Next]_vars
  PROVE  [StoreNext]_storeVars \/ ManagerRestart
  BY DEF Next, vars, Rest, RestDelete, SessionStep, OpenStream, Break, AgentClose, InboundEnd,
         AgentReceive, AgentApply, AgentAck, AgentOther, InboundAck, InboundOther, InboundAnswer,
         CommandSent, BridgeRecv, BridgeVisit, PushStep, PushLoad, PushMark, PushSend, StoreNext

\* The pushers read rows of `policies` and pass on what they read.
LEMMA PushCarries ==
  ASSUME TypeOK, NEW K, Carries(K), Current \subseteq K, NEW p \in Pushers, PushStep(p)
  PROVE  Carries(K)'
<1>1. AgentsCarry(K)' /\ UNCHANGED applying
  BY DEF PushStep, PushLoad, PushMark, PushSend, agtVars, Carries, AgentsCarry
<1>2. job \in [Pushers -> Job] /\ job[p].to \in Sessions /\ down \in [Sessions -> Seq(SUBSET Ref)]
  BY DEF PushStep, PushLoad, PushMark, PushSend, TypeOK
<1>3. job[p].todo \subseteq K /\ job[p].batch \subseteq K
  BY DEF Carries, PushersCarry
<1>4. PushersCarry(K)'
  <2>1. PICK next : /\ job' = [job EXCEPT ![p] = next]
                    /\ next.todo \subseteq K
                    /\ next.batch \subseteq K
    <3>1. NoJob.todo = {} /\ NoJob.batch = {}
      BY DEF NoJob, JobAt
    <3>2. CASE PushLoad(p)
      <4>1. LoadPending(Owner(job[p].to)) \subseteq K
        BY DEF LoadPending, Current
      <4>2. PICK pending \in {LoadPending(Owner(job[p].to))}
                         \cup (IF "db" \in Faults THEN {{}} ELSE {}) :
               job' = [job EXCEPT ![p] = IF pending = {} THEN NoJob
                                        ELSE JobAt("mark", job[p].to, pending, pending)]
        BY <3>2 DEF PushLoad
      <4>3. CASE pending = {}
        BY <3>1, <4>2, <4>3
      <4>4. CASE pending # {}
        <5> DEFINE j == JobAt("mark", job[p].to, pending, pending)
        <5>1. j.todo = pending /\ j.batch = pending
          BY DEF JobAt
        <5>2. job' = [job EXCEPT ![p] = j] /\ pending \subseteq K
          BY <4>1, <4>2, <4>4
        <5> QED
          BY <5>1, <5>2
      <4> QED
        BY <4>3, <4>4
    <3>3. CASE PushMark(p)
      BY <1>3, <3>3 DEF PushMark, JobAt
    <3>4. CASE PushSend(p)
      BY <3>1, <3>4 DEF PushSend
    <3> QED
      BY <3>2, <3>3, <3>4 DEF PushStep
  <2> QED
    BY <1>2, <2>1 DEF Carries, PushersCarry
<1>5. SessionsCarry(K)'
  <2> SUFFICES ASSUME NEW t \in Sessions, NEW k \in 1 .. Len(down'[t])
               PROVE  down'[t][k] \subseteq K
    BY <1>1 DEF Carries, SessionsCarry
  <2>1. CASE down'[t] = down[t]
    BY <2>1 DEF Carries, SessionsCarry
  <2>2. CASE down'[t] = Append(down[t], job[p].batch)
    <3>1. down[t] \in Seq(SUBSET Ref) /\ job[p].batch \in SUBSET Ref
      BY <1>2 DEF Job
    <3>2. k \in 1 .. Len(Append(down[t], job[p].batch))
      BY <2>2
    <3>3. (k \in 1 .. Len(down[t]) /\ down'[t][k] = down[t][k]) \/ down'[t][k] = job[p].batch
      BY <2>2, <3>1, <3>2, AppendElement
    <3> QED
      BY <1>3, <3>3 DEF Carries, SessionsCarry
  <2>3. down' = [down EXCEPT ![job[p].to] = Append(down[job[p].to], job[p].batch)] \/ UNCHANGED down
    BY DEF PushStep, PushLoad, PushMark, PushSend, linkVars
  <2> QED
    BY <1>2, <2>1, <2>2, <2>3
<1> QED
  BY <1>1, <1>4, <1>5 DEF Carries

\* The agent applies and writes what it was sent.
LEMMA AgentCarries ==
  ASSUME TypeOK, NEW K, Carries(K), Current \subseteq K, NEW s \in Sessions,
         AgentReceive(s) \/ AgentApply(s)
  PROVE  Carries(K)'
<1>1. PushersCarry(K)'
  BY DEF AgentReceive, AgentApply, manVars, Carries, PushersCarry
<1>2. /\ down \in [Sessions -> Seq(SUBSET Ref)]
      /\ applying \in [Sessions -> SUBSET Ref]
      /\ disk \in [Agents -> SUBSET Ref]
      /\ applied \in [Agents -> SUBSET Ref]
      /\ Owner(s) \in Agents
  BY SessionFacts DEF TypeOK
<1>3. applying[s] \subseteq K
  BY DEF Carries, SessionsCarry
<1>4. CASE AgentReceive(s)
  <2>1. /\ UNCHANGED <<disk, applied>>
        /\ down[s] # <<>>
        /\ down' = [down EXCEPT ![s] = Tail(down[s])]
        /\ applying' = [applying EXCEPT ![s] = Head(down[s])] \/ UNCHANGED applying
    BY <1>4 DEF AgentReceive
  <2>2. down[s] \in Seq(SUBSET Ref) /\ Head(down[s]) = down[s][1] /\ 1 \in 1 .. Len(down[s])
    BY <1>2, <2>1
  <2>3. \A t \in Sessions : applying'[t] \subseteq K
    BY <1>2, <2>1, <2>2 DEF Carries, SessionsCarry
  <2>4. ASSUME NEW t \in Sessions, NEW k \in 1 .. Len(down'[t])
        PROVE  down'[t][k] \subseteq K
    <3>1. CASE t = s
      <4>1. down'[t] = Tail(down[s])
        BY <1>2, <2>1, <3>1
      <4>2. k \in 1 .. Len(Tail(down[s]))
        BY <4>1
      <4>3. k + 1 \in 1 .. Len(down[s]) /\ down'[t][k] = down[s][k + 1]
        BY <2>1, <2>2, <4>1, <4>2, TailElement
      <4> QED
        BY <4>3 DEF Carries, SessionsCarry
    <3>2. CASE t # s
      BY <1>2, <2>1, <3>2 DEF Carries, SessionsCarry
    <3> QED
      BY <3>1, <3>2
  <2>5. AgentsCarry(K)'
    BY <2>1 DEF Carries, AgentsCarry
  <2> QED
    BY <1>1, <2>3, <2>4, <2>5 DEF Carries, SessionsCarry
<1>5. CASE AgentApply(s)
  <2>1. PICK ref \in applying[s] :
           /\ applying' = [applying EXCEPT ![s] = applying[s] \ {ref}]
           /\ \/ disk' = [disk EXCEPT ![Owner(s)] =
                               {f \in disk[Owner(s)] : f.name # ref.name} \cup {ref}]
              \/ disk' = [disk EXCEPT ![Owner(s)] = {f \in disk[Owner(s)] : f.name # ref.name}]
              \/ UNCHANGED disk
           /\ \/ applied' = [applied EXCEPT ![Owner(s)] = applied[Owner(s)] \cup {ref}]
              \/ UNCHANGED applied
    BY <1>5, AgentApplyFacts
  <2>2. UNCHANGED down
    BY <1>5 DEF AgentApply
  <2>3. SessionsCarry(K)'
    <3>1. \A t \in Sessions : applying'[t] \subseteq applying[t]
      BY <1>2, <2>1
    <3> QED
      BY <2>2, <3>1 DEF Carries, SessionsCarry
  <2>4. AgentsCarry(K)'
    <3>1. \A a \in Agents : disk'[a] \subseteq disk[a] \cup {ref}
                           /\ applied'[a] \subseteq applied[a] \cup {ref}
      BY <1>2, <2>1
    <3>2. ref \in K
      BY <1>3
    <3> QED
      BY <3>1, <3>2 DEF Carries, AgentsCarry
  <2> QED
    BY <1>1, <2>3, <2>4 DEF Carries
<1> QED
  BY <1>4, <1>5

\* The rest of the steps carry no reference.
LEMMA OtherCarries ==
  ASSUME TypeOK, NEW K, Carries(K), Current \subseteq K,
         \/ \E r \in Handlers : Rest(r)
         \/ \E r \in Handlers, n \in Names : RestDelete(r, n)
         \/ \E s \in Sessions : OpenStream(s) \/ Break(s) \/ AgentClose(s) \/ InboundEnd(s)
                                \/ AgentAck(s) \/ AgentOther(s) \/ InboundAck(s)
                                \/ InboundOther(s)
         \/ \E a \in Agents : BridgeVisit(a)
         \/ BridgeRecv
         \/ ManagerRestart
         \/ UNCHANGED vars
  PROVE  Carries(K)'
<1>1. UNCHANGED <<disk, applied>>
  BY DEF Rest, RestDelete, OpenStream, Break, AgentClose, InboundEnd, AgentAck, AgentOther,
         InboundAck, InboundOther, BridgeVisit, BridgeRecv, ManagerRestart, vars, distVars, agtVars
<1>2. AgentsCarry(K)'
  BY <1>1 DEF Carries, AgentsCarry
<1>3. \A s \in Sessions : /\ applying'[s] = applying[s] \/ applying'[s] = {}
                          /\ down'[s] = down[s] \/ down'[s] = <<>>
  <2>1. CASE UNCHANGED <<applying, down>>
    BY <2>1
  <2>2. CASE \E s \in Sessions : AgentClose(s) \/ AgentAck(s)
    BY <2>2 DEF AgentClose, AgentAck, TypeOK
  <2> QED
    BY <2>1, <2>2 DEF Rest, RestDelete, OpenStream, Break, InboundEnd, AgentOther, InboundAck,
       InboundOther, BridgeVisit, BridgeRecv, ManagerRestart, vars, distVars, linkVars, agtVars
<1>4. SessionsCarry(K)'
  BY <1>3 DEF Carries, SessionsCarry
<1>5. PushersCarry(K)'
  <2>1. CASE UNCHANGED job
    BY <2>1 DEF Carries, PushersCarry
  <2>2. CASE \E p \in Pushers : \E w, s : job' = [job EXCEPT ![p] = JobAt(w, s, {}, {})]
    BY <2>2 DEF Carries, PushersCarry, TypeOK, JobAt
  <2>3. ASSUME NEW s \in Sessions, OpenStream(s)
        PROVE  \E p \in Pushers : \E w, t : job' = [job EXCEPT ![p] = JobAt(w, t, {}, {})]
    BY <2>3, SessionFacts DEF OpenStream
  <2>4. ASSUME NEW a \in Agents, BridgeVisit(a)
        PROVE  \E p \in Pushers : \E w, t : job' = [job EXCEPT ![p] = JobAt(w, t, {}, {})]
    BY <2>4, SessionFacts DEF BridgeVisit, NoJob
  <2>5. CASE ManagerRestart
    BY <2>5 DEF ManagerRestart, PushersCarry, NoJob, JobAt
  <2> QED
    BY <2>1, <2>2, <2>3, <2>4, <2>5 DEF Rest, RestDelete, Break, AgentClose, InboundEnd, AgentAck,
       AgentOther, InboundAck, InboundOther, BridgeRecv, ManagerRestart, vars, distVars, manVars
<1> QED
  BY <1>2, <1>4, <1>5 DEF Carries

\* An answer to a heartbeat and a command carry no reference either.
LEMMA NoPoliciesCarries ==
  ASSUME TypeOK, NEW K, Carries(K), NEW s \in Sessions, InboundAnswer(s) \/ CommandSent(s)
  PROVE  Carries(K)'
<1>1. AgentsCarry(K)' /\ PushersCarry(K)' /\ UNCHANGED applying
  BY DEF InboundAnswer, CommandSent, agtVars, manVars, Carries, AgentsCarry, PushersCarry
<1>2. down' = [down EXCEPT ![s] = Append(down[s], NoPolicies)] \/ UNCHANGED down
  BY DEF InboundAnswer, CommandSent
<1>3. ASSUME NEW t \in Sessions, NEW k \in 1 .. Len(down'[t])
      PROVE  down'[t][k] \subseteq K
  <2>1. CASE down'[t] = down[t]
    BY <2>1 DEF Carries, SessionsCarry
  <2>2. CASE down'[t] = Append(down[t], NoPolicies)
    <3>1. down[t] \in Seq(SUBSET Ref) /\ NoPolicies \in SUBSET Ref
      BY DEF TypeOK, NoPolicies
    <3>2. k \in 1 .. Len(Append(down[t], NoPolicies))
      BY <2>2
    <3>3. (k \in 1 .. Len(down[t]) /\ down'[t][k] = down[t][k]) \/ down'[t][k] = NoPolicies
      BY <2>2, <3>1, <3>2, AppendElement
    <3> QED
      BY <3>3 DEF Carries, SessionsCarry, NoPolicies
  <2> QED
    BY <1>2, <2>1, <2>2 DEF TypeOK
<1> QED
  BY <1>1, <1>3 DEF Carries, SessionsCarry

\* A reference that is under way or written was read from `policies`.
LEMMA CarriesStays ==
  ASSUME TypeOK, NEW K, Carries(K), Current \subseteq K, [Next]_vars
  PROVE  Carries(K)'
  BY PushCarries, AgentCarries, OtherCarries, NoPoliciesCarries DEF Next, SessionStep

LEMMA CarriesInit ==
  ASSUME Init, NEW K
  PROVE  Carries(K)
  BY DEF Init, Carries, PushersCarry, SessionsCarry, AgentsCarry, NoJob, JobAt

----------------------------------------------------------------------------
(* What agents enforce is on record. *)

\* The inductive invariant behind DiskAudited: whatever a pusher, a session or
\* an agent carries was read from a row on the audit trail.
Known == {AsRef(p) : p \in AuditRows}

AuditInv == RowsAudited /\ Carries(Known)

\* Nothing leaves the audit trail, and what is read is on it.
LEMMA KnownGrows ==
  ASSUME TypeOK, "abort" \notin Faults, "restart" \notin Faults, [Next]_vars, RowsAudited
  PROVE  Known \subseteq Known' /\ RowsAudited'
<1>1. StoreTypeOK /\ [StoreNext]_storeVars
  BY StoreStepOrRestart DEF TypeOK, ManagerRestart
<1>2. AuditRows \subseteq AuditRows'
  BY <1>1, AuditGrows
<1>3. RowsAudited'
  BY <1>1, <1>2, NewRowsAudited DEF RowsAudited
<1>4. Known \subseteq Known'
  BY <1>2 DEF Known, AsRef
<1> QED
  BY <1>3, <1>4

\* Every policy file of every agent is a row that policy_history holds or is
\* about to hold, as long as no request is cut short and the manager does not
\* restart between a write of `policies` and its record (policies.rs).
THEOREM DisksAreAudited ==
  ASSUME "abort" \notin Faults, "restart" \notin Faults
  PROVE  Spec => []DiskAudited
<1>1. Init => AuditInv
  BY CarriesInit DEF Init, StoreInit, AuditInv, RowsAudited
<1>2. TypeOK /\ AuditInv /\ [Next]_vars => AuditInv'
  <2> SUFFICES ASSUME TypeOK, AuditInv, [Next]_vars
               PROVE  AuditInv'
    OBVIOUS
  <2>1. Known \subseteq Known' /\ RowsAudited'
    BY KnownGrows DEF AuditInv
  <2>2. PICK K : K = Known
    OBVIOUS
  <2>3. Carries(K) /\ Current \subseteq K
    BY <2>2 DEF AuditInv, RowsAudited, Current, Known
  <2>4. Carries(K)'
    BY <2>3, CarriesStays
  <2>5. K \subseteq Known'
    BY <2>1, <2>2
  <2>6. Carries(Known)'
    BY <2>4, <2>5 DEF Carries, PushersCarry, SessionsCarry, AgentsCarry
  <2> QED
    BY <2>1, <2>6 DEF AuditInv
<1>3. AuditInv => DiskAudited
  BY DEF AuditInv, Carries, AgentsCarry, Known, DiskAudited
<1> QED
  BY <1>1, <1>2, <1>3, Types, PTL DEF Spec

----------------------------------------------------------------------------
(* Versions, for any requests. *)

\* The version of a policy that is overwritten rises in the whole system too,
\* through every broken session and restart of the manager, unless its row was
\* written or deleted between the SELECT and the UPDATE of the handler, or had
\* the largest version an i32 holds.
THEOREM SystemVersionsRise == Spec => VersionRises
<1>1. TypeOK /\ FreshInv /\ [Next]_vars => FreshInv'
  <2> SUFFICES ASSUME TypeOK, FreshInv, [Next]_vars
               PROVE  FreshInv'
    OBVIOUS
  <2>1. CASE ManagerRestart
    BY <2>1 DEF ManagerRestart, FreshInv, Fresh
  <2> QED
    BY <2>1, StoreStepOrRestart, StoreFresh DEF TypeOK
<1>2. TypeOK /\ FreshInv /\ [Next]_vars
        => [\A p \in policies, q \in policies' :
               p.name = q.name /\ p # q =>
                  \/ q.version > p.version
                  \/ p.version = I32Max
                  \/ \E r \in raced : arg[r] = q]_storeVars
  <2> SUFFICES ASSUME TypeOK, FreshInv, [Next]_vars,
                      NEW p \in policies, NEW q \in policies', p.name = q.name, p # q
               PROVE  \/ q.version > p.version
                      \/ p.version = I32Max
                      \/ \E r \in raced : arg[r] = q
    OBVIOUS
  <2>1. CASE ManagerRestart
    BY <2>1 DEF ManagerRestart, TypeOK, StoreTypeOK
  <2> QED
    BY <2>1, StoreStepOrRestart, StepRises DEF TypeOK
<1> QED
  BY <1>1, <1>2, FreshInit, Types, PTL DEF Spec, Init, VersionRises

----------------------------------------------------------------------------
(* Versions, while requests are served one at a time. *)

\* A restart forgets the requests and keeps the tables, so it preserves what
\* the versions rest on.
LEMMA VersionStep ==
  ASSUME TypeOK, OneAtATime, VersionInv, [Next]_vars
  PROVE  VersionInv'
<1>1. StoreTypeOK
  BY DEF TypeOK
<1>2. CASE ManagerRestart
  BY <1>1, <1>2, VersionInvFrame DEF ManagerRestart
<1> QED
  BY <1>1, <1>2, StoreStepOrRestart, StoreVersionInv

\* And a version names the document, for the rows of `policies` and those of
\* policy_history.
THEOREM SystemVersionsAreUnambiguous ==
  ASSUME OneAtATime
  PROVE  Spec => []VersionNamesContent
<1>1. TypeOK /\ VersionInv /\ [Next]_vars => VersionInv'
  BY VersionStep
<1>2. TypeOK /\ VersionInv => VersionNamesContent
  BY VersionsNameContents DEF TypeOK
<1> QED
  BY <1>1, <1>2, VersionInit, Types, PTL DEF Spec, Init

----------------------------------------------------------------------------
(* The registry, when no half-open session outlives its successor. *)

\* The inductive invariant behind StillRegistered: the manager serves at most
\* one session of an agent, the registry holds it, and a session that is up is
\* being served.
RegistryInv ==
    /\ \A s \in Sessions : link[s] = "up" => inbound[s]
    /\ \A s, t \in Sessions : inbound[s] /\ inbound[t] /\ Owner(s) = Owner(t) => s = t
    /\ \A s \in Sessions : inbound[s] => registry[Owner(s)] = s

LEMMA RegistryStep ==
  ASSUME TypeOK, "halfopen" \notin Faults, RegistryInv, [Next]_vars
  PROVE  RegistryInv'
<1>1. /\ link \in [Sessions -> {"new", "up", "broken"}]
      /\ inbound \in [Sessions -> BOOLEAN]
      /\ registry \in [Agents -> Sessions \cup {None}]
  BY DEF TypeOK
<1>2. ASSUME NEW s \in Sessions, OpenStream(s)
      PROVE  RegistryInv'
  <2>1. /\ link' = [link EXCEPT ![s] = "up"]
        /\ registry' = [registry EXCEPT ![Owner(s)] = s]
        /\ inbound' = [inbound EXCEPT ![s] = TRUE]
        /\ \A t \in Of(Owner(s)) : ~inbound[t]
    BY <1>2 DEF OpenStream
  <2>2. \A t \in Sessions : Owner(t) = Owner(s) => ~inbound[t]
    BY <2>1 DEF Of
  <2> QED
    BY <1>1, <2>1, <2>2, SessionFacts DEF RegistryInv
<1>3. ASSUME NEW s \in Sessions, InboundEnd(s)
      PROVE  RegistryInv'
  <2>1. /\ UNCHANGED link
        /\ link[s] = "broken"
        /\ inbound[s]
        /\ registry' = [registry EXCEPT ![Owner(s)] = None]
        /\ inbound' = [inbound EXCEPT ![s] = FALSE]
    BY <1>3 DEF InboundEnd
  <2> QED
    BY <1>1, <2>1, SessionFacts DEF RegistryInv
<1>4. ASSUME NEW s \in Sessions, Break(s)
      PROVE  RegistryInv'
  BY <1>1, <1>4 DEF Break, manVars, RegistryInv
<1>5. CASE ManagerRestart
  BY <1>1, <1>5 DEF ManagerRestart, RegistryInv
<1>6. CASE UNCHANGED <<link, inbound, registry>>
  BY <1>6 DEF RegistryInv
<1>7. ASSUME NEW s \in Sessions, \/ AgentClose(s) \/ AgentReceive(s) \/ AgentApply(s) \/ AgentAck(s)
                                 \/ AgentOther(s) \/ InboundAck(s) \/ InboundOther(s)
                                 \/ InboundAnswer(s) \/ CommandSent(s)
      PROVE  UNCHANGED <<link, inbound, registry>>
  BY <1>7 DEF AgentClose, AgentReceive, AgentApply, AgentAck, AgentOther, InboundAck, InboundOther,
     InboundAnswer, CommandSent, manVars
<1>8. ASSUME NEW p \in Pushers, PushStep(p)
      PROVE  UNCHANGED <<link, inbound, registry>>
  BY <1>8 DEF PushStep, PushLoad, PushMark, PushSend, linkVars
<1> QED
  BY <1>2, <1>3, <1>4, <1>5, <1>6, <1>7, <1>8
  DEF Next, SessionStep, vars, Rest, RestDelete, BridgeRecv, BridgeVisit, distVars, manVars, linkVars

\* A session that is up, of an agent with no other session being served, is in
\* the AgentRegistry: as long as the manager notices the end of an agent's
\* session before the agent opens the next one, for any number of agents and
\* sessions, broken links and restarts.
THEOREM SessionsStayRegistered ==
  ASSUME "halfopen" \notin Faults
  PROVE  Spec => []StillRegistered
<1>1. Init => RegistryInv
  BY DEF Init, RegistryInv
<1>2. TypeOK /\ RegistryInv /\ [Next]_vars => RegistryInv'
  BY RegistryStep
<1>3. RegistryInv => StillRegistered
  BY DEF RegistryInv, StillRegistered
<1> QED
  BY <1>1, <1>2, <1>3, Types, PTL DEF Spec

----------------------------------------------------------------------------
(* No update is missed. *)

\* A pusher of a session pushes to that session.
OwnJobs == \A s \in Sessions : job[s].pc # "off" => job[s].to = s

\* The current row p has been written by the agent of session s, or is on its
\* way to it, or there is someone left who will look for it.
Due(s, p) ==
    \/ AsRef(p) \in applied[Owner(s)]
    \/ \E r \in Handlers : pc[r] \in {"history", "notify"}
    \/ pushes > 0
    \/ Owner(s) \in visiting
    \/ \E q \in Pushers : /\ job[q].to = s
                          /\ \/ job[q].pc = "load"
                             \/ job[q].pc \in {"mark", "send"} /\ AsRef(p) \in job[q].batch
    \/ \E k \in 1 .. Len(down[s]) : AsRef(p) \in down[s][k]
    \/ AsRef(p) \in applying[s]

Connected(s) == link[s] = "up" /\ registry[Owner(s)] = s

Owed == \A s \in Sessions : Connected(s) => \A p \in policies : Due(s, p)

\* What is under way, or was written, is past: the references of old documents
\* stay old, so an acknowledged version that is the current one stands for the
\* current document.
PastRefs == {f \in Ref : Past(f)}

DeliveryInv == VersionInv /\ AckHonest /\ Carries(PastRefs) /\ OwnJobs /\ Owed

LEMMA CurrentIsPast ==
  ASSUME TypeOK, VersionInv
  PROVE  Current \subseteq PastRefs /\ \A p \in policies : AsRef(p) = p
<1>1. \A p \in policies : p \in Row /\ p.version >= 0 /\ p.version \in Int
  BY DEF TypeOK, StoreTypeOK, VersionInv, Row
<1>2. \A p \in policies : AsRef(p) = p
  BY <1>1 DEF AsRef, Row
<1>3. \A p \in policies : p \in Ref /\ Past(p)
  BY <1>1, <1>2, AsRefType DEF Past
<1> QED
  BY <1>2, <1>3 DEF Current, PastRefs

LEMMA PastGrows ==
  ASSUME TypeOK, OneAtATime, VersionInv, [Next]_vars
  PROVE  PastRefs \subseteq PastRefs'
<1> SUFFICES ASSUME NEW f \in Ref, Past(f)
             PROVE  Past(f)'
  BY DEF PastRefs
<1>1. f.version \in Int
  BY DEF Ref
<1>2. CASE UNCHANGED policies
  BY <1>2 DEF Past
<1>3. ASSUME NEW r \in Handlers, HandlerStep(r)
      PROVE  Past(f)'
  BY <1>1, <1>3, PastStays DEF TypeOK
<1>4. ASSUME NEW r \in Handlers, NEW n \in Names, DeleteRow(r, n)
      PROVE  FALSE
  BY <1>4 DEF DeleteRow, Begin, OneAtATime
<1> QED
  BY <1>2, <1>3, <1>4, StoreStepOrRestart DEF StoreNext, TakePush, storeVars, ManagerRestart

LEMMA CarriesPast ==
  ASSUME TypeOK, OneAtATime, VersionInv, Carries(PastRefs), [Next]_vars
  PROVE  Carries(PastRefs)'
<1>1. PICK K : K = PastRefs
  OBVIOUS
<1>2. Carries(K)'
  BY <1>1, CurrentIsPast, CarriesStays
<1>3. K \subseteq PastRefs'
  BY <1>1, PastGrows
<1> QED
  BY <1>2, <1>3 DEF Carries, PushersCarry, SessionsCarry, AgentsCarry

\* What a step does to the jobs.
LEMMA OwnJobsStep ==
  ASSUME TypeOK, OwnJobs, [Next]_vars
  PROVE  OwnJobs'
<1>1. job \in [Pushers -> Job] /\ Bridge \notin Sessions
  BY DEF TypeOK, Bridge, Sessions
<1>2. CASE UNCHANGED job
  BY <1>2 DEF OwnJobs
<1>3. ASSUME NEW s \in Sessions, OpenStream(s)
      PROVE  OwnJobs'
  BY <1>1, <1>3, SessionFacts DEF OpenStream, OwnJobs, JobAt
<1>4. ASSUME NEW a \in Agents, BridgeVisit(a)
      PROVE  OwnJobs'
  BY <1>1, <1>4, SessionFacts DEF BridgeVisit, OwnJobs
<1>5. ASSUME NEW p \in Pushers, PushStep(p)
      PROVE  OwnJobs'
  <2>1. PICK next : /\ job' = [job EXCEPT ![p] = next]
                    /\ next.pc # "off" => next.to = job[p].to
                    /\ job[p].pc # "off"
    BY <1>5 DEF PushStep, PushLoad, PushMark, PushSend, NoJob, JobAt
  <2> QED
    BY <1>1, <2>1, SessionFacts DEF OwnJobs
<1>6. CASE ManagerRestart
  BY <1>6, SessionFacts DEF ManagerRestart, OwnJobs, NoJob, JobAt
<1>7. ASSUME NEW s \in Sessions, \/ Break(s) \/ AgentClose(s) \/ InboundEnd(s) \/ AgentReceive(s)
                                 \/ AgentApply(s) \/ AgentAck(s) \/ AgentOther(s) \/ InboundAck(s)
                                 \/ InboundOther(s) \/ InboundAnswer(s) \/ CommandSent(s)
      PROVE  UNCHANGED job
  BY <1>7 DEF Break, AgentClose, InboundEnd, AgentReceive, AgentApply, AgentAck, AgentOther,
     InboundAck, InboundOther, InboundAnswer, CommandSent, manVars
<1> QED
  BY <1>2, <1>3, <1>4, <1>5, <1>6, <1>7
  DEF Next, SessionStep, vars, Rest, RestDelete, BridgeRecv, distVars, manVars

\* The initial push looks for every policy: a session that comes up is owed
\* all of them.
LEMMA OpenOwed ==
  ASSUME TypeOK, OwnJobs, Owed, NEW s \in Sessions, OpenStream(s)
  PROVE  Owed'
<1>1. /\ job \in [Pushers -> Job]
      /\ registry \in [Agents -> Sessions \cup {None}]
      /\ link \in [Sessions -> {"new", "up", "broken"}]
  BY DEF TypeOK
<1>2. /\ link' = [link EXCEPT ![s] = "up"]
      /\ registry' = [registry EXCEPT ![Owner(s)] = s]
      /\ job' = [job EXCEPT ![s] = JobAt("load", s, {}, {})]
      /\ UNCHANGED <<policies, pc, pushes, visiting, down, applying, applied>>
  BY DEF OpenStream, storeVars
<1> SUFFICES ASSUME NEW t \in Sessions, Connected(t)', NEW p \in policies
             PROVE  Due(t, p)'
  BY <1>2 DEF Owed
<1>3. CASE t = s
  BY <1>1, <1>2, <1>3, SessionFacts DEF Due, JobAt
<1>4. CASE t # s
  <2>1. Connected(t)
    BY <1>1, <1>2, <1>4, SessionFacts DEF Connected
  <2>2. Due(t, p)
    BY <2>1 DEF Owed
  <2>3. \A q \in Pushers : job[q].to = t /\ job[q].pc # "off" => job'[q] = job[q]
    BY <1>1, <1>2, <1>4 DEF OwnJobs
  <2> QED
    BY <1>2, <2>2, <2>3 DEF Due
<1> QED
  BY <1>3, <1>4

\* A handler that has changed a row will notify the bridge; a request that
\* finds the channel full is dropped, but then one is waiting in it.
LEMMA RestOwed ==
  ASSUME TypeOK, "abort" \notin Faults, Owed, NEW r \in Handlers, Rest(r)
  PROVE  Owed'
<1>1. /\ HandlerStep(r)
      /\ UNCHANGED <<registry, link, job, visiting, down, applying, applied>>
  BY DEF Rest, distVars, manVars, linkVars, agtVars
<1>2. pc \in [Handlers -> HandlerPc] /\ pushes \in 0 .. PushCapacity /\ PushCapacity \in Nat \ {0}
  BY StoreAssumption DEF TypeOK, StoreTypeOK
<1> SUFFICES ASSUME NEW s \in Sessions, Connected(s)', NEW p \in policies'
             PROVE  Due(s, p)'
  BY DEF Owed
<1>3. Connected(s)
  BY <1>1 DEF Connected
<1>4. CASE (CreateInsert(r) /\ ~UNCHANGED policies) \/ UpdateWrite(r) \/ HistoryInsert(r)
  <2>1. pc'[r] \in {"history", "notify"}
    BY <1>2, <1>4 DEF CreateInsert, UpdateWrite, HistoryInsert, Goto
  <2> QED
    BY <2>1 DEF Due
<1>5. CASE Notify(r)
  <2>1. pushes' > 0
    BY <1>2, <1>5 DEF Notify
  <2> QED
    BY <2>1 DEF Due
<1>6. CASE /\ UNCHANGED <<policies, pushes>>
           /\ pc[r] \notin {"history", "notify"}
           /\ \E w \in HandlerPc : pc' = [pc EXCEPT ![r] = w]
  <2>1. Due(s, p)
    BY <1>3, <1>6 DEF Owed
  <2>2. \A h \in Handlers : pc[h] \in {"history", "notify"} => pc'[h] = pc[h]
    BY <1>2, <1>6
  <2> QED
    BY <1>1, <1>6, <2>1, <2>2 DEF Due
<1> QED
  BY <1>1, <1>4, <1>5, <1>6
  DEF HandlerStep, CreateCheck, CreateInsert, UpdateRead, RollbackFind, RollbackRead, Abort,
      Begin, Goto, Return, HandlerPc

\* The bridge takes a request and will visit every connected agent.
LEMMA BridgeOwed ==
  ASSUME TypeOK, Owed, BridgeRecv \/ \E a \in Agents : BridgeVisit(a)
  PROVE  Owed'
<1>1. job \in [Pushers -> Job] /\ \A s \in Sessions : s # None
  BY DEF TypeOK, Sessions, None
<1>2. CASE BridgeRecv
  BY <1>1, <1>2, SessionFacts DEF BridgeRecv, TakePush, Owed, Connected, Due, linkVars
<1>3. ASSUME NEW a \in Agents, BridgeVisit(a)
      PROVE  Owed'
  <2>1. /\ job[Bridge].pc = "off"
        /\ visiting' = visiting \ {a}
        /\ job' = [job EXCEPT ![Bridge] = IF registry[a] = None THEN NoJob
                                          ELSE JobAt("load", registry[a], {}, {})]
        /\ UNCHANGED <<policies, pc, pushes, registry, link, down, applying, applied>>
    BY <1>3 DEF BridgeVisit, storeVars, linkVars, agtVars
  <2> SUFFICES ASSUME NEW s \in Sessions, Connected(s), NEW p \in policies
               PROVE  Due(s, p)'
    BY <2>1 DEF Owed, Connected
  <2>2. CASE Owner(s) = a
    <3>1. job'[Bridge] = JobAt("load", s, {}, {})
      BY <1>1, <2>1, <2>2, SessionFacts DEF Connected
    <3> QED
      BY <3>1, SessionFacts DEF Due, JobAt
  <2>3. CASE Owner(s) # a
    <3>1. Due(s, p)
      BY DEF Owed
    <3>2. \A q \in Pushers : job[q].pc # "off" => job'[q] = job[q]
      BY <1>1, <2>1
    <3> QED
      BY <2>1, <2>3, <3>1, <3>2 DEF Due
  <2> QED
    BY <2>2, <2>3
<1> QED
  BY <1>2, <1>3

\* A row that the agent is on record with, in its version or a later one, it
\* has written.
LEMMA RecordedIsWritten ==
  ASSUME TypeOK, VersionInv, AckHonest, Carries(PastRefs),
         NEW a \in Agents, NEW p \in policies, NEW v \in acked[a][p.name], ~(v < p.version)
  PROVE  AsRef(p) \in applied[a]
<1>1. p \in Row /\ p.version \in Int /\ p.name \in Names
  BY DEF TypeOK, StoreTypeOK, Row
<1>2. v \in Nat
  BY <1>1 DEF TypeOK
<1>3. PICK f \in applied[a] : f.name = p.name /\ f.version = v
  BY <1>1 DEF AckHonest
<1>4. f \in Ref /\ Past(f)
  BY <1>3 DEF Carries, AgentsCarry, PastRefs
<1>5. PICK q \in policies : /\ q.name = f.name
                            /\ f.version <= q.version
                            /\ f.version = q.version => f.content = q.content
  BY <1>4 DEF Past
<1>6. q = p
  BY <1>3, <1>5 DEF TypeOK, StoreTypeOK
<1>7. f.version = p.version /\ f.content = p.content
  BY <1>1, <1>2, <1>3, <1>5, <1>6
<1>8. f = p
  BY <1>1, <1>3, <1>4, <1>7 DEF Row, Ref
<1> QED
  BY <1>3, <1>8, CurrentIsPast

\* A push reads every row the agent has not acknowledged.
LEMMA LoadFindsOwed ==
  ASSUME TypeOK, VersionInv, AckHonest, Carries(PastRefs), NEW a \in Agents, NEW p \in policies
  PROVE  AsRef(p) \in LoadPending(a) \/ AsRef(p) \in applied[a]
  BY RecordedIsWritten DEF LoadPending

\* "Agent potwierdził że załadował policy" (mark_acked): an agent on record
\* with the version of the current row has written the document of that row,
\* through broken and overlapping sessions, restarts and failed writes; when
\* requests come one at a time, none is a DELETE (which lets a POST give the
\* version to another document) and MaxRequests bumps of the versions in use
\* stay below I32Max (OneAtATime).
THEOREM AcknowledgedAreWritten ==
  ASSUME OneAtATime
  PROVE  Spec => []AckedIsWritten
<1>1. Init => VersionInv /\ Carries(PastRefs)
  BY CarriesInit, VersionInit DEF Init
<1>2. TypeOK /\ VersionInv /\ Carries(PastRefs) /\ [Next]_vars => (VersionInv /\ Carries(PastRefs))'
  BY VersionStep, CarriesPast
<1>3. TypeOK /\ VersionInv /\ Carries(PastRefs) /\ AckHonest => AckedIsWritten
  <2> SUFFICES ASSUME TypeOK, VersionInv, Carries(PastRefs), AckHonest,
                      NEW a \in Agents, NEW p \in policies, p.version \in acked[a][p.name]
               PROVE  AsRef(p) \in applied[a]
    BY DEF AckedIsWritten
  <2>1. p.version \in Int
    BY DEF TypeOK, StoreTypeOK, Row
  <2> QED
    BY <2>1, RecordedIsWritten
<1> QED
  BY <1>1, <1>2, <1>3, Types, AcksAreHonest, PTL DEF Spec

\* Pushing moves what is owed from the tables into the channel of the session.
LEMMA PushOwed ==
  ASSUME TypeOK, "db" \notin Faults, VersionInv, AckHonest, Carries(PastRefs), Owed,
         NEW q \in Pushers, PushStep(q)
  PROVE  Owed'
<1>1. /\ job \in [Pushers -> Job]
      /\ job[q].to \in Sessions
      /\ down \in [Sessions -> Seq(SUBSET Ref)]
      /\ job[q].batch \in SUBSET Ref
  BY DEF PushStep, PushLoad, PushMark, PushSend, TypeOK, Job
<1>2. UNCHANGED <<policies, pc, pushes, registry, link, visiting, applying, applied>>
  BY DEF PushStep, PushLoad, PushMark, PushSend, storeVars, linkVars, agtVars
<1> SUFFICES ASSUME NEW s \in Sessions, Connected(s), NEW p \in policies
             PROVE  Due(s, p)'
  BY <1>2 DEF Owed, Connected
<1>3. Due(s, p)
  BY DEF Owed
<1>4. CASE PushLoad(q)
  <2>1. PICK pending : /\ pending = LoadPending(Owner(job[q].to))
                       /\ job' = [job EXCEPT ![q] =
                                    IF pending = {} THEN NoJob
                                    ELSE JobAt("mark", job[q].to, pending, pending)]
    BY <1>4 DEF PushLoad
  <2>2. UNCHANGED down
    BY <1>4 DEF PushLoad, linkVars
  <2>3. CASE job[q].to # s
    <3>1. \A u \in Pushers : job[u].to = s => job'[u] = job[u]
      BY <1>1, <2>1, <2>3
    <3> QED
      BY <1>2, <1>3, <2>2, <3>1 DEF Due
  <2>4. CASE job[q].to = s /\ AsRef(p) \in pending
    <3>1. job'[q] = JobAt("mark", s, pending, pending)
      BY <1>1, <2>1, <2>4
    <3>2. job'[q].to = s /\ job'[q].pc = "mark" /\ AsRef(p) \in job'[q].batch
      BY <2>4, <3>1 DEF JobAt
    <3> QED
      BY <3>2 DEF Due
  <2>5. CASE job[q].to = s /\ AsRef(p) \notin pending
    <3>1. AsRef(p) \in applied[Owner(s)]
      BY <2>1, <2>5, LoadFindsOwed, SessionFacts
    <3> QED
      BY <1>2, <3>1 DEF Due
  <2> QED
    BY <2>3, <2>4, <2>5
<1>5. CASE PushMark(q)
  <2>1. /\ \E w, rest :
              /\ w \in {"mark", "send"}
              /\ job' = [job EXCEPT ![q] = JobAt(w, job[q].to, rest, job[q].batch)]
        /\ job[q].pc = "mark"
        /\ UNCHANGED down
    BY <1>5 DEF PushMark, linkVars
  <2>2. PICK w, rest :
             /\ w \in {"mark", "send"}
             /\ job' = [job EXCEPT ![q] = JobAt(w, job[q].to, rest, job[q].batch)]
    BY <2>1
  <2>3. job'[q].to = job[q].to /\ job'[q].batch = job[q].batch /\ job'[q].pc = w
    BY <1>1, <2>2 DEF JobAt
  <2>4. \A u \in Pushers : u # q => job'[u] = job[u]
    BY <1>1, <2>2
  <2> QED
    BY <1>2, <1>3, <2>1, <2>2, <2>3, <2>4 DEF Due
<1>6. CASE PushSend(q)
  <2> DEFINE t == job[q].to
  <2>1. /\ job[q].pc = "send"
        /\ job' = [job EXCEPT ![q] = NoJob]
        /\ link[t] = "up" => down' = [down EXCEPT ![t] = Append(down[t], job[q].batch)]
        /\ link[t] # "up" => UNCHANGED down
    BY <1>6 DEF PushSend
  <2>2. CASE t # s
    <3>1. \A u \in Pushers : job[u].to = s => job'[u] = job[u]
      BY <1>1, <2>1, <2>2
    <3>2. down'[s] = down[s]
      BY <1>1, <2>1, <2>2
    <3> QED
      BY <1>2, <1>3, <3>1, <3>2 DEF Due
  <2>3. CASE t = s
    <3>1. down'[s] = Append(down[s], job[q].batch) /\ down[s] \in Seq(SUBSET Ref)
      BY <1>1, <2>1, <2>3 DEF Connected
    <3>2. /\ Len(down'[s]) = Len(down[s]) + 1
          /\ down'[s][Len(down[s]) + 1] = job[q].batch
          /\ \A k \in 1 .. Len(down[s]) : down'[s][k] = down[s][k]
          /\ Len(down[s]) \in Nat
      BY <1>1, <3>1
    <3>3. CASE AsRef(p) \in job[q].batch
      <4>1. Len(down[s]) + 1 \in 1 .. Len(down'[s])
        BY <3>2
      <4> QED
        BY <3>2, <3>3, <4>1 DEF Due
    <3>4. CASE \E k \in 1 .. Len(down[s]) : AsRef(p) \in down[s][k]
      <4>1. PICK k \in 1 .. Len(down[s]) : AsRef(p) \in down[s][k]
        BY <3>4
      <4>2. k \in 1 .. Len(down'[s]) /\ AsRef(p) \in down'[s][k]
        BY <3>2, <4>1
      <4> QED
        BY <4>2 DEF Due
    <3>5. \A u \in Pushers : u # q => job'[u] = job[u]
      BY <1>1, <2>1
    <3> QED
      BY <1>2, <1>3, <2>1, <3>3, <3>4, <3>5 DEF Due
  <2> QED
    BY <2>2, <2>3
<1> QED
  BY <1>4, <1>5, <1>6 DEF PushStep

\* The agent of a session that is up writes what it receives.
LEMMA AgentOwed ==
  ASSUME TypeOK, "write" \notin Faults, Owed, NEW t \in Sessions,
         AgentReceive(t) \/ AgentApply(t)
  PROVE  Owed'
<1>1. /\ down \in [Sessions -> Seq(SUBSET Ref)]
      /\ applying \in [Sessions -> SUBSET Ref]
      /\ applied \in [Agents -> SUBSET Ref]
  BY DEF TypeOK
<1>2. UNCHANGED <<policies, pc, pushes, registry, link, job, visiting>>
  BY DEF AgentReceive, AgentApply, storeVars, manVars
<1> SUFFICES ASSUME NEW s \in Sessions, Connected(s), NEW p \in policies
             PROVE  Due(s, p)'
  BY <1>2 DEF Owed, Connected
<1>3. Due(s, p)
  BY DEF Owed
<1>4. CASE AgentReceive(t)
  <2>1. /\ applying[t] = {}
        /\ down[t] # <<>>
        /\ applying' = [applying EXCEPT ![t] = Head(down[t])]
        /\ down' = [down EXCEPT ![t] = Tail(down[t])]
        /\ UNCHANGED applied
    BY <1>4 DEF AgentReceive
  <2>2. CASE s # t
    BY <1>1, <1>2, <1>3, <2>1, <2>2 DEF Due
  <2>3. CASE s = t
    <3>1. ASSUME NEW k \in 1 .. Len(down[s]), AsRef(p) \in down[s][k]
          PROVE  Due(s, p)'
      <4>1. CASE k = 1
        <5>1. applying'[s] = down[s][1]
          BY <1>1, <2>1, <2>3
        <5> QED
          BY <3>1, <4>1, <5>1 DEF Due
      <4>2. CASE k # 1
        <5>1. down'[s] = Tail(down[s]) /\ down[s] \in Seq(SUBSET Ref) /\ down[s] # <<>>
          BY <1>1, <2>1, <2>3
        <5>2. k - 1 \in 1 .. Len(down'[s]) /\ down'[s][k - 1] = down[s][k]
          BY <4>2, <5>1
        <5> QED
          BY <3>1, <5>2 DEF Due
      <4> QED
        BY <4>1, <4>2
    <3> QED
      BY <1>2, <1>3, <2>1, <2>3, <3>1 DEF Due
  <2> QED
    BY <2>2, <2>3
<1>5. CASE AgentApply(t)
  <2>1. PICK ref \in applying[t] :
           /\ applying' = [applying EXCEPT ![t] = applying[t] \ {ref}]
           /\ applied' = [applied EXCEPT ![Owner(t)] = applied[Owner(t)] \cup {ref}]
    BY <1>5 DEF AgentApply
  <2>2. UNCHANGED down
    BY <1>5 DEF AgentApply
  <2>3. /\ applied[Owner(s)] \subseteq applied'[Owner(s)]
        /\ ref \in applied'[Owner(t)]
    BY <1>1, <2>1, SessionFacts
  <2>4. AsRef(p) \in applying[s] => AsRef(p) \in applying'[s] \/ AsRef(p) \in applied'[Owner(s)]
    BY <1>1, <2>1, <2>3 DEF Connected
  <2> QED
    BY <1>2, <1>3, <2>2, <2>3, <2>4 DEF Due
<1> QED
  BY <1>4, <1>5

\* A message without policies joins those that are on their way.
LEMMA NoPoliciesOwed ==
  ASSUME TypeOK, Owed, NEW t \in Sessions, InboundAnswer(t) \/ CommandSent(t)
  PROVE  Owed'
<1>1. /\ UNCHANGED <<policies, pc, pushes, registry, link, job, visiting, applying, applied>>
      /\ down' = [down EXCEPT ![t] = Append(down[t], NoPolicies)] \/ UNCHANGED down
  BY DEF InboundAnswer, CommandSent, storeVars, manVars, agtVars
<1> SUFFICES ASSUME NEW s \in Sessions, Connected(s), NEW p \in policies
             PROVE  Due(s, p)'
  BY <1>1 DEF Owed, Connected
<1>2. Due(s, p)
  BY DEF Owed
<1>3. ASSUME NEW k \in 1 .. Len(down[s])
      PROVE  k \in 1 .. Len(down'[s]) /\ down'[s][k] = down[s][k]
  <2>1. down[s] \in Seq(SUBSET Ref) /\ NoPolicies \in SUBSET Ref
    BY DEF TypeOK, NoPolicies
  <2>2. down'[s] = down[s] \/ down'[s] = Append(down[s], NoPolicies)
    BY <1>1 DEF TypeOK
  <2> QED
    BY <2>1, <2>2
<1> QED
  BY <1>1, <1>2, <1>3 DEF Due

\* The end of a session leaves the others what they are owed.
LEMMA EndOwed ==
  ASSUME TypeOK, Owed,
         \/ \E t \in Sessions : \/ Break(t) \/ AgentClose(t) \/ InboundEnd(t) \/ AgentAck(t)
                               \/ AgentOther(t) \/ InboundAck(t) \/ InboundOther(t)
         \/ ManagerRestart
         \/ UNCHANGED vars
  PROVE  Owed'
<1>1. /\ link \in [Sessions -> {"new", "up", "broken"}]
      /\ registry \in [Agents -> Sessions \cup {None}]
      /\ down \in [Sessions -> Seq(SUBSET Ref)]
      /\ applying \in [Sessions -> SUBSET Ref]
      /\ \A s \in Sessions : s # None
  BY DEF TypeOK, Sessions, None
<1>2. CASE ManagerRestart
  <2>1. \A s \in Sessions : link'[s] # "up"
    BY <1>2 DEF ManagerRestart
  <2> QED
    BY <2>1 DEF Owed, Connected
<1>3. CASE UNCHANGED vars
  BY <1>3 DEF vars, storeVars, distVars, manVars, linkVars, agtVars, Owed, Connected, Due
<1>4. ASSUME NEW t \in Sessions, \/ Break(t) \/ AgentClose(t) \/ InboundEnd(t) \/ AgentAck(t)
                                 \/ AgentOther(t) \/ InboundAck(t) \/ InboundOther(t)
      PROVE  Owed'
  <2>1. /\ UNCHANGED <<policies, pc, pushes, job, visiting, applied>>
        /\ \A s \in Sessions : Connected(s)' => /\ Connected(s)
                                                /\ down'[s] = down[s]
                                                /\ applying'[s] = applying[s]
    <3>1. CASE Break(t)
      BY <1>1, <3>1 DEF Break, storeVars, manVars, agtVars, Connected
    <3>2. CASE AgentClose(t)
      BY <1>1, <3>2 DEF AgentClose, storeVars, manVars, Connected
    <3>3. CASE InboundEnd(t)
      BY <1>1, <3>3, SessionFacts DEF InboundEnd, storeVars, agtVars, Connected
    <3>4. CASE InboundAck(t) \/ InboundOther(t) \/ AgentOther(t)
      BY <3>4 DEF InboundAck, InboundOther, AgentOther, storeVars, manVars, agtVars, Connected
    <3>5. CASE AgentAck(t)
      BY <1>1, <3>5 DEF AgentAck, storeVars, manVars, Connected
    <3> QED
      BY <1>4, <3>1, <3>2, <3>3, <3>4, <3>5
  <2> QED
    BY <2>1 DEF Owed, Due
<1> QED
  BY <1>2, <1>3, <1>4

LEMMA DeliveryStep ==
  ASSUME OneAtATime, "abort" \notin Faults, "db" \notin Faults, "write" \notin Faults,
         TypeOK, AckHonest, AckHonest', DeliveryInv, [Next]_vars
  PROVE  DeliveryInv'
<1>1. VersionInv' /\ Carries(PastRefs)' /\ OwnJobs'
  BY VersionStep, CarriesPast, OwnJobsStep DEF DeliveryInv
<1>2. ASSUME NEW r \in Handlers, NEW n \in Names, RestDelete(r, n)
      PROVE  FALSE
  BY <1>2 DEF RestDelete, DeleteRow, Begin, OneAtATime
<1>3. Owed'
  BY <1>2, OpenOwed, RestOwed, BridgeOwed, PushOwed, AgentOwed, NoPoliciesOwed, EndOwed
  DEF DeliveryInv, Next, SessionStep
<1> QED
  BY <1>1, <1>3 DEF DeliveryInv

\* No update is missed: once the system is quiet, the agent of every connected
\* session has written the current version of every policy.  For any number of
\* agents, sessions and policies, any capacity of the channels, with sessions
\* that break, overlap (halfopen) and a manager that restarts; when requests
\* come one at a time and are not cut short, none is a DELETE, and the
\* statements of the pushers and the writes of the agents succeed.
THEOREM NoUpdateIsMissed ==
  ASSUME OneAtATime, "abort" \notin Faults, "db" \notin Faults, "write" \notin Faults
  PROVE  Spec => []NothingMissed
<1>1. Init => DeliveryInv
  <2> SUFFICES ASSUME Init
               PROVE  DeliveryInv
    OBVIOUS
  <2>1. VersionInv /\ Carries(PastRefs)
    BY CarriesInit, VersionInit DEF Init
  <2>2. AckHonest /\ Owed
    BY DEF Init, StoreInit, AckHonest, Owed
  <2>3. OwnJobs
    BY SessionFacts DEF Init, OwnJobs, NoJob, JobAt
  <2> QED
    BY <2>1, <2>2, <2>3 DEF DeliveryInv
<1>2. TypeOK /\ AckHonest /\ AckHonest' /\ DeliveryInv /\ [Next]_vars => DeliveryInv'
  BY DeliveryStep
<1>3. DeliveryInv => NothingMissed
  <2> SUFFICES ASSUME DeliveryInv, Quiet, NEW s \in Sessions, Connected(s), NEW p \in policies
               PROVE  AsRef(p) \in applied[Owner(s)]
    BY DEF NothingMissed, Delivered, Connected
  <2>1. Due(s, p)
    BY DEF DeliveryInv, Owed
  <2>2. down[s] = <<>> /\ applying[s] = {}
    BY DEF Quiet
  <2>3. ~ \E k \in 1 .. Len(down[s]) : AsRef(p) \in down[s][k]
    BY <2>2
  <2> QED
    BY <2>1, <2>2, <2>3 DEF Quiet, Due
<1> QED
  BY <1>1, <1>2, <1>3, Types, AcksAreHonest, PTL DEF Spec
============================================================================
