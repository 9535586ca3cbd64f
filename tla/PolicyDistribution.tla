------------------------- MODULE PolicyDistribution -------------------------
(***************************************************************************)
(* How a policy gets from the manager's tables to the agents' disks: the   *)
(* AgentRegistry, the Stream handler with its initial-push and inbound     *)
(* tasks and the policy-push bridge of crates/scrooge-manager-bin/src/     *)
(* grpc.rs, and the session of crates/scrooge-agent-bin/src/stream.rs,     *)
(* over the tables and REST handlers of PolicyStore.                       *)
(*                                                                         *)
(* A session is one Stream RPC.  Its two directions are FIFO queues, each  *)
(* standing for an mpsc channel and the HTTP/2 stream behind it.  A        *)
(* session that breaks is noticed by its two ends independently, so the    *)
(* manager may still be serving an old session while the agent has opened  *)
(* the next one.  Messages are abstracted to what the distribution reads:  *)
(* a PolicyUpdate is its set of policy references (the order inside one    *)
(* update, ORDER BY priority, is left open); full_replace and              *)
(* remove_policy_ids are constant in the program.  Heartbeats, batches of  *)
(* events and commands touch none of this state, but they take room in the *)
(* same bounded channels, and the manager's inbound task waits for room to *)
(* answer a heartbeat.                                                     *)
(***************************************************************************)
EXTENDS PolicyStore, FiniteSets

CONSTANTS
    Agents,         \* enrolled agents
    MaxSessions,    \* bound: sessions one agent opens in one behaviour
    OutCapacity,    \* capacity of a session's outbound channel (16)
    UpCapacity,     \* capacity of its channel to the manager (64)
    Traffic         \* what else a session carries: "agent", "command"

ASSUME DistributionAssumption ==
    /\ MaxSessions \in Nat \ {0}
    /\ OutCapacity \in Nat \ {0}
    /\ UpCapacity \in Nat \ {0}

\* The k-th session agent a opens; the manager's tasks of a session know its
\* agent from the client certificate.
Sessions == Agents \X (1 .. MaxSessions)
Owner(s) == s[1]
Of(a) == {s \in Sessions : Owner(s) = a}

\* The tasks that push policies: one per session, and the bridge.
Bridge == <<"bridge", 0>>
Pushers == Sessions \cup {Bridge}
None == <<"none", 0>>

VARIABLES
    assigned,   \* assigned[a]: names with a policy_assignments row for a
    acked,      \* acked[a][n]: {acked_version}, or {} for NULL or no row
    registry,   \* registry[a]: the session whose channel AgentRegistry holds
    link,       \* link[s]: the connection below session s
    inbound,    \* inbound[s]: is the manager's inbound task of s running?
    reader,     \* reader[s]: is the agent's reader loop of s running?
    answering,  \* answering[s]: has the inbound task a heartbeat to answer?
    down,       \* down[s]: messages on their way to the agent
    up,         \* up[s]: messages on their way to the manager
    applying,   \* applying[s]: rest of the update handle_inbound is applying
    acking,     \* acking[s]: the acknowledgement it is sending, if any
    job,        \* job[p]: what pusher p is doing
    visiting,   \* agents the bridge has still to visit in this broadcast
    disk,       \* disk[a]: the policy files of agent a
    applied     \* applied[a]: every reference a ever wrote (history variable)

manVars  == <<assigned, acked, registry, inbound, answering, job, visiting>>
linkVars == <<link, down, up>>
agtVars  == <<reader, applying, acking, disk, applied>>
distVars == <<manVars, linkVars, agtVars>>
vars     == <<storeVars, distVars>>

\* PolicyRef: what is pushed, and what a policy file holds.
Ref == [name : Names, version : Nat, content : Contents]
Ack == [name : Names, version : Nat, ok : BOOLEAN]

\* Any other message: to the agent, one without policies; to the manager, one
\* that acknowledges nothing.
NoPolicies == {}
NoAck == [name |-> "", version |-> 0, ok |-> FALSE]

\* u32::try_from(version).unwrap_or(0)
AsRef(p) == [p EXCEPT !.version = IF p.version < 0 THEN 0 ELSE p.version]

JobPc == {"off", "load", "mark", "send"}
Job == [pc : JobPc, to : Sessions \cup {None}, todo : SUBSET Ref, batch : SUBSET Ref]
JobAt(w, s, todo, batch) == [pc |-> w, to |-> s, todo |-> todo, batch |-> batch]
NoJob == JobAt("off", None, {}, {})

\* Types.  A job that is about to mark or to send knows its session.
TypeOK ==
    /\ StoreTypeOK
    /\ assigned \in [Agents -> SUBSET Names]
    /\ acked \in [Agents -> [Names -> SUBSET Nat]]
    /\ registry \in [Agents -> Sessions \cup {None}]
    /\ \A a \in Agents : registry[a] # None => Owner(registry[a]) = a
    /\ link \in [Sessions -> {"new", "up", "broken"}]
    /\ inbound \in [Sessions -> BOOLEAN]
    /\ reader \in [Sessions -> BOOLEAN]
    /\ down \in [Sessions -> Seq(SUBSET Ref)]
    /\ answering \in [Sessions -> BOOLEAN]
    /\ up \in [Sessions -> Seq(Ack \cup {NoAck})]
    /\ \A s \in Sessions : Len(up[s]) <= UpCapacity /\ Len(down[s]) <= OutCapacity
    /\ applying \in [Sessions -> SUBSET Ref]
    /\ acking \in [Sessions -> SUBSET Ack]
    /\ job \in [Pushers -> Job]
    /\ \A p \in Pushers : job[p].pc # "off" => job[p].to \in Sessions
    /\ visiting \subseteq Agents
    /\ disk \in [Agents -> SUBSET Ref]
    /\ applied \in [Agents -> SUBSET Ref]

Init ==
    /\ StoreInit
    /\ assigned = [a \in Agents |-> {}]
    /\ acked = [a \in Agents |-> [n \in Names |-> {}]]
    /\ registry = [a \in Agents |-> None]
    /\ link = [s \in Sessions |-> "new"]
    /\ inbound = [s \in Sessions |-> FALSE]
    /\ reader = [s \in Sessions |-> FALSE]
    /\ down = [s \in Sessions |-> <<>>]
    /\ up = [s \in Sessions |-> <<>>]
    /\ answering = [s \in Sessions |-> FALSE]
    /\ applying = [s \in Sessions |-> {}]
    /\ acking = [s \in Sessions |-> {}]
    /\ job = [p \in Pushers |-> NoJob]
    /\ visiting = {}
    /\ disk = [a \in Agents |-> {}]
    /\ applied = [a \in Agents |-> {}]

----------------------------------------------------------------------------
(* The REST handlers. *)

Rest(r) == HandlerStep(r) /\ UNCHANGED distVars

\* DELETE cascades to policy_assignments.
RestDelete(r, n) ==
    /\ DeleteRow(r, n)
    /\ assigned' = [a \in Agents |-> assigned[a] \ {n}]
    /\ acked' = [a \in Agents |-> [acked[a] EXCEPT ![n] = {}]]
    /\ UNCHANGED <<registry, inbound, answering, job, visiting, linkVars, agtVars>>

----------------------------------------------------------------------------
(* Sessions: opening, breaking, and the two ends noticing. *)

\* The agent opens its next session and the manager's stream handler
\* registers it, then starts the initial push and the inbound loop.
OpenStream(s) ==
    LET a == Owner(s) IN
    /\ link[s] = "new"
    /\ \A t \in Of(a) : t[2] < s[2] => link[t] # "new"
    /\ \A t \in Of(a) : ~reader[t]
    /\ "halfopen" \notin Faults => \A t \in Of(a) : ~inbound[t]
    /\ link' = [link EXCEPT ![s] = "up"]
    /\ registry' = [registry EXCEPT ![a] = s]
    /\ job' = [job EXCEPT ![s] = JobAt("load", s, {}, {})]
    /\ inbound' = [inbound EXCEPT ![s] = TRUE]
    /\ reader' = [reader EXCEPT ![s] = TRUE]
    /\ UNCHANGED <<storeVars, assigned, acked, answering, visiting, down, up, applying, acking, disk,
                   applied>>

\* The connection fails (network, or a crash of the agent).  The last session
\* the bound allows stays up.
Break(s) ==
    /\ link[s] = "up"
    /\ s[2] < MaxSessions
    /\ link' = [link EXCEPT ![s] = "broken"]
    /\ UNCHANGED <<storeVars, manVars, down, up, agtVars>>

\* The agent's reader loop ends and run_one_session returns.
AgentClose(s) ==
    /\ reader[s]
    /\ link[s] = "broken"
    /\ reader' = [reader EXCEPT ![s] = FALSE]
    /\ applying' = [applying EXCEPT ![s] = {}]
    /\ acking' = [acking EXCEPT ![s] = {}]
    /\ down' = [down EXCEPT ![s] = <<>>]
    /\ UNCHANGED <<storeVars, manVars, link, up, disk, applied>>

\* The manager's inbound loop ends: registry.unregister(agent_id), whatever
\* session the registry holds for that agent.
InboundEnd(s) ==
    /\ inbound[s]
    /\ link[s] = "broken"
    /\ inbound' = [inbound EXCEPT ![s] = FALSE]
    /\ answering' = [answering EXCEPT ![s] = FALSE]
    /\ registry' = [registry EXCEPT ![Owner(s)] = None]
    /\ up' = [up EXCEPT ![s] = <<>>]
    /\ UNCHANGED <<storeVars, assigned, acked, job, visiting, link, down, agtVars>>

\* The manager process restarts: its tasks, channels, registry and requests
\* are gone, the tables stay.
ManagerRestart ==
    /\ "restart" \in Faults
    /\ \A s \in Sessions : link[s] = "up" => s[2] < MaxSessions
    /\ pc' = [r \in Handlers |-> "idle"]
    /\ arg' = [r \in Handlers |-> NoRow]
    /\ pushes' = 0
    /\ link' = [s \in Sessions |-> IF link[s] = "up" THEN "broken" ELSE link[s]]
    /\ raced' = {}
    /\ inbound' = [s \in Sessions |-> FALSE]
    /\ answering' = [s \in Sessions |-> FALSE]
    /\ registry' = [a \in Agents |-> None]
    /\ up' = [s \in Sessions |-> <<>>]
    /\ job' = [p \in Pushers |-> NoJob]
    /\ visiting' = {}
    /\ UNCHANGED <<policies, history, started, assigned, acked, down, agtVars>>

----------------------------------------------------------------------------
(* Pushing: the bridge and the initial push run the same three steps. *)

\* Mutant: an inner join, a policy never acknowledged is not selected.
LoadPendingInner(a) ==
    {AsRef(p) : p \in {q \in policies : \E v \in acked[a][q.name] : v < q.version}}

\* load_pending_policies
LoadPending(a) ==
    {AsRef(p) : p \in {q \in policies : \A v \in acked[a][q.name] : v < q.version}}

\* The bridge receives a request and snapshots the connected agents.
BridgeRecv ==
    /\ job[Bridge].pc = "off"
    /\ visiting = {}
    /\ TakePush
    /\ visiting' = {a \in Agents : registry[a] # None}
    /\ UNCHANGED <<assigned, acked, registry, inbound, answering, job, linkVars, agtVars>>

\* Mutant: an agent that has left is not skipped.
BridgeVisitNoSkip(a) ==
    /\ job[Bridge].pc = "off"
    /\ a \in visiting
    /\ visiting' = visiting \ {a}
    /\ job' = [job EXCEPT ![Bridge] = JobAt("load", registry[a], {}, {})]
    /\ UNCHANGED <<storeVars, assigned, acked, registry, inbound, answering, linkVars, agtVars>>

\* Mutant: the sender is removed from the registry instead of cloned.
BridgeVisitRemoves(a) ==
    /\ job[Bridge].pc = "off"
    /\ a \in visiting
    /\ visiting' = visiting \ {a}
    /\ job' = [job EXCEPT ![Bridge] =
                 IF registry[a] = None THEN NoJob
                 ELSE JobAt("load", registry[a], {}, {})]
    /\ registry' = [registry EXCEPT ![a] = None]
    /\ UNCHANGED <<storeVars, assigned, acked, inbound, answering, linkVars, agtVars>>

\* The next agent of the snapshot; one that has left is skipped.
BridgeVisit(a) ==
    /\ job[Bridge].pc = "off"
    /\ a \in visiting
    /\ visiting' = visiting \ {a}
    /\ job' = [job EXCEPT ![Bridge] =
                 IF registry[a] = None THEN NoJob
                 ELSE JobAt("load", registry[a], {}, {})]
    /\ UNCHANGED <<storeVars, assigned, acked, registry, inbound, answering, linkVars, agtVars>>

\* Nothing pending, or a failed query: the pusher is done with this agent.
PushLoad(p) ==
    /\ job[p].pc = "load"
    /\ \E pending \in {LoadPending(Owner(job[p].to))}
                      \cup (IF "db" \in Faults THEN {{}} ELSE {}) :
          job' = [job EXCEPT ![p] =
                    IF pending = {} THEN NoJob
                    ELSE JobAt("mark", job[p].to, pending, pending)]
    /\ UNCHANGED <<storeVars, assigned, acked, registry, inbound, answering, visiting, linkVars, agtVars>>

\* Mutant: the pushed version is recorded as acknowledged.
PushMarkOptimistic(p) ==
    /\ job[p].pc = "mark"
    /\ \E ref \in job[p].todo :
          LET a    == Owner(job[p].to)
              rest == job[p].todo \ {ref}
          IN
          /\ assigned' = [assigned EXCEPT ![a] = @ \cup {ref.name}]
          /\ acked' = [acked EXCEPT ![a][ref.name] = {ref.version}]
          /\ job' = [job EXCEPT ![p] = JobAt(IF rest = {} THEN "send" ELSE "mark",
                                             job[p].to, rest, job[p].batch)]
    /\ UNCHANGED <<storeVars, registry, inbound, answering, visiting, linkVars, agtVars>>

\* mark_assigned, once per pending policy.  The foreign key rejects a policy
\* deleted since; an error is only logged.
PushMark(p) ==
    /\ job[p].pc = "mark"
    /\ \E ref \in job[p].todo :
          LET a    == Owner(job[p].to)
              rest == job[p].todo \ {ref}
              row  == IF Rows(ref.name) = {} THEN assigned[a] ELSE assigned[a] \cup {ref.name}
          IN
          /\ \/ assigned' = [assigned EXCEPT ![a] = row]
             \/ "db" \in Faults /\ UNCHANGED assigned
          /\ job' = [job EXCEPT ![p] = JobAt(IF rest = {} THEN "send" ELSE "mark",
                                             job[p].to, rest, job[p].batch)]
    /\ UNCHANGED <<storeVars, acked, registry, inbound, answering, visiting, linkVars, agtVars>>

\* tx.send(PolicyUpdate).await waits for room; on a broken session the update
\* is lost.
PushSend(p) ==
    LET s == job[p].to IN
    /\ job[p].pc = "send"
    /\ \/ /\ link[s] = "up"
          /\ Len(down[s]) < OutCapacity
          /\ down' = [down EXCEPT ![s] = Append(@, job[p].batch)]
       \/ link[s] # "up" /\ UNCHANGED down
    /\ job' = [job EXCEPT ![p] = NoJob]
    /\ UNCHANGED <<storeVars, assigned, acked, registry, inbound, answering, visiting, link, up,
                   agtVars>>

----------------------------------------------------------------------------
(* The agent. *)

\* handle_inbound takes the next message; without its directory it drops an
\* update.
AgentReceive(s) ==
    /\ reader[s]
    /\ applying[s] = {} /\ acking[s] = {}
    /\ down[s] # <<>>
    /\ \/ applying' = [applying EXCEPT ![s] = Head(down[s])]
       \/ "write" \in Faults /\ UNCHANGED applying
    /\ down' = [down EXCEPT ![s] = Tail(@)]
    /\ UNCHANGED <<storeVars, manVars, link, up, reader, acking, disk, applied>>

AckOf(ref, ok) == [name |-> ref.name, version |-> ref.version, ok |-> ok]

\* fs::write of one policy.  No version is compared.  A write that fails leaves
\* the old file, or an empty one.
AgentApply(s) ==
    LET a == Owner(s) IN
    /\ reader[s]
    /\ acking[s] = {}
    /\ \E ref \in applying[s] :
          LET others == {f \in disk[a] : f.name # ref.name} IN
          /\ applying' = [applying EXCEPT ![s] = @ \ {ref}]
          /\ \/ /\ disk' = [disk EXCEPT ![a] = others \cup {ref}]
                /\ applied' = [applied EXCEPT ![a] = @ \cup {ref}]
                /\ acking' = [acking EXCEPT ![s] = {AckOf(ref, TRUE)}]
             \/ /\ "write" \in Faults
                /\ \/ UNCHANGED disk
                   \/ disk' = [disk EXCEPT ![a] = others]
                /\ UNCHANGED applied
                /\ acking' = [acking EXCEPT ![s] = {AckOf(ref, FALSE)}]
    /\ UNCHANGED <<storeVars, manVars, link, down, up, reader>>

\* tx_ack.send(PolicyAck).await waits for room in the channel the session's
\* tasks share.  On a broken session it is lost, or, with the channel closed,
\* ends the update.
AgentAck(s) ==
    /\ reader[s]
    /\ \E m \in acking[s] :
          \/ /\ link[s] = "up"
             /\ Len(up[s]) < UpCapacity
             /\ up' = [up EXCEPT ![s] = Append(@, m)]
             /\ UNCHANGED applying
          \/ /\ link[s] # "up"
             /\ UNCHANGED up
             /\ \/ UNCHANGED applying
                \/ applying' = [applying EXCEPT ![s] = {}]
    /\ acking' = [acking EXCEPT ![s] = {}]
    /\ UNCHANGED <<storeVars, manVars, link, down, reader, disk, applied>>

\* The heartbeat task and the uploader send on the same channel.
AgentOther(s) ==
    /\ "agent" \in Traffic
    /\ reader[s]
    /\ link[s] = "up"
    /\ Len(up[s]) < UpCapacity
    /\ up' = [up EXCEPT ![s] = Append(@, NoAck)]
    /\ UNCHANGED <<storeVars, manVars, link, down, agtVars>>

----------------------------------------------------------------------------
(* The manager's inbound loop, and the commands on its other channel. *)

\* Mutant: the status of the acknowledgement is not looked at.
InboundAckAnyStatus(s) ==
    LET a == Owner(s)
        m == Head(up[s])
    IN
    /\ inbound[s] /\ ~answering[s]
    /\ up[s] # <<>> /\ Head(up[s]) # NoAck
    /\ up' = [up EXCEPT ![s] = Tail(@)]
    /\ acked' = [acked EXCEPT ![a][m.name] =
                   IF m.name \in assigned[a] THEN {m.version} ELSE @]
    /\ UNCHANGED <<storeVars, assigned, registry, inbound, answering, job, visiting, link, down,
                   agtVars>>

\* PolicyAck: only an APPLIED one is recorded, and only in an existing row.
InboundAck(s) ==
    LET a == Owner(s)
        m == Head(up[s])
    IN
    /\ inbound[s] /\ ~answering[s]
    /\ up[s] # <<>> /\ Head(up[s]) # NoAck
    /\ up' = [up EXCEPT ![s] = Tail(@)]
    /\ \/ acked' = [acked EXCEPT ![a][m.name] =
                      IF m.ok /\ m.name \in assigned[a] THEN {m.version} ELSE @]
       \/ "db" \in Faults /\ UNCHANGED acked
    /\ UNCHANGED <<storeVars, assigned, registry, inbound, answering, job, visiting, link, down,
                   agtVars>>

\* A batch of events, or a heartbeat, which is to be answered.
InboundOther(s) ==
    /\ inbound[s] /\ ~answering[s]
    /\ up[s] # <<>> /\ Head(up[s]) = NoAck
    /\ up' = [up EXCEPT ![s] = Tail(@)]
    /\ \E heartbeat \in BOOLEAN : answering' = [answering EXCEPT ![s] = heartbeat]
    /\ UNCHANGED <<storeVars, assigned, acked, registry, inbound, job, visiting, link, down,
                   agtVars>>

\* tx.send(HeartbeatAck).await waits for room in the outbound channel, and the
\* task reads nothing meanwhile.
InboundAnswer(s) ==
    /\ inbound[s] /\ answering[s]
    /\ \/ /\ link[s] = "up"
          /\ Len(down[s]) < OutCapacity
          /\ down' = [down EXCEPT ![s] = Append(@, NoPolicies)]
       \/ link[s] # "up" /\ UNCHANGED down
    /\ answering' = [answering EXCEPT ![s] = FALSE]
    /\ UNCHANGED <<storeVars, assigned, acked, registry, inbound, job, visiting, link, up, agtVars>>

\* The command bridge sends on the outbound channel, too.
CommandSent(s) ==
    /\ "command" \in Traffic
    /\ inbound[s]
    /\ link[s] = "up"
    /\ Len(down[s]) < OutCapacity
    /\ down' = [down EXCEPT ![s] = Append(@, NoPolicies)]
    /\ UNCHANGED <<storeVars, manVars, link, up, agtVars>>

----------------------------------------------------------------------------
SessionStep(s) ==
    \/ OpenStream(s) \/ Break(s) \/ AgentClose(s) \/ InboundEnd(s)
    \/ AgentReceive(s) \/ AgentApply(s) \/ AgentAck(s) \/ AgentOther(s)
    \/ InboundAck(s) \/ InboundOther(s) \/ InboundAnswer(s) \/ CommandSent(s)

PushStep(p) == PushLoad(p) \/ PushMark(p) \/ PushSend(p)

Next ==
    \/ \E r \in Handlers : Rest(r)
    \/ \E r \in Handlers, n \in Names : RestDelete(r, n)
    \/ \E s \in Sessions : SessionStep(s)
    \/ \E p \in Pushers : PushStep(p)
    \/ \E a \in Agents : BridgeVisit(a)
    \/ BridgeRecv
    \/ ManagerRestart

Spec == Init /\ [][Next]_vars

\* The scheduler runs every task of the two processes and the network
\* delivers what a live session carries; the agent's reconnect loop never
\* gives up; a tokio channel serves waiting senders in the order they came, so
\* that a send that finds room again and again gets through.  Requests,
\* heartbeats, commands, broken links, restarts and faults are not owed.
Fairness ==
    /\ \A r \in Handlers : WF_vars(pc[r] # "idle" /\ Rest(r))
    /\ \A s \in Sessions :
          /\ WF_vars(OpenStream(s))
          /\ WF_vars(AgentClose(s))
          /\ WF_vars(InboundEnd(s))
          /\ WF_vars(AgentReceive(s) \/ AgentApply(s)) /\ SF_vars(AgentAck(s))
          /\ WF_vars(InboundAck(s) \/ InboundOther(s)) /\ SF_vars(InboundAnswer(s))
    /\ \A p \in Pushers : WF_vars(PushLoad(p) \/ PushMark(p)) /\ SF_vars(PushSend(p))
    /\ WF_vars(BridgeRecv \/ \E a \in Agents : BridgeVisit(a))

FairSpec == Spec /\ Fairness

----------------------------------------------------------------------------
(* Properties. *)

\* Nothing is under way: no request, broadcast, push or message, and both ends
\* of every session agree on whether it is up.
Quiet ==
    /\ \A r \in Handlers : pc[r] = "idle"
    /\ pushes = 0 /\ visiting = {}
    /\ \A p \in Pushers : job[p].pc = "off"
    /\ \A s \in Sessions :
          /\ down[s] = <<>> /\ up[s] = <<>>
          /\ applying[s] = {} /\ acking[s] = {} /\ ~answering[s]
          /\ inbound[s] = (link[s] = "up")
          /\ reader[s] = (link[s] = "up")

\* Agent a has written the current row of every policy at some time.
Delivered(a) == \A p \in policies : AsRef(p) \in applied[a]

\* An acked_version in policy_assignments is a version number the agent has
\* written to its disk under that name, through reconnects, late
\* acknowledgements, failed writes and restarts.  The number alone: DELETE and
\* POST may give it to another document, see AckedIsWritten.
AckHonest ==
    \A a \in Agents, n \in Names : \A v \in acked[a][n] :
        \E f \in applied[a] : f.name = n /\ f.version = v

\* "Agent potwierdził że załadował policy" (mark_acked): an agent that is on
\* record with the version of the current row has written the document of that
\* row.  load_pending_policies skips it for good.
AckedIsWritten ==
    \A a \in Agents, p \in policies :
        p.version \in acked[a][p.name] => AsRef(p) \in applied[a]

\* What an agent enforces is on record: every policy file is a row that
\* policy_history holds or is about to hold.
DiskAudited ==
    \A a \in Agents : \A f \in disk[a] : \E p \in AuditRows : AsRef(p) = f

\* No update is missed: once the system is quiet, an agent whose session the
\* registry holds has been given, and has written, the current version of
\* every policy.  notify_policy_changed may drop a request when the channel is
\* full, an update may be saved between the registration of a session and its
\* initial push, a session may break under a push, the manager may restart.
NothingMissed ==
    Quiet => \A s \in Sessions :
                link[s] = "up" /\ registry[Owner(s)] = s => Delivered(Owner(s))

\* "Stream handler registruje przy accept, unregistruje przy disconnect"
\* (AgentRegistry): a session that is up, of an agent with no other session
\* being served, is in the registry.
StillRegistered ==
    \A s \in Sessions :
        link[s] = "up" /\ (\A t \in Of(Owner(s)) \ {s} : ~inbound[t])
            => registry[Owner(s)] = s

\* "wszystkie `enabled=true` których agent nie ma w aktualnej wersji"
\* (load_pending_policies): once the system is quiet, a policy that is not on
\* an agent's disk in its current version is pending for it, so that the next
\* connect or broadcast repairs it.
StaleIsPending ==
    Quiet => \A a \in Agents, p \in policies :
                AsRef(p) \notin disk[a] => AsRef(p) \in LoadPending(a)

\* The agent's reader waits for the manager to read and the manager's inbound
\* task waits for the agent to read: both channels of the session are full.
CircularWait(s) ==
    /\ link[s] = "up"
    /\ acking[s] # {} /\ Len(up[s]) = UpCapacity
    /\ answering[s] /\ Len(down[s]) = OutCapacity

\* Every saved version that stays current gets to every agent's disk, however
\* broadcasts, initial pushes, heartbeats, commands and reconnects interleave,
\* unless some session stays in a circular wait: then its own agent gets no
\* further update, and a bridge that waits for room in it visits no other.
PoliciesReachAgents ==
    \/ \E s \in Sessions : <>[]CircularWait(s)
    \/ []<>(\A a \in Agents : Delivered(a))

============================================================================
