----------------------------- MODULE StreamFlow -----------------------------
(***************************************************************************)
(* The plumbing below policies and events: sessions, reconnects, heartbeats*)
(* and commands.  At the agent run_with_reconnect, run_one_session and     *)
(* handle_inbound of crates/scrooge-agent-bin/src/stream.rs; at the        *)
(* manager the inbound task, the AgentRegistry and run_command_bridge of   *)
(* crates/scrooge-manager-bin/src/grpc.rs, and the REST handler            *)
(* send_command.                                                           *)
(*                                                                         *)
(* What matters here is who waits for whom.  Each direction of a session   *)
(* is one bounded queue: the sender's channel (64 at the agent, 16 at the  *)
(* manager) followed by what the HTTP/2 window lets through.  A message    *)
(* from the agent is a heartbeat, which the manager answers, or an         *)
(* acknowledgement, which it does not (batches of events, which it does    *)
(* not answer either, are in EventPipeline).  A message to the agent is    *)
(* the answer to a heartbeat, a policy update, which the agent answers     *)
(* once per policy, or a command.  The columns a heartbeat updates are     *)
(* read by the agents page only and left out.                              *)
(***************************************************************************)
EXTENDS Integers, Sequences, FiniteSets

CONSTANTS
    Agents,         \* enrolled agents
    Commands,       \* number of commands the administrators send
    CommandCapacity,\* REST -> bridge channel (64)
    UpCapacity,     \* agent -> manager
    DownCapacity,   \* manager -> agent
    PolicyCount,    \* policies in one update
    RECONNECT_MIN, RECONNECT_MAX,
    MaxPushes,      \* bound: policy updates
    MaxAttempts     \* bound: connection attempts of all agents

ASSUME StreamAssumption ==
    /\ 0 \notin Agents
    /\ Commands \in Nat /\ PolicyCount \in Nat
    /\ CommandCapacity \in Nat \ {0}
    /\ UpCapacity \in Nat \ {0} /\ DownCapacity \in Nat \ {0}
    /\ RECONNECT_MIN \in Nat \ {0}
    /\ RECONNECT_MAX \in Nat /\ RECONNECT_MAX >= RECONNECT_MIN
    /\ MaxPushes \in Nat /\ MaxAttempts \in Nat

Sessions == 1 .. MaxAttempts

VARIABLES
    phase,      \* phase[a]: where run_with_reconnect is
    session,    \* session[a]: the agent's session, 0 without one
    backoff,    \* backoff[a]
    ends,       \* ends[a]: attempts that ended since a clean end (history)
    shutdown,   \* shutdown[a]: was the agent asked to stop?
    acks,       \* acks[a]: acknowledgements handle_inbound has yet to send
    received,   \* received[a]: commands in the order of arrival (history)
    owner,      \* owner[s]: the agent of session s, 0 for none
    link,       \* link[s]: "new", "up" or "broken"
    up, down,   \* up[s], down[s]: messages on their way
    inbound,    \* inbound[s]: the manager's inbound task
    registry,   \* registry[a]: the session commands go to, 0 for none
    accepted,   \* accepted[c]: agent of the c-th command answered with 202
    cmdChan,    \* commands between REST and the bridge
    bridge,     \* the command the bridge holds, and its session
    pushes      \* policy updates so far (for the bound)

agentVars == <<phase, session, backoff, ends, shutdown, acks, received>>
managerVars == <<inbound, registry, accepted, cmdChan, bridge, pushes>>
vars == <<agentVars, managerVars, owner, link, up, down>>

Waiting == [cmd |-> 0, session |-> 0]

\* Messages to the agent; `cmd` is the number of a command.
HeartbeatAck == [kind |-> "hbAck", cmd |-> 0]
PolicyUpdate == [kind |-> "policy", cmd |-> 0]
Command(c) == [kind |-> "command", cmd |-> c]

TypeOK ==
    /\ phase \in [Agents -> {"sleep", "connect", "session", "stopped"}]
    /\ session \in [Agents -> 0 .. MaxAttempts]
    /\ \A a \in Agents : phase[a] = "session" <=> session[a] # 0
    /\ backoff \in [Agents -> RECONNECT_MIN .. RECONNECT_MAX]
    /\ ends \in [Agents -> 0 .. MaxAttempts]
    /\ shutdown \in [Agents -> BOOLEAN]
    /\ acks \in [Agents -> 0 .. PolicyCount]
    /\ owner \in [Sessions -> Agents \cup {0}]
    /\ link \in [Sessions -> {"new", "up", "broken"}]
    /\ \A s \in Sessions : Len(up[s]) <= UpCapacity /\ Len(down[s]) <= DownCapacity
    /\ inbound \in [Sessions -> {"off", "recv", "ack"}]
    /\ registry \in [Agents -> 0 .. MaxAttempts]
    /\ Len(cmdChan) <= CommandCapacity
    /\ bridge \in [cmd : 0 .. Commands, session : 0 .. MaxAttempts]
    /\ pushes \in 0 .. MaxPushes

Init ==
    /\ phase = [a \in Agents |-> "connect"]
    /\ session = [a \in Agents |-> 0]
    /\ backoff = [a \in Agents |-> RECONNECT_MIN]
    /\ ends = [a \in Agents |-> 0]
    /\ shutdown = [a \in Agents |-> FALSE]
    /\ acks = [a \in Agents |-> 0]
    /\ received = [a \in Agents |-> <<>>]
    /\ owner = [s \in Sessions |-> 0]
    /\ link = [s \in Sessions |-> "new"]
    /\ up = [s \in Sessions |-> <<>>]
    /\ down = [s \in Sessions |-> <<>>]
    /\ inbound = [s \in Sessions |-> "off"]
    /\ registry = [a \in Agents |-> 0]
    /\ accepted = <<>>
    /\ cmdChan = <<>>
    /\ bridge = Waiting
    /\ pushes = 0

Room(q, capacity) == Len(q) < capacity

----------------------------------------------------------------------------
(* run_with_reconnect *)

\* build_channel and the Stream RPC succeed: the manager registers the session
\* and starts its inbound task, the agent starts its tasks.
Connect(a, s) ==
    /\ phase[a] = "connect"
    /\ link[s] = "new" /\ \A r \in Sessions : r < s => link[r] # "new"
    /\ phase' = [phase EXCEPT ![a] = "session"]
    /\ session' = [session EXCEPT ![a] = s]
    /\ owner' = [owner EXCEPT ![s] = a]
    /\ link' = [link EXCEPT ![s] = "up"]
    /\ inbound' = [inbound EXCEPT ![s] = "recv"]
    /\ registry' = [registry EXCEPT ![a] = s]
    /\ UNCHANGED <<backoff, ends, shutdown, acks, received, accepted, cmdChan, bridge,
                   pushes, up, down>>

\* They fail; the attempt uses up a session number.
ConnectFails(a, s) ==
    /\ phase[a] = "connect"
    /\ link[s] = "new" /\ \A r \in Sessions : r < s => link[r] # "new"
    /\ link' = [link EXCEPT ![s] = "broken"]
    /\ phase' = [phase EXCEPT ![a] = "sleep"]
    /\ ends' = [ends EXCEPT ![a] = @ + 1]
    /\ UNCHANGED <<session, backoff, shutdown, acks, received, managerVars, owner, up, down>>

Double(b) == IF 2 * b <= RECONNECT_MAX THEN 2 * b ELSE RECONNECT_MAX

\* Bound: an attempt is left beside those of the agents that are connecting.
Spare == Cardinality({s \in Sessions : link[s] = "new"})
         > Cardinality({a \in Agents : phase[a] = "connect"})

\* Mutant: the loop does not look at the signal.
SleepOverBlindly(a) ==
    /\ phase[a] = "sleep"
    /\ Spare
    /\ phase' = [phase EXCEPT ![a] = "connect"]
    /\ backoff' = [backoff EXCEPT ![a] = Double(@)]
    /\ UNCHANGED <<session, ends, shutdown, acks, received, managerVars, owner, link, up, down>>

\* The sleep is over; a shutdown is noticed at the head of the loop.
SleepOver(a) ==
    /\ phase[a] = "sleep"
    /\ shutdown[a] \/ Spare
    /\ phase' = [phase EXCEPT ![a] = IF shutdown[a] THEN "stopped" ELSE "connect"]
    /\ backoff' = [backoff EXCEPT ![a] = Double(@)]
    /\ UNCHANGED <<session, ends, shutdown, acks, received, managerVars, owner, link, up, down>>

\* The signal; the tasks see it when they next look.
Shutdown(a) ==
    /\ ~shutdown[a]
    /\ shutdown' = [shutdown EXCEPT ![a] = TRUE]
    /\ UNCHANGED <<phase, session, backoff, ends, acks, received, managerVars, owner, link,
                   up, down>>

\* run_one_session returns: its tasks are aborted, the channel is dropped.
\* Only a clean end resets the backoff.
LeaveSession(a, clean) ==
    /\ phase' = [phase EXCEPT ![a] = "sleep"]
    /\ session' = [session EXCEPT ![a] = 0]
    /\ link' = [link EXCEPT ![session[a]] = "broken"]
    /\ up' = [up EXCEPT ![session[a]] = <<>>]
    /\ down' = [down EXCEPT ![session[a]] = <<>>]
    /\ backoff' = IF clean THEN [backoff EXCEPT ![a] = RECONNECT_MIN] ELSE backoff
    /\ ends' = [ends EXCEPT ![a] = IF clean THEN 1 ELSE @ + 1]

\* The reader notices the shutdown between two messages.
StopSession(a) ==
    /\ phase[a] = "session" /\ shutdown[a]
    /\ acks[a] = 0
    /\ LeaveSession(a, TRUE)
    /\ UNCHANGED <<shutdown, acks, received, managerVars, owner>>

\* Mutant: the backoff is reset whenever a session was established.
SessionEndsResets(a) ==
    /\ phase[a] = "session"
    /\ link[session[a]] = "broken"
    /\ acks[a] = 0
    /\ phase' = [phase EXCEPT ![a] = "sleep"]
    /\ session' = [session EXCEPT ![a] = 0]
    /\ down' = [down EXCEPT ![session[a]] = <<>>]
    /\ backoff' = [backoff EXCEPT ![a] = RECONNECT_MIN]
    /\ ends' = [ends EXCEPT ![a] = @ + 1]
    /\ UNCHANGED <<shutdown, acks, received, managerVars, owner, link, up>>

\* The reader notices that the session is over, with an error or without.
SessionEnds(a) ==
    /\ phase[a] = "session"
    /\ link[session[a]] = "broken"
    /\ acks[a] = 0
    /\ \E clean \in BOOLEAN : LeaveSession(a, clean)
    /\ UNCHANGED <<shutdown, acks, received, managerVars, owner>>

\* The connection fails.  What the manager still gets of the agent's messages
\* it can no longer answer; what reached the agent may still be read.
Break(s) ==
    /\ link[s] = "up"
    /\ link' = [link EXCEPT ![s] = "broken"]
    /\ up' = [up EXCEPT ![s] = <<>>]
    /\ UNCHANGED <<agentVars, managerVars, owner, down>>

----------------------------------------------------------------------------
(* The agent's tasks in a session. *)

\* Mutant: the channel is unbounded.
HeartbeatAlways(a) ==
    /\ phase[a] = "session" /\ link[session[a]] = "up"
    /\ up' = [up EXCEPT ![session[a]] = Append(@, "heartbeat")]
    /\ UNCHANGED <<agentVars, managerVars, owner, link, down>>

\* The heartbeat task sends when there is room.
Heartbeat(a) ==
    /\ phase[a] = "session" /\ link[session[a]] = "up"
    /\ Room(up[session[a]], UpCapacity)
    /\ up' = [up EXCEPT ![session[a]] = Append(@, "heartbeat")]
    /\ UNCHANGED <<agentVars, managerVars, owner, link, down>>

\* handle_inbound takes the next message; a command is only logged.
ReaderTakes(a) ==
    /\ phase[a] = "session"
    /\ acks[a] = 0
    /\ down[session[a]] # <<>>
    /\ LET m == Head(down[session[a]]) IN
       /\ acks' = [acks EXCEPT ![a] = IF m = PolicyUpdate THEN PolicyCount ELSE 0]
       /\ received' = IF m.kind # "command" THEN received
                      ELSE [received EXCEPT ![a] = Append(@, m.cmd)]
    /\ down' = [down EXCEPT ![session[a]] = Tail(@)]
    /\ UNCHANGED <<phase, session, backoff, ends, shutdown, managerVars, owner, link, up>>

\* tx_ack.send(ack).await waits for room, shutdown or not.
ReaderAcks(a) ==
    /\ phase[a] = "session" /\ acks[a] > 0
    /\ link[session[a]] = "up"
    /\ Room(up[session[a]], UpCapacity)
    /\ up' = [up EXCEPT ![session[a]] = Append(@, "ack")]
    /\ acks' = [acks EXCEPT ![a] = @ - 1]
    /\ UNCHANGED <<phase, session, backoff, ends, shutdown, received, managerVars, owner, link,
                   down>>

\* The channel of a broken session is closed: the rest of the update is left.
ReaderGivesUp(a) ==
    /\ phase[a] = "session" /\ acks[a] > 0
    /\ link[session[a]] = "broken"
    /\ acks' = [acks EXCEPT ![a] = 0]
    /\ UNCHANGED <<phase, session, backoff, ends, shutdown, received, managerVars, owner, link, up,
                   down>>

----------------------------------------------------------------------------
(* The manager's inbound task. *)

InboundTakes(s) ==
    /\ inbound[s] = "recv"
    /\ up[s] # <<>>
    /\ inbound' = [inbound EXCEPT ![s] = IF Head(up[s]) = "heartbeat" THEN "ack" ELSE "recv"]
    /\ up' = [up EXCEPT ![s] = Tail(@)]
    /\ UNCHANGED <<agentVars, registry, accepted, cmdChan, bridge, pushes, owner, link, down>>

InboundAcks(s) ==
    /\ inbound[s] = "ack"
    /\ link[s] = "up"
    /\ Room(down[s], DownCapacity)
    /\ down' = [down EXCEPT ![s] = Append(@, HeartbeatAck)]
    /\ inbound' = [inbound EXCEPT ![s] = "recv"]
    /\ UNCHANGED <<agentVars, registry, accepted, cmdChan, bridge, pushes, owner, link, up>>

\* Mutant: the task does not look at the error of its send.
InboundEndsReading(s) ==
    /\ inbound[s] = "recv"
    /\ link[s] = "broken"
    /\ inbound' = [inbound EXCEPT ![s] = "off"]
    /\ registry' = [registry EXCEPT ![owner[s]] = 0]
    /\ UNCHANGED <<agentVars, accepted, cmdChan, bridge, pushes, owner, link, up, down>>

\* The task ends and unregisters the agent, whichever session is registered.
InboundEnds(s) ==
    /\ inbound[s] # "off"
    /\ link[s] = "broken"
    /\ inbound' = [inbound EXCEPT ![s] = "off"]
    /\ registry' = [registry EXCEPT ![owner[s]] = 0]
    /\ UNCHANGED <<agentVars, accepted, cmdChan, bridge, pushes, owner, link, up, down>>

\* The initial push or the policy bridge.
PushPolicy(s) ==
    /\ link[s] = "up"
    /\ Room(down[s], DownCapacity)
    /\ pushes < MaxPushes
    /\ pushes' = pushes + 1
    /\ down' = [down EXCEPT ![s] = Append(@, PolicyUpdate)]
    /\ UNCHANGED <<agentVars, inbound, registry, accepted, cmdChan, bridge, owner, link, up>>

----------------------------------------------------------------------------
(* Commands. *)

\* send_command waits for room in the channel, then answers 202.
SendCommand(a) ==
    /\ Len(accepted) < Commands
    /\ Room(cmdChan, CommandCapacity)
    /\ accepted' = Append(accepted, a)
    /\ cmdChan' = Append(cmdChan, Len(accepted) + 1)
    /\ UNCHANGED <<agentVars, inbound, registry, bridge, pushes, owner, link, up, down>>

\* run_command_bridge looks the agent up; without an entry the command is
\* dropped.
BridgeTakes ==
    /\ bridge = Waiting
    /\ cmdChan # <<>>
    /\ LET c == Head(cmdChan) s == registry[accepted[c]] IN
       bridge' = IF s = 0 THEN Waiting ELSE [cmd |-> c, session |-> s]
    /\ cmdChan' = Tail(cmdChan)
    /\ UNCHANGED <<agentVars, inbound, registry, accepted, pushes, owner, link, up, down>>

\* Mutant: a command for a closed channel goes back into the queue.
BridgeSendsAgain ==
    /\ bridge # Waiting
    /\ LET s == bridge.session IN
       \/ /\ link[s] = "up" /\ Room(down[s], DownCapacity)
          /\ down' = [down EXCEPT ![s] = Append(@, Command(bridge.cmd))]
          /\ cmdChan' = cmdChan
       \/ /\ link[s] = "broken" /\ UNCHANGED down
          /\ Room(cmdChan, CommandCapacity)
          /\ cmdChan' = Append(cmdChan, bridge.cmd)
    /\ bridge' = Waiting
    /\ UNCHANGED <<agentVars, inbound, registry, accepted, pushes, owner, link, up>>

\* Mutant: the bridge retries until there is room, closed channel or not.
BridgeSendsRetry ==
    /\ bridge # Waiting
    /\ LET s == bridge.session IN
       /\ link[s] = "up" /\ Room(down[s], DownCapacity)
       /\ down' = [down EXCEPT ![s] = Append(@, Command(bridge.cmd))]
    /\ bridge' = Waiting
    /\ UNCHANGED <<agentVars, inbound, registry, accepted, cmdChan, pushes, owner, link, up>>

\* tx.send(cmd).await: one agent's full queue holds up every later command.
BridgeSends ==
    /\ bridge # Waiting
    /\ LET s == bridge.session IN
       \/ /\ link[s] = "up" /\ Room(down[s], DownCapacity)
          /\ down' = [down EXCEPT ![s] = Append(@, Command(bridge.cmd))]
       \/ link[s] = "broken" /\ UNCHANGED down
    /\ bridge' = Waiting
    /\ UNCHANGED <<agentVars, inbound, registry, accepted, cmdChan, pushes, owner, link, up>>

----------------------------------------------------------------------------
AgentStep(a) ==
    \/ \E s \in Sessions : Connect(a, s) \/ ConnectFails(a, s)
    \/ SleepOver(a) \/ Shutdown(a) \/ StopSession(a) \/ SessionEnds(a)
    \/ Heartbeat(a)
    \/ ReaderTakes(a) \/ ReaderAcks(a) \/ ReaderGivesUp(a)

ManagerStep(s) ==
    InboundTakes(s) \/ InboundAcks(s) \/ InboundEnds(s) \/ PushPolicy(s)

Next ==
    \/ \E a \in Agents : AgentStep(a) \/ SendCommand(a)
    \/ \E s \in Sessions : ManagerStep(s) \/ Break(s)
    \/ BridgeTakes \/ BridgeSends

Spec == Init /\ [][Next]_vars

\* Tasks run, and a tokio channel serves waiting senders in the order they
\* came, so that a send that finds room again and again gets through.
\* Heartbeats, commands, breaks and shutdowns are not owed.
Fairness ==
    /\ \A a \in Agents :
          /\ WF_vars(\E s \in Sessions : Connect(a, s) \/ ConnectFails(a, s))
          /\ WF_vars(SleepOver(a)) /\ WF_vars(StopSession(a)) /\ WF_vars(SessionEnds(a))
          /\ WF_vars(ReaderTakes(a)) /\ SF_vars(ReaderAcks(a)) /\ WF_vars(ReaderGivesUp(a))
    /\ \A s \in Sessions :
          WF_vars(InboundTakes(s)) /\ SF_vars(InboundAcks(s)) /\ WF_vars(InboundEnds(s))
    /\ WF_vars(BridgeTakes) /\ SF_vars(BridgeSends)

FairSpec == Spec /\ Fairness

----------------------------------------------------------------------------
(* Properties. *)

\* Commands reach an agent at most once and in the order they were accepted,
\* and only the agent they name, through reconnects and overlapping sessions.
CommandsInOrder ==
    \A a \in Agents :
        /\ \A i \in DOMAIN received[a] : accepted[received[a][i]] = a
        /\ \A i, j \in DOMAIN received[a] : i < j => received[a][i] < received[a][j]

\* RECONNECT_MIN doubled k times, without the limit.
Doublings[k \in 0 .. MaxAttempts] ==
    IF k = 0 THEN RECONNECT_MIN ELSE 2 * Doublings[k - 1]

\* The agent waits twice as long after every attempt that ended since the last
\* clean end (or since it started), up to RECONNECT_MAX; a session that broke
\* counts like a refused connection, however long it lasted (stream.rs:75-95).
BackoffCountsEnds ==
    \A a \in Agents :
        phase[a] = "sleep" =>
            LET wait == Doublings[ends[a] - 1]
            IN backoff[a] = IF wait <= RECONNECT_MAX THEN wait ELSE RECONNECT_MAX

\* The agent's reader waits for the manager to read and the manager's inbound
\* task waits for the agent to read: both queues of the session are full.
CircularWait(a) ==
    /\ phase[a] = "session"
    /\ acks[a] > 0 /\ Len(up[session[a]]) = UpCapacity
    /\ inbound[session[a]] = "ack" /\ Len(down[session[a]]) = DownCapacity
    /\ link[session[a]] = "up"

\* Every command that was answered with 202 is handed to a session or dropped,
\* whatever the agents do, unless some agent's session stays in a circular wait:
\* then the one bridge waits with it, and so do the commands of all agents.
CommandsSettled ==
    \/ \E a \in Agents : <>[]CircularWait(a)
    \/ \A c \in 1 .. Commands :
          (c \in DOMAIN accepted)
          ~> (bridge.cmd # c /\ \A i \in DOMAIN cmdChan : cmdChan[i] # c)

\* The manager's inbound task goes on from every HeartbeatAck it sends, although
\* the pushes and the bridge take room in the same queue and the reader may
\* have to wait itself: only a circular wait holds it up, and with it the
\* acknowledgements and batches behind the heartbeat.
InboundAnswers ==
    \A s \in Sessions :
        \/ \E a \in Agents : <>[](session[a] = s /\ CircularWait(a))
        \/ (inbound[s] = "ack") ~> (inbound[s] # "ack")

\* An agent that is asked to stop does stop, wherever it is, although the
\* reader does not look at the signal while it sends acknowledgements: only a
\* circular wait keeps it.
ShutdownStops ==
    \A a \in Agents :
        \/ <>[]CircularWait(a)
        \/ shutdown[a] ~> (phase[a] = "stopped")
=============================================================================
