--------------------------- MODULE EventPipeline ---------------------------
(***************************************************************************)
(* How a detection becomes a row of the manager's `events` table: the      *)
(* collector of crates/scrooge-agent-bin/src/main.rs, the sqlite queue of  *)
(* crates/scrooge-agent-core/src/queue.rs, the uploader of                 *)
(* crates/scrooge-agent-bin/src/event_uploader.rs and insert_event_batch   *)
(* of crates/scrooge-manager-bin/src/grpc.rs.                              *)
(*                                                                         *)
(* An event is its event_id, which the detector draws before the queue     *)
(* sees it.  The queue is append-only (the purge the queue offers has no   *)
(* caller in the agent): a row is named by its AUTOINCREMENT id, the       *)
(* position in `queue`.  A batch is a set of events; the order of the      *)
(* INSERTs of one transaction is not observable.  Sessions are numbered;   *)
(* one that breaks is noticed by its two ends independently, so that the   *)
(* manager may still be storing the batches of an old session while the    *)
(* next one uploads.                                                       *)
(*                                                                         *)
(* The agent's other messages, heartbeats and acknowledgements, go through *)
(* the same channel and the same inbound task, which answers a heartbeat   *)
(* and waits for room to do so.  The channel of the answers is in          *)
(* StreamFlow; here the wait may last as long as the agent's reader may    *)
(* have to wait for room itself.                                           *)
(***************************************************************************)
EXTENDS Integers, Sequences, FiniteSets

CONSTANTS
    Events,         \* the events the detectors may emit
    ChanCapacity,   \* detector -> collector channel (256)
    BatchLimit,     \* BATCH_LIMIT (50)
    StreamCapacity, \* agent -> stream channel (64)
    MaxSessions,    \* bound: sessions; the last one stays up and serves
    Faults          \* what may go wrong: "crash", "sqlite", "db"

ASSUME PipelineAssumption ==
    /\ ChanCapacity \in Nat \ {0}
    /\ BatchLimit \in Nat \ {0}
    /\ StreamCapacity \in Nat \ {0}
    /\ MaxSessions \in Nat \ {0}

Sessions == 1 .. MaxSessions

VARIABLES
    emitted,    \* events the detectors have emitted (history variable)
    chan,       \* events between the detectors and the collector
    queue,      \* events_pending, in the order of id
    sent,       \* ids of the rows whose sent_at is set
    handed,     \* ids of the rows ever given to a session (history variable)
    cur,        \* the agent's session, 0 when it has none
    link,       \* link[s]: the connection below session s
    uploader,   \* where the uploader of the current session is
    batch,      \* ids of the rows the uploader holds
    wire,       \* wire[s]: messages between the agent and the manager
    inbound,    \* inbound[s]: is the manager's inbound task of s running?
    answering,  \* answering[s]: does it wait to send a HeartbeatAck?
    rows        \* rows[e]: rows of the table `events` for event e

agentVars == <<emitted, chan, queue, sent, handed, cur, uploader, batch>>
vars == <<agentVars, link, wire, inbound, answering, rows>>

Ids == 1 .. Len(queue)
Unsent == Ids \ sent
EventsOf(ids) == {queue[i] : i \in ids}

\* A message that is no batch.
NoEvents == {}

TypeOK ==
    /\ emitted \subseteq Events
    /\ chan \in Seq(Events)
    /\ Len(chan) <= ChanCapacity
    /\ queue \in Seq(Events)
    /\ sent \subseteq Ids
    /\ handed \subseteq Ids
    /\ cur \in 0 .. MaxSessions
    /\ link \in [Sessions -> {"new", "up", "broken"}]
    /\ uploader \in {"off", "idle", "send", "mark"}
    /\ batch \subseteq Ids
    /\ wire \in [Sessions -> Seq(SUBSET Events)]
    /\ inbound \in [Sessions -> BOOLEAN]
    /\ answering \in [Sessions -> BOOLEAN]
    /\ rows \in [Events -> Nat]

Init ==
    /\ emitted = {}
    /\ chan = <<>>
    /\ queue = <<>>
    /\ sent = {}
    /\ handed = {}
    /\ cur = 0
    /\ link = [s \in Sessions |-> "new"]
    /\ uploader = "off"
    /\ batch = {}
    /\ wire = [s \in Sessions |-> <<>>]
    /\ inbound = [s \in Sessions |-> FALSE]
    /\ answering = [s \in Sessions |-> FALSE]
    /\ rows = [e \in Events |-> 0]

----------------------------------------------------------------------------
(* Detectors and collector. *)

\* Mutant: the channel has no capacity.
EmitUnbounded(e) ==
    /\ e \notin emitted
    /\ emitted' = emitted \cup {e}
    /\ chan' = Append(chan, e)
    /\ UNCHANGED <<queue, sent, handed, cur, uploader, batch, link, wire, inbound, answering, rows>>

\* A detector (clipboard, file monitor) sends a new event; the channel blocks
\* it when full.
Emit(e) ==
    /\ e \notin emitted
    /\ Len(chan) < ChanCapacity
    /\ emitted' = emitted \cup {e}
    /\ chan' = Append(chan, e)
    /\ UNCHANGED <<queue, sent, handed, cur, uploader, batch, link, wire, inbound, answering, rows>>

\* `scrooge-agent --emit-test-event`: another process appends to the queue.
EmitTestEvent(e) ==
    /\ e \notin emitted
    /\ emitted' = emitted \cup {e}
    /\ queue' = Append(queue, e)
    /\ UNCHANGED <<chan, sent, handed, cur, uploader, batch, link, wire, inbound, answering, rows>>

\* The collector enqueues the next event; an event it cannot enqueue is only
\* logged.
Collect ==
    /\ chan # <<>>
    /\ chan' = Tail(chan)
    /\ \/ queue' = Append(queue, Head(chan))
       \/ "sqlite" \in Faults /\ UNCHANGED queue
    /\ UNCHANGED <<emitted, sent, handed, cur, uploader, batch, link, wire, inbound, answering, rows>>

----------------------------------------------------------------------------
(* Sessions. *)

\* run_one_session starts: the stream is open at both ends, the uploader runs.
Open(s) ==
    /\ cur = 0
    /\ link[s] = "new"
    /\ \A t \in Sessions : t < s => link[t] # "new"
    /\ cur' = s
    /\ link' = [link EXCEPT ![s] = "up"]
    /\ inbound' = [inbound EXCEPT ![s] = TRUE]
    /\ uploader' = "idle"
    /\ UNCHANGED <<emitted, chan, queue, sent, handed, batch, wire, answering, rows>>

Break(s) ==
    /\ link[s] = "up"
    /\ s < MaxSessions
    /\ link' = [link EXCEPT ![s] = "broken"]
    /\ UNCHANGED <<agentVars, wire, inbound, answering, rows>>

\* The reader loop ends and the uploader is aborted at whatever await it is.
Close ==
    /\ cur # 0
    /\ link[cur] = "broken"
    /\ cur' = 0
    /\ uploader' = "off"
    /\ batch' = {}
    /\ UNCHANGED <<emitted, chan, queue, sent, handed, link, wire, inbound, answering, rows>>

\* The agent process dies and restarts: only the queue survives.
Crash ==
    /\ "crash" \in Faults
    /\ cur # MaxSessions
    /\ chan' = <<>>
    /\ cur' = 0
    /\ uploader' = "off"
    /\ batch' = {}
    /\ link' = [s \in Sessions |-> IF s = cur THEN "broken" ELSE link[s]]
    /\ UNCHANGED <<emitted, queue, sent, handed, wire, inbound, answering, rows>>

----------------------------------------------------------------------------
(* The uploader: drain_once, once per tick. *)

\* Mutant: the newest rows go first.
NextBatchNewest ==
    {i \in Unsent : Cardinality({j \in Unsent : j > i}) < BatchLimit}

\* take_batch: the first BATCH_LIMIT unsent rows.
NextBatch ==
    {i \in Unsent : Cardinality({j \in Unsent : j < i}) < BatchLimit}

\* Mutant: the uploader waits for a full batch.
TakeFull ==
    /\ uploader = "idle"
    /\ Cardinality(Unsent) >= BatchLimit
    /\ batch' = NextBatch
    /\ uploader' = "send"
    /\ UNCHANGED <<emitted, chan, queue, sent, handed, cur, link, wire, inbound, answering, rows>>

Take ==
    /\ uploader = "idle"
    /\ Unsent # {}
    /\ batch' = NextBatch
    /\ uploader' = "send"
    /\ UNCHANGED <<emitted, chan, queue, sent, handed, cur, link, wire, inbound, answering, rows>>

\* tx.send(EventBatch).await waits for room in the channel.  On a session that
\* broke the channel may still take the batch, which is lost.
Send ==
    /\ uploader = "send"
    /\ \/ /\ link[cur] = "up"
          /\ Len(wire[cur]) < StreamCapacity
          /\ wire' = [wire EXCEPT ![cur] = Append(@, EventsOf(batch))]
       \/ link[cur] # "up" /\ UNCHANGED wire
    /\ handed' = handed \cup batch
    /\ uploader' = "mark"
    /\ UNCHANGED <<emitted, chan, queue, sent, cur, batch, link, inbound, answering, rows>>

\* Mutant: every unsent row is marked, not only those of the batch.
MarkSentAll ==
    /\ uploader = "mark"
    /\ sent' = Ids
    /\ batch' = {}
    /\ uploader' = "idle"
    /\ UNCHANGED <<emitted, chan, queue, handed, cur, link, wire, inbound, answering, rows>>

MarkSent ==
    /\ uploader = "mark"
    /\ sent' = sent \cup batch
    /\ batch' = {}
    /\ uploader' = "idle"
    /\ UNCHANGED <<emitted, chan, queue, handed, cur, link, wire, inbound, answering, rows>>

\* drain_once fails (a sqlite error, or a closed channel): the task exits and
\* only the next session starts a new one.
UploaderExit ==
    /\ \/ uploader \in {"idle", "mark"} /\ "sqlite" \in Faults
       \/ uploader = "send" /\ link[cur] # "up"
    /\ uploader' = "off"
    /\ batch' = {}
    /\ UNCHANGED <<emitted, chan, queue, sent, handed, cur, link, wire, inbound, answering, rows>>

----------------------------------------------------------------------------
(* The agent's other tasks, and the manager's inbound task. *)

\* The heartbeat task or the reader sends a message of its own.
SendOther ==
    /\ cur # 0
    /\ link[cur] = "up"
    /\ Len(wire[cur]) < StreamCapacity
    /\ wire' = [wire EXCEPT ![cur] = Append(@, NoEvents)]
    /\ UNCHANGED <<agentVars, link, inbound, answering, rows>>

\* The task reads its next message.
Receives(s) ==
    /\ inbound[s] /\ ~answering[s]
    /\ wire[s] # <<>>
    /\ wire' = [wire EXCEPT ![s] = Tail(@)]

\* Mutant: no ON CONFLICT clause and no unique event_id.
InsertBatchAgain(s) ==
    /\ Receives(s)
    /\ Head(wire[s]) # NoEvents
    /\ rows' = [e \in Events |-> IF e \in Head(wire[s]) THEN rows[e] + 1 ELSE rows[e]]
    /\ UNCHANGED <<agentVars, link, inbound, answering>>

\* insert_event_batch: one transaction, ON CONFLICT DO NOTHING per event; a
\* transaction that fails is only logged.
InsertBatch(s) ==
    /\ Receives(s)
    /\ Head(wire[s]) # NoEvents
    /\ \/ rows' = [e \in Events |->
                     IF e \in Head(wire[s]) /\ rows[e] = 0 THEN 1 ELSE rows[e]]
       \/ "db" \in Faults /\ s < MaxSessions /\ UNCHANGED rows
    /\ UNCHANGED <<agentVars, link, inbound, answering>>

\* A heartbeat is to be answered, an acknowledgement is not.
InboundOther(s) ==
    /\ Receives(s)
    /\ Head(wire[s]) = NoEvents
    /\ \E heartbeat \in BOOLEAN : answering' = [answering EXCEPT ![s] = heartbeat]
    /\ UNCHANGED <<agentVars, link, inbound, rows>>

\* tx.send(HeartbeatAck).await has found room, or a broken session.
InboundAnswer(s) ==
    /\ inbound[s] /\ answering[s]
    /\ answering' = [answering EXCEPT ![s] = FALSE]
    /\ UNCHANGED <<agentVars, link, wire, inbound, rows>>

\* The inbound loop ends; what had not arrived is lost.
InboundEnd(s) ==
    /\ inbound[s]
    /\ link[s] = "broken"
    /\ inbound' = [inbound EXCEPT ![s] = FALSE]
    /\ answering' = [answering EXCEPT ![s] = FALSE]
    /\ wire' = [wire EXCEPT ![s] = <<>>]
    /\ UNCHANGED <<agentVars, link, rows>>

----------------------------------------------------------------------------
Next ==
    \/ \E e \in Events : Emit(e) \/ EmitTestEvent(e)
    \/ \E s \in Sessions :
          \/ Open(s) \/ Break(s)
          \/ InsertBatch(s) \/ InboundOther(s) \/ InboundAnswer(s) \/ InboundEnd(s)
    \/ Collect \/ Close \/ Crash
    \/ Take \/ Send \/ MarkSent \/ UploaderExit
    \/ SendOther

Spec == Init /\ [][Next]_vars

\* The inbound task of the session waits to answer and the agent's channel is
\* full: if the reader waits for room in it, too, neither goes on.
CircularWait(s) == link[s] = "up" /\ answering[s] /\ Len(wire[s]) = StreamCapacity

\* The tasks of both processes run, the uploader ticks, the agent reconnects;
\* a tokio channel serves waiting senders in the order they came, so that a
\* send that finds room again and again gets through.  An answer is owed
\* unless there is a circular wait: a reader that finds room in its own channel
\* reads on and makes room for the answer (InboundAnswers of StreamFlow).
\* Detections, heartbeats, breaks, crashes and faults are not owed.
Fairness ==
    /\ WF_vars(Collect) /\ WF_vars(Close)
    /\ WF_vars(Take) /\ SF_vars(Send) /\ WF_vars(MarkSent)
    /\ \A s \in Sessions :
          /\ WF_vars(Open(s)) /\ WF_vars(InboundEnd(s))
          /\ WF_vars(InsertBatch(s) \/ InboundOther(s))
          /\ WF_vars(~CircularWait(s) /\ InboundAnswer(s))

FairSpec == Spec /\ Fairness

----------------------------------------------------------------------------
(* Properties. *)

\* A row marked sent was given to a session: an abort, a crash or a sqlite
\* error between send and mark_sent repeats a batch, it never skips one.
SentWasHanded == sent \subseteq handed

\* Events go out in the order of the queue (ORDER BY id): a row is given to a
\* session only after, or together with, every older row, across restarts of
\* the uploader and new sessions.
HandedInOrder == \A i \in handed : 1 .. i \subseteq handed

\* The pipeline keeps what EventDelivery promises: repeated batches of old and
\* new sessions, in any order, never give an event a second row.
Delivery == INSTANCE EventDelivery WITH known <- emitted, table <- rows
ImplementsDelivery == Delivery!DSpec

\* A sqlite error ended the uploader of a session that lives on; nothing but the
\* next session starts another (event_uploader.rs:38-46).
UploaderStuck == cur # 0 /\ uploader = "off"

\* The queue drains: whatever sessions break and whenever the agent crashes,
\* every row of events_pending gets its sent_at.  The ways to miss it are an
\* uploader that stays stuck and a session that stays in a circular wait.
QueueDrains ==
    \/ <>[]UploaderStuck
    \/ \E s \in Sessions : <>[]CircularWait(s)
    \/ \A e \in Events :
          (\E i \in Ids : queue[i] = e) ~> (\E i \in sent : queue[i] = e)

\* What piles up offline is delivered: a row of the queue that no session has
\* been given when one that does not break (the last one) is open gets its row
\* in the table, however many sessions and processes died before and however
\* many transactions failed in them, unless the uploader is stuck or the
\* session stays in a circular wait.
BacklogGetsStored ==
    \/ <>[]UploaderStuck
    \/ <>[]CircularWait(MaxSessions)
    \/ \A e \in Events :
          (cur = MaxSessions /\ \E i \in Ids \ handed : queue[i] = e) ~> (rows[e] = 1)
============================================================================
