-------------------------- MODULE Detectors_proofs --------------------------
(***************************************************************************)
(* Proofs about EventPipeline, for any number of events and sessions, any  *)
(* capacities and batch size, and any set of faults; then about Detectors, *)
(* which feeds it, for any texts, files, contents and events, any bounds,  *)
(* and either answer to whether inotify reports the monitor's own reads.   *)
(***************************************************************************)
EXTENDS Detectors, FiniteSetTheorems, TLAPS

----------------------------------------------------------------------------
(* The event pipeline by itself. *)

\* Types, with everything on its way emitted by a detector.
OnTheWay ==
    /\ \A k \in 1 .. Len(chan) : chan[k] \in emitted
    /\ \A i \in Ids : queue[i] \in emitted
    /\ \A s \in Sessions : \A k \in 1 .. Len(wire[s]) : wire[s][k] \subseteq emitted
    /\ \A e \in Events : rows[e] \in {0, 1}

\* What the uploader holds: rows of the queue, and in "mark" rows it has handed
\* over.
Uploading ==
    /\ uploader = "mark" => batch \subseteq handed
    /\ uploader = "send" => \A i \in batch : 1 .. i \subseteq handed \cup batch

\* The inductive invariant.
PInv == TypeOK /\ OnTheWay /\ SentWasHanded /\ HandedInOrder /\ Uploading

\* The pipeline starts empty.
LEMMA InitPInv == Init => PInv
  BY PipelineAssumption
  DEF Init, PInv, TypeOK, OnTheWay, SentWasHanded, HandedInOrder, Uploading, Ids

\* A queue of events after a send and after a receive.
LEMMA SendElement ==
  ASSUME NEW S, NEW q \in Seq(S), NEW m \in S
  PROVE  /\ Append(q, m) \in Seq(S)
         /\ Len(Append(q, m)) = Len(q) + 1
         /\ \A k \in 1 .. Len(q) : Append(q, m)[k] = q[k]
         /\ Append(q, m)[Len(q) + 1] = m
  OBVIOUS

LEMMA ReceiveElement ==
  ASSUME NEW S, NEW q \in Seq(S), q # <<>>
  PROVE  /\ Head(q) = q[1] /\ 1 \in 1 .. Len(q) /\ Head(q) \in S
         /\ Tail(q) \in Seq(S)
         /\ Len(Tail(q)) = Len(q) - 1
         /\ \A k \in 1 .. Len(Tail(q)) : k + 1 \in 1 .. Len(q) /\ Tail(q)[k] = q[k + 1]
  OBVIOUS

\* A row appended to the queue disturbs none of the others.
LEMMA EnqueuePInv ==
  ASSUME PInv, NEW e \in Events, e \in emitted', emitted \subseteq emitted',
         emitted' \subseteq Events,
         queue' = Append(queue, e),
         UNCHANGED <<sent, handed, cur, uploader, batch, link, wire, inbound, answering, rows>>,
         chan' \in Seq(Events), Len(chan') <= ChanCapacity,
         \A k \in 1 .. Len(chan') : chan'[k] \in emitted'
  PROVE  PInv'
<1>1. /\ queue' \in Seq(Events)
      /\ Len(queue') = Len(queue) + 1
      /\ \A k \in Ids : queue'[k] = queue[k]
      /\ queue'[Len(queue) + 1] = e
  BY SendElement DEF PInv, TypeOK, Ids
<1>2. Len(queue) \in Nat /\ Ids \subseteq Ids' /\ \A i \in Ids' : i \in Ids \/ i = Len(queue) + 1
  BY <1>1, SMTT(40) DEF PInv, TypeOK, Ids
<1>3. TypeOK'
  BY <1>1, <1>2 DEF PInv, TypeOK
<1>4. OnTheWay'
  BY <1>1, <1>2 DEF PInv, OnTheWay
<1>5. SentWasHanded' /\ HandedInOrder' /\ Uploading'
  BY DEF PInv, SentWasHanded, HandedInOrder, Uploading
<1> QED
  BY <1>3, <1>4, <1>5 DEF PInv

\* The detectors and the collector preserve the invariant.
LEMMA CollectPInv ==
  ASSUME PInv, Collect \/ \E e \in Events : Emit(e) \/ EmitTestEvent(e)
  PROVE  PInv'
<1>0. chan \in Seq(Events)
  BY DEF PInv, TypeOK
<1>1. ASSUME NEW e \in Events, Emit(e)
      PROVE  PInv'
  <2>1. /\ chan' \in Seq(Events)
        /\ Len(chan') = Len(chan) + 1
        /\ \A k \in 1 .. Len(chan) : chan'[k] = chan[k]
        /\ chan'[Len(chan) + 1] = e
    BY <1>0, <1>1, SendElement DEF Emit
  <2>2. Len(chan) \in Nat /\ Len(chan) < ChanCapacity
    BY <1>0, <1>1 DEF Emit
  <2>3. TypeOK'
    BY <1>1, <2>1, <2>2, PipelineAssumption, SMTT(40) DEF Emit, PInv, TypeOK, Ids
  <2>4. OnTheWay'
    BY <1>1, <2>1, <2>2 DEF Emit, PInv, OnTheWay, Ids
  <2>5. SentWasHanded' /\ HandedInOrder' /\ Uploading'
    BY <1>1 DEF Emit, PInv, SentWasHanded, HandedInOrder, Uploading
  <2> QED
    BY <2>3, <2>4, <2>5 DEF PInv
<1>2. ASSUME NEW e \in Events, EmitTestEvent(e)
      PROVE  PInv'
  <2>1. \A k \in 1 .. Len(chan') : chan'[k] \in emitted'
    BY <1>2 DEF EmitTestEvent, PInv, OnTheWay
  <2> QED
    BY <1>2, <2>1, EnqueuePInv DEF EmitTestEvent, PInv, TypeOK
<1>3. CASE Collect
  <2>1. /\ Head(chan) \in Events /\ Head(chan) \in emitted
        /\ chan' \in Seq(Events) /\ Len(chan') <= ChanCapacity
        /\ \A k \in 1 .. Len(chan') : chan'[k] \in emitted
    <3>1. chan # <<>> /\ chan' = Tail(chan) /\ Len(chan) <= ChanCapacity /\ Len(chan) \in Nat
      BY <1>0, <1>3 DEF Collect, PInv, TypeOK
    <3> QED
      BY <1>0, <3>1, ReceiveElement, PipelineAssumption DEF PInv, OnTheWay
  <2>2. CASE queue' = Append(queue, Head(chan))
    BY <1>3, <2>1, <2>2, EnqueuePInv DEF Collect, PInv, TypeOK
  <2>3. CASE UNCHANGED queue
    BY <1>3, <2>1, <2>3
    DEF Collect, PInv, TypeOK, OnTheWay, SentWasHanded, HandedInOrder, Uploading, Ids
  <2> QED
    BY <1>3, <2>2, <2>3 DEF Collect
<1> QED
  BY <1>1, <1>2, <1>3

\* Opening and losing a session preserves it: an uploader that is aborted
\* forgets its batch, the rows stay unsent.
LEMMA SessionPInv ==
  ASSUME PInv, Close \/ Crash \/ UploaderExit \/ \E s \in Sessions : Open(s) \/ Break(s)
  PROVE  PInv'
<1> USE PipelineAssumption
    DEF PInv, TypeOK, OnTheWay, SentWasHanded, HandedInOrder, Uploading, Ids, Sessions
<1>1. CASE Close
  BY <1>1, SMTT(40) DEF Close
<1>2. CASE Crash
  BY <1>2, SMTT(40) DEF Crash
<1>3. CASE UploaderExit
  BY <1>3 DEF UploaderExit
<1>4. ASSUME NEW s \in Sessions, Open(s)
      PROVE  PInv'
  <2>1. cur' \in 0 .. MaxSessions
    BY <1>4 DEF Open
  <2>2. uploader' = "idle"
    BY <1>4 DEF Open
  <2>3. link' \in [Sessions -> {"new", "up", "broken"}] /\ inbound' \in [Sessions -> BOOLEAN]
    BY <1>4 DEF Open
  <2>4. UNCHANGED <<emitted, chan, queue, sent, handed, batch, wire, answering, rows>>
    BY <1>4 DEF Open
  <2> QED
    BY <2>1, <2>2, <2>3, <2>4
<1>5. ASSUME NEW s \in Sessions, Break(s)
      PROVE  PInv'
  BY <1>5 DEF Break, agentVars
<1> QED
  BY <1>1, <1>2, <1>3, <1>4, <1>5

\* take_batch leaves no gap: an unsent row older than one it takes is taken too.
LEMMA NextBatchNoGap ==
  ASSUME TypeOK, NEW i \in NextBatch, NEW j \in Unsent, j < i
  PROVE  j \in NextBatch
<1> DEFINE A == {k \in Unsent : k < i}
           B == {k \in Unsent : k < j}
<1>1. Unsent \subseteq 1 .. Len(queue) /\ Len(queue) \in Nat
  BY DEF TypeOK, Unsent, Ids
<1>2. IsFiniteSet(1 .. Len(queue))
  BY <1>1, FS_Interval
<1>3. IsFiniteSet(A)
  BY <1>1, <1>2, FS_Subset
<1>4. B \subseteq A
  <2>1. i \in Unsent
    BY DEF NextBatch
  <2>2. \A k \in Unsent : k < j => k < i
    BY <1>1, <2>1
  <2> QED
    BY <2>2
<1>5. IsFiniteSet(B) /\ Cardinality(B) <= Cardinality(A)
  BY <1>3, <1>4, FS_Subset
<1>6. Cardinality(A) \in Nat /\ Cardinality(B) \in Nat
  BY <1>3, <1>5, FS_CardinalityType
<1>7. Cardinality(A) < BatchLimit
  BY DEF NextBatch
<1>8. Cardinality(B) < BatchLimit
  BY <1>5, <1>6, <1>7, PipelineAssumption
<1> QED
  BY <1>8 DEF NextBatch

\* A message on the channel of the session joins those on their way.
LEMMA WireGrows ==
  ASSUME PInv, NEW m \in SUBSET Events, m \subseteq emitted,
         wire' = [wire EXCEPT ![cur] = Append(wire[cur], m)]
  PROVE  /\ wire' \in [Sessions -> Seq(SUBSET Events)]
         /\ \A s \in Sessions : \A k \in 1 .. Len(wire'[s]) : wire'[s][k] \subseteq emitted
<1>1. wire \in [Sessions -> Seq(SUBSET Events)]
  BY DEF PInv, TypeOK
<1>2. ASSUME NEW s \in Sessions
      PROVE  /\ wire'[s] \in Seq(SUBSET Events)
             /\ \A k \in 1 .. Len(wire'[s]) : wire'[s][k] \subseteq emitted
  <2>1. CASE s # cur
    BY <1>1, <2>1 DEF PInv, OnTheWay
  <2>2. CASE s = cur
    <3>1. wire[s] \in Seq(SUBSET Events) /\ wire'[s] = Append(wire[s], m)
      BY <1>1, <2>2
    <3>2. /\ wire'[s] \in Seq(SUBSET Events)
          /\ Len(wire'[s]) = Len(wire[s]) + 1
          /\ \A k \in 1 .. Len(wire[s]) : wire'[s][k] = wire[s][k]
          /\ wire'[s][Len(wire[s]) + 1] = m
      BY <3>1, SendElement
    <3>3. Len(wire[s]) \in Nat
      BY <3>1
    <3> QED
      BY <3>2, <3>3, SMTT(40) DEF PInv, OnTheWay
  <2> QED
    BY <2>1, <2>2
<1> QED
  BY <1>1, <1>2

\* The three steps of drain_once preserve it.
LEMMA DrainPInv ==
  ASSUME PInv, Take \/ Send \/ MarkSent
  PROVE  PInv'
<1>1. CASE Take
  <2>1. batch' = NextBatch /\ NextBatch \subseteq Ids
    BY <1>1 DEF Take, NextBatch, Unsent
  <2>2. ASSUME NEW i \in NextBatch, NEW j \in 1 .. i
        PROVE  j \in handed \cup NextBatch
    <3>1. i \in Ids /\ j \in Ids /\ (j = i \/ j < i)
      BY <2>1 DEF PInv, TypeOK, Ids
    <3>2. CASE j \in sent
      BY <3>2 DEF PInv, SentWasHanded
    <3>3. CASE j \in Unsent /\ j < i
      BY <3>3, NextBatchNoGap DEF PInv
    <3> QED
      BY <3>1, <3>2, <3>3 DEF Unsent
  <2>3. Uploading'
    BY <1>1, <2>1, <2>2 DEF Take, Uploading
  <2> QED
    BY <1>1, <2>1, <2>3 DEF Take, PInv, TypeOK, OnTheWay, SentWasHanded, HandedInOrder, Ids
<1>2. CASE Send
  <2>1. handed' = handed \cup batch /\ handed' \subseteq Ids
    BY <1>2 DEF Send, PInv, TypeOK
  <2>2. HandedInOrder'
    BY <1>2, <2>1 DEF Send, PInv, HandedInOrder, Uploading
  <2>3. EventsOf(batch) \subseteq emitted /\ EventsOf(batch) \in SUBSET Events
    BY DEF EventsOf, PInv, TypeOK, OnTheWay
  <2>4. /\ wire' \in [Sessions -> Seq(SUBSET Events)]
        /\ \A s \in Sessions : \A k \in 1 .. Len(wire'[s]) : wire'[s][k] \subseteq emitted
    <3>1. CASE UNCHANGED wire
      BY <3>1 DEF PInv, TypeOK, OnTheWay
    <3>2. CASE wire' = [wire EXCEPT ![cur] = Append(wire[cur], EventsOf(batch))]
      BY <2>3, <3>2, WireGrows
    <3> QED
      BY <1>2, <3>1, <3>2 DEF Send
  <2> QED
    BY <1>2, <2>1, <2>2, <2>4
    DEF Send, PInv, TypeOK, OnTheWay, SentWasHanded, Uploading, Ids
<1>3. CASE MarkSent
  BY <1>3 DEF MarkSent, PInv, TypeOK, OnTheWay, SentWasHanded, HandedInOrder, Uploading, Ids
<1> QED
  BY <1>1, <1>2, <1>3

\* So do the agent's other messages, which carry no events.
LEMMA OtherPInv ==
  ASSUME PInv, SendOther
  PROVE  PInv'
<1>1. /\ wire' \in [Sessions -> Seq(SUBSET Events)]
      /\ \A s \in Sessions : \A k \in 1 .. Len(wire'[s]) : wire'[s][k] \subseteq emitted
  <2>1. wire' = [wire EXCEPT ![cur] = Append(wire[cur], NoEvents)]
    BY DEF SendOther
  <2>2. NoEvents \in SUBSET Events /\ NoEvents \subseteq emitted
    BY DEF NoEvents
  <2> QED
    BY <2>1, <2>2, WireGrows
<1>2. UNCHANGED <<agentVars, link, inbound, answering, rows>>
  BY DEF SendOther
<1> QED
  BY <1>1, <1>2, SMTT(40)
  DEF agentVars, PInv, TypeOK, OnTheWay, SentWasHanded, HandedInOrder, Uploading, Ids

\* So does the manager's inbound task.
LEMMA InboundPInv ==
  ASSUME PInv, NEW s \in Sessions,
         InsertBatch(s) \/ InboundOther(s) \/ InboundAnswer(s) \/ InboundEnd(s)
  PROVE  PInv'
<1> USE DEF InsertBatch, InboundOther, InboundAnswer, InboundEnd, Receives
<1>1. UNCHANGED <<agentVars, link>>
  OBVIOUS
<1>2. wire \in [Sessions -> Seq(SUBSET Events)]
  BY DEF PInv, TypeOK
<1>3. \A t \in Sessions : /\ wire'[t] \in Seq(SUBSET Events)
                          /\ \A k \in 1 .. Len(wire'[t]) : wire'[t][k] \subseteq emitted
  <2> TAKE t \in Sessions
  <2>1. CASE wire'[t] = wire[t] \/ wire'[t] = <<>>
    <3>1. wire[t] \in Seq(SUBSET Events) /\ \A k \in 1 .. Len(wire[t]) : wire[t][k] \subseteq emitted
      BY <1>2 DEF PInv, OnTheWay
    <3>2. CASE wire'[t] = wire[t]
      BY <3>1, <3>2, Zenon
    <3>3. CASE wire'[t] = <<>>
      <4>1. <<>> \in Seq(SUBSET Events) /\ 1 .. Len(<<>>) = {}
        OBVIOUS
      <4> QED
        BY <3>3, <4>1
    <3> QED
      BY <2>1, <3>2, <3>3
  <2>2. CASE wire'[t] = Tail(wire[t]) /\ wire[t] # <<>>
    BY <1>2, <2>2, ReceiveElement DEF PInv, OnTheWay
  <2> QED
    BY <1>2, <2>1, <2>2
<1>4. /\ wire' \in [Sessions -> Seq(SUBSET Events)]
      /\ inbound' \in [Sessions -> BOOLEAN]
      /\ answering' \in [Sessions -> BOOLEAN]
  BY <1>2, <1>3 DEF PInv, TypeOK
<1>5. rows' \in [Events -> Nat] /\ \A e \in Events : rows'[e] \in {0, 1}
  BY DEF PInv, TypeOK, OnTheWay
<1> QED
  BY <1>1, <1>3, <1>4, <1>5
  DEF agentVars, PInv, TypeOK, OnTheWay, SentWasHanded, HandedInOrder, Uploading, Ids

\* The inductive invariant holds in every state.
THEOREM PipelineInvariant == Spec => []PInv
<1>1. PInv /\ [Next]_vars => PInv'
  <2> SUFFICES ASSUME PInv, [Next]_vars
               PROVE  PInv'
    OBVIOUS
  <2>1. CASE UNCHANGED vars
    BY <2>1 DEF vars, agentVars, PInv, TypeOK, OnTheWay, SentWasHanded, HandedInOrder,
                Uploading, Ids
  <2> QED
    BY <2>1, CollectPInv, SessionPInv, DrainPInv, OtherPInv, InboundPInv DEF Next
<1> QED
  BY <1>1, InitPInv, PTL DEF Spec

\* Types are kept: no channel outgrows its capacity, and what is marked, handed
\* over or held by the uploader are rows of the queue.
THEOREM PipelineTypes == Spec => []TypeOK
<1>1. PInv => TypeOK
  BY DEF PInv
<1> QED
  BY <1>1, PipelineInvariant, PTL

\* An abort, a crash or a sqlite error between send and mark_sent repeats a
\* batch and never skips one (drain_once).
THEOREM SentRowsWereHanded == Spec => []SentWasHanded
<1>1. PInv => SentWasHanded
  BY DEF PInv
<1> QED
  BY <1>1, PipelineInvariant, PTL

\* A row is marked sent only after it was handed to a session, and rows are
\* handed over in the order of the queue without gaps (take_batch, drain_once),
\* through any number of broken sessions, crashes and sqlite errors.
THEOREM UploadsInOrder == Spec => [](SentWasHanded /\ HandedInOrder)
<1>1. PInv => SentWasHanded /\ HandedInOrder
  BY DEF PInv
<1> QED
  BY <1>1, PipelineInvariant, PTL

\* A step of the pipeline is a step of EventDelivery, or changes neither the
\* emitted events nor the table.
LEMMA StepDelivers ==
  ASSUME PInv, [Next]_vars
  PROVE  [Delivery!DNext]_(Delivery!dvars)
<1> USE DEF Delivery!DNext, Delivery!dvars
<1>1. ASSUME NEW e \in Events, Emit(e) \/ EmitTestEvent(e)
      PROVE  Delivery!DEmit(e)
  BY <1>1 DEF Emit, EmitTestEvent, Delivery!DEmit
<1>2. ASSUME NEW s \in Sessions, InsertBatch(s)
      PROVE  Delivery!DNext \/ UNCHANGED Delivery!dvars
  <2>1. CASE UNCHANGED rows
    BY <1>2, <2>1 DEF InsertBatch, agentVars
  <2>2. CASE rows' = [e \in Events |->
                        IF e \in Head(wire[s]) /\ rows[e] = 0 THEN 1 ELSE rows[e]]
    <3> DEFINE new == {e \in Head(wire[s]) : rows[e] = 0}
    <3>1. wire[s] \in Seq(SUBSET Events) /\ wire[s] # <<>>
      BY <1>2 DEF InsertBatch, Receives, PInv, TypeOK
    <3>2. Head(wire[s]) \subseteq emitted /\ Head(wire[s]) \subseteq Events
      BY <3>1, ReceiveElement DEF PInv, OnTheWay
    <3>3. new \in SUBSET Events /\ new \subseteq {e \in emitted : rows[e] = 0}
      BY <3>2
    <3>4. rows' = [e \in Events |-> IF e \in new THEN 1 ELSE rows[e]]
      BY <2>2
    <3>5. Delivery!DStore(new)
      BY <1>2, <3>3, <3>4 DEF InsertBatch, agentVars, Delivery!DStore
    <3> QED
      BY <3>3, <3>5
  <2> QED
    BY <1>2, <2>1, <2>2 DEF InsertBatch
<1>3. CASE \/ \E s \in Sessions : \/ Open(s) \/ Break(s)
                                  \/ InboundOther(s) \/ InboundAnswer(s) \/ InboundEnd(s)
           \/ Collect \/ Close \/ Crash \/ Take \/ Send \/ MarkSent \/ UploaderExit
           \/ SendOther \/ UNCHANGED vars
  BY <1>3 DEF Open, Break, InboundOther, InboundAnswer, InboundEnd, Collect, Close, Crash, Take,
              Send, MarkSent, UploaderExit, SendOther, vars, agentVars
<1> QED
  BY <1>1, <1>2, <1>3 DEF Next

\* The pipeline implements EventDelivery: a row is an emitted event, an event
\* has at most one row, a row stays (insert_event_batch, ON CONFLICT DO NOTHING).
THEOREM PipelineDelivers == Spec => ImplementsDelivery
<1>1. Init => Delivery!DInit
  BY DEF Init, Delivery!DInit
<1>2. PInv /\ [Next]_vars => [Delivery!DNext]_(Delivery!dvars)
  BY StepDelivers
<1> QED
  BY <1>1, <1>2, PipelineInvariant, PTL DEF Spec, ImplementsDelivery, Delivery!DSpec

----------------------------------------------------------------------------
(* The detectors. *)

\* Types of what the detectors keep; an event is known to be about a file only
\* once it was emitted.
DTypes ==
    /\ DetectorsTypeOK
    /\ found \in Seq([text : Texts, match : Nat])
    /\ copies \in [Texts -> Nat]
    /\ starts \in Nat \ {0}
    /\ IsFiniteSet(emitted)
    /\ \A p \in Paths : last[p] # NoEvent => last[p] \in emitted

Notified(p) == \E i \in DOMAIN raw : raw[i] = p
Working(p) == held # Nothing /\ held.say.path = p

\* An inspection is up to date as long as no further notification about its
\* file is waiting: what it has read so far is what the file is now.
InspectionIsCurrent ==
    \A p \in owed : Working(p) /\ ~Notified(p) =>
        /\ held.say.size = files[p]
        /\ held.stage = "read" => files[p] \in Small
        /\ held.stage = "send" => held.say = Describe(p, files[p])

\* Events about a match, and those to come: one if the match waits to be sent,
\* and one if its text is on the clipboard and the next poll will notice it.
Reports(m) == {e \in emitted : about[e] = m}
Waiting(m) == IF \E i \in DOMAIN found : found[i] = m THEN 1 ELSE 0
Unnoticed(t) == IF clipboard = t /\ t # "" /\ t # prev_hash THEN 1 ELSE 0

OncePerStay ==
    /\ \A i, j \in DOMAIN found : found[i] = found[j] => i = j
    /\ \A t \in Texts : \A k \in 1 .. Hits[t] :
          Cardinality(Reports(Match(t, k))) + Waiting(Match(t, k)) + Unnoticed(t)
              <= copies[t] + starts - 1

DInv == DTypes /\ ClipboardReported /\ InspectionIsCurrent /\ FileLastWord /\ OncePerStay

----------------------------------------------------------------------------
(* The detectors are an environment of the event pipeline. *)

\* Every step is a step of the pipeline or leaves it alone.
LEMMA StepFeeds ==
  ASSUME [DetectorsNext]_allVars
  PROVE  [Next]_vars
<1>1. CASE UNCHANGED vars
  BY <1>1
<1>2. ASSUME NEW e \in Events, Emit(e)
      PROVE  Next
  BY <1>2 DEF Next
<1>3. CASE Collect \/ Crash
  BY <1>3 DEF Next
<1> QED
  BY <1>1, <1>2, <1>3
  DEF DetectorsNext, allVars, Copy, Clear, Write, ClipPoll, ClipSend, FileMeta, FileRead,
      FileSend, Collected, Restart

\* What is proved of the pipeline holds of it with these detectors: the
\* composition clipboard.rs, filemon.rs, main.rs and queue.rs make implements
\* the pipeline's specification.
THEOREM DetectorsFeedThePipeline == DetectorsSpec => Spec
<1>1. DetectorsInit => Init
  BY DEF DetectorsInit
<1>2. [DetectorsNext]_allVars => [Next]_vars
  BY StepFeeds
<1> QED
  BY <1>1, <1>2, PTL DEF DetectorsSpec, Spec

----------------------------------------------------------------------------
(* Sequences. *)

LEMMA SequenceElements ==
  ASSUME NEW S, NEW q \in Seq(S)
  PROVE  \A i \in DOMAIN q : q[i] \in S
  OBVIOUS

LEMMA FunctionIsSequence ==
  ASSUME NEW S, NEW n \in Nat, NEW q \in [1 .. n -> S]
  PROVE  q \in Seq(S)
  OBVIOUS

\* The members of a queue after an append and after a receive.
LEMMA AppendMembers ==
  ASSUME NEW S, NEW q \in Seq(S), NEW m \in S
  PROVE  /\ Append(q, m) \in Seq(S)
         /\ \A x : (\E i \in DOMAIN q : q[i] = x) => \E i \in DOMAIN Append(q, m) : Append(q, m)[i] = x
         /\ \E i \in DOMAIN Append(q, m) : Append(q, m)[i] = m
         /\ \A x : (\E i \in DOMAIN Append(q, m) : Append(q, m)[i] = x)
                      => x = m \/ \E i \in DOMAIN q : q[i] = x
<1>1. /\ Append(q, m) \in Seq(S)
      /\ DOMAIN q = 1 .. Len(q)
      /\ DOMAIN Append(q, m) = 1 .. Len(q) + 1
      /\ Len(q) \in Nat
      /\ \A i \in 1 .. Len(q) : Append(q, m)[i] = q[i]
      /\ Append(q, m)[Len(q) + 1] = m
  OBVIOUS
<1>2. /\ \A i \in 1 .. Len(q) : i \in 1 .. Len(q) + 1
      /\ Len(q) + 1 \in 1 .. Len(q) + 1
      /\ \A i \in 1 .. Len(q) + 1 : i \in 1 .. Len(q) \/ i = Len(q) + 1
  BY <1>1
<1> QED
  BY <1>1, <1>2

LEMMA TailMembers ==
  ASSUME NEW S, NEW q \in Seq(S), q # <<>>
  PROVE  /\ Tail(q) \in Seq(S)
         /\ Head(q) \in S
         /\ \A x : (\E i \in DOMAIN q : q[i] = x)
                      => x = Head(q) \/ \E i \in DOMAIN Tail(q) : Tail(q)[i] = x
         /\ \A x : (\E i \in DOMAIN Tail(q) : Tail(q)[i] = x) => \E i \in DOMAIN q : q[i] = x
<1>1. /\ Tail(q) \in Seq(S)
      /\ Head(q) \in S
      /\ Head(q) = q[1]
      /\ DOMAIN q = 1 .. Len(q)
      /\ DOMAIN Tail(q) = 1 .. Len(q) - 1
      /\ Len(q) \in Nat \ {0}
      /\ \A i \in 1 .. Len(q) - 1 : Tail(q)[i] = q[i + 1]
  OBVIOUS
<1>2. /\ \A i \in 1 .. Len(q) - 1 : i + 1 \in 1 .. Len(q)
      /\ \A i \in 1 .. Len(q) : i = 1 \/ (i - 1 \in 1 .. Len(q) - 1 /\ (i - 1) + 1 = i)
  BY <1>1
<1>3. \A i \in 1 .. Len(q) : i = 1 \/ (i - 1 \in 1 .. Len(q) - 1 /\ Tail(q)[i - 1] = q[i])
  BY <1>1, <1>2
<1>4. \A x : (\E i \in DOMAIN q : q[i] = x)
                => x = Head(q) \/ \E i \in DOMAIN Tail(q) : Tail(q)[i] = x
  BY <1>1, <1>3
<1>5. \A x : (\E i \in DOMAIN Tail(q) : Tail(q)[i] = x) => \E i \in DOMAIN q : q[i] = x
  BY <1>1, <1>2
<1> QED
  BY <1>1, <1>4, <1>5

\* Members that are pairwise different stay so, and the head is not among the
\* rest.
LEMMA TailDistinct ==
  ASSUME NEW S, NEW q \in Seq(S), q # <<>>,
         \A i, j \in DOMAIN q : q[i] = q[j] => i = j
  PROVE  /\ \A i, j \in DOMAIN Tail(q) : Tail(q)[i] = Tail(q)[j] => i = j
         /\ \A i \in DOMAIN Tail(q) : Tail(q)[i] # Head(q)
<1>1. /\ Head(q) = q[1]
      /\ DOMAIN q = 1 .. Len(q)
      /\ DOMAIN Tail(q) = 1 .. Len(q) - 1
      /\ Len(q) \in Nat \ {0}
      /\ \A i \in 1 .. Len(q) - 1 : Tail(q)[i] = q[i + 1]
  OBVIOUS
<1>2. /\ \A i \in 1 .. Len(q) - 1 : i + 1 \in 1 .. Len(q) /\ i + 1 # 1
      /\ 1 \in 1 .. Len(q)
      /\ \A i, j \in 1 .. Len(q) - 1 : i + 1 = j + 1 => i = j
  BY <1>1
<1> QED
  BY <1>1, <1>2

----------------------------------------------------------------------------
(* Types. *)

\* The matches of a text are a queue of different matches.
LEMMA MatchesQueue ==
  ASSUME NEW t \in Texts
  PROVE  /\ Matches(t) \in Seq([text : Texts, match : Nat])
         /\ DOMAIN Matches(t) = 1 .. Hits[t]
         /\ \A k \in 1 .. Hits[t] : Matches(t)[k] = Match(t, k)
         /\ \A i \in DOMAIN Matches(t) : Matches(t)[i].text = t
         /\ \A i, j \in DOMAIN Matches(t) : Matches(t)[i] = Matches(t)[j] => i = j
<1>1. Hits[t] \in Nat
  BY DetectorsAssumption
<1>2. \A k \in 1 .. Hits[t] : Match(t, k) \in [text : Texts, match : Nat]
  BY <1>1 DEF Match
<1>3. Matches(t) \in Seq([text : Texts, match : Nat])
  <2>1. Matches(t) \in [1 .. Hits[t] -> [text : Texts, match : Nat]]
    BY <1>2 DEF Matches
  <2> QED
    BY <1>1, <2>1, FunctionIsSequence
<1>4. /\ DOMAIN Matches(t) = 1 .. Hits[t]
      /\ \A k \in 1 .. Hits[t] : Matches(t)[k] = Match(t, k)
  BY DEF Matches
<1>5. \A i, j \in 1 .. Hits[t] : Match(t, i) = Match(t, j) => i = j
  BY DEF Match
<1>6. \A i \in 1 .. Hits[t] : Match(t, i).text = t
  BY DEF Match
<1> QED
  BY <1>3, <1>4, <1>5, <1>6

\* A notification joins the queue or is merged, and is among the waiting ones.
LEMMA NotifyQueues ==
  ASSUME raw \in Seq(Paths), Len(raw) <= RawCapacity, NEW p \in Paths, Notify(p)
  PROVE  /\ raw' \in Seq(Paths)
         /\ Len(raw') <= RawCapacity
         /\ Notified(p)'
         /\ \A q : Notified(q) => Notified(q)'
<1>1. CASE Len(raw) < RawCapacity /\ raw' = Append(raw, p)
  <2>1. Len(raw') = Len(raw) + 1 /\ Len(raw) \in Nat
    BY <1>1
  <2>2. Len(raw') <= RawCapacity
    BY <1>1, <2>1, DetectorsAssumption
  <2> QED
    BY <1>1, <2>2, AppendMembers DEF Notified
<1>2. CASE raw # <<>> /\ raw[Len(raw)] = p /\ UNCHANGED raw
  <2>1. Len(raw) \in DOMAIN raw
    BY <1>2
  <2> QED
    BY <1>2, <2>1 DEF Notified
<1> QED
  BY <1>1, <1>2 DEF Notify

\* A detector's send is recorded under the new event and no other.
LEMMA EmitAbout ==
  ASSUME DTypes, NEW e \in Events, Emit(e), NEW m,
         about' = [x \in emitted' |-> IF x = e THEN m ELSE about[x]]
  PROVE  /\ DOMAIN about' = emitted'
         /\ about'[e] = m
         /\ \A x \in emitted : about'[x] = about[x]
         /\ e \notin emitted
         /\ emitted' = emitted \cup {e}
         /\ IsFiniteSet(emitted')
<1>1. emitted' = emitted \cup {e} /\ e \notin emitted
  BY DEF Emit
<1>2. IsFiniteSet(emitted \cup {e})
  BY FS_AddElement DEF DTypes
<1> QED
  BY <1>1, <1>2

LEMMA DTypesStep ==
  ASSUME PInv, DTypes, [DetectorsNext]_allVars
  PROVE  DTypes'
<1> USE DetectorsAssumption
<1> DEFINE M == [text : Texts, match : Nat]
<1>1. ASSUME NEW t \in Texts, Copy(t)
      PROVE  DTypes'
  <2>1. copies' \in [Texts -> Nat] /\ clipboard' \in Texts
    BY <1>1 DEF Copy, DTypes
  <2> QED
    BY <1>1, <2>1 DEF Copy, vars, agentVars, fileVars, DTypes, DetectorsTypeOK
<1>2. CASE Clear
  BY <1>2 DEF Clear, vars, agentVars, fileVars, DTypes, DetectorsTypeOK
<1>3. ASSUME NEW p \in Paths, NEW c \in Contents \cup {"absent"}, Write(p, c)
      PROVE  DTypes'
  <2>1. raw' \in Seq(Paths) /\ Len(raw') <= RawCapacity
    BY <1>3, NotifyQueues DEF Write, DTypes, DetectorsTypeOK
  <2>2. files' \in [Paths -> Contents \cup {"absent"}] /\ owed' \subseteq Paths
    BY <1>3 DEF Write, DTypes, DetectorsTypeOK
  <2> QED
    BY <1>3, <2>1, <2>2 DEF Write, vars, agentVars, clipVars, DTypes, DetectorsTypeOK
<1>4. CASE ClipPoll
  <2>1. clipboard \in Texts /\ found' = Matches(clipboard) /\ prev_hash' = clipboard
    BY <1>4 DEF ClipPoll, DTypes, DetectorsTypeOK
  <2>2. /\ found' \in Seq(M)
        /\ \A i \in DOMAIN found' : found'[i].text \in Texts
    BY <2>1, MatchesQueue
  <2> QED
    BY <1>4, <2>1, <2>2 DEF ClipPoll, vars, agentVars, fileVars, DTypes, DetectorsTypeOK
<1>5. ASSUME NEW e \in Events, ClipSend(e)
      PROVE  DTypes'
  <2>1. found \in Seq(M) /\ found # <<>> /\ found' = Tail(found) /\ Emit(e)
    BY <1>5 DEF ClipSend, DTypes
  <2>2. found' \in Seq(M)
    BY <2>1
  <2>3. \A i \in DOMAIN found' : found'[i].text \in Texts
    <3>1. \A i \in DOMAIN found' : found'[i] \in M
      BY <2>2, SequenceElements
    <3> QED
      BY <3>1
  <2>4. /\ DOMAIN about' = emitted'
        /\ IsFiniteSet(emitted')
        /\ emitted' = emitted \cup {e}
    BY <1>5, EmitAbout DEF ClipSend
  <2> QED
    BY <1>5, <2>2, <2>3, <2>4 DEF ClipSend, fileVars, DTypes, DetectorsTypeOK
<1>6. CASE FileMeta
  <2>1. Head(raw) \in Paths /\ raw' \in Seq(Paths) /\ Len(raw') <= RawCapacity
    <3>1. raw \in Seq(Paths) /\ Len(raw) <= RawCapacity /\ raw # <<>> /\ raw' = Tail(raw)
      BY <1>6 DEF FileMeta, DTypes, DetectorsTypeOK
    <3>2. Head(raw) \in Paths /\ raw' \in Seq(Paths)
      BY <3>1, TailMembers
    <3>3. Len(raw') = Len(raw) - 1 /\ Len(raw) \in Nat
      BY <3>1
    <3> QED
      BY <3>1, <3>2, <3>3
  <2>2. held' \in [stage : {"read", "send"}, say : Inspected]
    BY <1>6, <2>1 DEF FileMeta, DTypes, DetectorsTypeOK, Inspected
  <2> QED
    BY <1>6, <2>1, <2>2 DEF FileMeta, vars, agentVars, clipVars, DTypes, DetectorsTypeOK
<1>7. CASE FileRead
  <2>1. held \in [stage : {"read", "send"}, say : Inspected]
    BY <1>7 DEF FileRead, DTypes, DetectorsTypeOK
  <2>2. held.say.path \in Paths
    BY <2>1 DEF Inspected
  <2>3. Sha(files[held.say.path]) \in Readable \cup {"absent"}
    BY DEF Sha
  <2>4. held' \in [stage : {"read", "send"}, say : Inspected]
    BY <1>7, <2>1, <2>3 DEF FileRead, Inspected
  <2>5. raw' \in Seq(Paths) /\ Len(raw') <= RawCapacity
    BY <1>7, <2>2, NotifyQueues DEF FileRead, DTypes, DetectorsTypeOK
  <2> QED
    BY <1>7, <2>4, <2>5 DEF FileRead, vars, agentVars, clipVars, DTypes, DetectorsTypeOK
<1>8. ASSUME NEW e \in Events, FileSend(e)
      PROVE  DTypes'
  <2>1. /\ DOMAIN about' = emitted'
        /\ IsFiniteSet(emitted')
        /\ emitted' = emitted \cup {e}
    BY <1>8, EmitAbout DEF FileSend
  <2>2. held' = Nothing
    BY <1>8 DEF FileSend
  <2>3. last' \in [Paths -> Events \cup {NoEvent}]
    BY <1>8 DEF FileSend, DTypes, DetectorsTypeOK
  <2>4. \A p \in Paths : last'[p] # NoEvent => last'[p] \in emitted'
    BY <1>8, <2>1 DEF FileSend, DTypes, DetectorsTypeOK
  <2> QED
    BY <1>8, <2>1, <2>2, <2>3, <2>4 DEF FileSend, clipVars, DTypes, DetectorsTypeOK
<1>9. CASE Collected
  BY <1>9 DEF Collected, Collect, clipVars, fileVars, DTypes, DetectorsTypeOK
<1>10. ASSUME NEW r \in SUBSET {"clipscreen", "filemon"}, Restart(r)
       PROVE  DTypes'
  <2>1. /\ found' \in Seq(M) /\ DOMAIN found' = {}
        /\ raw' \in Seq(Paths) /\ Len(raw') <= RawCapacity
    <3>1. found' = <<>> /\ raw' = <<>>
      BY <1>10 DEF Restart, Start
    <3>2. <<>> \in Seq(M) /\ <<>> \in Seq(Paths) /\ DOMAIN <<>> = {} /\ Len(<<>>) = 0
      OBVIOUS
    <3> QED
      BY <3>1, <3>2
  <2>2. /\ starts' \in Nat \ {0}
        /\ UNCHANGED <<emitted, about, clipboard, files, copies>>
        /\ prev_hash' = "" /\ held' = Nothing /\ owed' = {} /\ running' = r
        /\ last' = [p \in Paths |-> NoEvent]
    <3>1. starts' \in Nat \ {0}
      BY <1>10 DEF Restart, DTypes
    <3>2. UNCHANGED <<emitted, about, clipboard, files, copies>>
      BY <1>10 DEF Restart, Crash
    <3> QED
      BY <1>10, <3>1, <3>2 DEF Restart, Start
  <2>3. \A i \in DOMAIN found' : found'[i].text \in Texts
    BY <2>1
  <2>4. /\ last' \in [Paths -> Events \cup {NoEvent}]
        /\ \A p \in Paths : last'[p] # NoEvent => last'[p] \in emitted'
    BY <2>2
  <2> QED
    BY <2>1, <2>2, <2>3, <2>4 DEF DTypes, DetectorsTypeOK
<1>11. CASE UNCHANGED allVars
  BY <1>11 DEF allVars, vars, agentVars, detectorVars, clipVars, fileVars, DTypes, DetectorsTypeOK
<1> QED
  BY <1>1, <1>2, <1>3, <1>4, <1>5, <1>6, <1>7, <1>8, <1>9, <1>10, <1>11 DEF DetectorsNext

----------------------------------------------------------------------------
(* What was passed on stays passed on, while the process lives. *)

\* A send passes its event on.
LEMMA EmitPasses ==
  ASSUME PInv, NEW e \in Events, Emit(e), dropped' = dropped
  PROVE  /\ PassedOn(e)'
         /\ \A x : PassedOn(x) => PassedOn(x)'
<1>1. chan \in Seq(Events) /\ chan' = Append(chan, e) /\ queue' = queue
  BY DEF Emit, PInv, TypeOK
<1>2. /\ \A x : (\E i \in DOMAIN chan : chan[i] = x) => \E i \in DOMAIN chan' : chan'[i] = x
      /\ \E i \in DOMAIN chan' : chan'[i] = e
  BY <1>1, AppendMembers
<1> QED
  BY <1>1, <1>2 DEF PassedOn, Ids

\* The collector moves it to the queue, or drops it and says so.
LEMMA CollectPasses ==
  ASSUME PInv, Collected
  PROVE  \A x : PassedOn(x) => PassedOn(x)'
<1>1. /\ chan \in Seq(Events) /\ chan # <<>> /\ chan' = Tail(chan)
      /\ queue \in Seq(Events) /\ Head(chan) \in Events
  BY DEF Collected, Collect, PInv, TypeOK
<1>2. \A x : (\E i \in DOMAIN chan : chan[i] = x)
                => x = Head(chan) \/ \E i \in DOMAIN chan' : chan'[i] = x
  <2>1. \A x : (\E i \in DOMAIN chan : chan[i] = x)
                  => x = Head(chan) \/ \E i \in DOMAIN Tail(chan) : Tail(chan)[i] = x
    BY <1>1, TailMembers, Zenon
  <2> QED
    BY <1>1, <2>1, Zenon
<1>3. Ids = DOMAIN queue /\ Ids' = DOMAIN queue'
  <2>1. queue' \in Seq(Events)
    BY <1>1 DEF Collected, Collect
  <2> QED
    BY <1>1, <2>1 DEF Ids
<1>4. CASE queue' = Append(queue, Head(chan))
  <2>1. /\ \A x : (\E i \in DOMAIN queue : queue[i] = x) => \E i \in DOMAIN queue' : queue'[i] = x
        /\ \E i \in DOMAIN queue' : queue'[i] = Head(chan)
    <3>1. queue \in Seq(Events) /\ Head(chan) \in Events
      BY <1>1
    <3>2. /\ \A x : (\E i \in DOMAIN queue : queue[i] = x)
                  => \E i \in DOMAIN Append(queue, Head(chan)) : Append(queue, Head(chan))[i] = x
          /\ \E i \in DOMAIN Append(queue, Head(chan)) : Append(queue, Head(chan))[i] = Head(chan)
      BY <3>1, AppendMembers
    <3> QED
      BY <1>4, <3>2, Zenon
  <2>2. dropped \subseteq dropped'
    BY DEF Collected
  <2> QED
    BY <1>2, <1>3, <2>1, <2>2 DEF PassedOn
<1>5. CASE queue' = queue
  <2>1. dropped' = dropped \cup {Head(chan)}
    BY <1>5 DEF Collected
  <2> QED
    BY <1>2, <1>3, <1>5, <2>1 DEF PassedOn
<1> QED
  BY <1>4, <1>5 DEF Collected, Collect

\* The other steps do not touch the events.
LEMMA QuietPasses ==
  ASSUME UNCHANGED <<chan, queue, dropped>>
  PROVE  \A x : PassedOn(x) => PassedOn(x)'
  BY DEF PassedOn, Ids

\* While the process lives, an event about something stays one.
LEMMA ReportStays ==
  ASSUME PInv, DTypes, [DetectorsNext]_allVars,
         ~ \E r \in SUBSET {"clipscreen", "filemon"} : Restart(r)
  PROVE  /\ emitted \subseteq emitted'
         /\ \A x \in emitted : about'[x] = about[x]
         /\ \A x : PassedOn(x) => PassedOn(x)'
<1>1. CASE UNCHANGED <<vars, about, dropped>>
  <2>1. UNCHANGED <<chan, queue, dropped, emitted, about>>
    BY <1>1 DEF vars, agentVars
  <2> QED
    BY <2>1, QuietPasses
<1>2. ASSUME NEW e \in Events, ClipSend(e)
      PROVE  /\ emitted \subseteq emitted'
             /\ \A x \in emitted : about'[x] = about[x]
             /\ \A x : PassedOn(x) => PassedOn(x)'
  BY <1>2, EmitPasses, EmitAbout DEF ClipSend
<1>3. ASSUME NEW e \in Events, FileSend(e)
      PROVE  /\ emitted \subseteq emitted'
             /\ \A x \in emitted : about'[x] = about[x]
             /\ \A x : PassedOn(x) => PassedOn(x)'
  BY <1>3, EmitPasses, EmitAbout DEF FileSend
<1>4. CASE Collected
  <2>1. emitted' = emitted /\ about' = about
    BY <1>4 DEF Collected, Collect
  <2> QED
    BY <1>4, <2>1, CollectPasses
<1>5. CASE UNCHANGED allVars
  BY <1>1, <1>5 DEF allVars, detectorVars
<1>6. CASE \/ \E t \in Texts : Copy(t)
           \/ Clear
           \/ \E p \in Paths, c \in Contents \cup {"absent"} : Write(p, c)
           \/ ClipPoll \/ FileMeta \/ FileRead
  BY <1>1, <1>6 DEF Copy, Clear, Write, ClipPoll, FileMeta, FileRead
<1> QED
  BY <1>2, <1>3, <1>4, <1>5, <1>6 DEF DetectorsNext

----------------------------------------------------------------------------
(* The clipboard. *)

\* No match of a text is skipped between the poll that notices the text and the
\* channel.
LEMMA ReportedStep ==
  ASSUME PInv, DTypes, ClipboardReported, [DetectorsNext]_allVars
  PROVE  ClipboardReported'
<1>1. ASSUME NEW r \in SUBSET {"clipscreen", "filemon"}, Restart(r)
      PROVE  ClipboardReported'
  BY <1>1 DEF Restart, Start, ClipboardReported
<1>2. ASSUME ~ \E r \in SUBSET {"clipscreen", "filemon"} : Restart(r),
             UNCHANGED <<prev_hash, found>>
      PROVE  ClipboardReported'
  BY <1>2, ReportStays DEF ClipboardReported
<1>3. CASE ClipPoll
  <2>1. clipboard \in Texts /\ prev_hash' = clipboard /\ found' = Matches(clipboard)
    BY <1>3 DEF ClipPoll, DTypes, DetectorsTypeOK
  <2> QED
    BY <2>1, MatchesQueue DEF ClipboardReported
<1>4. ASSUME NEW e \in Events, ClipSend(e)
      PROVE  ClipboardReported'
  <2>1. /\ found \in Seq([text : Texts, match : Nat]) /\ found # <<>> /\ found' = Tail(found)
        /\ prev_hash' = prev_hash /\ Emit(e)
    BY <1>4 DEF ClipSend, DTypes
  <2>2. \A x : (\E i \in DOMAIN found : found[i] = x)
                  => x = Head(found) \/ \E i \in DOMAIN found' : found'[i] = x
    <3>1. \A x : (\E i \in DOMAIN found : found[i] = x)
                    => x = Head(found) \/ \E i \in DOMAIN Tail(found) : Tail(found)[i] = x
      BY <2>1, TailMembers, Zenon
    <3> QED
      BY <2>1, <3>1, Zenon
  <2>3. /\ e \in emitted' /\ emitted \subseteq emitted'
        /\ about'[e] = Head(found)
        /\ \A x \in emitted : about'[x] = about[x]
    BY <1>4, EmitAbout DEF ClipSend
  <2>4. PassedOn(e)' /\ \A x : PassedOn(x) => PassedOn(x)'
    BY <1>4, EmitPasses DEF ClipSend
  <2> QED
    BY <2>1, <2>2, <2>3, <2>4 DEF ClipboardReported
<1>5. CASE \/ \E t \in Texts : Copy(t)
           \/ Clear
           \/ \E p \in Paths, c \in Contents \cup {"absent"} : Write(p, c)
           \/ FileMeta \/ FileRead
           \/ \E e \in Events : FileSend(e)
           \/ Collected
           \/ UNCHANGED allVars
  <2>1. UNCHANGED <<prev_hash, found>>
    BY <1>5 DEF Copy, Clear, Write, FileMeta, FileRead, FileSend, Collected,
                allVars, detectorVars, clipVars
  <2> QED
    BY <1>1, <1>2, <2>1
<1> QED
  BY <1>1, <1>3, <1>4, <1>5 DEF DetectorsNext

\* The account of a match: events about it, and those to come.
Account(t, k) == Cardinality(Reports(Match(t, k))) + Waiting(Match(t, k)) + Unnoticed(t)

\* The reports of a match are finitely many; a send about something else leaves
\* them, and a send about the match adds one.
LEMMA ReportsFinite ==
  ASSUME DTypes, NEW m
  PROVE  IsFiniteSet(Reports(m)) /\ Cardinality(Reports(m)) \in Nat
  BY FS_Subset, FS_CardinalityType DEF DTypes, Reports

LEMMA ReportsAfterSend ==
  ASSUME DTypes, NEW e \in Events, Emit(e), NEW n,
         about' = [x \in emitted' |-> IF x = e THEN n ELSE about[x]], NEW m
  PROVE  Cardinality(Reports(m)') = Cardinality(Reports(m)) + IF m = n THEN 1 ELSE 0
<1>1. /\ emitted' = emitted \cup {e} /\ e \notin emitted
      /\ about'[e] = n /\ \A x \in emitted : about'[x] = about[x]
  BY EmitAbout
<1>2. CASE m = n
  <2>1. Reports(m)' = Reports(m) \cup {e} /\ e \notin Reports(m)
    BY <1>1, <1>2 DEF Reports
  <2> QED
    BY <1>2, <2>1, ReportsFinite, FS_AddElement
<1>3. CASE m # n
  <2>1. Reports(m)' = Reports(m)
    BY <1>1, <1>3 DEF Reports
  <2> QED
    BY <1>3, <2>1, ReportsFinite
<1> QED
  BY <1>2, <1>3

\* A text that is copied is reported once per match: every step that adds to an
\* account is a copy or a restart, which the bound allows for.
LEMMA OnceStep ==
  ASSUME PInv, DTypes, OncePerStay, [DetectorsNext]_allVars
  PROVE  OncePerStay'
<1> DEFINE Distinct == \A i, j \in DOMAIN found : found[i] = found[j] => i = j
<1>1. /\ Distinct
      /\ \A t \in Texts : \A k \in 1 .. Hits[t] : Account(t, k) <= copies[t] + starts - 1
      /\ copies \in [Texts -> Nat] /\ starts \in Nat
  BY DEF OncePerStay, Account, DTypes
<1>2. \A m : Cardinality(Reports(m)) \in Nat
  BY ReportsFinite
<1>3. SUFFICES /\ Distinct'
               /\ \A t \in Texts : \A k \in 1 .. Hits[t] :
                     Account(t, k)' <= copies'[t] + starts' - 1
  BY DEF OncePerStay, Account
<1>4. ASSUME NEW t \in Texts, Copy(t)
      PROVE  /\ Distinct'
             /\ \A u \in Texts : \A k \in 1 .. Hits[u] :
                   Account(u, k)' <= copies'[u] + starts' - 1
  <2>1. /\ UNCHANGED <<found, emitted, about, prev_hash, starts>>
        /\ clipboard' = t
        /\ copies' = [copies EXCEPT ![t] = @ + 1]
    BY <1>4 DEF Copy, vars, agentVars
  <2>2. ASSUME NEW u \in Texts, NEW k \in 1 .. Hits[u]
        PROVE  Account(u, k)' <= copies'[u] + starts' - 1
    <3>1. /\ Reports(Match(u, k))' = Reports(Match(u, k))
          /\ Waiting(Match(u, k))' = Waiting(Match(u, k))
      BY <2>1 DEF Reports, Waiting
    <3>2. Account(u, k) <= copies[u] + starts - 1
      BY <1>1
    <3>3. CASE u = t
      <4>1. copies'[u] = copies[u] + 1
        BY <1>1, <2>1, <3>3
      <4>2. Unnoticed(u)' \in {0, 1} /\ Unnoticed(u) \in {0, 1}
        BY DEF Unnoticed
      <4>3. Waiting(Match(u, k)) \in {0, 1}
        BY DEF Waiting
      <4> QED
        BY <1>1, <1>2, <2>1, <3>1, <3>2, <4>1, <4>2, <4>3 DEF Account
    <3>4. CASE u # t
      <4>1. copies'[u] = copies[u]
        BY <1>1, <2>1, <3>4
      <4>2. Unnoticed(u)' = 0 /\ Unnoticed(u) \in {0, 1}
        BY <2>1, <3>4 DEF Unnoticed
      <4>3. Waiting(Match(u, k)) \in {0, 1}
        BY DEF Waiting
      <4> QED
        BY <1>1, <1>2, <2>1, <3>1, <3>2, <4>1, <4>2, <4>3 DEF Account
    <3> QED
      BY <3>3, <3>4
  <2> QED
    BY <1>1, <2>1, <2>2
<1>5. CASE Clear
  <2>1. UNCHANGED <<found, emitted, about, prev_hash, starts, copies>> /\ clipboard' = ""
    BY <1>5 DEF Clear, vars, agentVars
  <2>2. ASSUME NEW u \in Texts, NEW k \in 1 .. Hits[u]
        PROVE  Account(u, k)' <= copies'[u] + starts' - 1
    <3>1. /\ Reports(Match(u, k))' = Reports(Match(u, k))
          /\ Waiting(Match(u, k))' = Waiting(Match(u, k))
          /\ Waiting(Match(u, k)) \in {0, 1}
      BY <2>1 DEF Reports, Waiting
    <3>2. Unnoticed(u)' = 0 /\ Unnoticed(u) \in {0, 1}
      BY <2>1 DEF Unnoticed
    <3>3. Cardinality(Reports(Match(u, k))) + Waiting(Match(u, k)) + Unnoticed(u)
            <= copies[u] + starts - 1
      BY <1>1 DEF Account
    <3>4. copies[u] \in Nat /\ copies'[u] = copies[u] /\ starts' = starts
      BY <1>1, <2>1
    <3>5. Cardinality(Reports(Match(u, k))') + Waiting(Match(u, k))' + Unnoticed(u)'
            <= copies'[u] + starts' - 1
      BY <1>1, <1>2, <3>1, <3>2, <3>3, <3>4
    <3> QED
      BY <3>5 DEF Account
  <2> QED
    BY <1>1, <2>1, <2>2
<1>6. CASE ClipPoll
  <2>1. /\ UNCHANGED <<emitted, about, starts, copies, clipboard>>
        /\ clipboard \in Texts /\ clipboard # "" /\ clipboard # prev_hash
        /\ found = <<>> /\ found' = Matches(clipboard) /\ prev_hash' = clipboard
    BY <1>6 DEF ClipPoll, vars, agentVars, DTypes, DetectorsTypeOK
  <2>2. Distinct'
    BY <2>1, MatchesQueue
  <2>3. ASSUME NEW u \in Texts, NEW k \in 1 .. Hits[u]
        PROVE  Account(u, k)' <= copies'[u] + starts' - 1
    <3>1. /\ Reports(Match(u, k))' = Reports(Match(u, k))
          /\ Waiting(Match(u, k))' \in {0, 1} /\ Waiting(Match(u, k)) = 0
      <4>1. DOMAIN found = {}
        <5>1. DOMAIN <<>> = {}
          OBVIOUS
        <5> QED
          BY <2>1, <5>1, Zenon
      <4> QED
        BY <2>1, <4>1 DEF Reports, Waiting
    <3>2. CASE u = clipboard
      <4>1. Unnoticed(u)' = 0 /\ Unnoticed(u) = 1
        BY <2>1, <3>2 DEF Unnoticed
      <4>2. Cardinality(Reports(Match(u, k))) + Waiting(Match(u, k)) + Unnoticed(u)
              <= copies[u] + starts - 1
        BY <1>1 DEF Account
      <4>3. copies[u] \in Nat /\ copies'[u] = copies[u] /\ starts' = starts
        BY <1>1, <2>1
      <4>4. Cardinality(Reports(Match(u, k))') + Waiting(Match(u, k))' + Unnoticed(u)'
              <= copies'[u] + starts' - 1
        BY <1>1, <1>2, <3>1, <4>1, <4>2, <4>3
      <4> QED
        BY <4>4 DEF Account
    <3>3. CASE u # clipboard
      <4>1. Unnoticed(u)' = 0 /\ Unnoticed(u) = 0
        BY <2>1, <3>3 DEF Unnoticed
      <4>2. Waiting(Match(u, k))' = 0
        <5>1. \A i \in DOMAIN found' : found'[i].text = clipboard
          BY <2>1, MatchesQueue
        <5>2. Match(u, k).text = u
          BY DEF Match
        <5> QED
          BY <3>3, <5>1, <5>2 DEF Waiting
      <4> QED
        BY <1>1, <1>2, <2>1, <3>1, <4>1, <4>2 DEF Account
    <3> QED
      BY <3>2, <3>3
  <2> QED
    BY <2>2, <2>3
<1>7. ASSUME NEW e \in Events, ClipSend(e)
      PROVE  /\ Distinct'
             /\ \A u \in Texts : \A k \in 1 .. Hits[u] :
                   Account(u, k)' <= copies'[u] + starts' - 1
  <2>1. /\ UNCHANGED <<prev_hash, starts, copies, clipboard>>
        /\ found \in Seq([text : Texts, match : Nat]) /\ found # <<>> /\ found' = Tail(found)
    BY <1>7 DEF ClipSend, DTypes
  <2>2. Distinct' /\ \A i \in DOMAIN found' : found'[i] # Head(found)
    BY <1>1, <2>1, TailDistinct
  <2>3. ASSUME NEW u \in Texts, NEW k \in 1 .. Hits[u]
        PROVE  Account(u, k)' <= copies'[u] + starts' - 1
    <3> DEFINE m == Match(u, k)
    <3>1. Cardinality(Reports(m)') = Cardinality(Reports(m)) + IF m = Head(found) THEN 1 ELSE 0
      BY <1>7, ReportsAfterSend DEF ClipSend
    <3>2. Unnoticed(u)' = Unnoticed(u) /\ Unnoticed(u) \in {0, 1}
      BY <2>1 DEF Unnoticed
    <3>3. Waiting(m)' = Waiting(m) - IF m = Head(found) THEN 1 ELSE 0
      <4>1. CASE m = Head(found)
        <5>1. 1 \in DOMAIN found /\ Head(found) = found[1]
          BY <2>1
        <5> QED
          BY <2>2, <4>1, <5>1 DEF Waiting
      <4>2. CASE m # Head(found)
        <5>1. (\E i \in DOMAIN found : found[i] = m)
                <=> \E i \in DOMAIN Tail(found) : Tail(found)[i] = m
          <6>1. /\ \A x : (\E i \in DOMAIN found : found[i] = x)
                             => x = Head(found) \/ \E i \in DOMAIN Tail(found) : Tail(found)[i] = x
                /\ \A x : (\E i \in DOMAIN Tail(found) : Tail(found)[i] = x)
                             => \E i \in DOMAIN found : found[i] = x
            BY <2>1, TailMembers, Zenon
          <6> HIDE DEF m
          <6> QED
            BY <4>2, <6>1, Zenon
        <5>2. (\E i \in DOMAIN found : found[i] = m)
                <=> \E i \in DOMAIN found' : found'[i] = m
          BY <2>1, <5>1, Zenon
        <5>3. Waiting(m)' = Waiting(m) /\ Waiting(m) \in {0, 1}
          BY <5>2 DEF Waiting
        <5> QED
          BY <4>2, <5>3
      <4> QED
        BY <4>1, <4>2
    <3>4. Waiting(m) \in {0, 1}
      BY DEF Waiting
    <3>5. Account(u, k) <= copies[u] + starts - 1
      BY <1>1
    <3> HIDE DEF m
    <3>6. Cardinality(Reports(m)') + Waiting(m)' + Unnoticed(u)'
            = Cardinality(Reports(m)) + Waiting(m) + Unnoticed(u)
      BY <1>2, <3>1, <3>2, <3>3, <3>4
    <3>7. Cardinality(Reports(m)) + Waiting(m) + Unnoticed(u) <= copies[u] + starts - 1
      BY <3>5 DEF Account, m
    <3>8. Cardinality(Reports(m)') + Waiting(m)' + Unnoticed(u)' <= copies'[u] + starts' - 1
      BY <2>1, <3>6, <3>7
    <3> QED
      BY <3>8 DEF Account, m
  <2> QED
    BY <2>2, <2>3
<1>8. ASSUME NEW e \in Events, FileSend(e)
      PROVE  /\ Distinct'
             /\ \A u \in Texts : \A k \in 1 .. Hits[u] :
                   Account(u, k)' <= copies'[u] + starts' - 1
  <2>1. UNCHANGED <<prev_hash, starts, copies, clipboard, found>>
    BY <1>8 DEF FileSend, clipVars
  <2>2. held.say \in Inspected
    BY <1>8 DEF FileSend, DTypes, DetectorsTypeOK
  <2>3. ASSUME NEW u \in Texts, NEW k \in 1 .. Hits[u]
        PROVE  Account(u, k)' <= copies'[u] + starts' - 1
    <3>1. held.say # Match(u, k)
      BY <2>2 DEF Inspected, Match
    <3>2. Cardinality(Reports(Match(u, k))') = Cardinality(Reports(Match(u, k)))
      <4>1. Cardinality(Reports(Match(u, k))')
              = Cardinality(Reports(Match(u, k))) + IF Match(u, k) = held.say THEN 1 ELSE 0
        BY <1>8, ReportsAfterSend DEF FileSend
      <4> QED
        BY <1>2, <3>1, <4>1
    <3>3. Waiting(Match(u, k))' = Waiting(Match(u, k)) /\ Unnoticed(u)' = Unnoticed(u)
      BY <2>1 DEF Waiting, Unnoticed
    <3> QED
      BY <1>1, <2>1, <3>2, <3>3 DEF Account
  <2> QED
    BY <1>1, <2>1, <2>3
<1>9. ASSUME NEW r \in SUBSET {"clipscreen", "filemon"}, Restart(r)
      PROVE  /\ Distinct'
             /\ \A u \in Texts : \A k \in 1 .. Hits[u] :
                   Account(u, k)' <= copies'[u] + starts' - 1
  <2>1. /\ UNCHANGED <<emitted, about, copies, clipboard>>
        /\ found' = <<>> /\ starts' = starts + 1
    BY <1>9 DEF Restart, Start, Crash
  <2>2. ASSUME NEW u \in Texts, NEW k \in 1 .. Hits[u]
        PROVE  Account(u, k)' <= copies'[u] + starts' - 1
    <3>1. /\ Reports(Match(u, k))' = Reports(Match(u, k))
          /\ Waiting(Match(u, k))' = 0 /\ Waiting(Match(u, k)) \in {0, 1}
          /\ Unnoticed(u)' \in {0, 1} /\ Unnoticed(u) \in {0, 1}
      BY <2>1 DEF Reports, Waiting, Unnoticed
    <3>2. Account(u, k) <= copies[u] + starts - 1
      BY <1>1
    <3> QED
      BY <1>1, <1>2, <2>1, <3>1, <3>2 DEF Account
  <2> QED
    BY <2>1, <2>2
<1>10. CASE \/ \E p \in Paths, c \in Contents \cup {"absent"} : Write(p, c)
            \/ FileMeta \/ FileRead \/ Collected
            \/ UNCHANGED allVars
  <2>1. UNCHANGED <<clipboard, prev_hash, found, copies, starts, emitted, about>>
    BY <1>10 DEF Write, FileMeta, FileRead, Collected, Collect, clipVars, vars, agentVars,
                 allVars, detectorVars
  <2> QED
    BY <1>1, <2>1 DEF Account, Reports, Waiting, Unnoticed
<1> QED
  BY <1>4, <1>5, <1>6, <1>7, <1>8, <1>9, <1>10 DEF DetectorsNext

----------------------------------------------------------------------------
(* Files. *)

FileInv == InspectionIsCurrent /\ FileLastWord

\* A step that touches neither the files nor what filemon knows of them.
LEMMA FilesUntouched ==
  ASSUME PInv, DTypes, FileInv, [DetectorsNext]_allVars, UNCHANGED fileVars,
         ~ \E r \in SUBSET {"clipscreen", "filemon"} : Restart(r)
  PROVE  FileInv'
<1>1. /\ emitted \subseteq emitted'
      /\ \A x \in emitted : about'[x] = about[x]
      /\ \A x : PassedOn(x) => PassedOn(x)'
  BY ReportStays
<1>2. InspectionIsCurrent'
  BY DEF FileInv, InspectionIsCurrent, fileVars, Working, Notified
<1>3. \A p \in owed : last[p] # NoEvent => last[p] \in emitted
  BY DEF DTypes, DetectorsTypeOK
<1>4. FileLastWord'
  BY <1>1, <1>3 DEF FileInv, FileLastWord, fileVars
<1> QED
  BY <1>2, <1>4 DEF FileInv

\* A file that changes is owed a last word only if its notification waits.
LEMMA WriteFiles ==
  ASSUME DTypes, FileInv, NEW p \in Paths, NEW c \in Contents \cup {"absent"}, Write(p, c)
  PROVE  FileInv'
<1>1. /\ UNCHANGED <<chan, queue, dropped, held, last, about>>
      /\ files' = [files EXCEPT ![p] = c]
      /\ raw \in Seq(Paths) /\ Len(raw) <= RawCapacity
  BY DEF Write, vars, agentVars, DTypes, DetectorsTypeOK
<1>2. /\ \A q : Notified(q) => Notified(q)'
      /\ \A q \in owed' : Notified(q)' \/ (q \in owed /\ q # p)
  <2>1. CASE Notify(p) /\ owed' = owed \cup {p}
    BY <1>1, <2>1, NotifyQueues
  <2>2. CASE owed' = owed \ {p} /\ UNCHANGED raw
    BY <2>2 DEF Notified
  <2> QED
    BY <2>1, <2>2 DEF Write
<1>3. \A q \in Paths : q # p => files'[q] = files[q]
  BY <1>1 DEF DTypes, DetectorsTypeOK
<1>4. owed \subseteq Paths
  BY DEF DTypes, DetectorsTypeOK
<1>5. \A x : PassedOn(x) => PassedOn(x)'
  BY <1>1, QuietPasses
<1>6. InspectionIsCurrent'
  BY <1>1, <1>2, <1>3, <1>4 DEF FileInv, InspectionIsCurrent, Working
<1>7. FileLastWord'
  BY <1>1, <1>2, <1>3, <1>4, <1>5 DEF FileInv, FileLastWord, Working, Notified
<1> QED
  BY <1>6, <1>7 DEF FileInv

\* The first read is of the file as it is.
LEMMA MetaFiles ==
  ASSUME DTypes, FileInv, FileMeta
  PROVE  FileInv'
<1>1. /\ UNCHANGED <<chan, queue, dropped, files, last, owed, about>>
      /\ held = Nothing
      /\ raw \in Seq(Paths) /\ raw # <<>> /\ raw' = Tail(raw)
  BY DEF FileMeta, vars, agentVars, DTypes, DetectorsTypeOK
<1> DEFINE p == Head(raw)
<1>2. /\ held'.say.path = p /\ held'.say.size = files[p] /\ held'.say.sha = "absent"
      /\ held'.say = [path |-> p, size |-> files[p], sha |-> "absent"]
      /\ held'.stage = IF files[p] \in Small THEN "read" ELSE "send"
  BY DEF FileMeta
<1>3. held' # Nothing
  <2>1. held'.stage # Nothing.stage
    BY <1>2 DEF Nothing
  <2> QED
    BY <2>1
<1>4. \A q : Notified(q) => q = p \/ Notified(q)'
  <2>1. \A x : (\E i \in DOMAIN raw : raw[i] = x)
                  => x = Head(raw) \/ \E i \in DOMAIN Tail(raw) : Tail(raw)[i] = x
    BY <1>1, TailMembers, Zenon
  <2> QED
    BY <1>1, <2>1, Zenon DEF Notified
<1>5. \A x : PassedOn(x) => PassedOn(x)'
  BY <1>1, QuietPasses
<1>6. InspectionIsCurrent'
  BY <1>1, <1>2 DEF InspectionIsCurrent, Working, Describe
<1> HIDE DEF p
<1>7. FileLastWord'
  BY <1>1, <1>2, <1>3, <1>4, <1>5 DEF FileInv, FileLastWord, Working, Notified
<1> QED
  BY <1>6, <1>7 DEF FileInv

\* So is the second, unless a notification waits.
LEMMA ReadFiles ==
  ASSUME DTypes, FileInv, FileRead
  PROVE  FileInv'
<1>1. /\ UNCHANGED <<chan, queue, dropped, files, last, owed, about>>
      /\ held \in [stage : {"read", "send"}, say : Inspected]
      /\ held # Nothing /\ held.stage = "read"
      /\ raw \in Seq(Paths) /\ Len(raw) <= RawCapacity
  BY DEF FileRead, vars, agentVars, DTypes, DetectorsTypeOK
<1> DEFINE p == held.say.path
<1>2. /\ held' = [stage |-> "send", say |-> [held.say EXCEPT !.sha = Sha(files[p])]]
      /\ held.say \in Inspected
      /\ p \in Paths
  BY <1>1 DEF FileRead, Inspected
<1>3. /\ held'.say = [path |-> p, size |-> held.say.size, sha |-> Sha(files[p])]
      /\ held'.say.path = p
      /\ held'.stage = "send"
  BY <1>2 DEF Inspected
<1>4. held' # Nothing
  <2>1. held'.stage # Nothing.stage
    BY <1>3 DEF Nothing
  <2> QED
    BY <2>1
<1>5. \A q : Notified(q) => Notified(q)'
  BY <1>1, <1>2, NotifyQueues DEF FileRead, Notified
<1>6. \A x : PassedOn(x) => PassedOn(x)'
  BY <1>1, QuietPasses
<1>7. \A q : Working(q)' <=> Working(q)
  BY <1>1, <1>3, <1>4 DEF Working
<1>8. InspectionIsCurrent'
  <2> SUFFICES ASSUME p \in owed, ~Notified(p)
               PROVE  held'.say.size = files[p] /\ held'.say = Describe(p, files[p])
    BY <1>1, <1>3, <1>5, <1>7 DEF InspectionIsCurrent, Working
  <2>1. held.say.size = files[p] /\ files[p] \in Small
    BY <1>1 DEF FileInv, InspectionIsCurrent, Working
  <2> QED
    BY <1>3, <2>1 DEF Describe
<1> HIDE DEF p
<1>9. FileLastWord'
  BY <1>1, <1>5, <1>6, <1>7 DEF FileInv, FileLastWord, Working, Notified
<1> QED
  BY <1>8, <1>9 DEF FileInv

\* What is sent is the last word, unless a notification waits.
LEMMA SendFiles ==
  ASSUME PInv, DTypes, FileInv, NEW e \in Events, FileSend(e)
  PROVE  FileInv'
<1>1. /\ UNCHANGED <<files, raw, owed>>
      /\ held # Nothing /\ held.stage = "send" /\ held' = Nothing
      /\ last' = [last EXCEPT ![held.say.path] = e]
      /\ last \in [Paths -> Events \cup {NoEvent}]
      /\ owed \subseteq Paths
  BY DEF FileSend, DTypes, DetectorsTypeOK
<1>2. /\ about'[e] = held.say
      /\ \A x \in emitted : about'[x] = about[x]
  BY EmitAbout DEF FileSend
<1>3. /\ PassedOn(e)'
      /\ \A x : PassedOn(x) => PassedOn(x)'
  BY EmitPasses DEF FileSend
<1>4. e # NoEvent
  BY DetectorsAssumption
<1>5. InspectionIsCurrent'
  BY <1>1 DEF InspectionIsCurrent, Working
<1>6. FileLastWord'
  <2> SUFFICES ASSUME NEW p \in owed, ~Notified(p)
               PROVE  /\ last'[p] # NoEvent
                      /\ about'[last'[p]] = Describe(p, files[p])
                      /\ PassedOn(last[p])'
    BY <1>1 DEF FileLastWord, Notified
  <2>1. CASE p = held.say.path
    <3>1. last'[p] = e
      BY <1>1, <2>1
    <3>2. held.say = Describe(p, files[p])
      BY <1>1, <2>1 DEF FileInv, InspectionIsCurrent, Working
    <3> QED
      BY <1>2, <1>3, <1>4, <3>1, <3>2
  <2>2. CASE p # held.say.path
    <3>1. last'[p] = last[p]
      BY <1>1, <2>2
    <3>2. last[p] # NoEvent /\ about[last[p]] = Describe(p, files[p]) /\ PassedOn(last[p])
      BY <2>2 DEF FileInv, FileLastWord, Notified
    <3>3. last[p] \in emitted
      BY <1>1, <3>2 DEF DTypes
    <3> QED
      BY <1>2, <1>3, <3>1, <3>2, <3>3
  <2> QED
    BY <2>1, <2>2
<1> QED
  BY <1>5, <1>6 DEF FileInv

LEMMA FileStep ==
  ASSUME PInv, DTypes, FileInv, [DetectorsNext]_allVars
  PROVE  FileInv'
<1>1. ASSUME NEW r \in SUBSET {"clipscreen", "filemon"}, Restart(r)
      PROVE  FileInv'
  <2>1. owed' = {}
    BY <1>1 DEF Restart, Start
  <2> QED
    BY <2>1 DEF FileInv, InspectionIsCurrent, FileLastWord
<1>2. CASE \/ \E t \in Texts : Copy(t)
           \/ Clear \/ ClipPoll
           \/ \E e \in Events : ClipSend(e)
           \/ Collected
           \/ UNCHANGED allVars
  <2>1. UNCHANGED fileVars
    BY <1>2 DEF Copy, Clear, ClipPoll, ClipSend, Collected, allVars, detectorVars
  <2> QED
    BY <1>1, <2>1, FilesUntouched
<1> QED
  BY <1>1, <1>2, WriteFiles, MetaFiles, ReadFiles, SendFiles DEF DetectorsNext

----------------------------------------------------------------------------
(* The theorems. *)

LEMMA InitDInv == DetectorsInit => DInv
<1> SUFFICES ASSUME DetectorsInit
             PROVE  DInv
  OBVIOUS
<1> USE DetectorsAssumption
<1> DEFINE M == [text : Texts, match : Nat]
<1>1. /\ found = <<>> /\ raw = <<>> /\ about = <<>> /\ emitted = {} /\ held = Nothing
      /\ clipboard = "" /\ prev_hash = "" /\ owed = {} /\ starts = 1
      /\ copies = [t \in Texts |-> 0]
      /\ files = [p \in Paths |-> "absent"]
      /\ last = [p \in Paths |-> NoEvent]
      /\ running \in SUBSET {"clipscreen", "filemon"}
  BY DEF DetectorsInit, Init
<1>2. /\ <<>> \in Seq(M) /\ <<>> \in Seq(Paths) /\ DOMAIN <<>> = {} /\ Len(<<>>) = 0
  OBVIOUS
<1>3. /\ found \in Seq(M) /\ DOMAIN found = {}
      /\ raw \in Seq(Paths) /\ Len(raw) = 0
      /\ DOMAIN about = {}
  BY <1>1, <1>2
<1>4. IsFiniteSet(emitted)
  BY <1>1, FS_EmptySet
<1>5. DetectorsTypeOK
  <2>1. /\ files \in [Paths -> Contents \cup {"absent"}]
        /\ last \in [Paths -> Events \cup {NoEvent}]
    BY <1>1
  <2>2. Len(raw) <= RawCapacity
    BY <1>3
  <2>3. \A i \in DOMAIN found : found[i].text \in Texts
    BY <1>3
  <2> QED
    BY <1>1, <1>3, <2>1, <2>2, <2>3 DEF DetectorsTypeOK
<1>6. DTypes
  <2>1. copies \in [Texts -> Nat] /\ starts \in Nat \ {0}
    <3>1. 0 \in Nat /\ 1 \in Nat \ {0}
      OBVIOUS
    <3>2. copies \in [Texts -> Nat]
      BY <1>1, <3>1
    <3> QED
      BY <1>1, <3>1, <3>2, Zenon
  <2>2. \A p \in Paths : last[p] = NoEvent
    BY <1>1
  <2> QED
    BY <1>3, <1>4, <1>5, <2>1, <2>2 DEF DTypes
<1>7. ClipboardReported /\ InspectionIsCurrent /\ FileLastWord
  BY <1>1 DEF ClipboardReported, InspectionIsCurrent, FileLastWord
<1>8. OncePerStay
  <2>1. ASSUME NEW t \in Texts, NEW k \in 1 .. Hits[t]
        PROVE  Cardinality(Reports(Match(t, k))) + Waiting(Match(t, k)) + Unnoticed(t)
                 <= copies[t] + starts - 1
    <3>1. Reports(Match(t, k)) = {}
      BY <1>1 DEF Reports
    <3>2. Cardinality(Reports(Match(t, k))) = 0
      BY <3>1, FS_EmptySet
    <3>3. Waiting(Match(t, k)) = 0 /\ Unnoticed(t) = 0
      BY <1>1, <1>3 DEF Waiting, Unnoticed
    <3>4. copies[t] = 0 /\ starts = 1
      BY <1>1
    <3> QED
      BY <3>2, <3>3, <3>4
  <2> QED
    BY <1>3, <2>1 DEF OncePerStay
<1> QED
  BY <1>6, <1>7, <1>8 DEF DInv

\* The inductive invariant, on top of the pipeline's.
LEMMA DetectorsInvariant == DetectorsSpec => [](PInv /\ DInv)
<1>1. DetectorsInit => DInv
  BY InitDInv
<1>2. PInv /\ DInv /\ [DetectorsNext]_allVars => DInv'
  BY DTypesStep, ReportedStep, FileStep, OnceStep DEF DInv, FileInv
<1>3. DetectorsSpec => []PInv
  BY DetectorsFeedThePipeline, PipelineInvariant, PTL
<1> QED
  BY <1>1, <1>2, <1>3, PTL DEF DetectorsSpec

\* Types: among the rest, every emitted event is about something, and no more
\* notifications wait than the kernel and the channel hold.
THEOREM DetectorsTypes == DetectorsSpec => []DetectorsTypeOK
<1>1. DInv => DetectorsTypeOK
  BY DEF DInv, DTypes
<1> QED
  BY <1>1, DetectorsInvariant, PTL

\* No match of a text the poller will skip is lost on its way to the queue,
\* except by a failing enqueue (clipboard.rs, main.rs).
THEOREM ClipboardIsReported == DetectorsSpec => []ClipboardReported
<1>1. DInv => ClipboardReported
  BY DEF DInv
<1> QED
  BY <1>1, DetectorsInvariant, PTL

\* A text is reported at most once for every time it came onto the clipboard
\* and every restart, whenever the polls fall (clipboard.rs).
THEOREM ClipboardIsReportedOnce == DetectorsSpec => []ClipboardOnce
<1>1. DInv => ClipboardOnce
  <2> SUFFICES ASSUME DInv, NEW t \in Texts, NEW k \in 1 .. Hits[t]
               PROVE  Cardinality({e \in emitted : about[e] = Match(t, k)})
                        <= copies[t] + starts - 1
    BY DEF ClipboardOnce
  <2>1. Cardinality(Reports(Match(t, k))) + Waiting(Match(t, k)) + Unnoticed(t)
          <= copies[t] + starts - 1
    BY DEF DInv, OncePerStay
  <2>2. Cardinality(Reports(Match(t, k))) \in Nat
    BY ReportsFinite DEF DInv
  <2>3. Waiting(Match(t, k)) \in {0, 1} /\ Unnoticed(t) \in {0, 1}
    BY DEF Waiting, Unnoticed
  <2>4. copies[t] \in Nat /\ starts \in Nat
    BY DEF DInv, DTypes
  <2>5. Cardinality(Reports(Match(t, k))) <= copies[t] + starts - 1
    BY <2>1, <2>2, <2>3, <2>4
  <2> QED
    BY <2>5 DEF Reports
<1> QED
  BY <1>1, DetectorsInvariant, PTL

\* The last event about a file whose changes were all notified describes it as
\* it is, although every inspection reads twice while the file may change and
\* notifications may be merged (filemon.rs).
THEOREM LastWordIsTrue == DetectorsSpec => []FileLastWord
<1>1. DInv => FileLastWord
  BY DEF DInv
<1> QED
  BY <1>1, DetectorsInvariant, PTL
=============================================================================
