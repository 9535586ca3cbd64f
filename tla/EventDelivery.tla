--------------------------- MODULE EventDelivery ---------------------------
(***************************************************************************)
(* What the event pipeline promises the reader of the `events` table, with *)
(* everything between the detectors and the table left out: a row is an    *)
(* event some detector emitted, an event has at most one row, and a row    *)
(* stays.  Events may be lost.  EventPipeline implements this.             *)
(***************************************************************************)
CONSTANT Events

VARIABLES
    known,      \* events the detectors have emitted
    table       \* table[e]: number of rows for event e

dvars == <<known, table>>

DInit ==
    /\ known = {}
    /\ table = [e \in Events |-> 0]

DEmit(e) ==
    /\ e \notin known
    /\ known' = known \cup {e}
    /\ UNCHANGED table

\* One transaction of the manager: a set of events that had no row gets one.
DStore(batch) ==
    /\ batch \subseteq {e \in known : table[e] = 0}
    /\ table' = [e \in Events |-> IF e \in batch THEN 1 ELSE table[e]]
    /\ UNCHANGED known

DNext ==
    \/ \E e \in Events : DEmit(e)
    \/ \E batch \in SUBSET Events : DStore(batch)

DSpec == DInit /\ [][DNext]_dvars
============================================================================
