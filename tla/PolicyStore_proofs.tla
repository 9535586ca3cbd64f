------------------------ MODULE PolicyStore_proofs ------------------------
(***************************************************************************)
(* Proofs about PolicyStore, for any number of concurrent requests, any    *)
(* policies and any set of endpoints.                                      *)
(***************************************************************************)
EXTENDS PolicyStore, TLAPS

\* The tables start empty.
LEMMA StoreInitType == StoreInit => StoreTypeOK
  BY StoreAssumption DEF StoreInit, StoreTypeOK, HandlerPc

\* A version read from the table, bumped, is still an integer.
LEMMA BumpType == \A v \in Int : Bump(v) \in Int
  BY StoreAssumption DEF Bump

\* An UPDATE or an INSERT of one row keeps the primary key of `policies`.
LEMMA KeyKept ==
  ASSUME StoreTypeOK, NEW row \in Row,
         policies' \subseteq {p \in policies : p.name # row.name} \cup {row}
  PROVE  /\ policies' \subseteq Row
         /\ \A p, q \in policies' : p.name = q.name => p = q
  BY DEF StoreTypeOK

\* Each statement of the four handlers preserves the types.
LEMMA HandlerStepType ==
  ASSUME StoreTypeOK, NEW r \in Handlers, HandlerStep(r)
  PROVE  StoreTypeOK'
<1> USE StoreAssumption DEF StoreTypeOK, HandlerPc, Goto, Return, Begin
<1>1. CASE CreateCheck(r)
  <2>1. PICK n \in Names, v \in YamlVersions, c \in Contents :
             Goto(r, "insert", [name |-> n, version |-> DbVersion(v), content |-> c])
    BY <1>1 DEF CreateCheck
  <2>2. [name |-> n, version |-> DbVersion(v), content |-> c] \in Row
    BY DEF DbVersion, Row
  <2> QED
    BY <1>1, <2>1, <2>2 DEF CreateCheck
<1>2. CASE CreateInsert(r)
  <2>1. arg[r] \in Row
    BY <1>2 DEF CreateInsert
  <2>2. policies' \subseteq {p \in policies : p.name # arg[r].name} \cup {arg[r]} \/ UNCHANGED policies
    BY <1>2 DEF CreateInsert, Rows
  <2>3. /\ policies' \subseteq Row
        /\ \A p, q \in policies' : p.name = q.name => p = q
    BY <2>1, <2>2, KeyKept
  <2> QED
    BY <1>2, <2>1, <2>3 DEF CreateInsert
<1>3. CASE UpdateRead(r)
  <2>1. PICK p \in policies, c \in Contents :
             Goto(r, "update", [p EXCEPT !.version = Bump(p.version), !.content = c])
    BY <1>3 DEF UpdateRead
  <2>2. [p EXCEPT !.version = Bump(p.version), !.content = c] \in Row
    <3>1. p \in Row /\ Bump(p.version) \in Int
      BY BumpType DEF Row
    <3>2. [p EXCEPT !.version = Bump(p.version)] \in Row
      BY <3>1 DEF Row
    <3> QED
      BY <3>1, <3>2 DEF Row
  <2> QED
    BY <1>3, <2>1, <2>2 DEF UpdateRead
<1>4. CASE UpdateWrite(r)
  <2>1. arg[r] \in Row
    BY <1>4 DEF UpdateWrite
  <2>2. policies' \subseteq {p \in policies : p.name # arg[r].name} \cup {arg[r]}
    BY <1>4 DEF UpdateWrite
  <2>3. /\ policies' \subseteq Row
        /\ \A p, q \in policies' : p.name = q.name => p = q
    BY <2>1, <2>2, KeyKept
  <2>4. /\ pc' = [pc EXCEPT ![r] = "history"]
        /\ raced' \subseteq {h \in Handlers : pc[h] = "update"} \ {r}
    BY <1>4 DEF UpdateWrite, Overwriting
  <2>5. raced' \subseteq {h \in Handlers : pc'[h] = "update"}
    BY <2>4
  <2> QED
    BY <1>4, <2>1, <2>3, <2>5 DEF UpdateWrite
<1>5. CASE RollbackFind(r)
  BY <1>5 DEF RollbackFind
<1>6. CASE RollbackRead(r)
  <2>1. CASE Return(r)
    BY <1>6, <2>1 DEF RollbackRead
  <2>2. CASE \E p \in Rows(arg[r].name) :
                Goto(r, "update", [arg[r] EXCEPT !.version = Bump(p.version)])
    <3>1. PICK p \in policies : Goto(r, "update", [arg[r] EXCEPT !.version = Bump(p.version)])
      BY <2>2 DEF Rows
    <3>2. [arg[r] EXCEPT !.version = Bump(p.version)] \in Row
      BY <1>6, BumpType DEF Row, RollbackRead
    <3> QED
      BY <1>6, <3>1, <3>2 DEF RollbackRead
  <2> QED
    BY <1>6, <2>1, <2>2 DEF RollbackRead
<1>7. CASE HistoryInsert(r)
  BY <1>7 DEF HistoryInsert
<1>8. CASE Notify(r)
  BY <1>8 DEF Notify
<1>9. CASE Abort(r)
  BY <1>9 DEF Abort
<1> QED
  BY <1>1, <1>2, <1>3, <1>4, <1>5, <1>6, <1>7, <1>8, <1>9 DEF HandlerStep

\* So do the DELETE and the bridge's receive.
LEMMA DeleteRowType ==
  ASSUME StoreTypeOK, NEW r \in Handlers, NEW n \in Names, DeleteRow(r, n)
  PROVE  StoreTypeOK'
<1>1. /\ pc[r] = "idle"
      /\ pc' = [pc EXCEPT ![r] = "notify"]
      /\ raced' \subseteq {h \in Handlers : pc[h] = "update"}
  BY DEF DeleteRow, Goto, Begin, Overwriting, StoreTypeOK
<1>2. raced' \subseteq {h \in Handlers : pc'[h] = "update"}
  BY <1>1 DEF StoreTypeOK
<1> QED
  BY <1>2, StoreAssumption DEF StoreTypeOK, HandlerPc, DeleteRow, Goto, Begin, Rows

LEMMA TakePushType ==
  ASSUME StoreTypeOK, TakePush
  PROVE  StoreTypeOK'
  BY StoreAssumption DEF StoreTypeOK, TakePush

\* The types of the policy tables and of the handlers' locals hold in every
\* state of the REST handlers (policies.rs).
THEOREM StoreTypes == StoreSpec => []StoreTypeOK
<1>1. StoreTypeOK /\ [StoreNext]_storeVars => StoreTypeOK'
  <2> SUFFICES ASSUME StoreTypeOK, [StoreNext]_storeVars
               PROVE  StoreTypeOK'
    OBVIOUS
  <2>1. CASE UNCHANGED storeVars
    BY <2>1 DEF storeVars, StoreTypeOK
  <2> QED
    BY <2>1, HandlerStepType, DeleteRowType, TakePushType DEF StoreNext
<1> QED
  BY <1>1, StoreInitType, PTL DEF StoreSpec

----------------------------------------------------------------------------
(* The audit trail. *)

\* No step takes a row out of the audit trail, unless a handler is cut short:
\* a row about to be inserted stays so until it is in the history.
LEMMA AuditGrows ==
  ASSUME StoreTypeOK, "abort" \notin Faults, [StoreNext]_storeVars
  PROVE  AuditRows \subseteq AuditRows'
<1> USE DEF StoreTypeOK, AuditRows, Goto, Return, Begin
<1>1. ASSUME NEW r \in Handlers, HandlerStep(r)
      PROVE  AuditRows \subseteq AuditRows'
  <2>1. CASE HistoryInsert(r)
    BY <1>1, <2>1 DEF HistoryInsert
  <2>2. CASE UNCHANGED history /\ pc[r] # "history" /\ \E w, row : Goto(r, w, row)
    BY <2>2
  <2> QED
    BY <1>1, <2>1, <2>2 DEF HandlerStep, CreateCheck, CreateInsert, UpdateRead, UpdateWrite,
       RollbackFind, RollbackRead, Notify, Abort
<1>2. ASSUME NEW r \in Handlers, NEW n \in Names, DeleteRow(r, n)
      PROVE  AuditRows \subseteq AuditRows'
  BY <1>2 DEF DeleteRow
<1>3. CASE TakePush \/ UNCHANGED storeVars
  BY <1>3 DEF TakePush, storeVars
<1> QED
  BY <1>1, <1>2, <1>3 DEF StoreNext

\* A row that appears in `policies` is about to be inserted in the history.
LEMMA NewRowsAudited ==
  ASSUME StoreTypeOK, [StoreNext]_storeVars
  PROVE  policies' \ policies \subseteq AuditRows'
<1> USE DEF StoreTypeOK, AuditRows, Goto, Return, Begin
<1>1. ASSUME NEW r \in Handlers, HandlerStep(r)
      PROVE  policies' \ policies \subseteq AuditRows'
  <2>1. CASE CreateInsert(r)
    BY <1>1, <2>1 DEF CreateInsert
  <2>2. CASE UpdateWrite(r)
    BY <1>1, <2>2 DEF UpdateWrite
  <2>3. CASE UNCHANGED policies
    BY <2>3
  <2> QED
    BY <1>1, <2>1, <2>2, <2>3 DEF HandlerStep, CreateCheck, UpdateRead, RollbackFind,
       RollbackRead, HistoryInsert, Notify, Abort
<1>2. ASSUME NEW r \in Handlers, NEW n \in Names, DeleteRow(r, n)
      PROVE  policies' \ policies \subseteq AuditRows'
  BY <1>2 DEF DeleteRow
<1>3. CASE TakePush \/ UNCHANGED storeVars
  BY <1>3 DEF TakePush, storeVars
<1> QED
  BY <1>1, <1>2, <1>3 DEF StoreNext

\* "Każdy zapis polityki dorzuca tu rekord": as long as no handler is cut
\* short, every row of `policies` is in policy_history or about to be, for any
\* number of requests in any interleaving.
THEOREM RowsAreAudited ==
  ASSUME "abort" \notin Faults
  PROVE  StoreSpec => []RowsAudited
<1>1. StoreInit => RowsAudited
  BY DEF StoreInit, RowsAudited
<1>2. StoreTypeOK /\ RowsAudited /\ [StoreNext]_storeVars => RowsAudited'
  BY AuditGrows, NewRowsAudited DEF RowsAudited
<1> QED
  BY <1>1, <1>2, StoreTypes, PTL DEF StoreSpec

----------------------------------------------------------------------------
(* Version numbers, for any requests in any interleaving. *)

\* The inductive invariant: a handler about to UPDATE whose row nobody wrote
\* since its SELECT holds the successor of the row that is there.
Fresh(r) ==
    pc[r] = "update" /\ r \notin raced =>
       \E p \in policies : p.name = arg[r].name /\ arg[r].version = Bump(p.version)

FreshInv == \A r \in Handlers : Fresh(r)

LEMMA FreshInit == StoreInit => FreshInv
  BY DEF StoreInit, FreshInv, Fresh

\* A version that is bumped rises, unless it is the largest.
LEMMA BumpRises == \A v \in Int : v = I32Max \/ Bump(v) > v
  BY StoreAssumption DEF Bump

\* A statement of one handler leaves every other handler the row it has read,
\* or is counted as a race.
LEMMA HandlerFresh ==
  ASSUME StoreTypeOK, FreshInv, NEW r \in Handlers, HandlerStep(r)
  PROVE  FreshInv'
<1> SUFFICES ASSUME NEW h \in Handlers
             PROVE  Fresh(h)'
  BY DEF FreshInv
<1>0. /\ pc \in [Handlers -> HandlerPc]
      /\ arg \in [Handlers -> Row \cup {NoRow}]
      /\ Fresh(h)
  BY DEF StoreTypeOK, FreshInv
<1> USE DEF Fresh
<1>1. CASE CreateCheck(r)
  BY <1>0, <1>1 DEF CreateCheck, Goto, Begin
<1>2. CASE CreateInsert(r)
  BY <1>0, <1>2 DEF CreateInsert, Goto, Return
<1>3. CASE UpdateRead(r)
  <2>1. PICK p \in policies, c \in Contents :
             Goto(r, "update", [p EXCEPT !.version = Bump(p.version), !.content = c])
    BY <1>3 DEF UpdateRead
  <2> DEFINE row == [p EXCEPT !.version = Bump(p.version), !.content = c]
  <2>2. row.name = p.name /\ row.version = Bump(p.version)
    BY DEF StoreTypeOK, Row
  <2> HIDE DEF row
  <2>3. pc' = [pc EXCEPT ![r] = "update"] /\ arg' = [arg EXCEPT ![r] = row]
    BY <2>1 DEF Goto, row
  <2>4. UNCHANGED <<policies, raced>>
    BY <1>3 DEF UpdateRead
  <2> QED
    BY <1>0, <2>2, <2>3, <2>4
<1>4. CASE UpdateWrite(r)
  <2>1. /\ pc' = [pc EXCEPT ![r] = "history"]
        /\ arg' = [arg EXCEPT ![r] = arg[r]]
        /\ policies' = {p \in policies : p.name # arg[r].name}
                       \cup {q \in {arg[r]} : Rows(q.name) # {}}
        /\ raced' = (raced \cup Overwriting(arg[r].name)) \ {r}
    BY <1>4 DEF UpdateWrite, Goto
  <2>2. ASSUME h # r, pc[h] = "update", h \notin raced, arg[h].name # arg[r].name
        PROVE  \E p \in policies' : p.name = arg[h].name /\ arg[h].version = Bump(p.version)
    BY <1>0, <2>1, <2>2
  <2>3. ASSUME h # r, pc[h] = "update", arg[h].name = arg[r].name
        PROVE  h \in raced'
    BY <2>1, <2>3 DEF Overwriting
  <2> QED
    BY <1>0, <2>1, <2>2, <2>3
<1>5. CASE RollbackFind(r)
  BY <1>0, <1>5 DEF RollbackFind, Goto, Begin
<1>6. CASE RollbackRead(r)
  <2>1. arg[r] \in Row /\ UNCHANGED <<policies, raced>>
    BY <1>6 DEF RollbackRead, StoreTypeOK
  <2>2. CASE Return(r)
    BY <1>0, <2>1, <2>2 DEF Return, Goto
  <2>3. CASE \E p \in Rows(arg[r].name) :
                Goto(r, "update", [arg[r] EXCEPT !.version = Bump(p.version)])
    <3>1. PICK p \in policies : /\ p.name = arg[r].name
                                /\ Goto(r, "update", [arg[r] EXCEPT !.version = Bump(p.version)])
      BY <2>3 DEF Rows
    <3> DEFINE row == [arg[r] EXCEPT !.version = Bump(p.version)]
    <3>2. row.name = p.name /\ row.version = Bump(p.version)
      BY <2>1, <3>1 DEF Row
    <3> HIDE DEF row
    <3>3. pc' = [pc EXCEPT ![r] = "update"] /\ arg' = [arg EXCEPT ![r] = row]
      BY <3>1 DEF Goto, row
    <3> QED
      BY <1>0, <2>1, <3>2, <3>3
  <2> QED
    BY <1>6, <2>2, <2>3 DEF RollbackRead
<1>7. CASE HistoryInsert(r)
  BY <1>0, <1>7 DEF HistoryInsert, Goto
<1>8. CASE Notify(r)
  BY <1>0, <1>8 DEF Notify, Goto, Return
<1>9. CASE Abort(r)
  BY <1>0, <1>9 DEF Abort, Goto, Return
<1> QED
  BY <1>1, <1>2, <1>3, <1>4, <1>5, <1>6, <1>7, <1>8, <1>9 DEF HandlerStep

\* A DELETE under a handler that has read the row is a race.
LEMMA DeleteFresh ==
  ASSUME StoreTypeOK, FreshInv, NEW r \in Handlers, NEW n \in Names, DeleteRow(r, n)
  PROVE  FreshInv'
<1> SUFFICES ASSUME NEW h \in Handlers
             PROVE  Fresh(h)'
  BY DEF FreshInv
<1>1. /\ pc' = [pc EXCEPT ![r] = "notify"]
      /\ arg' = [arg EXCEPT ![r] = NoRow]
      /\ policies' = policies \ Rows(n)
      /\ raced' = raced \cup Overwriting(n)
      /\ pc[r] = "idle"
  BY DEF DeleteRow, Goto, Begin
<1>2. /\ pc \in [Handlers -> HandlerPc]
      /\ arg \in [Handlers -> Row \cup {NoRow}]
      /\ Fresh(h)
  BY DEF StoreTypeOK, FreshInv
<1> QED
  BY <1>1, <1>2 DEF Fresh, Overwriting, Rows

LEMMA StoreFresh ==
  ASSUME StoreTypeOK, FreshInv, [StoreNext]_storeVars
  PROVE  FreshInv'
<1>1. CASE TakePush \/ UNCHANGED storeVars
  BY <1>1 DEF TakePush, storeVars, FreshInv, Fresh
<1> QED
  BY <1>1, HandlerFresh, DeleteFresh DEF StoreNext

\* Where a policy is overwritten, the row that was there and the row that
\* comes are a handler's, and its version rises.
LEMMA StepRises ==
  ASSUME StoreTypeOK, FreshInv, [StoreNext]_storeVars,
         NEW p \in policies, NEW q \in policies', p.name = q.name, p # q
  PROVE  \/ q.version > p.version
         \/ p.version = I32Max
         \/ \E r \in raced : arg[r] = q
<1>1. q \notin policies
  BY DEF StoreTypeOK
<1>2. PICK r \in Handlers : CreateInsert(r) \/ UpdateWrite(r)
  <2>1. ~ UNCHANGED policies /\ ~ policies' \subseteq policies
    BY <1>1
  <2> QED
    BY <2>1 DEF StoreNext, HandlerStep, TakePush, storeVars, DeleteRow, CreateCheck, UpdateRead,
       RollbackFind, RollbackRead, HistoryInsert, Notify, Abort
<1>3. CASE CreateInsert(r)
  BY <1>1, <1>3 DEF CreateInsert, Rows
<1>4. CASE UpdateWrite(r)
  <2>1. q = arg[r] /\ pc[r] = "update"
    BY <1>1, <1>4 DEF UpdateWrite
  <2>2. CASE r \notin raced
    <3>1. PICK o \in policies : o.name = arg[r].name /\ arg[r].version = Bump(o.version)
      BY <2>1, <2>2 DEF FreshInv, Fresh
    <3>2. o = p /\ p.version \in Int
      BY <2>1, <3>1 DEF StoreTypeOK, Row
    <3> QED
      BY <2>1, <3>1, <3>2, BumpRises
  <2> QED
    BY <2>1, <2>2
<1> QED
  BY <1>2, <1>3, <1>4

\* The version of a policy that is overwritten rises, for any documents and any
\* requests in any interleaving, unless its row was written or deleted between
\* the SELECT and the UPDATE of the handler (update and rollback of
\* policies.rs), or had the largest version an i32 holds.
THEOREM VersionsRise == StoreSpec => VersionRises
<1>1. StoreTypeOK /\ FreshInv /\ [StoreNext]_storeVars => FreshInv'
  BY StoreFresh
<1>2. StoreTypeOK /\ FreshInv /\ [StoreNext]_storeVars
        => [\A p \in policies, q \in policies' :
               p.name = q.name /\ p # q =>
                  \/ q.version > p.version
                  \/ p.version = I32Max
                  \/ \E r \in raced : arg[r] = q]_storeVars
  BY StepRises
<1> QED
  BY <1>1, <1>2, FreshInit, StoreTypes, PTL DEF StoreSpec, VersionRises

----------------------------------------------------------------------------
(* Version numbers, when requests are served one at a time. *)

\* What the properties of versions need of the instance: one request at a
\* time, no DELETE (a policy created again counts from anew), and versions that
\* stay below the largest i32 as often as they are bumped.
OneAtATime ==
    /\ \A r, s \in Handlers : r = s
    /\ "delete" \notin Ops
    /\ \A v \in YamlVersions : DbVersion(v) + MaxRequests <= I32Max

\* A document the current row of its policy has caught up with.
Past(f) ==
    \E p \in policies :
        /\ p.name = f.name
        /\ f.version <= p.version
        /\ f.version = p.version => f.content = p.content

\* The largest version there may be by now.
Ceiling == I32Max - MaxRequests + started

\* The inductive invariant: the history is past; a handler about to INSERT has
\* found no row, one about to UPDATE holds the successor of the row that is
\* there, and one about to record its write holds the row.
VersionInv ==
    /\ \A p \in policies : 0 <= p.version /\ p.version <= Ceiling
    /\ \A e \in history : Past(e)
    /\ \A r \in Handlers :
          /\ pc[r] = "insert" => /\ Rows(arg[r].name) = {}
                                 /\ 0 <= arg[r].version
                                 /\ arg[r].version <= Ceiling
          /\ pc[r] = "current" => \A p \in policies : p.version < Ceiling
          /\ pc[r] = "update" => /\ \E p \in policies : p.name = arg[r].name
                                                        /\ arg[r].version = p.version + 1
                                 /\ arg[r].version <= Ceiling
          /\ pc[r] = "history" => arg[r] \in policies

LEMMA VersionInit == StoreInit => VersionInv
  BY DEF StoreInit, VersionInv

\* What a statement does to `policies`: nothing, or it adds a row under a new
\* name, or it replaces a row by one with the next version.
LEMMA PoliciesMove ==
  ASSUME StoreTypeOK, VersionInv, NEW r \in Handlers, HandlerStep(r)
  PROVE  \/ UNCHANGED policies
         \/ /\ CreateInsert(r)
            /\ arg[r] \in Row
            /\ Rows(arg[r].name) = {}
            /\ policies' = policies \cup {arg[r]}
         \/ /\ UpdateWrite(r)
            /\ arg[r] \in Row
            /\ policies' = {p \in policies : p.name # arg[r].name} \cup {arg[r]}
            /\ \E p \in policies : p.name = arg[r].name /\ arg[r].version = p.version + 1
<1>1. CASE CreateInsert(r)
  <2>1. arg[r] \in Row
    BY <1>1 DEF CreateInsert, StoreTypeOK
  <2> QED
    BY <1>1, <2>1 DEF CreateInsert
<1>2. CASE UpdateWrite(r)
  <2>1. arg[r] \in Row /\ pc[r] = "update"
    BY <1>2 DEF UpdateWrite, StoreTypeOK
  <2>2. \E p \in policies : p.name = arg[r].name /\ arg[r].version = p.version + 1
    BY <2>1 DEF VersionInv
  <2>3. Rows(arg[r].name) # {}
    BY <2>2 DEF Rows
  <2>4. policies' = {p \in policies : p.name # arg[r].name} \cup {arg[r]}
    BY <1>2, <2>3 DEF UpdateWrite
  <2> QED
    BY <1>2, <2>1, <2>2, <2>4
<1> QED
  BY <1>1, <1>2 DEF HandlerStep, CreateCheck, UpdateRead, RollbackFind, RollbackRead,
     HistoryInsert, Notify, Abort

\* What is past stays past.
LEMMA PastStays ==
  ASSUME StoreTypeOK, VersionInv, NEW r \in Handlers, HandlerStep(r),
         NEW f, f.version \in Int, Past(f)
  PROVE  Past(f)'
<1>1. PICK p \in policies : /\ p.name = f.name
                            /\ f.version <= p.version
                            /\ f.version = p.version => f.content = p.content
  BY DEF Past
<1>2. p \in Row /\ p.version \in Int
  BY DEF StoreTypeOK, Row
<1>3. CASE p \in policies'
  BY <1>1, <1>3 DEF Past
<1>4. CASE p \notin policies'
  <2>1. /\ arg[r] \in Row
        /\ policies' = {q \in policies : q.name # arg[r].name} \cup {arg[r]}
        /\ \E q \in policies : q.name = arg[r].name /\ arg[r].version = q.version + 1
    BY <1>4, PoliciesMove
  <2>2. p.name = arg[r].name
    BY <1>4, <2>1
  <2>3. arg[r].version = p.version + 1
    BY <2>1, <2>2 DEF StoreTypeOK
  <2>4. arg[r].version \in Int /\ arg[r] \in policies'
    BY <2>1 DEF Row
  <2>5. arg[r].name = f.name /\ f.version < arg[r].version
    BY <1>1, <1>2, <2>2, <2>3, <2>4
  <2> QED
    BY <2>4, <2>5 DEF Past
<1> QED
  BY <1>3, <1>4

\* A handler's statement preserves the invariant: what it reads is still there
\* at its next statement.
LEMMA HandlerVersionInv ==
  ASSUME StoreTypeOK, OneAtATime, VersionInv, NEW r \in Handlers, HandlerStep(r)
  PROVE  VersionInv'
<1>1. StoreTypeOK'
  BY HandlerStepType
<1>2. \A s \in Handlers : s = r
  BY DEF OneAtATime
<1>3. /\ Ceiling \in Int
      /\ Ceiling <= I32Max
      /\ Ceiling <= Ceiling'
      /\ started' = started + 1 => Ceiling' = Ceiling + 1
  <2>1. started' = started \/ started' = started + 1
    BY DEF HandlerStep, CreateCheck, CreateInsert, UpdateRead, UpdateWrite, RollbackFind,
       RollbackRead, HistoryInsert, Notify, Abort, Begin
  <2>2. started \in Int /\ started <= MaxRequests /\ MaxRequests \in Int /\ I32Max \in Int
    BY StoreAssumption DEF StoreTypeOK
  <2> QED
    BY <2>1, <2>2 DEF Ceiling
<1>4. /\ \A p \in policies : p \in Row /\ p.version \in Int
      /\ \A e \in history : e \in Row /\ e.version \in Int
  BY DEF StoreTypeOK, Row
<1>5. \A p \in policies' : 0 <= p.version /\ p.version <= Ceiling'
  <2> SUFFICES ASSUME NEW p \in policies'
               PROVE  0 <= p.version /\ p.version <= Ceiling'
    OBVIOUS
  <2>1. CASE p \in policies
    <3>1. 0 <= p.version /\ p.version <= Ceiling /\ p.version \in Int
      BY <2>1, <1>4 DEF VersionInv
    <3>2. Ceiling' \in Int
      BY <1>1, StoreAssumption DEF Ceiling, StoreTypeOK
    <3> QED
      BY <1>3, <3>1, <3>2
  <2>2. CASE p \notin policies
    <3>1. p = arg[r] /\ arg[r] \in Row /\ (CreateInsert(r) \/ UpdateWrite(r))
      BY <2>2, PoliciesMove
    <3>2. CASE CreateInsert(r)
      BY <3>1, <3>2, <1>1, <1>3 DEF CreateInsert, VersionInv, Ceiling, StoreTypeOK
    <3>3. CASE UpdateWrite(r)
      <4>1. pc[r] = "update"
        BY <3>3 DEF UpdateWrite
      <4>2. PICK q \in policies : q.name = arg[r].name /\ arg[r].version = q.version + 1
        BY <4>1 DEF VersionInv
      <4>3. 0 <= q.version /\ q.version \in Int /\ arg[r].version <= Ceiling
        BY <4>1, <1>4 DEF VersionInv
      <4>4. started' = started /\ Ceiling' = Ceiling
        BY <3>3 DEF UpdateWrite, Ceiling
      <4> QED
        BY <3>1, <4>2, <4>3, <4>4
    <3> QED
      BY <3>1, <3>2, <3>3
  <2> QED
    BY <2>1, <2>2
<1>6. \A e \in history' : Past(e)'
  <2> SUFFICES ASSUME NEW e \in history'
               PROVE  Past(e)'
    OBVIOUS
  <2>1. CASE e \in history
    BY <2>1, <1>4, PastStays DEF VersionInv
  <2>2. CASE e \notin history
    <3>1. HistoryInsert(r) /\ e = arg[r]
      BY <2>2 DEF HandlerStep, CreateCheck, CreateInsert, UpdateRead, UpdateWrite, RollbackFind,
         RollbackRead, HistoryInsert, Notify, Abort
    <3>2. arg[r] \in policies /\ UNCHANGED policies
      BY <3>1 DEF HistoryInsert, VersionInv
    <3> QED
      BY <3>1, <3>2, <1>4 DEF Past
  <2> QED
    BY <2>1, <2>2
<1> DEFINE Local ==
      /\ pc[r] = "insert" => /\ Rows(arg[r].name) = {}
                             /\ 0 <= arg[r].version
                             /\ arg[r].version <= Ceiling
      /\ pc[r] = "current" => \A p \in policies : p.version < Ceiling
      /\ pc[r] = "update" => /\ \E p \in policies : p.name = arg[r].name
                                                    /\ arg[r].version = p.version + 1
                             /\ arg[r].version <= Ceiling
      /\ pc[r] = "history" => arg[r] \in policies
<1>7. Local'
  <2>0. /\ pc \in [Handlers -> HandlerPc]
        /\ arg \in [Handlers -> Row \cup {NoRow}]
    BY DEF StoreTypeOK
  <2>1. CASE CreateCheck(r)
    <3>1. PICK n \in Names, v \in YamlVersions, c \in Contents :
             /\ Rows(n) = {}
             /\ Goto(r, "insert", [name |-> n, version |-> DbVersion(v), content |-> c])
      BY <2>1 DEF CreateCheck
    <3>2. /\ pc'[r] = "insert"
          /\ arg'[r] = [name |-> n, version |-> DbVersion(v), content |-> c]
      BY <2>0, <3>1 DEF Goto
    <3>3. 0 <= DbVersion(v) /\ DbVersion(v) \in Int
      BY StoreAssumption DEF DbVersion
    <3>4. DbVersion(v) <= Ceiling'
      BY <1>1, <3>3, StoreAssumption DEF OneAtATime, Ceiling, StoreTypeOK
    <3>5. UNCHANGED policies
      BY <2>1 DEF CreateCheck
    <3> QED
      BY <3>1, <3>2, <3>3, <3>4, <3>5 DEF Rows
  <2>2. CASE CreateInsert(r)
    BY <2>0, <2>2 DEF CreateInsert, Goto, Return, Rows
  <2>3. CASE UpdateRead(r)
    <3>1. PICK p \in policies, c \in Contents :
             Goto(r, "update", [p EXCEPT !.version = Bump(p.version), !.content = c])
      BY <2>3 DEF UpdateRead
    <3>2. p.version < I32Max /\ Ceiling' = Ceiling + 1 /\ p.version <= Ceiling
      BY <2>3, <1>1, <1>3, <1>4, StoreAssumption
      DEF UpdateRead, Begin, VersionInv, Ceiling, StoreTypeOK
    <3>3. Bump(p.version) = p.version + 1 /\ Bump(p.version) <= Ceiling'
      BY <1>3, <1>4, <3>2 DEF Bump
    <3>4. /\ pc'[r] = "update"
          /\ arg'[r].name = p.name
          /\ arg'[r].version = p.version + 1
      <4>1. p \in Row
        BY <1>4
      <4> DEFINE row == [p EXCEPT !.version = Bump(p.version), !.content = c]
      <4>2. row.name = p.name /\ row.version = Bump(p.version)
        BY <4>1 DEF Row
      <4>3. pc'[r] = "update" /\ arg'[r] = row
        BY <2>0, <3>1 DEF Goto
      <4> QED
        BY <3>3, <4>2, <4>3
    <3>5. UNCHANGED policies
      BY <2>3 DEF UpdateRead
    <3> QED
      BY <3>3, <3>4, <3>5
  <2>4. CASE UpdateWrite(r)
    <3>1. arg[r] \in policies'
      BY <2>4, PoliciesMove DEF UpdateWrite, VersionInv, Rows
    <3> QED
      BY <2>0, <2>4, <3>1 DEF UpdateWrite, Goto
  <2>5. CASE RollbackFind(r)
    <3>1. pc'[r] = "current" /\ UNCHANGED policies /\ Ceiling' = Ceiling + 1
      BY <2>0, <2>5, <1>3 DEF RollbackFind, Goto, Begin
    <3> QED
      BY <3>1, <1>3, <1>4 DEF VersionInv
  <2>6. CASE RollbackRead(r)
    <3>1. UNCHANGED <<policies, started>> /\ pc[r] = "current" /\ arg[r] \in Row
      BY <2>6 DEF RollbackRead, StoreTypeOK
    <3>2. CASE Return(r)
      BY <2>0, <3>2 DEF Return, Goto
    <3>3. CASE \E p \in Rows(arg[r].name) :
                 Goto(r, "update", [arg[r] EXCEPT !.version = Bump(p.version)])
      <4>1. PICK p \in policies : /\ p.name = arg[r].name
                                  /\ Goto(r, "update", [arg[r] EXCEPT !.version = Bump(p.version)])
        BY <3>3 DEF Rows
      <4>2. p.version < Ceiling
        BY <3>1 DEF VersionInv
      <4>3. Bump(p.version) = p.version + 1 /\ p.version + 1 <= Ceiling
        BY <4>2, <1>3, <1>4 DEF Bump
      <4>4. /\ pc'[r] = "update"
            /\ arg'[r].name = p.name
            /\ arg'[r].version = p.version + 1
        <5> DEFINE row == [arg[r] EXCEPT !.version = Bump(p.version)]
        <5>1. row.name = p.name /\ row.version = Bump(p.version)
          BY <3>1, <4>1 DEF Row
        <5>2. pc'[r] = "update" /\ arg'[r] = row
          BY <2>0, <4>1 DEF Goto
        <5> QED
          BY <4>3, <5>1, <5>2
      <4>5. Ceiling' = Ceiling
        BY <3>1 DEF Ceiling
      <4> QED
        BY <3>1, <4>1, <4>3, <4>4, <4>5
    <3> QED
      BY <2>6, <3>2, <3>3 DEF RollbackRead
  <2>7. CASE HistoryInsert(r) \/ Notify(r) \/ Abort(r)
    BY <2>0, <2>7 DEF HistoryInsert, Notify, Abort, Goto, Return
  <2> QED
    BY <2>1, <2>2, <2>3, <2>4, <2>5, <2>6, <2>7 DEF HandlerStep
<1> QED
  BY <1>2, <1>5, <1>6, <1>7 DEF VersionInv

\* So does a step that leaves the tables and the requests alone, or drops the
\* requests (the bridge's receive, a restart of the manager).
LEMMA VersionInvFrame ==
  ASSUME StoreTypeOK, VersionInv, UNCHANGED <<policies, history, started>>,
         \A r \in Handlers : pc'[r] = "idle" \/ (pc'[r] = pc[r] /\ arg'[r] = arg[r])
  PROVE  VersionInv'
<1>1. Ceiling' = Ceiling
  BY DEF Ceiling
<1>2. \A r \in Handlers :
          /\ pc'[r] = "insert" => /\ Rows(arg'[r].name) = {}
                                  /\ 0 <= arg'[r].version
                                  /\ arg'[r].version <= Ceiling
          /\ pc'[r] = "current" => \A p \in policies : p.version < Ceiling
          /\ pc'[r] = "update" => /\ \E p \in policies : p.name = arg'[r].name
                                                         /\ arg'[r].version = p.version + 1
                                  /\ arg'[r].version <= Ceiling
          /\ pc'[r] = "history" => arg'[r] \in policies
  BY DEF VersionInv
<1>3. \A e \in history : Past(e)
  BY DEF VersionInv
<1> QED
  BY <1>1, <1>2, <1>3 DEF VersionInv, Past, Rows

LEMMA StoreVersionInv ==
  ASSUME StoreTypeOK, OneAtATime, VersionInv, [StoreNext]_storeVars
  PROVE  VersionInv'
<1>1. CASE TakePush \/ UNCHANGED storeVars
  BY <1>1, VersionInvFrame DEF TakePush, storeVars
<1>2. ASSUME NEW r \in Handlers, NEW n \in Names, DeleteRow(r, n)
      PROVE  FALSE
  BY <1>2 DEF DeleteRow, Begin, OneAtATime
<1> QED
  BY <1>1, <1>2, HandlerVersionInv DEF StoreNext

LEMMA VersionsNameContents ==
  ASSUME StoreTypeOK, VersionInv
  PROVE  VersionNamesContent
  BY DEF StoreTypeOK, VersionInv, Past, VersionNamesContent

\* A version names the document: the row of `policies` and the rows of
\* policy_history with its version have one content.
THEOREM VersionsAreUnambiguous ==
  ASSUME OneAtATime
  PROVE  StoreSpec => []VersionNamesContent
<1>1. StoreTypeOK /\ VersionInv /\ [StoreNext]_storeVars => VersionInv'
  BY StoreVersionInv
<1> QED
  BY <1>1, VersionInit, VersionsNameContents, StoreTypes, PTL DEF StoreSpec
============================================================================
