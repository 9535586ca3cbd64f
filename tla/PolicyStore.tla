---------------------------- MODULE PolicyStore ----------------------------
(***************************************************************************)
(* The policy tables of the manager and the REST handlers that write them: *)
(* crates/scrooge-manager-api/src/handlers/policies.rs over the schema of  *)
(* migrations/20260101000004_policies.sql.                                 *)
(*                                                                         *)
(* A handler runs several SQL statements, each its own implicit            *)
(* transaction on a pooled connection; nothing locks a row from one        *)
(* statement to the next.  One action of this module is one statement (or  *)
(* the synchronous call that follows the last one), so that two requests   *)
(* interleave here wherever they do in the program.                        *)
(*                                                                         *)
(* Tables are sets of rows.  A row of `policies` is abstracted to its      *)
(* name, version and content (YAML, its msgpack, hash, targets and         *)
(* priority are functions of the content); `enabled` is always TRUE, no    *)
(* statement of the program clears it.  A row of `policy_history` has the  *)
(* same three columns: its id, author, date and reason are read by no one  *)
(* but the list endpoint.                                                  *)
(***************************************************************************)
EXTENDS Integers, Sequences

CONSTANTS
    Names,          \* policy names (metadata.name, the key of `policies`)
    Contents,       \* policy documents that parse_and_compile accepts
    YamlVersions,   \* metadata.version of the documents POSTed (u32)
    Handlers,       \* REST requests that may be in progress at one time
    Ops,            \* which of the four write endpoints are called
    Faults,         \* what may go wrong; "abort" is the one of this module
    PushCapacity,   \* capacity of the PolicyPushRequest channel
    I32Max,         \* largest value of an i32 (2^31 - 1 in the program)
    MaxRequests     \* bound: write requests started in one behaviour

ASSUME StoreAssumption ==
    /\ YamlVersions \subseteq Nat
    /\ PushCapacity \in Nat \ {0}
    /\ I32Max \in Nat \ {0}
    /\ MaxRequests \in Nat
    /\ Ops \subseteq {"create", "update", "rollback", "delete"}

VARIABLES
    policies,   \* the table `policies`
    history,    \* the table `policy_history`
    pc,         \* pc[r]: the statement handler r is about to run
    arg,        \* arg[r]: the row handler r is about to write
    pushes,     \* PolicyPushRequests waiting in the channel to the bridge
    started,    \* write requests started so far (for the bound)
    raced       \* handlers whose row was written since they read it (history
                \* variable: no step looks at it)

storeVars == <<policies, history, pc, arg, pushes, started, raced>>

Row == [name : Names, version : Int, content : Contents]

NoRow == [name |-> "", version |-> 0, content |-> ""]

HandlerPc == {"idle", "insert", "current", "update", "history", "notify"}

StoreTypeOK ==
    /\ policies \subseteq Row
    /\ \A p, q \in policies : p.name = q.name => p = q
    /\ history \subseteq Row
    /\ pc \in [Handlers -> HandlerPc]
    /\ arg \in [Handlers -> Row \cup {NoRow}]
    /\ \A r \in Handlers : pc[r] \notin {"idle", "notify"} => arg[r] \in Row
    /\ pushes \in 0 .. PushCapacity
    /\ started \in 0 .. MaxRequests
    /\ raced \subseteq {r \in Handlers : pc[r] = "update"}

StoreInit ==
    /\ policies = {}
    /\ history = {}
    /\ pc = [r \in Handlers |-> "idle"]
    /\ arg = [r \in Handlers |-> NoRow]
    /\ pushes = 0
    /\ started = 0
    /\ raced = {}

----------------------------------------------------------------------------
(* What the handlers share. *)

\* SELECT ... FROM policies WHERE name = n
Rows(n) == {p \in policies : p.name = n}

\* i32::try_from(metadata.version).unwrap_or(1)
DbVersion(v) == IF v > I32Max THEN 1 ELSE v

\* current_version + 1 on an i32; the release profile wraps
Bump(v) == IF v = I32Max THEN -I32Max - 1 ELSE v + 1

Goto(r, where, row) ==
    /\ pc' = [pc EXCEPT ![r] = where]
    /\ arg' = [arg EXCEPT ![r] = row]

Return(r) == Goto(r, "idle", NoRow)

\* The handlers that have read the row of n and are about to overwrite it.
Overwriting(n) == {r \in Handlers : pc[r] = "update" /\ arg[r].name = n}

\* A new request reaches its first statement.
Begin(r, op) ==
    /\ op \in Ops
    /\ pc[r] = "idle"
    /\ started < MaxRequests
    /\ started' = started + 1

----------------------------------------------------------------------------
(* POST /policies *)

\* The name is looked up; when it is taken the handler returns 400 and
\* nothing changes.
CreateCheck(r) ==
    /\ Begin(r, "create")
    /\ \E n \in Names, v \in YamlVersions, c \in Contents :
          /\ Rows(n) = {}
          /\ Goto(r, "insert", [name |-> n, version |-> DbVersion(v), content |-> c])
    /\ UNCHANGED <<policies, history, pushes, raced>>

\* Mutant: the policy is inserted without its history entry.
CreateInsertUnrecorded(r) ==
    /\ pc[r] = "insert"
    /\ \/ /\ Rows(arg[r].name) = {}
          /\ policies' = policies \cup {arg[r]}
          /\ Goto(r, "notify", NoRow)
       \/ /\ Rows(arg[r].name) # {}
          /\ UNCHANGED policies
          /\ Return(r)
    /\ UNCHANGED <<history, pushes, started, raced>>

\* A row that appeared since the check violates the primary key: error, return.
CreateInsert(r) ==
    /\ pc[r] = "insert"
    /\ \/ /\ Rows(arg[r].name) = {}
          /\ policies' = policies \cup {arg[r]}
          /\ Goto(r, "history", arg[r])
       \/ /\ Rows(arg[r].name) # {}
          /\ UNCHANGED policies
          /\ Return(r)
    /\ UNCHANGED <<history, pushes, started, raced>>

(* PUT /policies/{name} *)

\* Mutant: the version is read but not bumped.
UpdateReadNoBump(r) ==
    /\ Begin(r, "update")
    /\ \E p \in policies, c \in Contents : Goto(r, "update", [p EXCEPT !.content = c])
    /\ UNCHANGED <<policies, history, pushes, raced>>

\* The current version is read; a missing policy is a 404.
UpdateRead(r) ==
    /\ Begin(r, "update")
    /\ \E p \in policies, c \in Contents :
          Goto(r, "update", [p EXCEPT !.version = Bump(p.version), !.content = c])
    /\ UNCHANGED <<policies, history, pushes, raced>>

\* Mutant: the increment is moved into the UPDATE, the history keeps the
\* version computed by the earlier SELECT.
UpdateWriteInSql(r) ==
    /\ pc[r] = "update"
    /\ policies' = {p \in policies : p.name # arg[r].name}
                   \cup {[arg[r] EXCEPT !.version = Bump(q.version)] : q \in Rows(arg[r].name)}
    /\ raced' = (raced \cup Overwriting(arg[r].name)) \ {r}
    /\ Goto(r, "history", arg[r])
    /\ UNCHANGED <<history, pushes, started>>

\* UPDATE policies SET ... WHERE name: no row matches when the policy was
\* deleted meanwhile, and the handler does not look at the count.
UpdateWrite(r) ==
    /\ pc[r] = "update"
    /\ policies' = {p \in policies : p.name # arg[r].name}
                   \cup {q \in {arg[r]} : Rows(q.name) # {}}
    /\ raced' = (raced \cup Overwriting(arg[r].name)) \ {r}
    /\ Goto(r, "history", arg[r])
    /\ UNCHANGED <<history, pushes, started>>

(* POST /policies/{name}/rollback/{version} *)

\* Nothing makes (policy_name, version) unique in the history: when several
\* rows match, the query returns any one of them.
RollbackFind(r) ==
    /\ Begin(r, "rollback")
    /\ \E e \in history : Goto(r, "current", e)
    /\ UNCHANGED <<policies, history, pushes, raced>>

\* Mutant: the rolled back policy takes its old version number back.
RollbackReadKeepsVersion(r) ==
    /\ pc[r] = "current"
    /\ \/ Rows(arg[r].name) # {} /\ Goto(r, "update", arg[r])
       \/ Rows(arg[r].name) = {} /\ Return(r)
    /\ UNCHANGED <<policies, history, pushes, started, raced>>

\* A policy that no longer exists is a 404; otherwise the statements of an
\* update follow, with the historical content.
RollbackRead(r) ==
    /\ pc[r] = "current"
    /\ \/ \E p \in Rows(arg[r].name) :
             Goto(r, "update", [arg[r] EXCEPT !.version = Bump(p.version)])
       \/ Rows(arg[r].name) = {} /\ Return(r)
    /\ UNCHANGED <<policies, history, pushes, started, raced>>

(* DELETE /policies/{name}; a missing policy is a 404. *)
DeleteRow(r, n) ==
    /\ Begin(r, "delete")
    /\ Rows(n) # {}
    /\ policies' = policies \ Rows(n)
    /\ raced' = raced \cup Overwriting(n)
    /\ Goto(r, "notify", NoRow)
    /\ UNCHANGED <<history, pushes>>

----------------------------------------------------------------------------
(* The common end of the four handlers. *)

HistoryInsert(r) ==
    /\ pc[r] = "history"
    /\ history' = history \cup {arg[r]}
    /\ Goto(r, "notify", NoRow)
    /\ UNCHANGED <<policies, pushes, started, raced>>

\* notify_policy_changed: try_send, and a full channel drops the request.
Notify(r) ==
    /\ pc[r] = "notify"
    /\ pushes' = IF pushes < PushCapacity THEN pushes + 1 ELSE pushes
    /\ Return(r)
    /\ UNCHANGED <<policies, history, started, raced>>

\* A statement fails (`?` returns), or the client goes away and the server
\* drops the handler at an await, after whatever statements it has run.
Abort(r) ==
    /\ "abort" \in Faults
    /\ pc[r] # "idle"
    /\ raced' = raced \ {r}
    /\ Return(r)
    /\ UNCHANGED <<policies, history, pushes, started>>

\* Every handler step except the delete, whose cascade reaches other tables.
HandlerStep(r) ==
    \/ CreateCheck(r)  \/ CreateInsert(r)
    \/ UpdateRead(r)   \/ UpdateWrite(r)
    \/ RollbackFind(r) \/ RollbackRead(r)
    \/ HistoryInsert(r) \/ Notify(r) \/ Abort(r)

\* The other end of the channel: the bridge of PolicyDistribution.
TakePush ==
    /\ pushes > 0
    /\ pushes' = pushes - 1
    /\ UNCHANGED <<policies, history, pc, arg, started, raced>>

StoreNext ==
    \/ \E r \in Handlers : HandlerStep(r)
    \/ \E r \in Handlers, n \in Names : DeleteRow(r, n)
    \/ TakePush

StoreSpec == StoreInit /\ [][StoreNext]_storeVars

----------------------------------------------------------------------------
(* Properties. *)

\* The rows policy_history holds, and those a handler is about to insert.
AuditRows == history \cup {arg[r] : r \in {h \in Handlers : pc[h] = "history"}}

\* "Każdy zapis polityki dorzuca tu rekord" (migrations, policy_history):
\* whatever the interleaving of POST, PUT, rollback and DELETE, the row of
\* `policies` is one the history holds or is about to hold, as long as no
\* handler is cut short.
RowsAudited == policies \subseteq AuditRows

\* The version of a policy that is overwritten rises, for any documents and any
\* interleaving of POST, PUT, rollback and DELETE, but in two cases: the row
\* was written or deleted between the SELECT and the UPDATE of the handler
\* (policies.rs takes no lock and the UPDATE has no condition on the version),
\* or it has the largest version an i32 holds, which a POST may bring.  "Bumpuje
\* version w DB" (update_policy) names neither.
VersionRises ==
    [][\A p \in policies, q \in policies' :
          p.name = q.name /\ p # q =>
             \/ q.version > p.version
             \/ p.version = I32Max
             \/ \E r \in raced : arg[r] = q]_storeVars

\* The version names the document: while a policy is in the table, a version
\* it had before, or that the history holds, never stands for two documents.
\* Rollback by version number and the agents' acknowledgements rely on it.
VersionNamesContent ==
    \A p \in policies, e \in history :
        p.name = e.name /\ p.version = e.version => p.content = e.content
============================================================================
