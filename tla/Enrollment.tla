---------------------------- MODULE Enrollment ----------------------------
(***************************************************************************)
(* How a machine becomes an enrolled agent and stays the same one: tokens  *)
(* (handlers/install.rs, scrooge-cli), the Enroll RPC of                   *)
(* crates/scrooge-manager-bin/src/grpc.rs, and on the machine the start-up *)
(* of crates/scrooge-agent-bin/src/main.rs with enroll.rs and state.rs.    *)
(*                                                                         *)
(* An attempt to enrol makes a key pair on the machine and, at the         *)
(* manager, an agent id and a certificate for that key and id.  Number i   *)
(* stands for all that belongs to attempt i: agent i, its certificate, its *)
(* key, its id file.  The manager's handler of an attempt outlives a       *)
(* machine that crashes while it waits, until the broken connection is     *)
(* noticed and the handler is dropped at one of its awaits.                *)
(***************************************************************************)
EXTENDS Integers, FiniteSets

CONSTANTS
    Hosts,          \* machines on which the agent is installed
    Tokens,         \* enrollment tokens
    TokenOf,        \* TokenOf[h]: the token in the configuration of h
    MaxUses,        \* max_uses of every token
    MaxAttempts,    \* bound: attempts that get past the token check
    MaxFailures,    \* bound: crashes of agents and failing SQL statements
    Faults          \* "torn" (a crash during fs::write), "expiry"

NoHost == "none"

ASSUME EnrollmentAssumption ==
    /\ NoHost \notin Hosts
    /\ TokenOf \in [Hosts -> Tokens]
    /\ MaxUses \in Nat \ {0}
    /\ MaxAttempts \in Nat
    /\ MaxFailures \in Nat

Attempts == 1 .. MaxAttempts
NoFile == 0
Torn == -1
FileState == Attempts \cup {NoFile, Torn}

VARIABLES
    issued,     \* rows of enrollment_tokens
    expired,    \* tokens past their expires_at
    uses,       \* uses[t]: uses_count
    rpc,        \* rpc[i]: where the manager's handler of attempt i is
    by,         \* by[i]: the machine that made attempt i, or none
    agents,     \* ids in the table `agents`
    proc,       \* proc[h]: where the agent process of h is
    mem,        \* mem[h]: the attempt whose reply h awaits or saves, or 0
    cert, key, idf,     \* the files agent.cert, agent.key, agent.id of h
    failures    \* crashes and failed statements so far

managerVars == <<issued, expired, uses, rpc, by, agents>>
fileVars == <<cert, key, idf>>
vars == <<managerVars, proc, mem, fileVars, failures>>

\* One of the failures the bound allows.
Fail == failures < MaxFailures /\ failures' = failures + 1

RpcState == {"none", "check", "insert", "count", "reply", "over"}
ProcState == {"down", "wait", "cert", "key", "id", "running", "failed"}

TypeOK ==
    /\ issued \subseteq Tokens
    /\ expired \subseteq Tokens
    /\ uses \in [Tokens -> Nat]
    /\ rpc \in [Attempts -> RpcState]
    /\ by \in [Attempts -> Hosts \cup {NoHost}]
    /\ agents \subseteq Attempts
    /\ proc \in [Hosts -> ProcState]
    /\ mem \in [Hosts -> Attempts \cup {0}]
    /\ \A h \in Hosts : proc[h] \in {"wait", "cert", "key", "id"} => mem[h] \in Attempts
    /\ cert \in [Hosts -> FileState]
    /\ key \in [Hosts -> FileState]
    /\ idf \in [Hosts -> FileState]
    /\ failures \in 0 .. MaxFailures

Init ==
    /\ issued = {}
    /\ expired = {}
    /\ uses = [t \in Tokens |-> 0]
    /\ rpc = [i \in Attempts |-> "none"]
    /\ by = [i \in Attempts |-> NoHost]
    /\ agents = {}
    /\ proc = [h \in Hosts |-> "down"]
    /\ mem = [h \in Hosts |-> 0]
    /\ cert = [h \in Hosts |-> NoFile]
    /\ key = [h \in Hosts |-> NoFile]
    /\ idf = [h \in Hosts |-> NoFile]
    /\ failures = 0

----------------------------------------------------------------------------
(* Tokens. *)

\* POST /agents/install or `scrooge-cli gen-token`.
IssueToken(t) ==
    /\ t \notin issued
    /\ issued' = issued \cup {t}
    /\ UNCHANGED <<expired, uses, rpc, by, agents, proc, mem, fileVars, failures>>

\* The clock passes expires_at.
Expire(t) ==
    /\ "expiry" \in Faults
    /\ t \in issued \ expired
    /\ expired' = expired \cup {t}
    /\ UNCHANGED <<issued, uses, rpc, by, agents, proc, mem, fileVars, failures>>

----------------------------------------------------------------------------
(* The agent process. *)

\* Mutant: the id file is not looked for.
CompleteNoId(h) == cert[h] # NoFile /\ key[h] # NoFile

\* AgentState::load finds the three files.
Complete(h) == cert[h] # NoFile /\ key[h] # NoFile /\ idf[h] # NoFile

\* The process starts (the service manager restarts one that exited) and
\* finds its state; an id file that does not parse is an error.
StartEnrolled(h) ==
    /\ proc[h] \in {"down", "failed"}
    /\ Complete(h)
    /\ proc' = [proc EXCEPT ![h] = IF idf[h] = Torn THEN "failed" ELSE "running"]
    /\ UNCHANGED <<managerVars, mem, fileVars, failures>>

\* Mutant: a machine that has a token enrols again at every start.
StartEnrollingAlways(h) ==
    /\ proc[h] = "down"
    /\ \E i \in Attempts :
          /\ rpc[i] = "none"
          /\ rpc' = [rpc EXCEPT ![i] = "check"]
          /\ by' = [by EXCEPT ![i] = h]
          /\ mem' = [mem EXCEPT ![h] = i]
    /\ proc' = [proc EXCEPT ![h] = "wait"]
    /\ UNCHANGED <<issued, expired, uses, agents, fileVars, failures>>

\* Mutant: the attempt is not remembered.
StartEnrollingForgets(h) ==
    /\ proc[h] = "down"
    /\ ~Complete(h)
    /\ \E i \in Attempts :
          /\ rpc[i] = "none"
          /\ rpc' = [rpc EXCEPT ![i] = "check"]
          /\ by' = [by EXCEPT ![i] = h]
    /\ proc' = [proc EXCEPT ![h] = "wait"]
    /\ UNCHANGED <<issued, expired, uses, agents, mem, fileVars, failures>>

\* It does not, and calls Enroll with the configured token.
StartEnrolling(h) ==
    /\ proc[h] = "down"
    /\ ~Complete(h)
    /\ \E i \in Attempts :
          /\ rpc[i] = "none"
          /\ \A j \in Attempts : j < i => rpc[j] # "none"
          /\ rpc' = [rpc EXCEPT ![i] = "check"]
          /\ by' = [by EXCEPT ![i] = h]
          /\ mem' = [mem EXCEPT ![h] = i]
    /\ proc' = [proc EXCEPT ![h] = "wait"]
    /\ UNCHANGED <<issued, expired, uses, agents, fileVars, failures>>

\* The reply arrives and AgentState::save writes agent.cert, agent.key and
\* agent.id, in this order.
SaveStart(h) ==
    /\ proc[h] = "wait"
    /\ rpc[mem[h]] = "reply"
    /\ rpc' = [rpc EXCEPT ![mem[h]] = "over"]
    /\ proc' = [proc EXCEPT ![h] = "cert"]
    /\ UNCHANGED <<issued, expired, uses, by, agents, mem, fileVars, failures>>

SaveCert(h) ==
    /\ proc[h] = "cert"
    /\ cert' = [cert EXCEPT ![h] = mem[h]]
    /\ proc' = [proc EXCEPT ![h] = "key"]
    /\ UNCHANGED <<managerVars, mem, key, idf, failures>>

SaveKey(h) ==
    /\ proc[h] = "key"
    /\ key' = [key EXCEPT ![h] = mem[h]]
    /\ proc' = [proc EXCEPT ![h] = "id"]
    /\ UNCHANGED <<managerVars, mem, cert, idf, failures>>

SaveId(h) ==
    /\ proc[h] = "id"
    /\ idf' = [idf EXCEPT ![h] = mem[h]]
    /\ proc' = [proc EXCEPT ![h] = "running"]
    /\ mem' = [mem EXCEPT ![h] = 0]
    /\ UNCHANGED <<managerVars, cert, key, failures>>

\* The process dies.  fs::write truncates before it writes: a crash in the
\* middle of it leaves an empty file.
Crash(h) ==
    /\ proc[h] # "down"
    /\ Fail
    /\ proc' = [proc EXCEPT ![h] = "down"]
    /\ mem' = [mem EXCEPT ![h] = 0]
    /\ \/ UNCHANGED fileVars
       \/ /\ "torn" \in Faults
          /\ \/ proc[h] = "cert" /\ cert' = [cert EXCEPT ![h] = Torn] /\ UNCHANGED <<key, idf>>
             \/ proc[h] = "key" /\ key' = [key EXCEPT ![h] = Torn] /\ UNCHANGED <<cert, idf>>
             \/ proc[h] = "id" /\ idf' = [idf EXCEPT ![h] = Torn] /\ UNCHANGED <<cert, key>>
    /\ UNCHANGED managerVars

----------------------------------------------------------------------------
(* The Enroll handler of attempt i. *)

\* Mutant: the last use of a token is refused.
UsableOffByOne(t) == t \in issued \ expired /\ uses[t] < MaxUses - 1

\* The row exists, has not expired and has uses left.
Usable(t) == t \in issued \ expired /\ uses[t] < MaxUses

Abandoned(i) == by[i] # NoHost => mem[by[i]] # i

\* The attempt ends without a certificate: its number is free again, and the
\* machine's process, if it still waits, exits with the error.
EndUnserved(i) ==
    /\ rpc' = [rpc EXCEPT ![i] = "none"]
    /\ by' = [by EXCEPT ![i] = NoHost]
    /\ IF Abandoned(i) THEN UNCHANGED <<proc, mem>>
       ELSE /\ proc' = [proc EXCEPT ![by[i]] = "down"]
            /\ mem' = [mem EXCEPT ![by[i]] = 0]

\* The token is looked up; unknown, expired or used up, it is refused, and so
\* is the attempt when the lookup fails.
EnrollCheck(i) ==
    /\ rpc[i] = "check"
    /\ \/ /\ Usable(TokenOf[by[i]])
          /\ rpc' = [rpc EXCEPT ![i] = "insert"]
          /\ UNCHANGED <<by, proc, mem, failures>>
       \/ /\ ~Usable(TokenOf[by[i]])
          /\ EndUnserved(i)
          /\ UNCHANGED failures
       \/ Fail /\ EndUnserved(i)
    /\ UNCHANGED <<issued, expired, uses, agents, fileVars>>

\* The CSR is signed and the agent inserted.
EnrollInsert(i) ==
    /\ rpc[i] = "insert"
    /\ \/ /\ agents' = agents \cup {i}
          /\ rpc' = [rpc EXCEPT ![i] = "count"]
          /\ UNCHANGED <<by, proc, mem, failures>>
       \/ /\ Fail
          /\ EndUnserved(i)
          /\ UNCHANGED agents
    /\ UNCHANGED <<issued, expired, uses, fileVars>>

\* Mutant: the UPDATE repeats the condition on expires_at.
EnrollCountUnexpired(i) ==
    /\ rpc[i] = "count"
    /\ \/ /\ TokenOf[by[i]] \notin expired
          /\ uses' = [uses EXCEPT ![TokenOf[by[i]]] = @ + 1]
          /\ UNCHANGED failures
       \/ TokenOf[by[i]] \in expired /\ UNCHANGED <<uses, failures>>
    /\ rpc' = [rpc EXCEPT ![i] = "reply"]
    /\ UNCHANGED <<issued, expired, by, agents, proc, mem, fileVars>>

\* uses_count is incremented (best effort), then the handler replies.
EnrollCount(i) ==
    /\ rpc[i] = "count"
    /\ \/ uses' = [uses EXCEPT ![TokenOf[by[i]]] = @ + 1] /\ UNCHANGED failures
       \/ Fail /\ UNCHANGED uses
    /\ rpc' = [rpc EXCEPT ![i] = "reply"]
    /\ UNCHANGED <<issued, expired, by, agents, proc, mem, fileVars>>

\* The handler of an attempt whose machine has crashed is dropped, or replies
\* to no one.
EnrollDrop(i) ==
    /\ rpc[i] \in {"check", "insert", "count", "reply"}
    /\ Abandoned(i)
    /\ rpc' = [rpc EXCEPT ![i] = IF i \in agents THEN "over" ELSE "none"]
    /\ by' = [by EXCEPT ![i] = IF i \in agents THEN @ ELSE NoHost]
    /\ UNCHANGED <<issued, expired, uses, agents, proc, mem, fileVars, failures>>

----------------------------------------------------------------------------
HostStep(h) ==
    \/ StartEnrolled(h) \/ StartEnrolling(h)
    \/ SaveStart(h) \/ SaveCert(h) \/ SaveKey(h) \/ SaveId(h)

RpcStep(i) == EnrollCheck(i) \/ EnrollInsert(i) \/ EnrollCount(i) \/ EnrollDrop(i)

Next ==
    \/ \E t \in Tokens : IssueToken(t) \/ Expire(t)
    \/ \E h \in Hosts : HostStep(h) \/ Crash(h)
    \/ \E i \in Attempts : RpcStep(i)

Spec == Init /\ [][Next]_vars

\* The service manager restarts the agent, the processes and the RPC run, and
\* an administrator issues the token the machine was configured with.
Fairness ==
    /\ \A t \in Tokens : WF_vars(IssueToken(t))
    /\ \A h \in Hosts : WF_vars(HostStep(h))
    /\ \A i \in Attempts : WF_vars(RpcStep(i))

FairSpec == Spec /\ Fairness

----------------------------------------------------------------------------
(* Properties. *)

\* The inductive invariant behind RunningIsEnrolled.  The id file is written
\* last, so one that exists has the other two beside it, and an intact one has
\* those of its own attempt; a process that enrols has no id file yet; the
\* handler replies only after the agent's row is in.
FilesAgree ==
    \A h \in Hosts :
        /\ idf[h] # NoFile => cert[h] # NoFile /\ key[h] # NoFile
        /\ idf[h] \in Attempts => idf[h] \in agents /\ cert[h] = idf[h] /\ key[h] = idf[h]

SavesInOrder ==
    \A h \in Hosts :
        /\ proc[h] \in {"wait", "cert", "key", "id"} => idf[h] = NoFile
        /\ proc[h] \in {"cert", "key", "id"} => mem[h] \in agents
        /\ proc[h] \in {"key", "id"} => cert[h] = mem[h]
        /\ proc[h] = "id" => key[h] = mem[h]
        /\ proc[h] = "running" => idf[h] \in Attempts

RepliesAfterInsert ==
    \A i \in Attempts : rpc[i] \in {"count", "reply", "over"} => i \in agents

IInv == TypeOK /\ FilesAgree /\ SavesInOrder /\ RepliesAfterInsert

\* A running agent presents a certificate for its own key, under its own id,
\* and the manager knows that id: whatever crashes cut short the saves of
\* earlier attempts, the files a start-up accepts belong to one attempt.
RunningIsEnrolled ==
    \A h \in Hosts : proc[h] = "running" =>
        /\ idf[h] \in agents
        /\ cert[h] = idf[h]
        /\ key[h] = idf[h]

\* A machine with an intact id file keeps its identity, through every restart:
\* the assignments and events the manager keeps under that id stay its own.
IdentityKept ==
    [][\A h \in Hosts : idf[h] \in Attempts =>
          idf'[h] = idf[h] /\ cert'[h] = cert[h] /\ key'[h] = key[h]]_vars

\* Crashes between the RPC and the last write, and failing statements, are
\* recovered from: with a token that has uses left and does not expire, every
\* machine ends up running as an agent, except one whose id file was torn.
EventuallyRunning ==
    \A h \in Hosts :
        <>[](proc[h] = "running" \/ idf[h] = Torn \/ TokenOf[h] \in expired)

\* uses_count accounts for the agents a token has enrolled, however their
\* handlers interleave and even when the token expires meanwhile: an agent in
\* the table is counted, about to be, or went uncounted because of a failure.
\* The limit itself may be passed by attempts that overlap: each of them is
\* checked before any is counted.
UsesAccounted ==
    \A t \in Tokens :
        Cardinality({i \in agents : TokenOf[by[i]] = t})
            <= uses[t] + failures + Cardinality({i \in agents : rpc[i] = "count"})
============================================================================
