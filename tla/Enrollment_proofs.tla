------------------------- MODULE Enrollment_proofs -------------------------
(***************************************************************************)
(* Proofs about Enrollment, for any number of machines, tokens, attempts   *)
(* and failures, and any set of faults.                                    *)
(***************************************************************************)
EXTENDS Enrollment, FiniteSetTheorems, TLAPS

\* The initial state satisfies the inductive invariant.
LEMMA InitIInv == Init => IInv
  BY EnrollmentAssumption
  DEF Init, IInv, TypeOK, FilesAgree, SavesInOrder, RepliesAfterInsert,
      FileState, Attempts, NoFile, Torn, RpcState, ProcState

\* The start-up of the agent, and the four steps of saving an enrolment,
\* preserve it.
LEMMA HostStepIInv ==
  ASSUME IInv, NEW h \in Hosts, HostStep(h)
  PROVE  IInv'
<1> USE EnrollmentAssumption
    DEF IInv, TypeOK, FilesAgree, SavesInOrder, RepliesAfterInsert,
        FileState, Attempts, NoFile, Torn, RpcState, ProcState,
        managerVars, fileVars, Complete
<1>1. CASE StartEnrolled(h)
  BY <1>1 DEF StartEnrolled
<1>2. CASE StartEnrolling(h)
  BY <1>2 DEF StartEnrolling
<1>3. CASE SaveStart(h)
  BY <1>3 DEF SaveStart
<1>4. CASE SaveCert(h)
  BY <1>4 DEF SaveCert
<1>5. CASE SaveKey(h)
  BY <1>5 DEF SaveKey
<1>6. CASE SaveId(h)
  BY <1>6 DEF SaveId
<1> QED
  BY <1>1, <1>2, <1>3, <1>4, <1>5, <1>6 DEF HostStep

\* A crash at any point preserves it, a write cut short included.
LEMMA CrashIInv ==
  ASSUME IInv, NEW h \in Hosts, Crash(h)
  PROVE  IInv'
<1> USE EnrollmentAssumption
    DEF IInv, TypeOK, FileState, Attempts, NoFile, Torn, RpcState, ProcState,
        managerVars, fileVars
<1>1. TypeOK'
  <2>1. /\ cert' \in [Hosts -> FileState]
        /\ key' \in [Hosts -> FileState]
        /\ idf' \in [Hosts -> FileState]
    BY DEF Crash
  <2>2. /\ proc' \in [Hosts -> ProcState]
        /\ mem' \in [Hosts -> Attempts \cup {0}]
        /\ \A g \in Hosts : proc'[g] \in {"wait", "cert", "key", "id"} => mem'[g] \in Attempts
    BY DEF Crash
  <2>3. failures' \in 0 .. MaxFailures
    BY DEF Crash, Fail
  <2>4. UNCHANGED managerVars
    BY DEF Crash
  <2> QED
    BY <2>1, <2>2, <2>3, <2>4
<1>2. FilesAgree'
  <2>1. CASE UNCHANGED fileVars
    BY <2>1 DEF Crash, FilesAgree
  <2>2. CASE proc[h] = "cert" /\ cert' = [cert EXCEPT ![h] = Torn] /\ UNCHANGED <<key, idf>>
    BY <2>2 DEF Crash, FilesAgree, SavesInOrder
  <2>3. CASE proc[h] = "key" /\ key' = [key EXCEPT ![h] = Torn] /\ UNCHANGED <<cert, idf>>
    BY <2>3 DEF Crash, FilesAgree, SavesInOrder
  <2>4. CASE proc[h] = "id" /\ idf' = [idf EXCEPT ![h] = Torn] /\ UNCHANGED <<cert, key>>
    BY <2>4 DEF Crash, FilesAgree, SavesInOrder
  <2> QED
    BY <2>1, <2>2, <2>3, <2>4 DEF Crash
<1>3. SavesInOrder'
  BY DEF Crash, SavesInOrder
<1>4. RepliesAfterInsert'
  BY DEF Crash, RepliesAfterInsert
<1> QED
  BY <1>1, <1>2, <1>3, <1>4

\* An attempt that ends unserved leaves the other machines as they were, and
\* its own, if it still waits, down with its files untouched.
LEMMA EndUnservedIInv ==
  ASSUME IInv, NEW i \in Attempts, EndUnserved(i), rpc[i] \in {"check", "insert"},
         Fail \/ UNCHANGED failures, UNCHANGED <<issued, expired, uses, agents, fileVars>>
  PROVE  IInv'
<1> USE EnrollmentAssumption
    DEF IInv, TypeOK, FileState, Attempts, NoFile, Torn, RpcState, ProcState, fileVars
<1>1. /\ rpc' \in [Attempts -> RpcState]
      /\ by' \in [Attempts -> Hosts \cup {NoHost}]
      /\ failures' \in 0 .. MaxFailures
      /\ RepliesAfterInsert'
  BY DEF EndUnserved, RepliesAfterInsert, Fail
<1>2. CASE UNCHANGED <<proc, mem>>
  BY <1>1, <1>2 DEF FilesAgree, SavesInOrder
<1>3. CASE ~Abandoned(i)
  <2>1. PICK h \in Hosts : proc' = [proc EXCEPT ![h] = "down"] /\ mem' = [mem EXCEPT ![h] = 0]
    BY <1>3 DEF EndUnserved, Abandoned
  <2>2. TypeOK'
    BY <1>1, <2>1
  <2>3. FilesAgree' /\ SavesInOrder'
    BY <2>1 DEF FilesAgree, SavesInOrder
  <2> QED
    BY <1>1, <2>2, <2>3
<1> QED
  BY <1>2, <1>3 DEF EndUnserved

\* The Enroll handler preserves it.
LEMMA RpcStepIInv ==
  ASSUME IInv, NEW i \in Attempts, RpcStep(i)
  PROVE  IInv'
<1> USE EnrollmentAssumption
<1>1. CASE EnrollCheck(i)
  <2>1. CASE EndUnserved(i)
    BY <1>1, <2>1, EndUnservedIInv DEF EnrollCheck
  <2>2. CASE rpc' = [rpc EXCEPT ![i] = "insert"] /\ UNCHANGED <<by, proc, mem, failures>>
    BY <1>1, <2>2 DEF EnrollCheck, IInv, TypeOK, FilesAgree, SavesInOrder, RepliesAfterInsert,
                      RpcState, fileVars
  <2> QED
    BY <1>1, <2>1, <2>2 DEF EnrollCheck
<1>2. CASE EnrollInsert(i)
  <2>1. CASE EndUnserved(i) /\ UNCHANGED agents
    BY <1>2, <2>1, EndUnservedIInv DEF EnrollInsert
  <2>2. CASE agents' = agents \cup {i} /\ rpc' = [rpc EXCEPT ![i] = "count"]
             /\ UNCHANGED <<by, proc, mem, failures>>
    BY <1>2, <2>2 DEF EnrollInsert, IInv, TypeOK, FilesAgree, SavesInOrder, RepliesAfterInsert,
                      RpcState, fileVars
  <2> QED
    BY <1>2, <2>1, <2>2 DEF EnrollInsert
<1> USE DEF IInv, TypeOK, FilesAgree, SavesInOrder, RepliesAfterInsert,
            RpcState, fileVars, Abandoned
<1>3. CASE EnrollCount(i)
  BY <1>3 DEF EnrollCount, Fail
<1>4. CASE EnrollDrop(i)
  BY <1>4 DEF EnrollDrop
<1> QED
  BY <1>1, <1>2, <1>3, <1>4 DEF RpcStep

\* Every step preserves it.
LEMMA NextIInv == IInv /\ [Next]_vars => IInv'
<1> SUFFICES ASSUME IInv, [Next]_vars
             PROVE  IInv'
  OBVIOUS
<1>1. ASSUME NEW t \in Tokens, IssueToken(t) \/ Expire(t)
      PROVE  IInv'
  BY <1>1 DEF IssueToken, Expire, IInv, TypeOK, FilesAgree, SavesInOrder,
              RepliesAfterInsert, fileVars
<1>2. CASE UNCHANGED vars
  BY <1>2 DEF vars, managerVars, fileVars, IInv, TypeOK, FilesAgree, SavesInOrder,
              RepliesAfterInsert
<1> QED
  BY <1>1, <1>2, HostStepIInv, CrashIInv, RpcStepIInv DEF Next

\* The inductive invariant, and with it the types, hold in every state.
THEOREM EnrollmentInvariant == Spec => []IInv
  BY InitIInv, NextIInv, PTL DEF Spec

\* Type correctness: among the rest, a machine that waits or saves knows its
\* attempt, for any number of machines, tokens, attempts and failures.
THEOREM EnrollmentTypes == Spec => []TypeOK
<1>1. IInv => TypeOK
  BY DEF IInv
<1> QED
  BY <1>1, EnrollmentInvariant, PTL

\* A running agent presents a matching certificate, key and id that the
\* manager has on record, however often and wherever its enrolment and its
\* saves were cut short (state.rs, grpc.rs enroll).
THEOREM RunningAgentsAreEnrolled == Spec => []RunningIsEnrolled
<1>1. IInv => RunningIsEnrolled
  BY DEF IInv, FilesAgree, SavesInOrder, RunningIsEnrolled
<1> QED
  BY <1>1, EnrollmentInvariant, PTL

\* A machine with an intact id file never changes identity.
THEOREM IdentityIsKept == Spec => IdentityKept
<1> DEFINE Keep == \A h \in Hosts : idf[h] \in Attempts =>
                      idf'[h] = idf[h] /\ cert'[h] = cert[h] /\ key'[h] = key[h]
<1>1. IInv /\ [Next]_vars => [Keep]_vars
  <2> SUFFICES ASSUME IInv, Next
               PROVE  Keep
    OBVIOUS
  <2> USE EnrollmentAssumption
      DEF IInv, TypeOK, SavesInOrder, FileState, Attempts, NoFile, fileVars
  <2>1. ASSUME NEW t \in Tokens, IssueToken(t) \/ Expire(t)
        PROVE  Keep
    BY <2>1 DEF IssueToken, Expire
  <2>2. ASSUME NEW h \in Hosts, HostStep(h)
        PROVE  Keep
    BY <2>2 DEF HostStep, StartEnrolled, StartEnrolling, SaveStart, SaveCert, SaveKey, SaveId
  <2>3. ASSUME NEW h \in Hosts, Crash(h)
        PROVE  Keep
    BY <2>3 DEF Crash
  <2>4. ASSUME NEW i \in Attempts, RpcStep(i)
        PROVE  Keep
    BY <2>4 DEF RpcStep, EnrollCheck, EnrollInsert, EnrollCount, EnrollDrop
  <2> QED
    BY <2>1, <2>2, <2>3, <2>4 DEF Next
<1> QED
  BY <1>1, EnrollmentInvariant, PTL DEF Spec, IdentityKept

----------------------------------------------------------------------------
(* uses_count.  An agent whose token has not been charged for it is either *)
(* about to be counted, or owes its place to a failure: the UPDATE failed, *)
(* or the handler was dropped before it.  A handler is dropped only after  *)
(* its machine crashed, so a crash pays in advance for the attempt it      *)
(* abandons.                                                               *)

\* Every attempt that has begun has a machine, and a row in `agents` once its
\* handler is past the INSERT and not before.
AttemptsOwned ==
    \A i \in Attempts :
        /\ rpc[i] # "none" => by[i] \in Hosts
        /\ rpc[i] \in {"none", "check", "insert"} => i \notin agents

\* A machine remembers an attempt exactly while it waits for it or saves it,
\* and that attempt is its own.
MemoryFollows ==
    \A h \in Hosts :
        /\ mem[h] # 0 => by[mem[h]] = h
        /\ proc[h] \in {"down", "running", "failed"} => mem[h] = 0
        /\ proc[h] = "wait" => rpc[mem[h]] \in {"check", "insert", "count", "reply"}
        /\ proc[h] \in {"cert", "key", "id"} => rpc[mem[h]] = "over"

\* The attempts that must be paid for by a use of t or by a failure.
Enrolled(t) == {i \in agents : TokenOf[by[i]] = t /\ rpc[i] # "count"}
Orphans ==
    {i \in Attempts : rpc[i] \in {"check", "insert", "count"} /\ Abandoned(i)}
Charged(t) == Enrolled(t) \cup Orphans

UsesInv ==
    /\ IInv
    /\ AttemptsOwned
    /\ MemoryFollows
    /\ \A t \in Tokens : Cardinality(Charged(t)) <= uses[t] + failures

\* Sets of attempts are finite; one that gains at most one member gains at most
\* one in size.
LEMMA AttemptSets ==
  ASSUME NEW S \in SUBSET Attempts
  PROVE  IsFiniteSet(S) /\ Cardinality(S) \in Nat
<1>1. IsFiniteSet(Attempts)
  BY EnrollmentAssumption, FS_Interval DEF Attempts
<1>2. IsFiniteSet(S)
  BY <1>1, FS_Subset
<1> QED
  BY <1>2, FS_CardinalityType

LEMMA NoMore ==
  ASSUME NEW S \in SUBSET Attempts, NEW T \in SUBSET S
  PROVE  Cardinality(T) <= Cardinality(S)
  BY AttemptSets, FS_Subset

LEMMA OneMore ==
  ASSUME NEW S \in SUBSET Attempts, NEW x \in Attempts, NEW T \in SUBSET (S \cup {x})
  PROVE  Cardinality(T) <= Cardinality(S) + 1
<1>1. Cardinality(S \cup {x}) <= Cardinality(S) + 1
  BY AttemptSets, FS_AddElement
<1>2. Cardinality(T) <= Cardinality(S \cup {x})
  BY NoMore
<1>3. /\ Cardinality(S) \in Nat
      /\ Cardinality(T) \in Nat
      /\ Cardinality(S \cup {x}) \in Nat
  BY AttemptSets
<1> QED
  BY <1>1, <1>2, <1>3

Ownership == AttemptsOwned /\ MemoryFollows

\* A machine's own steps and its crashes leave attempts with their machines.
LEMMA HostStepOwnership ==
  ASSUME IInv, Ownership, NEW h \in Hosts, HostStep(h) \/ Crash(h)
  PROVE  Ownership'
<1> USE EnrollmentAssumption
    DEF IInv, TypeOK, Ownership, AttemptsOwned, MemoryFollows, Attempts, NoHost,
        RpcState, ProcState, managerVars, fileVars
<1>1. CASE StartEnrolled(h)
  BY <1>1 DEF StartEnrolled
<1>2. CASE StartEnrolling(h)
  BY <1>2 DEF StartEnrolling
<1>3. CASE SaveStart(h)
  BY <1>3 DEF SaveStart
<1>4. CASE SaveCert(h)
  BY <1>4 DEF SaveCert
<1>5. CASE SaveKey(h)
  BY <1>5 DEF SaveKey
<1>6. CASE SaveId(h)
  BY <1>6 DEF SaveId
<1>7. CASE Crash(h)
  BY <1>7 DEF Crash
<1> QED
  BY <1>1, <1>2, <1>3, <1>4, <1>5, <1>6, <1>7 DEF HostStep

\* So does an attempt that ends unserved: its machine forgets it.
LEMMA EndUnservedOwnership ==
  ASSUME IInv, Ownership, NEW i \in Attempts, EndUnserved(i),
         rpc[i] \in {"check", "insert"}, UNCHANGED agents
  PROVE  Ownership'
<1> USE EnrollmentAssumption
    DEF IInv, TypeOK, Ownership, Attempts, NoHost, RpcState, ProcState
<1>1. AttemptsOwned'
  BY DEF EndUnserved, AttemptsOwned
<1>2. CASE Abandoned(i) /\ UNCHANGED <<proc, mem>>
  <2>1. \A h \in Hosts : mem[h] # i
    BY <1>2, SMTT(40) DEF MemoryFollows, Abandoned
  <2>2. MemoryFollows'
    BY <1>2, <2>1 DEF EndUnserved, MemoryFollows
  <2> QED
    BY <1>1, <2>2
<1>3. CASE ~Abandoned(i)
  <2>1. PICK h \in Hosts : /\ proc' = [proc EXCEPT ![h] = "down"]
                           /\ mem' = [mem EXCEPT ![h] = 0]
                           /\ mem[h] = i
    BY <1>3 DEF EndUnserved, Abandoned
  <2>2. \A g \in Hosts : g # h => mem[g] # i
    BY <2>1 DEF MemoryFollows
  <2>3. MemoryFollows'
    BY <2>1, <2>2 DEF EndUnserved, MemoryFollows
  <2> QED
    BY <1>1, <2>3
<1> QED
  BY <1>2, <1>3 DEF EndUnserved

LEMMA RpcStepOwnership ==
  ASSUME IInv, Ownership, NEW i \in Attempts, RpcStep(i)
  PROVE  Ownership'
<1> USE EnrollmentAssumption
    DEF IInv, TypeOK, Ownership, Attempts, NoHost, RpcState, ProcState, fileVars
<1>1. CASE EnrollCheck(i)
  <2>1. CASE EndUnserved(i)
    BY <1>1, <2>1, EndUnservedOwnership DEF EnrollCheck
  <2>2. CASE rpc' = [rpc EXCEPT ![i] = "insert"] /\ UNCHANGED <<by, proc, mem, failures>>
    BY <1>1, <2>2 DEF EnrollCheck, AttemptsOwned, MemoryFollows
  <2> QED
    BY <1>1, <2>1, <2>2 DEF EnrollCheck
<1>2. CASE EnrollInsert(i)
  <2>1. CASE EndUnserved(i) /\ UNCHANGED agents
    BY <1>2, <2>1, EndUnservedOwnership DEF EnrollInsert
  <2>2. CASE agents' = agents \cup {i} /\ rpc' = [rpc EXCEPT ![i] = "count"]
             /\ UNCHANGED <<by, proc, mem, failures>>
    BY <1>2, <2>2 DEF EnrollInsert, AttemptsOwned, MemoryFollows
  <2> QED
    BY <1>2, <2>1, <2>2 DEF EnrollInsert
<1>3. CASE EnrollCount(i)
  BY <1>3 DEF EnrollCount, AttemptsOwned, MemoryFollows
<1>4. CASE EnrollDrop(i)
  <2>1. \A h \in Hosts : mem[h] # i
    BY <1>4 DEF EnrollDrop, MemoryFollows, Abandoned
  <2>2. AttemptsOwned'
    BY <1>4 DEF EnrollDrop, AttemptsOwned, RepliesAfterInsert
  <2>3. MemoryFollows'
    BY <1>4, <2>1 DEF EnrollDrop, MemoryFollows
  <2> QED
    BY <2>2, <2>3
<1> QED
  BY <1>1, <1>2, <1>3, <1>4 DEF RpcStep

LEMMA NextOwnership ==
  ASSUME IInv, Ownership, [Next]_vars
  PROVE  Ownership'
<1>1. ASSUME NEW t \in Tokens, IssueToken(t) \/ Expire(t)
      PROVE  Ownership'
  BY <1>1 DEF IssueToken, Expire, Ownership, AttemptsOwned, MemoryFollows
<1>2. CASE UNCHANGED vars
  BY <1>2 DEF vars, managerVars, Ownership, AttemptsOwned, MemoryFollows
<1> QED
  BY <1>1, <1>2, HostStepOwnership, RpcStepOwnership DEF Next

\* What has to be paid for is a set of attempts.
LEMMA ChargedAttempts ==
  ASSUME IInv, NEW t
  PROVE  Charged(t) \in SUBSET Attempts
  BY DEF IInv, TypeOK, Charged, Enrolled, Orphans

\* The payments.  A step that charges nothing new keeps a paid account paid; so
\* does one that charges one attempt more and raises uses_count or uses up a
\* failure.
Paid(t) == Cardinality(Charged(t)) <= uses[t] + failures

LEMMA NothingCharged ==
  ASSUME IInv, IInv', NEW t \in Tokens, Paid(t), Charged(t)' \subseteq Charged(t),
         uses[t] <= uses'[t], failures <= failures'
  PROVE  Paid(t)'
<1>1. /\ Charged(t) \in SUBSET Attempts
      /\ Charged(t)' \in SUBSET Attempts
  BY ChargedAttempts DEF IInv, TypeOK, Charged, Enrolled, Orphans
<1>2. PICK S \in SUBSET Attempts : S = Charged(t)
  BY <1>1
<1>3. PICK T \in SUBSET S : T = Charged(t)'
  BY <1>2
<1>4. /\ Cardinality(T) <= Cardinality(S)
      /\ Cardinality(T) \in Nat
      /\ Cardinality(S) \in Nat
  BY <1>2, <1>3, NoMore, AttemptSets
<1>5. /\ uses[t] \in Nat /\ uses'[t] \in Nat
      /\ failures \in Nat /\ failures' \in Nat
  BY EnrollmentAssumption DEF IInv, TypeOK
<1>6. Cardinality(S) <= uses[t] + failures
  BY <1>2 DEF Paid
<1>7. Cardinality(T) <= uses'[t] + failures'
  BY <1>4, <1>5, <1>6
<1> QED
  BY <1>3, <1>7 DEF Paid

LEMMA OneCharged ==
  ASSUME IInv, IInv', NEW t \in Tokens, Paid(t), NEW x \in Attempts,
         Charged(t)' \subseteq Charged(t) \cup {x},
         uses'[t] + failures' = uses[t] + failures + 1
  PROVE  Paid(t)'
<1>1. Charged(t) \in SUBSET Attempts
  BY ChargedAttempts
<1>2. PICK S \in SUBSET Attempts : S = Charged(t)
  BY <1>1
<1>3. PICK T \in SUBSET (S \cup {x}) : T = Charged(t)'
  BY <1>2
<1>4. /\ Cardinality(T) <= Cardinality(S) + 1
      /\ Cardinality(T) \in Nat
      /\ Cardinality(S) \in Nat
  BY <1>2, <1>3, OneMore, AttemptSets
<1>5. uses[t] \in Nat /\ failures \in Nat
  BY EnrollmentAssumption DEF IInv, TypeOK
<1>6. Cardinality(S) <= uses[t] + failures
  BY <1>2 DEF Paid
<1>7. Cardinality(T) <= uses'[t] + failures'
  BY <1>4, <1>5, <1>6
<1> QED
  BY <1>3, <1>7 DEF Paid

\* A machine's own steps charge nothing: none abandons an attempt that is not
\* past the UPDATE.
LEMMA HostStepPaid ==
  ASSUME IInv, IInv', Ownership, NEW h \in Hosts, HostStep(h), NEW t \in Tokens, Paid(t)
  PROVE  Paid(t)'
<1>1. Charged(t)' \subseteq Charged(t) /\ uses' = uses /\ failures' = failures
  <2> USE EnrollmentAssumption
      DEF IInv, TypeOK, Ownership, AttemptsOwned, MemoryFollows, Attempts, NoHost, RpcState,
          managerVars, fileVars, Charged, Enrolled, Orphans, Abandoned
  <2>1. CASE StartEnrolled(h)
    BY <2>1 DEF StartEnrolled
  <2>2. CASE StartEnrolling(h)
    BY <2>2 DEF StartEnrolling
  <2>3. CASE SaveStart(h)
    BY <2>3 DEF SaveStart
  <2>4. CASE SaveCert(h) \/ SaveKey(h)
    BY <2>4 DEF SaveCert, SaveKey
  <2>5. CASE SaveId(h)
    BY <2>5 DEF SaveId
  <2> QED
    BY <2>1, <2>2, <2>3, <2>4, <2>5 DEF HostStep
<1>2. uses[t] <= uses'[t] /\ failures <= failures'
  BY <1>1, EnrollmentAssumption DEF IInv, TypeOK
<1> QED
  BY <1>1, <1>2, NothingCharged

\* A crash abandons at most the attempt its machine remembered, and is itself
\* the failure that pays for it.
LEMMA CrashPaid ==
  ASSUME IInv, IInv', Ownership, NEW h \in Hosts, Crash(h), NEW t \in Tokens, Paid(t)
  PROVE  Paid(t)'
<1> USE EnrollmentAssumption
    DEF IInv, TypeOK, Ownership, AttemptsOwned, MemoryFollows, Attempts, NoHost, managerVars
<1>1. /\ UNCHANGED managerVars
      /\ mem' = [mem EXCEPT ![h] = 0]
      /\ failures' = failures + 1
  BY DEF Crash, Fail
<1>2. CASE mem[h] = 0
  <2>1. mem' = mem
    BY <1>1, <1>2
  <2>2. uses[t] <= uses'[t] /\ failures <= failures'
    BY <1>1
  <2>3. Charged(t)' \subseteq Charged(t)
    BY <1>1, <2>1 DEF Charged, Enrolled, Orphans, Abandoned
  <2> QED
    BY <2>2, <2>3, NothingCharged
<1>3. CASE mem[h] # 0
  <2>1. Charged(t)' \subseteq Charged(t) \cup {mem[h]}
    BY <1>1, <1>3 DEF Charged, Enrolled, Orphans, Abandoned
  <2>2. uses'[t] + failures' = uses[t] + failures + 1
    BY <1>1
  <2>3. mem[h] \in Attempts
    BY <1>3
  <2> QED
    BY <2>1, <2>2, <2>3, OneCharged
<1> QED
  BY <1>2, <1>3

\* The handler charges an attempt only in the UPDATE, which counts it or fails;
\* a handler that is dropped before it leaves a charge the crash has paid.
LEMMA RpcStepPaid ==
  ASSUME IInv, IInv', Ownership, NEW i \in Attempts, RpcStep(i), NEW t \in Tokens, Paid(t)
  PROVE  Paid(t)'
<1> USE EnrollmentAssumption
    DEF IInv, TypeOK, Ownership, AttemptsOwned, MemoryFollows, Attempts, NoHost, RpcState, fileVars
<1>1. ASSUME EndUnserved(i), rpc[i] \in {"check", "insert"}, UNCHANGED <<agents, uses>>
      PROVE  Charged(t)' \subseteq Charged(t)
  <2>1. CASE UNCHANGED mem
    BY <1>1, <2>1 DEF EndUnserved, Charged, Enrolled, Orphans, Abandoned
  <2>2. CASE ~Abandoned(i)
    BY <1>1, <2>2 DEF EndUnserved, Charged, Enrolled, Orphans, Abandoned
  <2> QED
    BY <1>1, <2>1, <2>2 DEF EndUnserved
<1>2. CASE EnrollCheck(i)
  <2>1. /\ Charged(t)' \subseteq Charged(t)
        /\ uses' = uses /\ failures <= failures'
    <3>1. CASE EndUnserved(i)
      BY <1>1, <1>2, <3>1 DEF EnrollCheck, Fail
    <3>2. CASE rpc' = [rpc EXCEPT ![i] = "insert"] /\ UNCHANGED <<by, proc, mem, failures>>
      BY <1>2, <3>2 DEF EnrollCheck, Charged, Enrolled, Orphans, Abandoned
    <3> QED
      BY <1>2, <3>1, <3>2 DEF EnrollCheck
  <2> QED
    BY <2>1, NothingCharged
<1>3. CASE EnrollInsert(i)
  <2>1. /\ Charged(t)' \subseteq Charged(t)
        /\ uses' = uses /\ failures <= failures'
    <3>1. CASE EndUnserved(i) /\ UNCHANGED agents /\ Fail
      BY <1>1, <1>3, <3>1 DEF EnrollInsert, Fail
    <3>2. CASE /\ agents' = agents \cup {i} /\ rpc' = [rpc EXCEPT ![i] = "count"]
               /\ UNCHANGED <<by, proc, mem, failures>>
      BY <1>3, <3>2 DEF EnrollInsert, Charged, Enrolled, Orphans, Abandoned
    <3> QED
      BY <1>3, <3>1, <3>2 DEF EnrollInsert
  <2> QED
    BY <2>1, NothingCharged
<1>4. CASE EnrollCount(i)
  <2>1. i \in agents /\ by[i] \in Hosts /\ TokenOf[by[i]] \in Tokens
    BY <1>4 DEF EnrollCount, RepliesAfterInsert
  <2>2. CASE t = TokenOf[by[i]]
    <3>1. Charged(t)' \subseteq Charged(t) \cup {i}
      BY <1>4 DEF EnrollCount, Charged, Enrolled, Orphans, Abandoned
    <3>2. \/ uses'[t] = uses[t] + 1 /\ failures' = failures
          \/ uses'[t] = uses[t] /\ failures' = failures + 1
      BY <1>4, <2>1, <2>2 DEF EnrollCount, Fail
    <3>3. uses[t] \in Nat /\ failures \in Nat
      OBVIOUS
    <3>4. uses'[t] + failures' = uses[t] + failures + 1
      <4> HIDE DEF IInv, TypeOK, Ownership, AttemptsOwned, MemoryFollows
      <4> QED
        BY <3>2, <3>3
    <3> QED
      BY <3>1, <3>4, OneCharged
  <2>3. CASE t # TokenOf[by[i]]
    <3>1. Charged(t)' \subseteq Charged(t)
      BY <1>4, <2>1, <2>3 DEF EnrollCount, Charged, Enrolled, Orphans, Abandoned
    <3>2. uses[t] <= uses'[t] /\ failures <= failures'
      BY <1>4, <2>1, <2>3 DEF EnrollCount, Fail
    <3> QED
      BY <3>1, <3>2, NothingCharged
  <2> QED
    BY <2>2, <2>3
<1>5. CASE EnrollDrop(i)
  <2>1. Charged(t)' \subseteq Charged(t)
    BY <1>5 DEF EnrollDrop, Charged, Enrolled, Orphans, Abandoned
  <2>2. uses[t] <= uses'[t] /\ failures <= failures'
    BY <1>5 DEF EnrollDrop
  <2> QED
    BY <2>1, <2>2, NothingCharged
<1> QED
  BY <1>2, <1>3, <1>4, <1>5 DEF RpcStep

LEMMA NextPaid ==
  ASSUME IInv, IInv', Ownership, [Next]_vars, NEW t \in Tokens, Paid(t)
  PROVE  Paid(t)'
<1>1. CASE UNCHANGED managerVars /\ UNCHANGED <<mem, failures>>
  <2>1. Charged(t)' = Charged(t)
    BY <1>1 DEF managerVars, Charged, Enrolled, Orphans, Abandoned
  <2> QED
    BY <1>1, <2>1 DEF managerVars, Paid
<1>2. ASSUME NEW u \in Tokens, IssueToken(u) \/ Expire(u)
      PROVE  Paid(t)'
  <2>1. Charged(t)' = Charged(t) /\ UNCHANGED <<uses, failures>>
    BY <1>2 DEF IssueToken, Expire, Charged, Enrolled, Orphans, Abandoned
  <2> QED
    BY <2>1 DEF Paid
<1> QED
  BY <1>1, <1>2, HostStepPaid, CrashPaid, RpcStepPaid DEF Next, vars

\* The accounts balance in every state.
LEMMA UsesInvariant == Spec => []UsesInv
<1>1. Init => UsesInv
  <2> SUFFICES ASSUME Init
               PROVE  UsesInv
    OBVIOUS
  <2>1. IInv
    BY InitIInv
  <2>2. AttemptsOwned /\ MemoryFollows
    BY DEF Init, AttemptsOwned, MemoryFollows
  <2>3. ASSUME NEW t \in Tokens
        PROVE  Cardinality(Charged(t)) <= uses[t] + failures
    <3>1. Charged(t) = {}
      BY DEF Init, Charged, Enrolled, Orphans
    <3> QED
      BY <3>1, FS_EmptySet DEF Init
  <2> QED
    BY <2>1, <2>2, <2>3 DEF UsesInv
<1>2. UsesInv /\ [Next]_vars => UsesInv'
  <2> SUFFICES ASSUME UsesInv, [Next]_vars
               PROVE  UsesInv'
    OBVIOUS
  <2>1. IInv /\ Ownership /\ \A t \in Tokens : Paid(t)
    BY DEF UsesInv, Ownership, Paid
  <2>2. IInv' /\ Ownership'
    BY <2>1, NextIInv, NextOwnership
  <2>3. \A t \in Tokens : Paid(t)'
    BY <2>1, <2>2, NextPaid
  <2> QED
    BY <2>2, <2>3 DEF UsesInv, Ownership, Paid
<1> QED
  BY <1>1, <1>2, PTL DEF Spec

\* However handlers interleave, crash and are dropped, the agents enrolled with
\* a token are covered by its uses_count, by failures, and by the handlers that
\* are about to count (grpc.rs enroll).
THEOREM UsesAreAccountedFor == Spec => []UsesAccounted
<1>1. UsesInv => UsesAccounted
  <2> SUFFICES ASSUME UsesInv, NEW t \in Tokens
               PROVE  Cardinality({i \in agents : TokenOf[by[i]] = t})
                        <= uses[t] + failures + Cardinality({i \in agents : rpc[i] = "count"})
    BY DEF UsesAccounted
  <2> DEFINE A == {i \in agents : TokenOf[by[i]] = t}
             B == {i \in agents : rpc[i] = "count"}
             C == Charged(t)
  <2>1. /\ A \in SUBSET Attempts /\ B \in SUBSET Attempts /\ C \in SUBSET Attempts
        /\ A \subseteq C \cup B
    BY ChargedAttempts DEF UsesInv, IInv, TypeOK, Charged, Enrolled
  <2>2. IsFiniteSet(B) /\ IsFiniteSet(C)
    BY <2>1, AttemptSets
  <2>3. Cardinality(C \cup B) = Cardinality(C) + Cardinality(B) - Cardinality(C \cap B)
    BY <2>2, FS_Union
  <2>4. Cardinality(A) <= Cardinality(C \cup B)
    BY <2>1, NoMore
  <2>5. /\ Cardinality(A) \in Nat /\ Cardinality(B) \in Nat /\ Cardinality(C) \in Nat
        /\ Cardinality(C \cap B) \in Nat
    BY <2>1, AttemptSets
  <2>6. Cardinality(C) <= uses[t] + failures
    BY DEF UsesInv
  <2>7. uses[t] \in Nat /\ failures \in Nat
    BY EnrollmentAssumption DEF UsesInv, IInv, TypeOK
  <2> HIDE DEF A, B, C
  <2>8. Cardinality(A) <= uses[t] + failures + Cardinality(B)
    BY <2>3, <2>4, <2>5, <2>6, <2>7
  <2> QED
    BY <2>8 DEF A, B
<1> QED
  BY <1>1, UsesInvariant, PTL
============================================================================
