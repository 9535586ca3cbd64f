-------------------------- MODULE AuthTokens_proofs --------------------------
(***************************************************************************)
(* AuthTokens for any users, handlers, tokens and lifetimes: AuthInv is    *)
(* inductive, and implies what the runs check.  Each part is preserved by  *)
(* each action on its own; the parts only share the types.                 *)
(***************************************************************************)
EXTENDS AuthTokens, TLAPS

\* The kind of record a handler holds follows from its stage.
LEMMA HandlerKinds ==
    ASSUME TypeOK, NEW h \in Handlers
    PROVE  /\ handlers[h].stage = "stamp" => handlers[h] \in Stamp
           /\ handlers[h].stage = "revoke" => handlers[h] \in Revoke
           /\ handlers[h].stage = "insert" => handlers[h] \in Insert
           /\ handlers[h] = Idle \/ handlers[h].stage \in {"stamp", "revoke", "insert"}
  BY DEF TypeOK, Idle, Stamp, Revoke, Insert

\* A row that was issued has all its fields.
LEMMA RowKinds ==
    ASSUME TypeOK, NEW t \in Tokens
    PROVE  /\ ~rows[t].revoked => rows[t] \in Token /\ rows[t] # NoToken
           /\ rows[t] # NoToken => rows[t] \in Token
  BY DEF TypeOK, NoToken

\* A user that is enabled has a role.
LEMMA UserKinds ==
    ASSUME TypeOK, NEW u \in Users
    PROVE  /\ users[u].enabled => users[u] \in User
           /\ users[u] # NoUser => users[u] \in User
  BY DEF TypeOK, NoUser

\* Nothing is handed out and no one is served at first.
LEMMA InitAuthInv == Init => AuthInv
  BY AuthAssumption
  DEF Init, AuthInv, TypeOK, Timely, LoginsIssued, OnePlace, Times, Idle, NoToken,
      Revoking, Inserting, Live

\* A step that changes no table and no handler moves the clock at most.
LEMMA ObserveBounds ==
    ASSUME TypeOK, Timely, Observe, now' \in Times, now' >= now
    PROVE  /\ lastGood' \in [Users \X Roles -> Times \cup {-1}]
           /\ \A s \in Users \X Roles : lastGood[s] <= lastGood'[s] /\ lastGood'[s] <= now'
           /\ \A u \in Users, r \in Roles : Vouched(u, r) => lastGood'[<<u, r>>] = now'
<1> USE AuthAssumption DEF TypeOK, Times
<1>1. \A s \in Users \X Roles : lastGood'[s] \in {now', lastGood[s]}
  BY DEF Observe
<1>2. \A u \in Users, r \in Roles : Vouched(u, r) => lastGood'[<<u, r>>] = now'
  BY DEF Observe
<1>3. \A s \in Users \X Roles : lastGood[s] \in Int /\ lastGood[s] <= now
  BY DEF Timely
<1>4. lastGood' \in [Users \X Roles -> Times \cup {-1}]
  BY <1>1 DEF Observe
<1> QED
  BY <1>1, <1>2, <1>3, <1>4

\* The tables, the answers and the handlers keep their types.
LEMMA HandlerStepTypes ==
    ASSUME TypeOK, LoginsIssued, NEW h \in Handlers, HandlerStep(h)
    PROVE  /\ UNCHANGED <<now, users, alters>>
           /\ rows' \in [Tokens -> Token \cup {NoToken}]
           /\ access' \subseteq Access
           /\ handlers' \in [Handlers -> {Idle} \cup Stamp \cup Revoke \cup Insert]
           /\ raced' \subseteq Tokens
<1> USE AuthAssumption DEF TypeOK
<1>1. ASSUME NEW u \in Users, LoginCheck(h, u)
      PROVE  /\ UNCHANGED <<now, users, rows, access, raced, alters>>
             /\ handlers' \in [Handlers -> {Idle} \cup Stamp \cup Revoke \cup Insert]
  <2>1. [stage |-> "stamp", user |-> u, role |-> users[u].role,
         enabled |-> users[u].enabled] \in Stamp
    BY <1>1, UserKinds DEF LoginCheck, Stamp, User
  <2> QED
    BY <1>1, <2>1 DEF LoginCheck
<1>2. ASSUME LoginStamp(h)
      PROVE  /\ UNCHANGED <<now, users, rows, access, raced, alters>>
             /\ handlers' \in [Handlers -> {Idle} \cup Stamp \cup Revoke \cup Insert]
  <2>1. [stage |-> "insert", user |-> handlers[h].user, role |-> handlers[h].role,
         enabled |-> handlers[h].enabled, login |-> "new", iat |-> now] \in Insert
    BY <1>2, HandlerKinds DEF LoginStamp, Stamp, Insert
  <2> QED
    BY <1>2, <2>1 DEF LoginStamp
<1>3. ASSUME NEW t \in Tokens, RefreshRead(h, t)
      PROVE  /\ UNCHANGED <<now, users, rows, access, alters>>
             /\ handlers' \in [Handlers -> {Idle} \cup Stamp \cup Revoke \cup Insert]
             /\ raced' \subseteq Tokens
  <2>1. rows[t].user \in Users /\ rows[t].login \in Tokens
    BY <1>3, RowKinds DEF RefreshRead, Token
  <2>2. [stage |-> "revoke", user |-> rows[t].user, role |-> users[rows[t].user].role,
         enabled |-> users[rows[t].user].enabled, token |-> t] \in Revoke
    BY <1>3, <2>1, UserKinds DEF RefreshRead, Revoke, User
  <2> QED
    BY <1>3, <2>1, <2>2 DEF RefreshRead
<1>4. ASSUME NEW t \in Tokens, IssueTokens(h, t)
      PROVE  /\ UNCHANGED <<now, users, raced, alters>>
             /\ rows' \in [Tokens -> Token \cup {NoToken}]
             /\ access' \subseteq Access
             /\ handlers' \in [Handlers -> {Idle} \cup Stamp \cup Revoke \cup Insert]
  <2> DEFINE hd == handlers[h]
  <2>1. hd.user \in Users /\ hd.role \in Roles /\ hd.iat \in Times
        /\ hd.login \in Tokens \cup {"new"}
    BY <1>4, HandlerKinds DEF IssueTokens, Insert
  <2>2. hd.iat + RefreshTtl \in 0 .. MaxTime + RefreshTtl
        /\ hd.iat + AccessTtl \in 0 .. MaxTime + AccessTtl
    BY <2>1 DEF Times
  <2>3. [user |-> hd.user, login |-> IF hd.login = "new" THEN t ELSE hd.login,
         expires |-> hd.iat + RefreshTtl, revoked |-> FALSE] \in Token
    BY <2>1, <2>2 DEF Token
  <2>4. [user |-> hd.user, role |-> hd.role, exp |-> hd.iat + AccessTtl] \in Access
    BY <2>1, <2>2 DEF Access
  <2> QED
    BY <1>4, <2>3, <2>4 DEF IssueTokens
<1>5. ASSUME RefreshRevoke(h)
      PROVE  /\ UNCHANGED <<now, users, access, raced, alters>>
             /\ rows' \in [Tokens -> Token \cup {NoToken}]
             /\ handlers' \in [Handlers -> {Idle} \cup Stamp \cup Revoke \cup Insert]
  <2> DEFINE t == handlers[h].token
  <2>1. handlers[h] \in Revoke /\ t \in Tokens
    BY <1>5, HandlerKinds DEF RefreshRevoke, Revoke
  <2>2. rows[t] \in Token
    BY <1>5, <2>1, RowKinds DEF RefreshRevoke, LoginsIssued, Revoking
  <2>3. [rows[t] EXCEPT !.revoked = TRUE] \in Token
    BY <2>2 DEF Token
  <2>4. [stage |-> "insert", user |-> handlers[h].user, role |-> handlers[h].role,
         enabled |-> handlers[h].enabled, login |-> rows[t].login, iat |-> now] \in Insert
    BY <2>1, <2>2 DEF Revoke, Insert, Token
  <2> QED
    BY <1>5, <2>3, <2>4 DEF RefreshRevoke
<1>6. ASSUME Abort(h)
      PROVE  /\ UNCHANGED <<now, users, rows, access, raced, alters>>
             /\ handlers' \in [Handlers -> {Idle} \cup Stamp \cup Revoke \cup Insert]
  BY <1>6 DEF Abort
<1> QED
  BY <1>1, <1>2, <1>3, <1>4, <1>5, <1>6 DEF HandlerStep

\* Type correctness is preserved.
LEMMA NextTypes ==
    ASSUME AuthInv, Next
    PROVE  TypeOK' /\ now' >= now
<1> USE AuthAssumption DEF AuthInv
<1>1. ASSUME NEW h \in Handlers, HandlerStep(h), Observe
      PROVE  TypeOK' /\ now' >= now
  <2>1. now' = now /\ now \in Times /\ now' >= now
    BY <1>1, HandlerStepTypes DEF TypeOK, Times
  <2> QED
    BY <1>1, <2>1, HandlerStepTypes, ObserveBounds DEF TypeOK
<1>2. ASSUME Tick, Observe
      PROVE  TypeOK' /\ now' >= now
  <2>1. now' \in Times /\ now' >= now
    BY <1>2 DEF Tick, TypeOK, Times
  <2> QED
    BY <1>2, <2>1, ObserveBounds DEF Tick, TypeOK
<1>3. ASSUME NEW u \in Users, BootstrapAdmin(u) \/ AlterUser(u), Observe
      PROVE  TypeOK' /\ now' >= now
  <2>1. now' \in Times /\ now' >= now
    BY <1>3 DEF BootstrapAdmin, AlterUser, TypeOK, Times
  <2>2. users' \in [Users -> User \cup {NoUser}]
    <3>1. CASE BootstrapAdmin(u)
      BY <3>1 DEF BootstrapAdmin, TypeOK, User
    <3>2. CASE AlterUser(u)
      <4>1. users[u] \in User
        BY <3>2, UserKinds DEF AlterUser
      <4>2. PICK r \in Roles, e \in BOOLEAN :
                users' = [users EXCEPT ![u].role = r, ![u].enabled = e]
        BY <3>2 DEF AlterUser
      <4>3. [[users[u] EXCEPT !.role = r] EXCEPT !.enabled = e] \in User
        BY <4>1 DEF User
      <4> QED
        BY <4>2, <4>3 DEF TypeOK
    <3> QED
      BY <1>3, <3>1, <3>2
  <2>3. alters' \in 0 .. MaxAlters
    BY <1>3 DEF BootstrapAdmin, AlterUser, TypeOK
  <2> QED
    BY <1>3, <2>1, <2>2, <2>3, ObserveBounds DEF BootstrapAdmin, AlterUser, TypeOK
<1> QED
  BY <1>1, <1>2, <1>3 DEF Next

\* Every handler still acts for a user it found enabled, and an access token
\* handed out was vouched for in the step that hands it out.
LEMMA NextTimely ==
    ASSUME AuthInv, Next
    PROVE  Timely'
<1> USE AuthAssumption
<1>1. TypeOK' /\ now' >= now /\ now \in Times /\ now' \in Times /\ Observe
  BY NextTypes DEF Next, AuthInv, TypeOK
<1>2. /\ \A s \in Users \X Roles : lastGood[s] <= lastGood'[s] /\ lastGood'[s] <= now'
      /\ \A u \in Users, r \in Roles : Vouched(u, r) => lastGood'[<<u, r>>] = now'
  BY <1>1, ObserveBounds DEF AuthInv
<1>3. \A a \in access : a.exp <= lastGood'[<<a.user, a.role>>] + AccessTtl
  <2> SUFFICES ASSUME NEW a \in access
               PROVE  a.exp <= lastGood'[<<a.user, a.role>>] + AccessTtl
    OBVIOUS
  <2>1. a.user \in Users /\ a.role \in Roles /\ a.exp \in Nat
    BY DEF AuthInv, TypeOK, Access
  <2>2. lastGood[<<a.user, a.role>>] \in Int /\ lastGood'[<<a.user, a.role>>] \in Int
    BY <1>1, <2>1 DEF AuthInv, TypeOK, Times
  <2>3. a.exp <= lastGood[<<a.user, a.role>>] + AccessTtl
    BY DEF AuthInv, Timely
  <2> QED
    BY <1>2, <2>1, <2>2, <2>3
<1>4. CASE UNCHANGED <<handlers, access>>
  <2>1. \A h \in Handlers : handlers[h].stage = "insert" => handlers[h].iat \in Int
    BY HandlerKinds DEF AuthInv, Insert, Times
  <2> QED
    BY <1>1, <1>2, <1>3, <1>4, <2>1 DEF AuthInv, Timely, Times
<1>5. ASSUME NEW h \in Handlers, HandlerStep(h)
      PROVE  Timely'
  <2>1. now' = now
    BY <1>5, HandlerStepTypes DEF AuthInv
  <2>2. ASSUME handlers' = [handlers EXCEPT ![h] = handlers'[h]],
               handlers'[h] # Idle => handlers'[h].enabled,
               handlers'[h].stage = "insert" => handlers'[h].iat = now,
               access' = access
        PROVE  Timely'
    BY <1>1, <1>2, <1>3, <2>1, <2>2 DEF AuthInv, Timely, TypeOK, Times
  <2>3. ASSUME NEW u \in Users, LoginCheck(h, u)
        PROVE  Timely'
    BY <2>2, <2>3 DEF LoginCheck, AuthInv, TypeOK
  <2>4. ASSUME LoginStamp(h)
        PROVE  Timely'
    BY <2>2, <2>4 DEF LoginStamp, AuthInv, TypeOK, Timely, Idle
  <2>5. ASSUME NEW t \in Tokens, RefreshRead(h, t)
        PROVE  Timely'
    BY <2>2, <2>5 DEF RefreshRead, AuthInv, TypeOK
  <2>6. ASSUME RefreshRevoke(h)
        PROVE  Timely'
    BY <2>2, <2>6 DEF RefreshRevoke, AuthInv, TypeOK, Timely, Idle
  <2>7. ASSUME Abort(h)
        PROVE  Timely'
    BY <2>2, <2>7 DEF Abort, AuthInv, TypeOK, Idle
  <2>8. ASSUME NEW t \in Tokens, IssueTokens(h, t)
        PROVE  Timely'
    <3> DEFINE hd == handlers[h]
               new == [user |-> hd.user, role |-> hd.role, exp |-> hd.iat + AccessTtl]
    <3>1. hd \in Insert /\ hd # Idle /\ hd.enabled /\ hd.iat <= now
      BY <2>8, HandlerKinds DEF IssueTokens, AuthInv, Timely, Idle
    <3>2. hd.user \in Users /\ hd.role \in Roles /\ hd.iat \in Nat
      BY <3>1 DEF Insert, Times
    <3>3. Vouched(hd.user, hd.role)
      BY <3>1 DEF Vouched
    <3>4. lastGood'[<<new.user, new.role>>] = now'
      BY <1>2, <3>2, <3>3
    <3>5. new.exp <= lastGood'[<<new.user, new.role>>] + AccessTtl
      BY <1>1, <2>1, <3>1, <3>2, <3>4 DEF Times
    <3>6. \A a \in access' : a.exp <= lastGood'[<<a.user, a.role>>] + AccessTtl
      BY <1>3, <2>8, <3>5 DEF IssueTokens
    <3>7. \A g \in Handlers : handlers'[g] = IF g = h THEN Idle ELSE handlers[g]
      BY <2>8 DEF IssueTokens, AuthInv, TypeOK
    <3> QED
      BY <1>2, <2>1, <3>6, <3>7 DEF AuthInv, Timely, Idle
  <2> QED
    BY <1>5, <2>3, <2>4, <2>5, <2>6, <2>7, <2>8 DEF HandlerStep
<1>6. ASSUME NEW u \in Users, BootstrapAdmin(u) \/ AlterUser(u)
      PROVE  Timely'
  BY <1>4, <1>6 DEF BootstrapAdmin, AlterUser
<1> QED
  BY <1>4, <1>5, <1>6 DEF Next, Tick

\* What a handler's step does to the rows, the raced logins and the handlers.
LEMMA NextRotation ==
    ASSUME AuthInv, Next
    PROVE  LoginsIssued' /\ OnePlace'
<1> USE AuthAssumption
<1>1. CASE UNCHANGED <<rows, handlers, raced>>
  BY <1>1 DEF AuthInv, LoginsIssued, OnePlace, Revoking, Inserting, Live
<1>2. ASSUME NEW h \in Handlers, HandlerStep(h)
      PROVE  LoginsIssued' /\ OnePlace'
  <2>1. ASSUME UNCHANGED <<rows, raced>>,
               handlers' = [handlers EXCEPT ![h] = handlers'[h]],
               handlers'[h].stage # "revoke",
               handlers'[h].stage = "insert" => handlers'[h].login = "new"
        PROVE  LoginsIssued' /\ OnePlace'
    <3>1. \A g \in Handlers, l \in Tokens : Inserting(g, l)' => g # h /\ Inserting(g, l)
      BY <2>1 DEF Inserting, AuthInv, TypeOK
    <3>2. \A g \in Handlers, t \in Tokens : Revoking(g, t)' => g # h /\ Revoking(g, t)
      BY <2>1 DEF Revoking, AuthInv, TypeOK
    <3>3. \A t, l \in Tokens : Live(t, l)' <=> Live(t, l)
      BY <2>1 DEF Live
    <3>4. LoginsIssued'
      BY <2>1, <3>1, <3>2 DEF AuthInv, LoginsIssued
    <3> QED
      BY <2>1, <3>1, <3>2, <3>3, <3>4 DEF AuthInv, OnePlace
  <2>2. ASSUME NEW u \in Users, LoginCheck(h, u)
        PROVE  LoginsIssued' /\ OnePlace'
    BY <2>1, <2>2 DEF LoginCheck, AuthInv, TypeOK
  <2>3. ASSUME LoginStamp(h)
        PROVE  LoginsIssued' /\ OnePlace'
    BY <2>1, <2>3 DEF LoginStamp, AuthInv, TypeOK
  <2>4. ASSUME Abort(h)
        PROVE  LoginsIssued' /\ OnePlace'
    BY <2>1, <2>4 DEF Abort, AuthInv, TypeOK, Idle
  <2>5. ASSUME NEW t \in Tokens, RefreshRead(h, t)
        PROVE  LoginsIssued' /\ OnePlace'
    <3>1. rows' = rows /\ rows[t] # NoToken /\ ~rows[t].revoked
      BY <2>5, RowKinds DEF RefreshRead, AuthInv
    <3>2. raced \subseteq raced'
          /\ ((\E g \in Handlers : Revoking(g, t)) => rows[t].login \in raced')
      BY <2>5 DEF RefreshRead, Revoking
    <3>3. /\ ~Revoking(h, t) /\ \A l \in Tokens : ~Inserting(h, l)
          /\ \A g \in Handlers, l \in Tokens : Inserting(g, l)' <=> Inserting(g, l)
      BY <2>5 DEF RefreshRead, Inserting, Revoking, AuthInv, TypeOK, Idle
    <3>4. \A g \in Handlers, s \in Tokens :
              Revoking(g, s)' <=> IF g = h THEN s = t ELSE Revoking(g, s)
      BY <2>5 DEF RefreshRead, Revoking, AuthInv, TypeOK
    <3>5. \A s, l \in Tokens : Live(s, l)' <=> Live(s, l)
      BY <3>1 DEF Live
    <3>6. LoginsIssued'
      BY <3>1, <3>3, <3>4 DEF AuthInv, LoginsIssued
    <3>7. OnePlace'
      <4> SUFFICES ASSUME NEW l \in Tokens, l \notin raced'
                   PROVE  /\ \A s, u \in Tokens : Live(s, l)' /\ Live(u, l)' => s = u
                          /\ \A g, k \in Handlers :
                                Inserting(g, l)' /\ Inserting(k, l)' => g = k
                          /\ \A g \in Handlers, s \in Tokens : Inserting(g, l)' => ~Live(s, l)'
                          /\ \A g \in Handlers, s \in Tokens :
                                Revoking(g, s)' /\ rows'[s].login = l => Live(s, l)'
                          /\ \A g, k \in Handlers, s \in Tokens :
                                Revoking(g, s)' /\ Revoking(k, s)' /\ rows'[s].login = l => g = k
        BY DEF OnePlace
      <4>1. l \in Tokens \ raced
        BY <3>2
      <4>2. rows[t].login = l => Live(t, l) /\ \A g \in Handlers : ~Revoking(g, t)
        BY <3>1, <3>2 DEF Live
      <4> QED
        BY <3>1, <3>3, <3>4, <3>5, <4>1, <4>2 DEF AuthInv, OnePlace
    <3> QED
      BY <3>6, <3>7
  <2>6. ASSUME RefreshRevoke(h)
        PROVE  LoginsIssued' /\ OnePlace'
    <3> DEFINE t == handlers[h].token
    <3>1. t \in Tokens /\ Revoking(h, t) /\ rows[t] # NoToken /\ rows[t] \in Token
          /\ rows[t].login \in Tokens
      <4>1. handlers[h] \in Revoke /\ handlers[h].stage = "revoke"
        BY <2>6, HandlerKinds DEF RefreshRevoke, AuthInv
      <4>2. t \in Tokens /\ Revoking(h, t)
        BY <4>1 DEF Revoke, Revoking
      <4> QED
        BY <4>2, RowKinds DEF AuthInv, LoginsIssued, Token
    <3>2. raced' = raced
      BY <2>6 DEF RefreshRevoke
    <3>3. /\ rows'[t] = [rows[t] EXCEPT !.revoked = TRUE]
          /\ \A s \in Tokens : s # t => rows'[s] = rows[s]
      BY <2>6, <3>1 DEF RefreshRevoke, AuthInv, TypeOK
    <3>4. rows'[t].revoked /\ rows'[t].login = rows[t].login /\ rows'[t].user = rows[t].user
      BY <3>1, <3>3 DEF Token
    <3>5. rows'[t] # NoToken
      BY <3>1, <3>4 DEF Token, NoToken
    <3>6. \A s, l \in Tokens : Live(s, l)' <=> s # t /\ Live(s, l)
      BY <3>3, <3>4 DEF Live
    <3>7. \A g \in Handlers, l \in Tokens :
              Inserting(g, l)' <=> IF g = h THEN l = rows[t].login ELSE Inserting(g, l)
      BY <2>6 DEF RefreshRevoke, Inserting, AuthInv, TypeOK
    <3>8. \A g \in Handlers, s \in Tokens : Revoking(g, s)' <=> g # h /\ Revoking(g, s)
      BY <2>6 DEF RefreshRevoke, Revoking, AuthInv, TypeOK
    <3>9. \A s \in Tokens : rows'[s].login = rows[s].login /\ (rows[s] # NoToken <=> rows'[s] # NoToken)
      BY <3>1, <3>3, <3>4, <3>5
    <3>10. \A s \in Tokens : rows[s] # NoToken => rows[s].login \in Tokens
      BY RowKinds DEF AuthInv, Token
    <3>11. LoginsIssued'
      BY <3>1, <3>7, <3>8, <3>9, <3>10 DEF AuthInv, LoginsIssued
    <3>12. OnePlace'
      BY <3>1, <3>2, <3>6, <3>7, <3>8, <3>9 DEF AuthInv, OnePlace
    <3> QED
      BY <3>11, <3>12
  <2>7. ASSUME NEW t \in Tokens, IssueTokens(h, t)
        PROVE  LoginsIssued' /\ OnePlace'
    <3> DEFINE new == IF handlers[h].login = "new" THEN t ELSE handlers[h].login
    <3>1. raced' = raced /\ rows[t] = NoToken
      BY <2>7 DEF IssueTokens
    <3>2. handlers[h] \in Insert /\ handlers[h].stage = "insert"
          /\ handlers[h].login \in Tokens \cup {"new"}
      BY <2>7, HandlerKinds DEF IssueTokens, AuthInv, Insert
    <3>3. new \in Tokens /\ (new = t \/ Inserting(h, new))
      BY <3>2 DEF Inserting
    <3>4. rows'[t].user # "none" /\ rows'[t].login = new /\ ~rows'[t].revoked
      BY <2>7, <3>2 DEF IssueTokens, Insert, AuthInv, TypeOK
    <3>5. \A s \in Tokens : s # t => rows'[s] = rows[s]
      BY <2>7 DEF IssueTokens, AuthInv, TypeOK
    <3>6. rows'[t] # NoToken
      BY <3>4 DEF NoToken
    <3>7. \A s, l \in Tokens : Live(s, l)' <=> IF s = t THEN l = new ELSE Live(s, l)
      BY <3>4, <3>5 DEF Live
    <3>8. \A g \in Handlers, l \in Tokens : Inserting(g, l)' <=> g # h /\ Inserting(g, l)
      BY <2>7 DEF IssueTokens, Inserting, AuthInv, TypeOK, Idle
    <3>9. \A g \in Handlers, s \in Tokens : Revoking(g, s)' <=> g # h /\ Revoking(g, s)
      BY <2>7 DEF IssueTokens, Revoking, AuthInv, TypeOK, Idle
    <3>10. \A s \in Tokens : rows[s] # NoToken => rows[s].login \in Tokens
      BY RowKinds DEF AuthInv, Token
    <3>11. \A s \in Tokens : rows[s] # NoToken => s # t /\ rows'[s] = rows[s] /\ rows'[s] # NoToken
      BY <3>1, <3>5
    <3>12. LoginsIssued'
      <4>1. rows'[new] # NoToken
        BY <3>3, <3>6, <3>11 DEF AuthInv, LoginsIssued
      <4>2. \A s \in Tokens : rows'[s] # NoToken => rows'[rows'[s].login] # NoToken
        BY <3>4, <3>5, <3>10, <3>11, <4>1 DEF AuthInv, LoginsIssued
      <4> QED
        BY <3>8, <3>9, <3>11, <4>2 DEF AuthInv, LoginsIssued
    <3>13. \A s \in Tokens : Live(s, new) => new \notin Tokens \ raced
      <4> SUFFICES ASSUME NEW s \in Tokens, Live(s, new), new \notin raced
                   PROVE  FALSE
        OBVIOUS
      <4>1. rows[s] # NoToken /\ rows[rows[s].login] # NoToken
        BY RowKinds DEF AuthInv, LoginsIssued, Live
      <4>2. new # t
        BY <3>1, <4>1 DEF Live
      <4> QED
        BY <3>3, <4>2 DEF AuthInv, OnePlace
    <3>14. \A g \in Handlers : g # h /\ Inserting(g, new) => new \in raced
      <4> SUFFICES ASSUME NEW g \in Handlers, g # h, Inserting(g, new), new \notin raced
                   PROVE  FALSE
        OBVIOUS
      <4>1. new # t
        BY <3>1, <3>3 DEF AuthInv, LoginsIssued
      <4> QED
        BY <3>3, <4>1 DEF AuthInv, OnePlace
    <3>15. \A g \in Handlers, s \in Tokens : Revoking(g, s) => s # t /\ rows'[s] = rows[s]
      BY <3>1, <3>11 DEF AuthInv, LoginsIssued
    <3>16. OnePlace'
      BY <3>1, <3>3, <3>7, <3>8, <3>9, <3>13, <3>14, <3>15 DEF AuthInv, OnePlace
    <3> QED
      BY <3>12, <3>16
  <2> QED
    BY <1>2, <2>2, <2>3, <2>4, <2>5, <2>6, <2>7 DEF HandlerStep
<1> QED
  BY <1>1, <1>2 DEF Next, Tick, BootstrapAdmin, AlterUser

\* Every step preserves the invariant.
LEMMA NextAuthInv == AuthInv /\ [Next]_vars => AuthInv'
<1>1. ASSUME AuthInv, UNCHANGED vars
      PROVE  AuthInv'
  BY <1>1 DEF vars, AuthInv, TypeOK, Timely, LoginsIssued, OnePlace, Revoking, Inserting, Live
<1> QED
  BY <1>1, NextTypes, NextTimely, NextRotation DEF AuthInv

\* The invariant holds in every state.
LEMMA AuthInvariant == Spec => []AuthInv
  BY InitAuthInv, NextAuthInv, PTL DEF Spec

\* The tables, the tokens and the handlers of auth.rs are well-typed.
THEOREM AuthTypes == Spec => []TypeOK
<1>1. AuthInv => TypeOK
  BY DEF AuthInv
<1> QED
  BY <1>1, AuthInvariant, PTL

\* A user who was disabled or lost a role is served for AccessTtl + Leeway
\* seconds at most after the last handler that had read the old row
\* (auth.rs: refresh checks `enabled`, the extractor checks `exp`).
THEOREM AccessIsBounded == Spec => []AccessBounded
<1>1. AuthInv => AccessBounded
  <2> SUFFICES ASSUME AuthInv, NEW a \in access, Accepted(a)
               PROVE  now <= lastGood[<<a.user, a.role>>] + AccessTtl + Leeway
    BY DEF AccessBounded
  <2>1. a.exp \in Nat /\ <<a.user, a.role>> \in Users \X Roles
    BY AuthAssumption DEF AuthInv, TypeOK, Access
  <2>2. a.exp <= lastGood[<<a.user, a.role>>] + AccessTtl
    BY DEF AuthInv, Timely
  <2>3. lastGood[<<a.user, a.role>>] \in Int /\ now \in Int
    BY <2>1, AuthAssumption DEF AuthInv, TypeOK, Times
  <2> QED
    BY <2>1, <2>2, <2>3, AuthAssumption DEF Accepted
<1> QED
  BY <1>1, AuthInvariant, PTL

\* However handlers interleave and wherever they are cut off, a login has one
\* usable refresh token, unless two requests had read it before either revoked
\* it (auth.rs refresh).
THEOREM RotationKeepsOne == Spec => []OneLivePerLogin
<1>1. AuthInv => OneLivePerLogin
  <2> SUFFICES ASSUME AuthInv, NEW s \in Tokens, NEW t \in Tokens,
                      ~rows[s].revoked, ~rows[t].revoked,
                      rows[s].login = rows[t].login, rows[s].login \notin raced
               PROVE  s = t
    BY DEF OneLivePerLogin
  <2>1. rows[s].login \in Tokens
    BY RowKinds DEF AuthInv, Token
  <2> QED
    BY <2>1 DEF AuthInv, OnePlace, Live
<1> QED
  BY <1>1, AuthInvariant, PTL
=============================================================================
