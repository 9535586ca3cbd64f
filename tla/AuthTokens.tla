----------------------------- MODULE AuthTokens -----------------------------
(***************************************************************************)
(* Dashboard authentication, crates/scrooge-manager-api/src/auth.rs, over  *)
(* the tables `users` and `refresh_tokens`, with scrooge-cli's             *)
(* bootstrap-admin.                                                        *)
(*                                                                         *)
(* login and refresh are sequences of statements that are not in one       *)
(* transaction: a handler reads the user once, and signs what it read      *)
(* statements later.  Between two statements other handlers run, time      *)
(* passes, an operator changes the user's row, or the handler ends.        *)
(* One clock stands for the manager's and the database's.                  *)
(***************************************************************************)
EXTENDS Integers

CONSTANTS
    Users,          \* user names
    Roles,          \* "admin", "analyst", "viewer"
    Handlers,       \* requests being served at one time
    Tokens,         \* refresh tokens that may ever be issued
    AccessTtl,      \* access_ttl_secs
    RefreshTtl,     \* refresh_ttl_secs
    Leeway,         \* seconds an expired access token is still accepted
    MaxTime,        \* bound: the last second considered
    MaxAlters       \* bound: changes an operator makes

ASSUME AuthAssumption ==
    /\ AccessTtl \in Nat /\ RefreshTtl \in Nat /\ Leeway \in Nat
    /\ MaxTime \in Nat /\ MaxAlters \in Nat
    /\ "admin" \in Roles
    /\ "none" \notin Users
    /\ "new" \notin Tokens

VARIABLES
    now,
    users,      \* the table `users`
    rows,       \* the table `refresh_tokens`
    access,     \* access tokens that were handed out
    handlers,   \* handlers[h]: the request being served
    lastGood,   \* history: when user and role were last vouched for
    raced,      \* history: logins a token of which was refreshed twice at once
    alters      \* changes so far (for the bound)

vars == <<now, users, rows, access, handlers, lastGood, raced, alters>>

Times == 0 .. MaxTime

\* `last_login` is written and read by no one: left out.
NoUser == [role |-> "none", enabled |-> FALSE]
User == [role : Roles, enabled : BOOLEAN]

\* `login` is the token its login issued, a history field.
NoToken == [user |-> "none", login |-> "none", expires |-> 0, revoked |-> TRUE]
Token == [user : Users, login : Tokens, expires : 0 .. MaxTime + RefreshTtl,
          revoked : BOOLEAN]

Access == [user : Users, role : Roles, exp : 0 .. MaxTime + AccessTtl]

\* A handler between two statements: what it read, the token it exchanges
\* (refresh) and when it signed the claims; `enabled` is a history field.
Idle == [stage |-> "idle"]
Stamp == [stage : {"stamp"}, user : Users, role : Roles, enabled : BOOLEAN]
Revoke == [stage : {"revoke"}, user : Users, role : Roles, enabled : BOOLEAN,
           token : Tokens]
Insert == [stage : {"insert"}, user : Users, role : Roles, enabled : BOOLEAN,
           login : Tokens \cup {"new"}, iat : Times]

TypeOK ==
    /\ now \in Times
    /\ users \in [Users -> User \cup {NoUser}]
    /\ rows \in [Tokens -> Token \cup {NoToken}]
    /\ access \subseteq Access
    /\ handlers \in [Handlers -> {Idle} \cup Stamp \cup Revoke \cup Insert]
    /\ lastGood \in [Users \X Roles -> Times \cup {-1}]
    /\ raced \subseteq Tokens
    /\ alters \in 0 .. MaxAlters

Init ==
    /\ now = 0
    /\ users = [u \in Users |-> NoUser]
    /\ rows = [t \in Tokens |-> NoToken]
    /\ access = {}
    /\ handlers = [h \in Handlers |-> Idle]
    /\ lastGood = [s \in Users \X Roles |-> -1]
    /\ raced = {}
    /\ alters = 0

----------------------------------------------------------------------------
\* A user with this role may act: the database says so, or said so to a
\* handler that is about to sign it.
Vouched(u, r) ==
    \/ users[u].enabled /\ users[u].role = r
    \/ \E h \in Handlers :
          /\ handlers[h] # Idle /\ handlers[h].enabled
          /\ handlers[h].user = u /\ handlers[h].role = r

\* History: every step, ticks included, notes who is vouched for.
Observe ==
    lastGood' = [s \in Users \X Roles |->
                   IF Vouched(s[1], s[2]) \/ Vouched(s[1], s[2])' THEN now' ELSE lastGood[s]]

Tick ==
    /\ now < MaxTime
    /\ now' = now + 1
    /\ UNCHANGED <<users, rows, access, handlers, raced, alters>>

\* bootstrap-admin: INSERT ... ON CONFLICT (username) DO NOTHING.
BootstrapAdmin(u) ==
    /\ users[u] = NoUser
    /\ users' = [users EXCEPT ![u] = [role |-> "admin", enabled |-> TRUE]]
    /\ UNCHANGED <<now, rows, access, handlers, raced, alters>>

\* An operator changes the row (no endpoint does).
AlterUser(u) ==
    /\ users[u] # NoUser
    /\ alters < MaxAlters
    /\ alters' = alters + 1
    /\ \E r \in Roles, e \in BOOLEAN :
          users' = [users EXCEPT ![u].role = r, ![u].enabled = e]
    /\ UNCHANGED <<now, rows, access, handlers, raced>>

----------------------------------------------------------------------------
(* POST /auth/login *)

\* The SELECT, the checks of `enabled` and of the password; a request that
\* fails one changes nothing.
LoginCheck(h, u) ==
    /\ handlers[h] = Idle
    /\ users[u].enabled
    /\ handlers' = [handlers EXCEPT ![h] =
                      [stage |-> "stamp", user |-> u, role |-> users[u].role,
                       enabled |-> users[u].enabled]]
    /\ UNCHANGED <<now, users, rows, access, raced, alters>>

\* UPDATE users SET last_login; issue_tokens then takes the time.
LoginStamp(h) ==
    /\ handlers[h].stage = "stamp"
    /\ handlers' = [handlers EXCEPT ![h] =
                      [stage |-> "insert", user |-> handlers[h].user,
                       role |-> handlers[h].role, enabled |-> handlers[h].enabled,
                       login |-> "new", iat |-> now]]
    /\ UNCHANGED <<now, users, rows, access, raced, alters>>

----------------------------------------------------------------------------
(* POST /auth/refresh *)

\* Mutant: a disabled user's token is still exchanged.
RefreshReadDisabled(h, t) ==
    /\ handlers[h] = Idle
    /\ ~rows[t].revoked /\ rows[t].expires > now
    /\ handlers' = [handlers EXCEPT ![h] =
                      [stage |-> "revoke", user |-> rows[t].user,
                       role |-> users[rows[t].user].role,
                       enabled |-> users[rows[t].user].enabled, token |-> t]]
    /\ raced' = IF \E g \in Handlers : handlers[g].stage = "revoke" /\ handlers[g].token = t
                THEN raced \cup {rows[t].login} ELSE raced
    /\ UNCHANGED <<now, users, rows, access, alters>>

\* The SELECT over both tables.
RefreshRead(h, t) ==
    /\ handlers[h] = Idle
    /\ ~rows[t].revoked /\ rows[t].expires > now
    /\ users[rows[t].user].enabled
    /\ handlers' = [handlers EXCEPT ![h] =
                      [stage |-> "revoke", user |-> rows[t].user,
                       role |-> users[rows[t].user].role,
                       enabled |-> users[rows[t].user].enabled, token |-> t]]
    /\ raced' = IF \E g \in Handlers : handlers[g].stage = "revoke" /\ handlers[g].token = t
                THEN raced \cup {rows[t].login} ELSE raced
    /\ UNCHANGED <<now, users, rows, access, alters>>

\* Mutant: only a token that has expired meanwhile is revoked.
RefreshRevokeExpired(h) ==
    /\ handlers[h].stage = "revoke"
    /\ LET t == handlers[h].token IN
       /\ rows' = [rows EXCEPT ![t].revoked = (rows[t].expires <= now)]
       /\ handlers' = [handlers EXCEPT ![h] =
                         [stage |-> "insert", user |-> handlers[h].user,
                          role |-> handlers[h].role, enabled |-> handlers[h].enabled,
                          login |-> rows[t].login, iat |-> now]]
    /\ UNCHANGED <<now, users, access, raced, alters>>

\* UPDATE refresh_tokens SET revoked = TRUE: by hash alone, whoever else has
\* revoked it meanwhile.
RefreshRevoke(h) ==
    /\ handlers[h].stage = "revoke"
    /\ LET t == handlers[h].token IN
       /\ rows' = [rows EXCEPT ![t].revoked = TRUE]
       /\ handlers' = [handlers EXCEPT ![h] =
                         [stage |-> "insert", user |-> handlers[h].user,
                          role |-> handlers[h].role, enabled |-> handlers[h].enabled,
                          login |-> rows[t].login, iat |-> now]]
    /\ UNCHANGED <<now, users, access, raced, alters>>

----------------------------------------------------------------------------
\* Mutant: the row's expiry and the claims' are exchanged for one another.
IssueTokensSwapped(h, t) ==
    /\ handlers[h].stage = "insert"
    /\ rows[t] = NoToken
    /\ LET hd == handlers[h] IN
       /\ rows' = [rows EXCEPT ![t] =
                     [user |-> hd.user, login |-> IF hd.login = "new" THEN t ELSE hd.login,
                      expires |-> hd.iat + AccessTtl, revoked |-> FALSE]]
       /\ access' = access \cup {[user |-> hd.user, role |-> hd.role,
                                  exp |-> hd.iat + RefreshTtl]}
    /\ handlers' = [handlers EXCEPT ![h] = Idle]
    /\ UNCHANGED <<now, users, raced, alters>>

\* issue_tokens: claims signed at `iat`, the INSERT of a fresh refresh token,
\* and the answer with both.
IssueTokens(h, t) ==
    /\ handlers[h].stage = "insert"
    /\ rows[t] = NoToken
    /\ LET hd == handlers[h] IN
       /\ rows' = [rows EXCEPT ![t] =
                     [user |-> hd.user, login |-> IF hd.login = "new" THEN t ELSE hd.login,
                      expires |-> hd.iat + RefreshTtl, revoked |-> FALSE]]
       /\ access' = access \cup {[user |-> hd.user, role |-> hd.role,
                                  exp |-> hd.iat + AccessTtl]}
    /\ handlers' = [handlers EXCEPT ![h] = Idle]
    /\ UNCHANGED <<now, users, raced, alters>>

\* A statement fails, or the client goes away and the handler is dropped.
Abort(h) ==
    /\ handlers[h] # Idle
    /\ handlers' = [handlers EXCEPT ![h] = Idle]
    /\ UNCHANGED <<now, users, rows, access, raced, alters>>

HandlerStep(h) ==
    \/ \E u \in Users : LoginCheck(h, u)
    \/ LoginStamp(h)
    \/ \E t \in Tokens : RefreshRead(h, t) \/ IssueTokens(h, t)
    \/ RefreshRevoke(h)
    \/ Abort(h)

Next ==
    /\ \/ Tick
       \/ \E u \in Users : BootstrapAdmin(u) \/ AlterUser(u)
       \/ \E h \in Handlers : HandlerStep(h)
    /\ Observe

Spec == Init /\ [][Next]_vars

----------------------------------------------------------------------------
(* Properties. *)

\* The inductive invariant.  A handler only acts for a user it found enabled
\* and signs no later than now; an access token ends within AccessTtl of the
\* last time its user and role were vouched for.
Timely ==
    /\ \A s \in Users \X Roles : lastGood[s] <= now
    /\ \A h \in Handlers : handlers[h] # Idle => handlers[h].enabled
    /\ \A h \in Handlers : handlers[h].stage = "insert" => handlers[h].iat <= now
    /\ \A a \in access : a.exp <= lastGood[<<a.user, a.role>>] + AccessTtl

Revoking(h, t) == handlers[h].stage = "revoke" /\ handlers[h].token = t
Inserting(h, l) == handlers[h].stage = "insert" /\ handlers[h].login = l
Live(t, l) == ~rows[t].revoked /\ rows[t].login = l

\* A login is the name of a token that was issued.
LoginsIssued ==
    /\ \A t \in Tokens : rows[t] # NoToken => rows[rows[t].login] # NoToken
    /\ \A h \in Handlers, l \in Tokens : Inserting(h, l) => rows[l] # NoToken
    /\ \A h \in Handlers, t \in Tokens : Revoking(h, t) => rows[t] # NoToken

\* The right to one live token of a login is at one place: in the row, which
\* at most one handler is about to revoke, or with one handler that has
\* revoked it and is about to insert the next.
OnePlace ==
    \A l \in Tokens \ raced :
        /\ \A s, t \in Tokens : Live(s, l) /\ Live(t, l) => s = t
        /\ \A g, h \in Handlers : Inserting(g, l) /\ Inserting(h, l) => g = h
        /\ \A h \in Handlers, t \in Tokens : Inserting(h, l) => ~Live(t, l)
        /\ \A h \in Handlers, t \in Tokens :
              Revoking(h, t) /\ rows[t].login = l => Live(t, l)
        /\ \A g, h \in Handlers, t \in Tokens :
              Revoking(g, t) /\ Revoking(h, t) /\ rows[t].login = l => g = h

AuthInv == TypeOK /\ Timely /\ LoginsIssued /\ OnePlace

\* The extractor of Claims: signed by this manager and not expired, with a
\* leeway.  Nothing is looked up.
Accepted(a) == a.exp + Leeway >= now

\* An access token outlives what it says by its lifetime and the leeway, and no
\* more: when a user was disabled or lost a role, and the handlers that had read
\* the row before are done, AccessTtl + Leeway seconds later no request is
\* served as that user with that role, however often tokens were refreshed
\* (the `enabled` check of refresh, auth.rs:207).
AccessBounded ==
    \A a \in access : Accepted(a) => now <= lastGood[<<a.user, a.role>>] + AccessTtl + Leeway

\* Rotation (`Rotate - revoke old`, auth.rs:211) leaves one usable refresh token
\* per login, whatever handlers are cut off half-way; the one exception is a
\* login whose token two requests had read before either revoked it.
OneLivePerLogin ==
    \A s, t \in Tokens :
        /\ ~rows[s].revoked /\ ~rows[t].revoked
        /\ rows[s].login = rows[t].login
        /\ rows[s].login \notin raced
        => s = t
=============================================================================
