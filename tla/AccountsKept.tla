------------------------------ MODULE AccountsKept ------------------------------
(***************************************************************************)
(* No row loses its grant while nothing fails: proofs that follow every    *)
(* refresh token from Discord to the row that keeps it.                    *)
(***************************************************************************)
EXTENDS AccountsProofs

(***************************************************************************)
(* Where the grants are kept.  A handler spends its grant when it writes   *)
(* it to a row, and a consent passes it on, so that a grant is in one      *)
(* place: a request, a consent, or an account with its row and the worker  *)
(* that refreshes it.                                                      *)
(***************************************************************************)

Unspent(t) ==
  tasks[t] # NoRequest /\ tasks[t].at \in {"lookup", "update", "consent", "create"}

OfAccount(u, g) ==
  \/ Exists(u) /\ users[u].refresh_token.grant = g
  \/ workers[u] # NoWorker /\ \/ workers[u].row.refresh_token.grant = g
                              \/ workers[u].new # 0 /\ workers[u].new = g

Places(g) ==
  {<<"request", t>> : t \in {s \in Task : Unspent(s) /\ tasks[s].grant = g}}
  \cup {<<"consent", c>> : c \in {e \in pending_consents : e.grant = g}}
  \cup {<<"account", u>> : u \in {v \in Account : OfAccount(v, g)}}

HeldOnce == \A g \in Grant : \A p, q \in Places(g) : p = q

\* A handler past the exchange keeps its grant, or got one from Discord or from
\* the consent.
LEMMA RequestComesFrom ==
  ASSUME TypeOK, [Next]_vars, NEW t \in Task, Unspent(t)'
  PROVE  \/ Unspent(t) /\ tasks'[t].grant = tasks[t].grant
         \/ \E d \in DiscordUser : Exchange(t, d) /\ tasks'[t].grant = NextGrant
         \/ \E c \in pending_consents : Confirm(t, c) /\ tasks'[t].grant = c.grant
<1>0. /\ tasks \in [Task -> Request \cup {NoRequest}]
      /\ \A s \in Task : tasks[s] # NoRequest => tasks[s] \in Request
  BY DEF TypeOK, TasksOK
<1>1. CASE tasks'[t] = tasks[t]
  BY <1>1 DEF Unspent
<1>2. ASSUME NEW s \in Task, Finish(s) PROVE tasks'[t] = tasks[t]
  BY <1>0, <1>2 DEF Finish, Unspent
<1>3. ASSUME NEW s \in Task, NEW e \in oauth_states, Register(s, e) PROVE tasks'[t] = tasks[t]
  BY <1>0, <1>3 DEF Register, Unspent
<1>4. ASSUME NEW s \in Task, NEW d \in DiscordUser, Exchange(s, d), tasks'[t] # tasks[t]
      PROVE  s = t /\ tasks'[t].grant = NextGrant
  <2>1. tasks' = [tasks EXCEPT ![s] =
          [at |-> "lookup", discord_id |-> d, grant |-> NextGrant,
           expires_at |-> now + Lifetime, account |-> 0]]
    BY <1>2, <1>4 DEF Exchange
  <2> QED BY <1>0, <1>4, <2>1
<1>5. ASSUME NEW s \in Task, Lookup(s), tasks'[t] # tasks[t]
      PROVE  Unspent(t) /\ tasks'[t].grant = tasks[t].grant
  <2>1. s = t /\ tasks[t] \in Request /\ Unspent(t)
    BY <1>0, <1>5 DEF Lookup, At, Goto, Unspent
  <2>2. \/ tasks'[t] = [tasks[t] EXCEPT !.at = "consent"]
        \/ \E u \in Account : tasks'[t] = [tasks[t] EXCEPT !.at = "update", !.account = u]
    BY <1>0, <1>5, <2>1 DEF Lookup, Goto, RowsOf
  <2> QED BY <2>1, <2>2 DEF Request
<1>6. ASSUME NEW s \in Task, Update(s) PROVE tasks'[t] = tasks[t]
  <2>1. tasks' = [tasks EXCEPT ![s] = [tasks[s] EXCEPT !.at = "touch"]]
    BY <1>6 DEF Update, Goto
  <2>2. tasks[s] \in Request
    BY <1>0, <1>6 DEF Update, At
  <2>3. [tasks[s] EXCEPT !.at = "touch"].at = "touch"
    BY <2>2 DEF Request
  <2> QED BY <1>0, <2>1, <2>3 DEF Unspent
<1>7. ASSUME NEW s \in Task, NEW c \in pending_consents, Confirm(s, c), tasks'[t] # tasks[t]
      PROVE  s = t /\ tasks'[t].grant = c.grant
  <2>1. tasks' = [tasks EXCEPT ![s] =
          [at |-> "create", discord_id |-> c.discord_id, grant |-> c.grant,
           expires_at |-> c.token_expires_at, account |-> c.temp_token]]
    BY <1>7 DEF Confirm
  <2> QED BY <1>0, <1>7, <2>1
<1>8. ASSUME NEW s \in Task,
             ExchangeFails(s) \/ Touch(s) \/ OpenConsent(s) \/ CreateUser(s) \/ Abandon(s)
      PROVE  tasks'[t] = tasks[t]
  BY <1>2, <1>8 DEF ExchangeFails, Touch, OpenConsent, CreateUser, Abandon
<1>9. CASE Restart
  BY <1>9 DEF Restart, Unspent
<1> QED BY <1>1, <1>3, <1>4, <1>5, <1>6, <1>7, <1>8, <1>9, TaskSteps DEF Registration

\* A grant that somebody keeps is somebody's.
LEMMA KeptIsOwned ==
  ASSUME TypeOK, HoldersOwn, NEW g \in Grant, NEW p \in Places(g)
  PROVE  owner[g] # Nobody
<1>1. ASSUME NEW t \in Task, Unspent(t), tasks[t].grant = g
      PROVE  owner[g] # Nobody
  <2>1. tasks[t].discord_id \in DiscordUser /\ Holds(g, tasks[t].discord_id)
    BY <1>1 DEF TypeOK, TasksOK, RequestOK, Unspent, Holds
  <2> QED BY <2>1, AccountsAssumption DEF HoldersOwn
<1>2. ASSUME NEW c \in pending_consents, c.grant = g PROVE owner[g] # Nobody
  <2>1. c.discord_id \in DiscordUser /\ Holds(g, c.discord_id)
    BY <1>2 DEF TypeOK, TicketsOK, PendingConsent, Holds
  <2> QED BY <2>1, AccountsAssumption DEF HoldersOwn
<1>3. ASSUME NEW u \in Account, OfAccount(u, g) PROVE owner[g] # Nobody
  <2>1. Exists(u) => users[u].discord_id \in DiscordUser
    BY DEF TypeOK, Exists, Row
  <2>2. workers[u] # NoWorker => workers[u].row.discord_id \in DiscordUser
    BY DEF TypeOK, Worker, Row
  <2>3. \E d \in DiscordUser : Holds(g, d)
    BY <1>3, <2>1, <2>2 DEF OfAccount, Holds
  <2> QED BY <2>3, AccountsAssumption DEF HoldersOwn
<1> QED BY <1>1, <1>2, <1>3 DEF Places

\* So the next grant is nowhere yet.
LEMMA FreshIsNowhere ==
  ASSUME TypeOK, HoldersOwn, \E g \in Grant : owner[g] = Nobody
  PROVE  NextGrant \in Grant /\ Places(NextGrant) = {}
BY FreshGrant, KeptIsOwned

\* Where the account keeps what it keeps: nothing comes to it but from a
\* registration and from the refresh.
LEMMA AccountComesFrom ==
  ASSUME TypeOK, [Next]_vars, NEW u \in Account, NEW g \in Grant, OfAccount(u, g)'
  PROVE  \/ OfAccount(u, g)
         \/ \E t \in Task : /\ Update(t) \/ CreateUser(t)
                            /\ tasks[t].account = u /\ tasks[t].grant = g
         \/ Rotated(u) /\ g = NextGrant
<1>0. /\ users \in [Account -> Row \cup {NoRow}]
      /\ workers \in [Account -> Worker \cup {NoWorker}]
      /\ \A v \in Account : workers[v] # NoWorker => workers[v] \in Worker
      /\ \A v \in Account : Exists(v) => users[v] \in Row
  BY DEF TypeOK, Exists
<1>1. CASE Exists(u)' /\ users'[u].refresh_token.grant = g
  <2>1. CASE users'[u] = users[u]
    BY <1>1, <2>1 DEF OfAccount, Exists
  <2>2. ASSUME NEW t \in Task, Update(t), users'[u] # users[u]
        PROVE  tasks[t].account = u /\ tasks[t].grant = g
    <3>1. /\ Exists(u) /\ tasks[t].account = u
          /\ users'[u] = WithTokens(users[u], Encrypted(tasks[t].grant), tasks[t].expires_at)
      BY <1>0, <2>2 DEF Update, UpdateTokens
    <3> QED BY <1>0, <1>1, <3>1 DEF WithTokens, Row, Encrypted
  <2>3. ASSUME NEW t \in Task, Touch(t) PROVE OfAccount(u, g)
    <3>1. Exists(u) /\ users'[u] \in {users[u], [users[u] EXCEPT !.last_connected = now]}
      BY <1>0, <1>1, <2>3 DEF Touch, Exists
    <3> QED BY <1>0, <1>1, <3>1 DEF Row, OfAccount
  <2>4. ASSUME NEW t \in Task, CreateUser(t), users'[u] # users[u]
        PROVE  tasks[t].account = u /\ tasks[t].grant = g
    BY <1>0, <1>1, <2>4 DEF CreateUser, Insert, NewRow, Encrypted
  <2>5. ASSUME NEW v \in Account, Store(v), users'[u] # users[u] PROVE OfAccount(u, g)
    <3>1. /\ u = v /\ Exists(u) /\ workers[u] # NoWorker
          /\ users'[u] = WithTokens(users[u], Refreshed(workers[u]), now + Lifetime)
      BY <1>0, <2>5 DEF Store, UpdateTokens, WorkerAt
    <3>2. users'[u].refresh_token = Refreshed(workers[u])
      BY <1>0, <3>1 DEF WithTokens, Row
    <3> QED BY <1>1, <3>1, <3>2 DEF Refreshed, Encrypted, OfAccount
  <2>6. ASSUME NEW v \in Account, DeleteRefused(v) \/ DeleteAccount(v) PROVE users'[u] = users[u]
    BY <1>0, <1>1, <2>6 DEF DeleteRefused, DeleteAccount, Exists
  <2>7. CASE DeleteInactive
    BY <1>0, <1>1, <2>7 DEF DeleteInactive, OfAccount, Exists
  <2> QED BY <2>1, <2>2, <2>3, <2>4, <2>5, <2>6, <2>7, UserSteps
<1>2. CASE workers'[u] # NoWorker /\ \/ workers'[u].row.refresh_token.grant = g
                                     \/ workers'[u].new # 0 /\ workers'[u].new = g
  <2>1. CASE workers'[u] = workers[u]
    BY <1>2, <2>1 DEF OfAccount
  <2>2. CASE CollectBatch
    BY <1>2, <2>2 DEF CollectBatch, NeedsRefresh, OfAccount
  <2>3. CASE Restart
    BY <1>2, <2>3 DEF Restart
  <2>4. ASSUME NEW v \in Account, WorkerDone(v) PROVE workers'[u] = workers[u]
    BY <1>0, <1>2, <2>4 DEF WorkerDone
  <2>5. ASSUME NEW v \in Account, workers[v] # NoWorker,
               NEW label \in {"call", "store", "delete"}, WorkerGoto(v, label)
        PROVE  OfAccount(u, g)
    <3>1. workers'[u] \in {workers[u], [workers[u] EXCEPT !.at = label]}
      BY <1>0, <2>5 DEF WorkerGoto
    <3>2. workers[u] # NoWorker
      BY <1>0, <1>2, <2>5 DEF WorkerGoto
    <3> QED BY <1>0, <1>2, <3>1, <3>2 DEF Worker, OfAccount
  <2>6. ASSUME NEW v \in Account, Rotated(v), workers'[u] # workers[u]
        PROVE  OfAccount(u, g) \/ (u = v /\ g = NextGrant)
    <3>1. /\ u = v /\ workers[u] # NoWorker
          /\ workers'[u] = [workers[u] EXCEPT !.at = "store", !.new = NextGrant]
      BY <1>0, <2>6 DEF Rotated, Rotation, WorkerAt
    <3> QED BY <1>0, <1>2, <3>1 DEF Worker, OfAccount
  <2>7. ASSUME NEW v \in Account, AcquirePermit(v) \/ Renewed(v) \/ Refused(v)
        PROVE  OfAccount(u, g)
    BY <2>5, <2>7 DEF AcquirePermit, Renewed, Refused, WorkerAt
  <2>8. ASSUME NEW v \in Account,
               RotationLost(v) \/ CallFails(v) \/ Store(v) \/ DeleteRefused(v) \/ WorkerFails(v)
        PROVE  workers'[u] = workers[u]
    BY <2>4, <2>8 DEF RotationLost, CallFails, Store, DeleteRefused, WorkerFails
  <2> QED BY <2>1, <2>2, <2>3, <2>6, <2>7, <2>8, WorkerSteps DEF WorkerStep
<1> QED BY <1>1, <1>2 DEF OfAccount

\* Six steps bring a grant to another place, and it is gone from where it was.
Moves ==
  \/ \E t \in Task, d \in DiscordUser : Exchange(t, d)
  \/ \E t \in Task : OpenConsent(t) \/ Update(t) \/ CreateUser(t)
  \/ \E t \in Task, c \in pending_consents : Confirm(t, c)
  \/ \E u \in Account : Rotated(u)

LEMMA NothingMoves ==
  ASSUME TypeOK, [Next]_vars, ~Moves, NEW g \in Grant
  PROVE  Places(g)' \subseteq Places(g)
<1>1. ASSUME NEW t \in Task, Unspent(t)', tasks'[t].grant = g
      PROVE  Unspent(t) /\ tasks[t].grant = g
  BY <1>1, RequestComesFrom DEF Moves
<1>2. pending_consents' \subseteq pending_consents
  <2>1. CASE OauthStart \/ OauthCleanup \/ Restart
    BY <2>1 DEF OauthStart, OauthCleanup, Restart
  <2>2. CASE \E t \in Task, s \in oauth_states : Register(t, s)
    BY <2>2 DEF Register
  <2>3. CASE \E c \in pending_consents : SweepConsent(c)
    BY <2>3 DEF SweepConsent, WithoutConsent
  <2>4. CASE UNCHANGED tickets
    BY <2>4 DEF tickets
  <2> QED BY <2>1, <2>2, <2>3, <2>4, TicketSteps DEF Moves
<1>3. ASSUME NEW u \in Account, OfAccount(u, g)' PROVE OfAccount(u, g)
  BY <1>3, AccountComesFrom DEF Moves
<1> QED BY <1>1, <1>2, <1>3 DEF Places

\* What one step does to the places of one grant.
LEMMA PlacesStep ==
  ASSUME TypeOK, HoldersOwn, HeldOnce, [Next]_vars, NEW g \in Grant
  PROVE  Places(g)' \subseteq Places(g) \/ \E p : Places(g)' \subseteq {p}
<1>0. tasks \in [Task -> Request \cup {NoRequest}]
  BY DEF TypeOK, TasksOK
<1>1. ASSUME NEW t \in Task, NEW d \in DiscordUser, Exchange(t, d)
      PROVE  Places(g)' \subseteq Places(g) \/ Places(g)' \subseteq {<<"request", t>>}
  <2>1. UNCHANGED <<pending_consents, users, workers>>
    BY <1>1 DEF Exchange, tickets
  <2>2. NextGrant \in Grant /\ Places(NextGrant) = {}
    BY <1>1, FreshIsNowhere DEF Exchange, Give
  <2>3. \A u \in Account : OfAccount(u, g)' = OfAccount(u, g)
    BY <2>1 DEF OfAccount, Exists
  <2>4. ASSUME NEW s \in Task, Unspent(s)', tasks'[s].grant = g
        PROVE  (Unspent(s) /\ tasks[s].grant = g) \/ (s = t /\ g = NextGrant)
    <3>1. s # t => tasks'[s] = tasks[s]
      BY <1>0, <1>1 DEF Exchange, Finish
    <3>2. CASE s # t
      BY <2>4, <3>1, <3>2 DEF Unspent
    <3>3. CASE s = t
      <4>1. tasks'[t] \in {NoRequest, [at |-> "lookup", discord_id |-> d, grant |-> NextGrant,
                                      expires_at |-> now + Lifetime, account |-> 0]}
        BY <1>0, <1>1 DEF Exchange, Finish
      <4> QED BY <2>4, <3>3, <4>1 DEF Unspent
    <3> QED BY <3>2, <3>3
  <2>5. CASE g # NextGrant
    BY <2>1, <2>3, <2>4, <2>5 DEF Places
  <2>6. CASE g = NextGrant
    <3>1. \A p \in Places(g)' : p \in Places(g) \/ p = <<"request", t>>
      BY <2>1, <2>3, <2>4 DEF Places
    <3> QED BY <2>2, <2>6, <3>1
  <2> QED BY <2>5, <2>6
<1>2. ASSUME NEW t \in Task, OpenConsent(t)
      PROVE  Places(g)' \subseteq Places(g) \/ \E p : Places(g)' \subseteq {p}
  <2> DEFINE e == [temp_token |-> next_consent, discord_id |-> tasks[t].discord_id,
                   grant |-> tasks[t].grant, token_expires_at |-> tasks[t].expires_at,
                   created_at |-> now]
  <2>1. pending_consents' = pending_consents \cup {e} /\ e.grant = tasks[t].grant
    BY <1>2 DEF OpenConsent
  <2> HIDE DEF e
  <2>2. Unspent(t) /\ UNCHANGED <<users, workers>> /\ tasks' = [tasks EXCEPT ![t] = NoRequest]
    BY <1>2 DEF OpenConsent, At, Unspent, Finish
  <2>3. \A u \in Account : OfAccount(u, g)' = OfAccount(u, g)
    BY <2>2 DEF OfAccount, Exists
  <2>4. \A s \in Task : Unspent(s)' => s # t /\ tasks'[s] = tasks[s] /\ Unspent(s)
    BY <1>0, <2>2 DEF Unspent
  <2>5. \A p \in Places(g)' : \/ p \in Places(g) /\ p # <<"request", t>>
                              \/ p = <<"consent", e>> /\ g = e.grant
    BY <2>1, <2>3, <2>4 DEF Places
  <2>6. CASE g = e.grant
    <3>1. <<"request", t>> \in Places(g)
      BY <2>1, <2>2, <2>6 DEF Places
    <3> QED BY <2>5, <3>1 DEF HeldOnce
  <2> QED BY <2>5, <2>6
<1>3. ASSUME NEW t \in Task, Update(t) \/ CreateUser(t)
      PROVE  Places(g)' \subseteq Places(g) \/ \E p : Places(g)' \subseteq {p}
  <2>1. Unspent(t) /\ UNCHANGED pending_consents
    BY <1>3 DEF Update, CreateUser, At, Unspent, tickets
  <2>2. \A s \in Task : Unspent(s)' => s # t /\ tasks'[s] = tasks[s] /\ Unspent(s)
    <3>1. tasks[t] \in Request
      BY <2>1 DEF TypeOK, TasksOK, Unspent
    <3>2. tasks' \in {[tasks EXCEPT ![t] = NoRequest],
                      [tasks EXCEPT ![t] = [tasks[t] EXCEPT !.at = "touch"]]}
      BY <1>3 DEF Update, CreateUser, Finish, Goto
    <3>3. [tasks[t] EXCEPT !.at = "touch"].at = "touch"
      BY <3>1 DEF Request
    <3> QED BY <1>0, <3>2, <3>3 DEF Unspent
  <2>3. ASSUME NEW u \in Account, OfAccount(u, g)'
        PROVE  OfAccount(u, g) \/ (u = tasks[t].account /\ g = tasks[t].grant)
    <3>1. UNCHANGED workers
      BY <1>3 DEF Update, CreateUser
    <3>2. u # tasks[t].account => users'[u] = users[u]
      BY <1>3 DEF TypeOK, Update, UpdateTokens, CreateUser, Insert
    <3>3. CASE u # tasks[t].account
      BY <2>3, <3>1, <3>2, <3>3 DEF OfAccount, Exists
    <3>4. CASE u = tasks[t].account
      <4>1. users'[u] = users[u] \/ users'[u].refresh_token.grant = tasks[t].grant
        <5>1. Exists(u) => users[u] \in Row
          BY DEF TypeOK, Exists
        <5>2. CASE Update(t)
          BY <3>4, <5>1, <5>2 DEF TypeOK, Update, UpdateTokens, WithTokens, Row, Encrypted
        <5>3. CASE CreateUser(t)
          BY <3>4, <5>3 DEF TypeOK, CreateUser, Insert, NewRow, Encrypted
        <5> QED BY <1>3, <5>2, <5>3
      <4> QED BY <2>3, <3>1, <3>4, <4>1 DEF OfAccount, Exists
    <3> QED BY <3>3, <3>4
  <2>4. \A p \in Places(g)' : \/ p \in Places(g) /\ p # <<"request", t>>
                              \/ p = <<"account", tasks[t].account>> /\ g = tasks[t].grant
    BY <2>1, <2>2, <2>3 DEF Places
  <2>5. CASE g = tasks[t].grant
    <3>1. <<"request", t>> \in Places(g)
      BY <2>1, <2>5 DEF Places
    <3> QED BY <2>4, <3>1 DEF HeldOnce
  <2> QED BY <2>4, <2>5
<1>4. ASSUME NEW t \in Task, NEW c \in pending_consents, Confirm(t, c)
      PROVE  Places(g)' \subseteq Places(g) \/ \E p : Places(g)' \subseteq {p}
  <2>1. /\ UNCHANGED <<users, workers>> /\ pending_consents' = pending_consents \ {c}
        /\ tasks' = [tasks EXCEPT ![t] =
             [at |-> "create", discord_id |-> c.discord_id, grant |-> c.grant,
              expires_at |-> c.token_expires_at, account |-> c.temp_token]]
    BY <1>4 DEF Confirm, WithoutConsent
  <2>2. \A u \in Account : OfAccount(u, g)' = OfAccount(u, g)
    BY <2>1 DEF OfAccount, Exists
  <2>3. \A s \in Task : Unspent(s)' =>
          \/ tasks'[s] = tasks[s] /\ Unspent(s)
          \/ s = t /\ tasks'[s].grant = c.grant
    BY <1>0, <2>1 DEF Unspent
  <2>4. \A p \in Places(g)' : \/ p \in Places(g) /\ p # <<"consent", c>>
                              \/ p = <<"request", t>> /\ g = c.grant
    BY <2>1, <2>2, <2>3 DEF Places
  <2>5. CASE g = c.grant
    <3>1. <<"consent", c>> \in Places(g)
      BY <2>5 DEF Places
    <3> QED BY <2>4, <3>1 DEF HeldOnce
  <2> QED BY <2>4, <2>5
<1>5. ASSUME NEW v \in Account, Rotated(v)
      PROVE  Places(g)' \subseteq Places(g) \/ Places(g)' \subseteq {<<"account", v>>}
  <2>1. UNCHANGED <<pending_consents, users, tasks>>
    BY <1>5 DEF Rotated, Rotation, tickets
  <2>2. NextGrant \in Grant /\ Places(NextGrant) = {}
    BY <1>5, FreshIsNowhere DEF Rotated, Rotation, Give
  <2>3. \A s \in Task : Unspent(s)' = Unspent(s)
    BY <2>1 DEF Unspent
  <2>4. ASSUME NEW u \in Account, OfAccount(u, g)'
        PROVE  OfAccount(u, g) \/ (u = v /\ g = NextGrant)
    <3>1. \/ workers'[u] = workers[u]
          \/ /\ u = v /\ workers[u] # NoWorker /\ workers[u] \in Worker
             /\ workers'[u] = [workers[u] EXCEPT !.at = "store", !.new = NextGrant]
      BY <1>5 DEF Rotated, Rotation, WorkerAt, TypeOK
    <3>2. CASE workers'[u] = workers[u]
      BY <2>1, <2>4, <3>2 DEF OfAccount, Exists
    <3>3. CASE workers'[u] # workers[u]
      <4>1. workers'[u].row = workers[u].row /\ workers'[u].new = NextGrant
        BY <3>1, <3>3 DEF Worker
      <4> QED BY <2>1, <2>4, <3>1, <3>3, <4>1 DEF OfAccount, Exists
    <3> QED BY <3>2, <3>3
  <2>5. \A p \in Places(g)' : p \in Places(g) \/ (p = <<"account", v>> /\ g = NextGrant)
    BY <2>1, <2>3, <2>4 DEF Places
  <2> QED BY <2>2, <2>5
<1> QED BY <1>1, <1>2, <1>3, <1>4, <1>5, NothingMoves DEF Moves

LEMMA HeldOnceStep == TypeOK /\ HoldersOwn /\ HeldOnce /\ [Next]_vars => HeldOnce'
<1> SUFFICES ASSUME TypeOK, HoldersOwn, HeldOnce, [Next]_vars, NEW g \in Grant
             PROVE  \A p, q \in Places(g)' : p = q
  BY DEF HeldOnce
<1> QED BY PlacesStep DEF HeldOnce

(***************************************************************************)
(* What Discord honours.  A grant stays honoured but for two reasons: the  *)
(* refresh exchanged it, and then the account kept it and nobody else; or  *)
(* its user revoked it.                                                    *)
(***************************************************************************)

LEMMA LiveStays ==
  ASSUME [Next]_vars, NEW g \in live
  PROVE  \/ g \in live'
         \/ \E u \in Account : /\ Rotated(u) \/ RotationLost(u)
                              /\ workers[u].row.refresh_token.grant = g
         \/ Revoke(owner[g])
<1>1. CASE \E t \in Task, d \in DiscordUser : Exchange(t, d)
  BY <1>1 DEF Exchange
<1>2. CASE \E t \in Task : Touch(t) \/ CreateUser(t)
  BY <1>2 DEF Touch, CreateUser, discord
<1>3. CASE \E u \in Account : Rotated(u) \/ RotationLost(u)
  BY <1>3 DEF Rotated, RotationLost, Rotation
<1>4. CASE \E u \in Account : ConsoleLogin(u)
  BY <1>4 DEF ConsoleLogin, discord
<1>5. ASSUME NEW d \in DiscordUser, Revoke(d) PROVE g \in live' \/ d = owner[g]
  BY <1>5 DEF Revoke
<1>6. CASE Time
  BY <1>6 DEF Time, discord
<1>7. CASE UNCHANGED discord
  BY <1>7 DEF discord
<1> QED BY <1>1, <1>2, <1>3, <1>4, <1>5, <1>6, <1>7, WorldSteps

\* A user with a grant that is honoured after a step had one before it, or a
\* registration has just been given one.
LEMMA LiveComesFrom ==
  ASSUME TypeOK, [Next]_vars, NEW d \in DiscordUser, NEW g \in live', owner'[g] = d
  PROVE  \/ \E h \in live : owner[h] = d
         \/ \E t \in Task : Exchange(t, d) /\ g = NextGrant
<1>0. owner \in [Grant -> DiscordUser \cup {Nobody}] /\ live \subseteq Grant
  BY DEF TypeOK, WorldOK
<1>1. ASSUME NEW t \in Task, NEW e \in DiscordUser, Exchange(t, e)
      PROVE  (\E h \in live : owner[h] = d) \/ (e = d /\ g = NextGrant)
  <2>1. /\ NextGrant \in Grant /\ owner' = [owner EXCEPT ![NextGrant] = e]
        /\ live' = live \cup {NextGrant}
    BY <1>1, FreshGrant DEF Exchange, Give
  <2> QED BY <1>0, <2>1
<1>2. ASSUME NEW u \in Account, Rotation(u) PROVE \E h \in live : owner[h] = d
  <2> DEFINE old == workers[u].row.refresh_token.grant
  <2>1. /\ NextGrant \in Grant /\ owner' = [owner EXCEPT ![NextGrant] = owner[old]]
        /\ live' = (live \ {old}) \cup {NextGrant} /\ old \in live
    BY <1>2, FreshGrant DEF Rotation, Give, Honoured
  <2> HIDE DEF old
  <2> QED BY <1>0, <2>1
<1>3. ASSUME UNCHANGED owner, live' \subseteq live PROVE \E h \in live : owner[h] = d
  BY <1>3
<1>4. CASE \E t \in Task : Touch(t) \/ CreateUser(t)
  BY <1>3, <1>4 DEF Touch, CreateUser, discord
<1>5. CASE \E u \in Account : ConsoleLogin(u)
  BY <1>3, <1>5 DEF ConsoleLogin, discord
<1>6. CASE (\E e \in DiscordUser : Revoke(e)) \/ Time
  BY <1>3, <1>6 DEF Revoke, Time, discord
<1>7. CASE UNCHANGED discord
  BY <1>3, <1>7 DEF discord
<1> QED BY <1>1, <1>2, <1>4, <1>5, <1>6, <1>7, WorldSteps DEF Rotated, RotationLost

\* What a request or a consent keeps is honoured, and a worker that is about to
\* store a token has a new one.
UnspentLive ==
  /\ \A t \in Task : Unspent(t) => tasks[t].grant \in live
  /\ \A c \in pending_consents : c.grant \in live

StoresLive ==
  \A u \in Account : WorkerAt(u, "store") => workers[u].new \in Grant \cap live

LEMMA UnspentStays ==
  ASSUME TypeOK, HoldersOwn, HeldOnce, UnspentLive, [Next]_vars, ~RevokesMidway
  PROVE  /\ \A t \in Task : Unspent(t) => tasks[t].grant \in live'
         /\ \A c \in pending_consents : c.grant \in live'
<1>1. ASSUME NEW u \in Account, Rotation(u)
      PROVE  <<"account", u>> \in Places(workers[u].row.refresh_token.grant)
  BY <1>1 DEF Rotation, WorkerAt, Places, OfAccount
<1>2. ASSUME NEW t \in Task, Unspent(t) PROVE tasks[t].grant \in live'
  <2>1. tasks[t].grant \in Grant /\ tasks[t].grant \in live /\ tasks[t].discord_id \in DiscordUser
    BY <1>2 DEF TypeOK, TasksOK, RequestOK, Unspent, UnspentLive
  <2>2. <<"request", t>> \in Places(tasks[t].grant)
    BY <1>2 DEF Places
  <2>3. ASSUME NEW u \in Account, Rotation(u) PROVE workers[u].row.refresh_token.grant # tasks[t].grant
    BY <1>1, <2>1, <2>2, <2>3 DEF HeldOnce
  <2>4. owner[tasks[t].grant] = tasks[t].discord_id
    BY <1>2, <2>1 DEF HoldersOwn, Holds, Unspent
  <2>5. ~Revoke(tasks[t].discord_id)
    BY <1>2 DEF Revoke, Busy, Unspent
  <2> QED BY <2>1, <2>3, <2>4, <2>5, LiveStays DEF Rotated, RotationLost
<1>3. ASSUME NEW c \in pending_consents PROVE c.grant \in live'
  <2>1. c.grant \in Grant /\ c.grant \in live /\ c.discord_id \in DiscordUser
    BY DEF TypeOK, TicketsOK, PendingConsent, UnspentLive
  <2>2. <<"consent", c>> \in Places(c.grant)
    BY DEF Places
  <2>3. ASSUME NEW u \in Account, Rotation(u) PROVE workers[u].row.refresh_token.grant # c.grant
    BY <1>1, <2>1, <2>2, <2>3 DEF HeldOnce
  <2>4. owner[c.grant] = c.discord_id
    BY <2>1 DEF HoldersOwn, Holds
  <2>5. ~Revoke(c.discord_id)
    BY DEF Revoke, Busy
  <2> QED BY <2>1, <2>3, <2>4, <2>5, LiveStays DEF Rotated, RotationLost
<1> QED BY <1>2, <1>3

LEMMA UnspentStep ==
  ASSUME TypeOK, HoldersOwn, HeldOnce, UnspentLive, [Next]_vars, ~RevokesMidway
  PROVE  UnspentLive'
<1>1. ASSUME NEW t \in Task, Unspent(t)' PROVE tasks'[t].grant \in live'
  <2>1. \A d \in DiscordUser : Exchange(t, d) => NextGrant \in live'
    BY DEF Exchange
  <2> QED BY <1>1, <2>1, RequestComesFrom, UnspentStays
<1>2. ASSUME NEW c \in pending_consents' PROVE c.grant \in live'
  BY <1>2, ConsentComesFrom, UnspentStays DEF At, Unspent
<1> QED BY <1>1, <1>2 DEF UnspentLive

\* A worker that Discord has answered, or one that it is asked to answer now.
LEMMA StoreComesFrom ==
  ASSUME TypeOK, [Next]_vars, NEW u \in Account, WorkerAt(u, "store")'
  PROVE  \/ WorkerAt(u, "store") /\ workers'[u] = workers[u]
         \/ Rotated(u) /\ workers'[u].new = NextGrant
         \/ Renewed(u)
<1>0. /\ workers \in [Account -> Worker \cup {NoWorker}]
      /\ \A v \in Account : workers[v] # NoWorker => workers[v] \in Worker
  BY DEF TypeOK
<1>1. CASE workers'[u] = workers[u]
  BY <1>1 DEF WorkerAt
<1>2. CASE CollectBatch
  BY <1>2, NoneAssumption DEF CollectBatch, WorkerAt
<1>3. CASE Restart
  BY <1>3 DEF Restart, WorkerAt
<1>4. ASSUME NEW v \in Account, WorkerDone(v) PROVE workers'[u] = workers[u]
  BY <1>0, <1>4 DEF WorkerDone, WorkerAt
<1>5. ASSUME NEW v \in Account, workers[v] # NoWorker, NEW label \in {"call", "delete"},
             WorkerGoto(v, label)
      PROVE  workers'[u] = workers[u]
  <2>1. [workers[v] EXCEPT !.at = label].at = label
    BY <1>0, <1>5 DEF Worker
  <2> QED BY <1>0, <1>5, <2>1 DEF WorkerGoto, WorkerAt
<1>6. ASSUME NEW v \in Account, Rotated(v), workers'[u] # workers[u]
      PROVE  u = v /\ workers'[u].new = NextGrant
  <2>1. u = v /\ workers'[u] = [workers[u] EXCEPT !.at = "store", !.new = NextGrant]
    BY <1>0, <1>6 DEF Rotated, Rotation
  <2> QED BY <1>0, <1>6, <2>1 DEF Rotated, Rotation, WorkerAt, Worker
<1>7. ASSUME NEW v \in Account, Renewed(v), workers'[u] # workers[u] PROVE u = v
  BY <1>0, <1>7 DEF Renewed, WorkerGoto
<1>8. ASSUME NEW v \in Account, AcquirePermit(v) \/ Refused(v) PROVE workers'[u] = workers[u]
  BY <1>5, <1>8 DEF AcquirePermit, Refused, WorkerAt
<1>9. ASSUME NEW v \in Account,
             RotationLost(v) \/ CallFails(v) \/ Store(v) \/ DeleteRefused(v) \/ WorkerFails(v)
      PROVE  workers'[u] = workers[u]
  BY <1>4, <1>9 DEF RotationLost, CallFails, Store, DeleteRefused, WorkerFails
<1> QED BY <1>1, <1>2, <1>3, <1>6, <1>7, <1>8, <1>9, WorkerSteps DEF WorkerStep

\* A token that is about to be stored stays honoured until it is.
LEMMA StoreStays ==
  ASSUME TypeOK, HoldersOwn, HeldOnce, StoresLive, [Next]_vars, ~RevokesMidway,
         NEW u \in Account, WorkerAt(u, "store")
  PROVE  workers[u].new \in Grant \cap live'
<1> DEFINE g == workers[u].new
<1>1. workers[u] \in Worker /\ g \in Grant /\ g \in live /\ g # 0
  BY AccountsAssumption DEF WorkerAt, TypeOK, StoresLive, Grant
<1>2. workers[u].row.discord_id \in DiscordUser
  BY <1>1 DEF Worker, Row
<1>3. owner[g] = workers[u].row.discord_id
  BY <1>1, <1>2 DEF HoldersOwn, Holds, WorkerAt
<1>4. ~Revoke(workers[u].row.discord_id)
  BY DEF Revoke, Busy, WorkerAt
<1>5. ASSUME NEW v \in Account, Rotation(v) PROVE workers[v].row.refresh_token.grant # g
  <2>1. u # v
    BY <1>5 DEF Rotation, WorkerAt
  <2>2. <<"account", u>> \in Places(g)
    BY <1>1 DEF Places, OfAccount, WorkerAt
  <2>3. workers[v].row.refresh_token.grant = g => <<"account", v>> \in Places(g)
    BY <1>5 DEF Places, OfAccount, Rotation, WorkerAt
  <2> QED BY <1>1, <2>1, <2>2, <2>3 DEF HeldOnce
<1> HIDE DEF g
<1>6. g \in live'
  BY <1>1, <1>3, <1>4, <1>5, LiveStays DEF Rotated, RotationLost
<1> QED BY <1>1, <1>6 DEF g

LEMMA StoresStep ==
  ASSUME TypeOK, HoldersOwn, HeldOnce, StoresLive, [Next]_vars, ~RevokesMidway, ~OmitsToken
  PROVE  StoresLive'
<1> SUFFICES ASSUME NEW u \in Account, WorkerAt(u, "store")'
             PROVE  workers'[u].new \in Grant \cap live'
  BY DEF StoresLive
<1>1. CASE WorkerAt(u, "store") /\ workers'[u] = workers[u]
  BY <1>1, StoreStays
<1>2. CASE Rotated(u) /\ workers'[u].new = NextGrant
  BY <1>2, FreshGrant DEF Rotated, Rotation, Give
<1>3. ~Renewed(u)
  BY DEF Renewed
<1> QED BY <1>1, <1>2, <1>3, StoreComesFrom

(***************************************************************************)
(* GrantKept, and what makes it inductive: the request that is about to    *)
(* store a grant in a row has found this row.                              *)
(***************************************************************************)

Coming(u, d) ==
  \E t \in Task : /\ At(t, "lookup") \/ (At(t, "update") /\ tasks[t].account = u)
                  /\ tasks[t].discord_id = d

Covered(u) ==
  \/ \A g \in live : owner[g] # users[u].discord_id
  \/ Coming(u, users[u].discord_id)
  \/ WorkerAt(u, "store")

AllCovered == \A u \in Account : Exists(u) /\ ~Honoured(users[u].refresh_token) => Covered(u)

KeptInv == HeldOnce /\ UnspentLive /\ StoresLive /\ AllCovered

Steady == ~Fails /\ ~RevokesMidway /\ ~OmitsToken /\ ~LosesAnswers

\* A token that a step writes to a row is honoured after it.
LEMMA WrittenIsHonoured ==
  ASSUME TypeOK, HoldersOwn, KeptInv, [Next]_vars, Steady, NEW u \in Account, Exists(u)',
         ~Honoured(users[u].refresh_token)'
  PROVE  /\ Exists(u) /\ users'[u].discord_id = users[u].discord_id
         /\ users'[u].refresh_token = users[u].refresh_token
<1>1. ASSUME NEW g \in live' PROVE Encrypted(g).layers = 1 /\ Encrypted(g).grant \in live'
  BY DEF Encrypted
<1>2. ASSUME NEW t \in Task, At(t, "update") \/ At(t, "create")
      PROVE  tasks[t].grant \in live'
  BY <1>2, UnspentStays DEF Unspent, At, KeptInv, Steady
<1>3. ASSUME WorkerAt(u, "store"), users'[u].refresh_token = Refreshed(workers[u])
      PROVE  FALSE
  <2>1. workers[u].new \in Grant /\ workers[u].new \in live'
    BY <1>3, StoreStays DEF KeptInv, Steady
  <2>2. users'[u].refresh_token = Encrypted(workers[u].new)
    BY <1>3, <2>1, AccountsAssumption DEF Refreshed, Grant
  <2> QED BY <1>1, <2>1, <2>2 DEF Honoured
<1>4. ASSUME NEW t \in Task, At(t, "create"), users'[u] = NewRow(tasks[t]) PROVE FALSE
  <2>1. users'[u].refresh_token = Encrypted(tasks[t].grant)
    BY <1>4 DEF NewRow
  <2> QED BY <1>1, <1>2, <1>4, <2>1 DEF Honoured
<1>5. ASSUME NEW t \in Task, At(t, "update"), users'[u].refresh_token = Encrypted(tasks[t].grant)
      PROVE  FALSE
  BY <1>1, <1>2, <1>5 DEF Honoured
<1> QED BY <1>3, <1>4, <1>5, RowComesFrom

\* The request that brings the grant goes on.
LEMMA ComingStays ==
  ASSUME TypeOK, OwnedInv, KeptInv, [Next]_vars, Steady, NEW u \in Account, Exists(u)',
         ~Honoured(users[u].refresh_token)', NEW d, users[u].discord_id = d, Coming(u, d)
  PROVE  Coming(u, d)'
<1>0. /\ Exists(u) /\ users'[u].discord_id = users[u].discord_id
      /\ users'[u].refresh_token = users[u].refresh_token
  BY WrittenIsHonoured DEF OwnedInv
<1>1. PICK t \in Task : /\ At(t, "lookup") \/ (At(t, "update") /\ tasks[t].account = u)
                        /\ tasks[t].discord_id = d
  BY DEF Coming
<1>2. tasks \in [Task -> Request \cup {NoRequest}] /\ tasks[t] \in Request /\ tasks[t] # NoRequest
  BY <1>1 DEF TypeOK, TasksOK, At
<1>3. CASE tasks'[t] = tasks[t]
  BY <1>1, <1>3 DEF Coming, At
<1>4. ASSUME NEW s \in Task, Registration(s), s # t PROVE tasks'[t] = tasks[t]
  BY <1>2, <1>4 DEF Registration, Register, Exchange, ExchangeFails, Lookup, Update, Touch,
                    OpenConsent, Confirm, CreateUser, Finish, Goto
<1>5. CASE Lookup(t)
  <2>1. u \in RowsOf(d)
    BY <1>0 DEF RowsOf
  <2>2. PICK v \in RowsOf(d) : tasks' = [tasks EXCEPT ![t] = [@ EXCEPT !.at = "update", !.account = v]]
    BY <1>1, <1>5, <2>1 DEF Lookup
  <2>3. v = u
    BY <2>1, <2>2 DEF RowsOf, OwnedInv, OneAccountPerUser
  <2>4. tasks'[t] = [tasks[t] EXCEPT !.at = "update", !.account = u]
    BY <1>2, <2>2, <2>3
  <2>5. /\ tasks'[t].at = "update" /\ tasks'[t].account = u /\ tasks'[t].discord_id = d
        /\ tasks'[t] \in Request
    <3>1. u \in 0 .. MaxState
      BY AccountsAssumption DEF Account, Consent
    <3> QED BY <1>1, <1>2, <2>4, <3>1 DEF Request, Label
  <2>6. tasks'[t] # NoRequest
    BY <2>5, NoneAssumption
  <2> QED BY <2>5, <2>6 DEF Coming, At
<1>6. ~Update(t)
  <2> SUFFICES ASSUME Update(t) PROVE FALSE
    OBVIOUS
  <2>1. tasks[t].account = u /\ Unspent(t)
    BY <1>1 DEF Update, At, Unspent
  <2>2. users'[u] = WithTokens(users[u], Encrypted(tasks[t].grant), tasks[t].expires_at)
    BY <1>0, <2>1 DEF Update, UpdateTokens, TypeOK
  <2>3. users'[u].refresh_token = Encrypted(tasks[t].grant)
    BY <1>0, <2>2 DEF WithTokens, TypeOK, Exists, Row
  <2>4. tasks[t].grant \in live'
    BY <2>1, UnspentStays DEF KeptInv, OwnedInv, Steady
  <2> QED BY <2>3, <2>4 DEF Honoured, Encrypted
<1>7. Registration(t) => Lookup(t) \/ Update(t)
  BY <1>1, <1>2 DEF Registration, Register, Exchange, ExchangeFails, Touch, OpenConsent,
                    Confirm, CreateUser, At
<1>8. ~Restart /\ \A s \in Task : ~Abandon(s)
  BY DEF Restart, Abandon, Steady
<1> QED BY <1>3, <1>4, <1>5, <1>6, <1>7, <1>8, TaskSteps

\* So does the worker that stores it.
LEMMA StoringStays ==
  ASSUME TypeOK, HoldersOwn, KeptInv, [Next]_vars, Steady, NEW u \in Account, Exists(u)',
         ~Honoured(users[u].refresh_token)', WorkerAt(u, "store")
  PROVE  WorkerAt(u, "store")'
<1>0. workers \in [Account -> Worker \cup {NoWorker}]
  BY DEF TypeOK
<1>1. CASE workers'[u] = workers[u]
  BY <1>1 DEF WorkerAt
<1>2. ~CollectBatch /\ ~Restart /\ \A v \in Account : ~WorkerFails(v)
  BY DEF CollectBatch, Restart, WorkerFails, Steady, WorkerAt
<1>3. ASSUME NEW v \in Account, WorkerStep(v), v # u PROVE workers'[u] = workers[u]
  BY <1>0, <1>3 DEF WorkerStep, AcquirePermit, Rotated, RotationLost, Renewed, Refused,
                    CallFails, Store, DeleteRefused, WorkerDone, WorkerGoto
<1>4. WorkerStep(u) => Store(u)
  BY DEF WorkerStep, AcquirePermit, Rotated, RotationLost, Rotation, Renewed, Refused,
            CallFails, DeleteRefused, WorkerAt
<1>5. ~Store(u)
  <2> SUFFICES ASSUME Store(u) PROVE FALSE
    OBVIOUS
  <2>1. Exists(u) /\ users[u] \in Row
    BY WrittenIsHonoured DEF TypeOK, Exists
  <2>2. users'[u] = WithTokens(users[u], Refreshed(workers[u]), now + Lifetime)
    BY <2>1 DEF Store, UpdateTokens, TypeOK
  <2>3. users'[u].refresh_token = Refreshed(workers[u])
    BY <2>1, <2>2 DEF WithTokens, Row
  <2>4. users'[u].refresh_token = Encrypted(workers[u].new) /\ workers[u].new \in live
    BY <2>3, AccountsAssumption DEF Refreshed, KeptInv, StoresLive, Grant
  <2>5. UNCHANGED live
    BY DEF Store, quiet, discord
  <2> QED BY <2>4, <2>5 DEF Honoured, Encrypted
<1> QED BY <1>1, <1>2, <1>3, <1>4, <1>5, WorkerSteps

LEMMA CoveredStep ==
  ASSUME TypeOK, OwnedInv, KeptInv, [Next]_vars, Steady
  PROVE  AllCovered'
<1> SUFFICES ASSUME NEW u \in Account, Exists(u)', ~Honoured(users[u].refresh_token)'
             PROVE  Covered(u)'
  BY DEF AllCovered
<1> DEFINE d == users[u].discord_id
           g == users[u].refresh_token.grant
<1>0. /\ Exists(u) /\ users'[u].discord_id = d
      /\ users'[u].refresh_token = users[u].refresh_token
  BY WrittenIsHonoured DEF OwnedInv
<1>1. d \in DiscordUser /\ g \in Grant
  BY <1>0 DEF TypeOK, Exists, Row, Stored
<1>2. CASE Honoured(users[u].refresh_token)
  <2>1. g \in live /\ g \notin live'
    BY <1>0, <1>2 DEF Honoured
  <2>2. owner[g] = d
    BY <1>0, <1>1 DEF OwnedInv, HoldersOwn, Holds
  <2>3. ASSUME NEW v \in Account, Rotated(v), workers[v].row.refresh_token.grant = g
        PROVE  WorkerAt(u, "store")'
    <3>1. <<"account", u>> \in Places(g) /\ <<"account", v>> \in Places(g)
      BY <1>0, <2>3 DEF Places, OfAccount, Rotated, Rotation, WorkerAt
    <3>2. u = v
      BY <1>1, <3>1 DEF KeptInv, HeldOnce
    <3>3. workers[u] \in Worker /\ NextGrant \in Grant
      BY <2>3, <3>2, FreshGrant DEF Rotated, Rotation, WorkerAt, TypeOK, Give
    <3>4. workers'[u] = [workers[u] EXCEPT !.at = "store", !.new = NextGrant]
      BY <2>3, <3>2 DEF Rotated, Rotation, TypeOK
    <3>5. NextGrant \in 0 .. MaxGrant
      BY <3>3, AccountsAssumption DEF Grant
    <3>6. workers'[u] \in Worker /\ workers'[u].at = "store"
      BY <3>3, <3>4, <3>5 DEF Worker
    <3> QED BY <3>6, NoneAssumption DEF WorkerAt
  <2>4. CASE Revoke(d)
    BY <1>0, <2>4 DEF Revoke, Covered
  <2>5. \A v \in Account : ~RotationLost(v)
    BY DEF RotationLost, Steady
  <2> QED BY <2>1, <2>2, <2>3, <2>4, <2>5, LiveStays DEF Covered
<1>3. CASE ~Honoured(users[u].refresh_token)
  <2>1. Covered(u)
    BY <1>0, <1>3 DEF KeptInv, AllCovered
  <2>2. CASE \A h \in live : owner[h] # d
    <3>1. ASSUME NEW t \in Task, Exchange(t, d) PROVE Coming(u, d)'
      <4> DEFINE r == [at |-> "lookup", discord_id |-> d, grant |-> NextGrant,
                       expires_at |-> now + Lifetime, account |-> 0]
      <4>1. tasks'[t] = r
        BY <3>1 DEF Exchange, Steady, TypeOK, TasksOK
      <4>2. r \in Request
        BY <1>1, <3>1, FreshGrant, ExpiryType, AccountsAssumption
        DEF Exchange, Give, Request, Label, Grant
      <4>3. r # NoRequest
        BY <4>2, NoneAssumption
      <4>4. r.at = "lookup" /\ r.discord_id = users'[u].discord_id
        BY <1>0
      <4> HIDE DEF r
      <4> QED BY <4>1, <4>3, <4>4 DEF Coming, At
    <3>2. \/ \A h \in live' : owner'[h] # d
          \/ Coming(u, d)'
      BY <1>1, <2>2, <3>1, LiveComesFrom
    <3> QED BY <1>0, <3>2 DEF Covered
  <2>3. CASE Coming(u, d)
    BY <1>0, <2>3, ComingStays DEF Covered
  <2>4. CASE WorkerAt(u, "store")
    BY <2>4, StoringStays DEF Covered, OwnedInv
  <2> QED BY <2>1, <2>2, <2>3, <2>4 DEF Covered
<1> QED BY <1>2, <1>3

LEMMA KeptInit == Init => KeptInv
<1> SUFFICES ASSUME Init PROVE KeptInv
  OBVIOUS
<1>1. \A u \in Account : users[u] = NoRow /\ workers[u] = NoWorker
  BY DEF Init
<1>2. pending_consents = {} /\ \A t \in Task : tasks[t] = NoRequest
  BY DEF Init
<1> QED BY <1>1, <1>2 DEF KeptInv, HeldOnce, UnspentLive, StoresLive, AllCovered, Places,
                          Unspent, OfAccount, WorkerAt, Exists

\* While the server does not fail, nobody revokes while it works on them, no
\* answer of Discord is lost and each brings a new token: a row that is there, and
\* whose user has a grant that Discord honours, holds one, or a step in progress
\* is about to store one in it; and what a registration is about to keep is
\* honoured.  No overlap of registrations and refreshes loses the new token
\* to the old.  Of rows that are deleted it says nothing.
THEOREM GrantsKept ==
  ASSUME ~Fails, ~RevokesMidway, ~OmitsToken, ~LosesAnswers
  PROVE  Spec => []GrantKept
<1>1. TypeOK /\ OwnedInv /\ KeptInv /\ [Next]_vars => KeptInv'
  BY HeldOnceStep, UnspentStep, StoresStep, CoveredStep DEF KeptInv, OwnedInv, Steady
<1>2. TypeOK /\ KeptInv => GrantKept
  <2> SUFFICES ASSUME TypeOK, KeptInv, NEW u \in Account, Exists(u),
                      ~Honoured(users[u].refresh_token)
               PROVE  LET d == users[u].discord_id IN
                      \/ \A g \in live : owner[g] # d
                      \/ \E t \in Task : /\ At(t, "lookup") \/ At(t, "update")
                                         /\ tasks[t].discord_id = d /\ tasks[t].grant \in live
                      \/ WorkerAt(u, "store") /\ workers[u].new \in live
    <3>1. \A c \in pending_consents : KeptInv => c.grant \in live
      BY DEF KeptInv, UnspentLive
    <3>2. \A t \in Task : KeptInv /\ (At(t, "consent") \/ At(t, "create")) => tasks[t].grant \in live
      BY DEF KeptInv, UnspentLive, Unspent, At
    <3> QED BY <3>1, <3>2 DEF GrantKept
  <2>1. \A t \in Task : At(t, "lookup") \/ At(t, "update") => tasks[t].grant \in live
    BY DEF KeptInv, UnspentLive, Unspent, At
  <2>2. WorkerAt(u, "store") => workers[u].new \in live
    BY DEF KeptInv, StoresLive
  <2> QED BY <2>1, <2>2 DEF KeptInv, AllCovered, Covered, Coming
<1> QED BY TypeCorrect, Owned, KeptInit, <1>1, <1>2, PTL DEF Spec

(***************************************************************************)
(* A token is encrypted twice for one reason only.                         *)
(***************************************************************************)

StoresNew == \A u \in Account : WorkerAt(u, "store") => workers[u].new # 0

\* While Discord gives a new refresh token with every renewal, the column holds a
\* token encrypted once, whatever else fails or overlaps: the one way to the
\* token that nobody can read is the stored one that apply_refresh passes on.
THEOREM StoredOnce ==
  ASSUME ~OmitsToken
  PROVE  Spec => []StoredTokenReadable
<1>1. Init => StoresNew /\ StoredTokenReadable
  BY DEF Init, StoresNew, StoredTokenReadable, WorkerAt, Exists
<1>2. ASSUME TypeOK, StoresNew, [Next]_vars PROVE StoresNew'
  <2> SUFFICES ASSUME NEW u \in Account, WorkerAt(u, "store")' PROVE workers'[u].new # 0
    BY DEF StoresNew
  <2>1. Rotated(u) => NextGrant # 0
    BY FreshGrant, AccountsAssumption DEF Rotated, Rotation, Give, Grant
  <2>2. ~Renewed(u)
    BY DEF Renewed
  <2> QED BY <1>2, <2>1, <2>2, StoreComesFrom DEF StoresNew
<1>3. ASSUME TypeOK, StoresNew, StoredTokenReadable, [Next]_vars PROVE StoredTokenReadable'
  <2> SUFFICES ASSUME NEW u \in Account, Exists(u)'
               PROVE  users'[u].refresh_token.layers = 1
    BY DEF StoredTokenReadable
  <2>1. \A g : Encrypted(g).layers = 1
    BY DEF Encrypted
  <2>2. \A t \in Task : NewRow(tasks[t]).refresh_token.layers = 1
    BY <2>1 DEF NewRow
  <2>3. WorkerAt(u, "store") => Refreshed(workers[u]).layers = 1
    BY <1>3, <2>1 DEF StoresNew, Refreshed
  <2> QED BY <1>3, <2>1, <2>2, <2>3, RowComesFrom DEF StoredTokenReadable
<1> QED BY TypeCorrect, <1>1, <1>2, <1>3, PTL DEF Spec

(***************************************************************************)
(* What Discord has refused, it never honours again: the refresh deletes   *)
(* no row with the token it was given.                                     *)
(***************************************************************************)

RefusedForGood == \A u \in Account : WorkerAt(u, "delete") => ~Honoured(workers[u].row.refresh_token)

LEMMA OnlyFreshBecomeLive ==
  ASSUME TypeOK, [Next]_vars, NEW g \in live'
  PROVE  g \in live \/ owner[g] = Nobody
<1>1. CASE \E t \in Task, d \in DiscordUser : Exchange(t, d)
  BY <1>1, FreshGrant DEF Exchange, Give
<1>2. CASE \E u \in Account : Rotation(u)
  BY <1>2, FreshGrant DEF Rotation, Give
<1>3. CASE \E t \in Task : Touch(t) \/ CreateUser(t)
  BY <1>3 DEF Touch, CreateUser, discord
<1>4. CASE \E u \in Account : ConsoleLogin(u)
  BY <1>4 DEF ConsoleLogin, discord
<1>5. CASE (\E d \in DiscordUser : Revoke(d)) \/ Time
  BY <1>5 DEF Revoke, Time, discord
<1>6. CASE UNCHANGED discord
  BY <1>6 DEF discord
<1> QED BY <1>1, <1>2, <1>3, <1>4, <1>5, <1>6, WorldSteps DEF Rotated, RotationLost

\* A worker about to delete was so before, or has been refused just now.
LEMMA DeleteComesFrom ==
  ASSUME TypeOK, [Next]_vars, NEW u \in Account, WorkerAt(u, "delete")'
  PROVE  \/ WorkerAt(u, "delete") /\ workers'[u].row = workers[u].row
         \/ Refused(u) /\ workers'[u].row = workers[u].row
<1>0. /\ workers \in [Account -> Worker \cup {NoWorker}]
      /\ \A v \in Account : workers[v] # NoWorker => workers[v] \in Worker
      /\ workers'[u] # NoWorker /\ workers'[u].at = "delete"
  BY DEF TypeOK, WorkerAt
<1>1. CASE workers'[u] = workers[u]
  BY <1>0, <1>1 DEF WorkerAt
<1>2. CASE CollectBatch \/ Restart
  BY <1>0, <1>2 DEF CollectBatch, Restart
<1>3. ASSUME NEW v \in Account, WorkerDone(v) PROVE workers'[u] = workers[u]
  BY <1>0, <1>3 DEF WorkerDone
<1>4. ASSUME NEW v \in Account, workers[v] # NoWorker, NEW label \in {"call", "store"},
             WorkerGoto(v, label)
      PROVE  workers'[u] = workers[u]
  <2>1. [workers[v] EXCEPT !.at = label].at = label
    BY <1>0, <1>4 DEF Worker
  <2> QED BY <1>0, <1>4, <2>1 DEF WorkerGoto
<1>5. ASSUME NEW v \in Account, Rotated(v) PROVE workers'[u] = workers[u]
  <2>1. [workers[v] EXCEPT !.at = "store", !.new = NextGrant].at = "store"
    BY <1>0, <1>5 DEF Rotated, Rotation, WorkerAt, Worker
  <2> QED BY <1>0, <1>5, <2>1 DEF Rotated, Rotation
<1>6. ASSUME NEW v \in Account, Refused(v), workers'[u] # workers[u]
      PROVE  u = v /\ workers'[u].row = workers[u].row
  <2>1. u = v /\ workers[u] \in Worker /\ workers'[u] = [workers[u] EXCEPT !.at = "delete"]
    BY <1>0, <1>6 DEF Refused, WorkerAt, WorkerGoto
  <2> QED BY <2>1 DEF Worker
<1>7. ASSUME NEW v \in Account, AcquirePermit(v) \/ Renewed(v) PROVE workers'[u] = workers[u]
  BY <1>4, <1>7 DEF AcquirePermit, Renewed, WorkerAt
<1>8. ASSUME NEW v \in Account,
             RotationLost(v) \/ CallFails(v) \/ Store(v) \/ DeleteRefused(v) \/ WorkerFails(v)
      PROVE  workers'[u] = workers[u]
  BY <1>3, <1>8 DEF RotationLost, CallFails, Store, DeleteRefused, WorkerFails
<1> QED BY <1>1, <1>2, <1>5, <1>6, <1>7, <1>8, WorkerSteps DEF WorkerStep

LEMMA RefusedStep ==
  ASSUME TypeOK, HoldersOwn, RefusedForGood, [Next]_vars
  PROVE  RefusedForGood'
<1> SUFFICES ASSUME NEW u \in Account, WorkerAt(u, "delete")'
             PROVE  LET r == workers'[u].row.refresh_token
                    IN ~(r.layers = 1 /\ r.grant \in live')
  BY DEF RefusedForGood, Honoured
<1> DEFINE w == workers[u]
           s == w.row.refresh_token
<1>1. w \in Worker /\ w # NoWorker /\ workers'[u].row = w.row /\ ~Honoured(s)
  BY DeleteComesFrom DEF RefusedForGood, Refused, WorkerAt, TypeOK
<1>2. owner[s.grant] # Nobody
  <2>1. w.row.discord_id \in DiscordUser /\ s.grant \in Grant
    BY <1>1 DEF Worker, Row, Stored
  <2>2. owner[s.grant] = w.row.discord_id
    BY <1>1, <2>1 DEF HoldersOwn, Holds
  <2> QED BY <2>1, <2>2, AccountsAssumption
<1> HIDE DEF w, s
<1>3. s.grant \in live' => s.grant \in live
  BY <1>2, OnlyFreshBecomeLive
<1> QED BY <1>1, <1>3 DEF Honoured, s

\* A row whose token Discord honours is deleted by the refresh only if that token
\* was stored after the batch had read the row, whatever is revoked, dropped and
\* registered again between the refusal and the deletion.
THEOREM NoOtherDeleted == Spec => DeletesRefusedToken
<1> DEFINE Deleted == \A u \in Account :
             DeleteRefused(u) /\ Exists(u) /\ Honoured(users[u].refresh_token) =>
               users[u].refresh_token # workers[u].row.refresh_token
<1>1. Init => RefusedForGood
  BY DEF Init, RefusedForGood, WorkerAt
<1>2. TypeOK /\ OwnedInv /\ RefusedForGood /\ [Next]_vars => RefusedForGood'
  BY RefusedStep DEF OwnedInv
<1>3. RefusedForGood => Deleted
  BY DEF RefusedForGood, DeleteRefused
<1>4. RefusedForGood /\ [Next]_vars => [Deleted]_vars
  BY <1>3
<1> QED BY TypeCorrect, Owned, <1>1, <1>2, <1>4, PTL DEF Spec, DeletesRefusedToken
==================================================================================
