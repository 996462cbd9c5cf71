--------------------------- MODULE AccountsProofs ---------------------------
(***************************************************************************)
(* Proofs about Accounts, for any number of people, requests, states and   *)
(* grants, and any lifetimes.                                              *)
(***************************************************************************)
EXTENDS Accounts, TLAPS

(***************************************************************************)
(* What a step leaves alone.  Each lemma lists the actions that change a   *)
(* part of the state.                                                      *)
(***************************************************************************)

LEMMA TicketSteps ==
  ASSUME [Next]_vars
  PROVE  \/ OauthStart \/ OauthCleanup \/ Restart
         \/ \E t \in Task, s \in oauth_states : Register(t, s)
         \/ \E t \in Task : OpenConsent(t)
         \/ \E t \in Task, c \in pending_consents : Confirm(t, c)
         \/ \E c \in pending_consents : SweepConsent(c)
         \/ UNCHANGED <<tickets, names, redeemed, confirmed>>
<1> USE DEF tickets, memory, discord, names, history, quiet
<1>1. CASE UNCHANGED vars
  BY <1>1 DEF vars
<1>2. CASE \E t \in Task : Registration(t)
  BY <1>2 DEF Registration, Exchange, ExchangeFails, Lookup, Update, Touch, CreateUser
<1>3. CASE CollectBatch \/ \E u \in Account : WorkerStep(u)
  BY <1>3 DEF CollectBatch, WorkerStep, AcquirePermit, Rotated, RotationLost, Rotation, Renewed,
              Refused, CallFails, Store, DeleteRefused
<1>4. CASE DeleteInactive \/ Environment
  BY <1>4 DEF DeleteInactive, Environment, ConsoleLogin, DeleteAccount, WorkerFails,
              Revoke, Abandon, Time
<1> QED BY <1>1, <1>2, <1>3, <1>4 DEF Next

LEMMA UserSteps ==
  ASSUME [Next]_vars
  PROVE  \/ \E t \in Task : Update(t) \/ Touch(t) \/ CreateUser(t)
         \/ \E u \in Account : Store(u) \/ DeleteRefused(u) \/ DeleteAccount(u)
         \/ DeleteInactive
         \/ UNCHANGED users
<1> USE DEF tickets, memory, discord, names, history, quiet
<1>1. CASE UNCHANGED vars
  BY <1>1 DEF vars
<1>2. CASE \E t \in Task : Registration(t)
  BY <1>2 DEF Registration, Register, Exchange, ExchangeFails, Lookup, OpenConsent, Confirm
<1>3. CASE CollectBatch \/ \E u \in Account : WorkerStep(u)
  BY <1>3 DEF CollectBatch, WorkerStep, AcquirePermit, Rotated, RotationLost, Rotation, Renewed,
              Refused, CallFails
<1>4. CASE Environment
  BY <1>4 DEF Environment, ConsoleLogin, WorkerFails, Revoke, Abandon, Restart, Time
<1>5. CASE OauthStart \/ OauthCleanup \/ \E c \in pending_consents : SweepConsent(c)
  BY <1>5 DEF OauthStart, OauthCleanup, SweepConsent
<1> QED BY <1>1, <1>2, <1>3, <1>4, <1>5 DEF Next

LEMMA TaskSteps ==
  ASSUME [Next]_vars
  PROVE  \/ \E t \in Task : Registration(t) \/ Abandon(t)
         \/ Restart
         \/ UNCHANGED tasks
<1> USE DEF tickets, memory, discord, names, history, quiet
<1>1. CASE UNCHANGED vars
  BY <1>1 DEF vars
<1>3. CASE CollectBatch \/ \E u \in Account : WorkerStep(u)
  BY <1>3 DEF CollectBatch, WorkerStep, AcquirePermit, Rotated, RotationLost, Rotation, Renewed,
              Refused, CallFails, Store, DeleteRefused
<1>4. CASE DeleteInactive \/ Environment
  BY <1>4 DEF DeleteInactive, Environment, ConsoleLogin, DeleteAccount, WorkerFails,
              Revoke, Time
<1>5. CASE OauthStart \/ OauthCleanup \/ \E c \in pending_consents : SweepConsent(c)
  BY <1>5 DEF OauthStart, OauthCleanup, SweepConsent
<1> QED BY <1>1, <1>3, <1>4, <1>5 DEF Next

LEMMA WorkerSteps ==
  ASSUME [Next]_vars
  PROVE  \/ CollectBatch \/ Restart
         \/ \E u \in Account : WorkerStep(u) \/ WorkerFails(u)
         \/ UNCHANGED workers
<1> USE DEF tickets, memory, discord, names, history, quiet
<1>1. CASE UNCHANGED vars
  BY <1>1 DEF vars
<1>2. CASE \E t \in Task : Registration(t)
  BY <1>2 DEF Registration, Register, Exchange, ExchangeFails, Lookup, Update, Touch,
              OpenConsent, Confirm, CreateUser
<1>4. CASE DeleteInactive \/ Environment
  BY <1>4 DEF DeleteInactive, Environment, ConsoleLogin, DeleteAccount, WorkerFails,
              Revoke, Abandon, Time
<1>5. CASE OauthStart \/ OauthCleanup \/ \E c \in pending_consents : SweepConsent(c)
  BY <1>5 DEF OauthStart, OauthCleanup, SweepConsent
<1> QED BY <1>1, <1>2, <1>4, <1>5 DEF Next

LEMMA WorldSteps ==
  ASSUME [Next]_vars
  PROVE  \/ \E t \in Task, d \in DiscordUser : Exchange(t, d)
         \/ \E t \in Task : Touch(t) \/ CreateUser(t)
         \/ \E u \in Account : Rotated(u) \/ RotationLost(u) \/ ConsoleLogin(u)
         \/ \E d \in DiscordUser : Revoke(d)
         \/ Time
         \/ UNCHANGED <<discord, now, last_login>>
<1> USE DEF tickets, memory, discord, names, history, quiet
<1>1. CASE UNCHANGED vars
  BY <1>1 DEF vars
<1>2. CASE \E t \in Task : Registration(t)
  BY <1>2 DEF Registration, Register, ExchangeFails, Lookup, Update, OpenConsent, Confirm
<1>3. CASE CollectBatch \/ \E u \in Account : WorkerStep(u)
  BY <1>3 DEF CollectBatch, WorkerStep, AcquirePermit, Renewed, Refused, CallFails,
              Store, DeleteRefused
<1>4. CASE DeleteInactive \/ Environment
  BY <1>4 DEF DeleteInactive, Environment, DeleteAccount, WorkerFails, Abandon, Restart
<1>5. CASE OauthStart \/ OauthCleanup \/ \E c \in pending_consents : SweepConsent(c)
  BY <1>5 DEF OauthStart, OauthCleanup, SweepConsent
<1> QED BY <1>1, <1>2, <1>3, <1>4, <1>5 DEF Next

(***************************************************************************)
(* Types.                                                                  *)
(***************************************************************************)

\* While some grant is left, the next one is new.
LEMMA FreshGrant ==
  ASSUME \E g \in Grant : owner[g] = Nobody
  PROVE  NextGrant \in Grant /\ owner[NextGrant] = Nobody
BY DEF NextGrant

LEMMA TicketsType == TypeOK /\ [Next]_vars => TicketsOK'
<1> SUFFICES ASSUME TypeOK, [Next]_vars PROVE TicketsOK'
  OBVIOUS
<1> USE AccountsAssumption DEF TypeOK, TicketsOK, WorldOK
<1>1. CASE OauthStart
  BY <1>1 DEF OauthStart, OauthState, OauthStateEntry, tickets, names, history, discord
<1>2. CASE OauthCleanup
  BY <1>2 DEF OauthCleanup, OauthCleanupNow, quiet, names, history, discord
<1>3. CASE Restart
  BY <1>3 DEF Restart, quiet, names, history, discord
<1>4. ASSUME NEW t \in Task, NEW s \in oauth_states, Register(t, s) PROVE TicketsOK'
  <2>1. s.id \in OauthState
    BY DEF OauthStateEntry
  <2> QED BY <1>4, <2>1 DEF Register, Without, names
<1>5. ASSUME NEW t \in Task, OpenConsent(t) PROVE TicketsOK'
  <2>1. tasks[t] \in Request /\ RequestOK(tasks[t]) /\ tasks[t].at = "consent"
    BY <1>5 DEF OpenConsent, At, TasksOK
  <2>2. [temp_token |-> next_consent, discord_id |-> tasks[t].discord_id,
         grant |-> tasks[t].grant, token_expires_at |-> tasks[t].expires_at,
         created_at |-> now] \in PendingConsent
    BY <1>5, <2>1 DEF OpenConsent, RequestOK, Request, PendingConsent, Consent
  <2> QED BY <1>5, <2>2 DEF OpenConsent, history
<1>6. ASSUME NEW t \in Task, NEW c \in pending_consents, Confirm(t, c) PROVE TicketsOK'
  <2>1. c.temp_token \in Consent
    BY DEF PendingConsent
  <2> QED BY <1>6, <2>1 DEF Confirm, WithoutConsent, names
<1>7. ASSUME NEW c \in pending_consents, SweepConsent(c) PROVE TicketsOK'
  BY <1>7 DEF SweepConsent, WithoutConsent, quiet, names, history
<1>8. CASE UNCHANGED <<tickets, names, redeemed, confirmed>>
  BY <1>8 DEF tickets, names
<1> QED BY <1>1, <1>2, <1>3, <1>4, <1>5, <1>6, <1>7, <1>8, TicketSteps

LEMMA EncryptedType == \A g \in Grant : Encrypted(g) \in Stored
BY DEF Encrypted, Stored

LEMMA WithTokensType ==
  ASSUME NEW row \in Row, NEW stored \in Stored, NEW e \in Nat
  PROVE  /\ WithTokens(row, stored, e) \in Row
         /\ WithTokens(row, stored, e).discord_id = row.discord_id
         /\ WithTokens(row, stored, e).refresh_token = stored
BY DEF WithTokens, Row

\* What the refresh task stores is encrypted once or twice: a token encrypted
\* twice is never renewed.
StoreOK ==
  \A u \in Account : WorkerAt(u, "store") /\ workers[u].new = 0 =>
    workers[u].row.refresh_token.layers = 1

LEMMA RefreshedType ==
  ASSUME TypeOK, StoreOK, NEW u \in Account, WorkerAt(u, "store")
  PROVE  Refreshed(workers[u]) \in Stored
<1>1. workers[u] \in Worker
  BY DEF TypeOK, WorkerAt
<1>2. workers[u].row.refresh_token \in Stored /\ workers[u].new \in 0 .. MaxGrant
  BY <1>1 DEF Worker, Row
<1>3. CASE workers[u].new = 0
  BY <1>2, <1>3 DEF StoreOK, Refreshed, Stored
<1>4. CASE workers[u].new # 0
  <2>1. workers[u].new \in Grant
    BY <1>2, <1>4, AccountsAssumption DEF Grant
  <2> QED BY <1>4, <2>1, EncryptedType DEF Refreshed
<1> QED BY <1>3, <1>4

LEMMA NewRowType ==
  ASSUME TypeOK, NEW t \in Task, tasks[t] # NoRequest, tasks[t].at = "create"
  PROVE  NewRow(tasks[t]) \in Row /\ tasks[t].account \in Account
<1>1. tasks[t] \in Request /\ RequestOK(tasks[t])
  BY DEF TypeOK, TasksOK
<1>2. tasks[t].grant \in Grant /\ tasks[t].discord_id \in DiscordUser
  BY <1>1 DEF RequestOK
<1>3. now \in Nat
  BY AccountsAssumption DEF TypeOK, WorldOK
<1> QED BY <1>1, <1>2, <1>3, EncryptedType DEF NewRow, Row, Request, RequestOK

\* The expiry a worker or a handler writes.
LEMMA ExpiryType == TypeOK => now + Lifetime \in Nat
BY AccountsAssumption DEF TypeOK, WorldOK

LEMMA UsersType ==
  TypeOK /\ StoreOK /\ [Next]_vars => users' \in [Account -> Row \cup {NoRow}]
<1> SUFFICES ASSUME TypeOK, StoreOK, [Next]_vars
             PROVE  users' \in [Account -> Row \cup {NoRow}]
  OBVIOUS
<1>0. users \in [Account -> Row \cup {NoRow}]
  BY DEF TypeOK
<1>1. ASSUME NEW t \in Task, Update(t) PROVE users' \in [Account -> Row \cup {NoRow}]
  <2>1. tasks[t] \in Request /\ RequestOK(tasks[t]) /\ tasks[t].at = "update"
    BY <1>1 DEF Update, At, TypeOK, TasksOK
  <2>2. /\ tasks[t].account \in Account /\ Encrypted(tasks[t].grant) \in Stored
        /\ tasks[t].expires_at \in Nat
    BY <2>1, EncryptedType DEF RequestOK, Request
  <2> QED BY <1>0, <1>1, <2>2, WithTokensType DEF Update, UpdateTokens, Exists
<1>2. ASSUME NEW t \in Task, Touch(t) PROVE users' \in [Account -> Row \cup {NoRow}]
  <2>1. tasks[t].account \in Account
    BY <1>2 DEF Touch, At, TypeOK, TasksOK, RequestOK
  <2>2. \A row \in Row : [row EXCEPT !.last_connected = now] \in Row
    BY AccountsAssumption DEF Row, TypeOK, WorldOK
  <2> QED BY <1>0, <1>2, <2>1, <2>2 DEF Touch, Exists
<1>3. ASSUME NEW t \in Task, CreateUser(t) PROVE users' \in [Account -> Row \cup {NoRow}]
  BY <1>0, <1>3, NewRowType DEF CreateUser, At, Insert
<1>4. ASSUME NEW u \in Account, Store(u) PROVE users' \in [Account -> Row \cup {NoRow}]
  <2>1. Refreshed(workers[u]) \in Stored /\ now + Lifetime \in Nat
    BY <1>4, RefreshedType, ExpiryType DEF Store
  <2> QED BY <1>0, <1>4, <2>1, WithTokensType DEF Store, UpdateTokens, Exists
<1>5. ASSUME NEW u \in Account, DeleteRefused(u) \/ DeleteAccount(u)
      PROVE users' \in [Account -> Row \cup {NoRow}]
  BY <1>0, <1>5 DEF DeleteRefused, DeleteAccount
<1>6. CASE DeleteInactive
  BY <1>0, <1>6 DEF DeleteInactive
<1> QED BY <1>0, <1>1, <1>2, <1>3, <1>4, <1>5, <1>6, UserSteps

LEMMA TaskStepType ==
  ASSUME TasksOK, NEW t \in Task, NEW r \in Request \cup {NoRequest},
         r # NoRequest => RequestOK(r), tasks' = [tasks EXCEPT ![t] = r]
  PROVE  TasksOK'
BY DEF TasksOK

\* Moving on with the same local variables.
LEMMA TaskGotoType ==
  ASSUME TasksOK, NEW t \in Task, tasks[t] # NoRequest,
         NEW label \in {"touch", "consent"}, Goto(t, label),
         tasks[t].at \in {"lookup", "update"},
         label = "touch" => tasks[t].at = "update"
  PROVE  TasksOK'
<1> DEFINE r == [tasks[t] EXCEPT !.at = label]
<1>1. tasks[t] \in Request /\ RequestOK(tasks[t])
  BY DEF TasksOK
<1>2. r \in Request /\ RequestOK(r)
  BY <1>1 DEF Request, RequestOK, Label
<1>3. tasks' = [tasks EXCEPT ![t] = r]
  BY DEF Goto
<1> HIDE DEF r
<1> QED BY <1>2, <1>3, TaskStepType

LEMMA TasksType == TypeOK /\ [Next]_vars => TasksOK'
<1> SUFFICES ASSUME TypeOK, [Next]_vars PROVE TasksOK'
  OBVIOUS
<1>0. TasksOK
  BY DEF TypeOK
<1>1. ASSUME NEW t \in Task, Finish(t) PROVE TasksOK'
  BY <1>0, <1>1, TaskStepType DEF Finish
<1>2. ASSUME NEW t \in Task, NEW s \in oauth_states, Register(t, s) PROVE TasksOK'
  <2> DEFINE r == [at |-> "exchange", discord_id |-> Nobody, grant |-> 0,
                   expires_at |-> 0, account |-> 0]
  <2>1. r \in Request /\ RequestOK(r)
    BY AccountsAssumption DEF Request, RequestOK, Label
  <2>2. UNCHANGED tasks \/ tasks' = [tasks EXCEPT ![t] = r]
    BY <1>2 DEF Register
  <2>3. CASE UNCHANGED tasks
    BY <1>0, <2>3 DEF TasksOK
  <2> HIDE DEF r
  <2> QED BY <1>0, <2>1, <2>2, <2>3, TaskStepType
<1>3. ASSUME NEW t \in Task, NEW d \in DiscordUser, Exchange(t, d) PROVE TasksOK'
  <2> DEFINE r == [at |-> "lookup", discord_id |-> d, grant |-> NextGrant,
                   expires_at |-> now + Lifetime, account |-> 0]
  <2>1. NextGrant \in Grant
    BY <1>3, FreshGrant DEF Exchange, Give
  <2>2. r \in Request /\ RequestOK(r)
    BY <2>1, ExpiryType, AccountsAssumption DEF Request, RequestOK, Label, Grant
  <2>3. Finish(t) \/ tasks' = [tasks EXCEPT ![t] = r]
    BY <1>3 DEF Exchange
  <2> HIDE DEF r
  <2> QED BY <1>0, <1>1, <2>2, <2>3, TaskStepType
<1>4. ASSUME NEW t \in Task, Lookup(t) PROVE TasksOK'
  <2>0. tasks[t] # NoRequest /\ tasks[t].at = "lookup" /\ tasks[t] \in Request
        /\ RequestOK(tasks[t])
    BY <1>0, <1>4 DEF Lookup, At, TasksOK
  <2>1. CASE Goto(t, "consent")
    BY <1>0, <2>0, <2>1, TaskGotoType
  <2>2. ASSUME NEW u \in RowsOf(tasks[t].discord_id),
               tasks' = [tasks EXCEPT ![t] = [@ EXCEPT !.at = "update", !.account = u]]
        PROVE  TasksOK'
    <3> DEFINE r == [tasks[t] EXCEPT !.at = "update", !.account = u]
    <3>1. u \in Account /\ u \in 0 .. MaxState
      BY AccountsAssumption DEF RowsOf, Account, Consent
    <3>2. r \in Request /\ RequestOK(r)
      BY <2>0, <3>1 DEF Request, RequestOK, Label
    <3>3. tasks' = [tasks EXCEPT ![t] = r]
      BY <2>2
    <3> HIDE DEF r
    <3> QED BY <1>0, <3>2, <3>3, TaskStepType
  <2> QED BY <1>4, <2>1, <2>2 DEF Lookup
<1>5. ASSUME NEW t \in Task, Update(t) PROVE TasksOK'
  BY <1>0, <1>5, TaskGotoType DEF Update, At
<1>6. ASSUME NEW t \in Task, NEW c \in pending_consents, Confirm(t, c) PROVE TasksOK'
  <2> DEFINE r == [at |-> "create", discord_id |-> c.discord_id, grant |-> c.grant,
                   expires_at |-> c.token_expires_at, account |-> c.temp_token]
  <2>1. c \in PendingConsent
    BY DEF TypeOK, TicketsOK
  <2>2. c.temp_token \in Account /\ c.temp_token \in 0 .. MaxState
        /\ c.grant \in Grant /\ c.grant \in 0 .. MaxGrant
    BY <2>1, AccountsAssumption DEF PendingConsent, Account, Consent, Grant
  <2>3. r \in Request /\ RequestOK(r)
    BY <2>1, <2>2 DEF PendingConsent, Request, RequestOK, Label
  <2>4. tasks' = [tasks EXCEPT ![t] = r]
    BY <1>6 DEF Confirm
  <2> HIDE DEF r
  <2> QED BY <1>0, <2>3, <2>4, TaskStepType
<1>7. ASSUME NEW t \in Task,
             ExchangeFails(t) \/ Touch(t) \/ OpenConsent(t) \/ CreateUser(t) \/ Abandon(t)
      PROVE  TasksOK'
  BY <1>1, <1>7 DEF ExchangeFails, Touch, OpenConsent, CreateUser, Abandon
<1>8. CASE Restart
  BY <1>8 DEF Restart, TasksOK
<1>9. CASE UNCHANGED tasks
  BY <1>0, <1>9 DEF TasksOK
<1> QED BY <1>2, <1>3, <1>4, <1>5, <1>6, <1>7, <1>8, <1>9, TaskSteps DEF Registration

\* A worker keeps its snapshot to its end.
LEMMA WorkerGotoType ==
  ASSUME NEW w \in Worker, NEW label \in {"queued", "call", "store", "delete"}
  PROVE  [w EXCEPT !.at = label] \in Worker
BY DEF Worker

LEMMA WorkersType ==
  TypeOK /\ [Next]_vars => workers' \in [Account -> Worker \cup {NoWorker}]
<1> SUFFICES ASSUME TypeOK, [Next]_vars
             PROVE  workers' \in [Account -> Worker \cup {NoWorker}]
  OBVIOUS
<1>0. workers \in [Account -> Worker \cup {NoWorker}]
  BY DEF TypeOK
<1>1. CASE CollectBatch
  <2>1. \A u \in Account : NeedsRefresh(u) =>
          [at |-> "queued", row |-> users[u], new |-> 0] \in Worker
    BY AccountsAssumption DEF NeedsRefresh, Exists, TypeOK, Worker
  <2> QED BY <1>1, <2>1 DEF CollectBatch
<1>2. CASE Restart
  BY <1>2 DEF Restart
<1>3. ASSUME NEW u \in Account, WorkerDone(u)
      PROVE  workers' \in [Account -> Worker \cup {NoWorker}]
  BY <1>0, <1>3 DEF WorkerDone
<1>4. ASSUME NEW u \in Account, workers[u] # NoWorker,
             NEW label \in {"call", "store", "delete"}, WorkerGoto(u, label)
      PROVE  workers' \in [Account -> Worker \cup {NoWorker}]
  BY <1>0, <1>4, WorkerGotoType DEF WorkerGoto
<1>5. ASSUME NEW u \in Account, Rotated(u)
      PROVE  workers' \in [Account -> Worker \cup {NoWorker}]
  <2> DEFINE w == [workers[u] EXCEPT !.at = "store", !.new = NextGrant]
  <2>1. NextGrant \in Grant /\ NextGrant \in 0 .. MaxGrant
    BY <1>5, FreshGrant, AccountsAssumption DEF Rotated, Rotation, Give, Grant
  <2>2. workers[u] \in Worker
    BY <1>0, <1>5 DEF Rotated, Rotation, WorkerAt
  <2>3. w \in Worker
    BY <2>1, <2>2 DEF Worker
  <2>4. workers' = [workers EXCEPT ![u] = w]
    BY <1>5 DEF Rotated, Rotation
  <2> HIDE DEF w
  <2> QED BY <1>0, <2>3, <2>4
<1>6. ASSUME NEW u \in Account, AcquirePermit(u) \/ Renewed(u) \/ Refused(u)
      PROVE  workers' \in [Account -> Worker \cup {NoWorker}]
  BY <1>4, <1>6 DEF AcquirePermit, Renewed, Refused, WorkerAt
<1>7. ASSUME NEW u \in Account,
             RotationLost(u) \/ CallFails(u) \/ Store(u) \/ DeleteRefused(u) \/ WorkerFails(u)
      PROVE  workers' \in [Account -> Worker \cup {NoWorker}]
  BY <1>3, <1>7 DEF RotationLost, CallFails, Store, DeleteRefused, WorkerFails
<1> QED BY <1>0, <1>1, <1>2, <1>5, <1>6, <1>7, WorkerSteps DEF WorkerStep

LEMMA WorldType == TypeOK /\ [Next]_vars => WorldOK'
<1> SUFFICES ASSUME TypeOK, [Next]_vars PROVE WorldOK'
  OBVIOUS
<1> USE AccountsAssumption DEF TypeOK, WorldOK
<1>1. ASSUME NEW t \in Task, NEW d \in DiscordUser, Exchange(t, d) PROVE WorldOK'
  BY <1>1, FreshGrant DEF Exchange, Give, history
<1>2. ASSUME NEW t \in Task, Touch(t) PROVE WorldOK'
  <2>1. tasks[t].account \in Account
    BY <1>2 DEF Touch, At, TasksOK, RequestOK
  <2> QED BY <1>2, <2>1 DEF Touch, discord
<1>3. ASSUME NEW t \in Task, CreateUser(t) PROVE WorldOK'
  <2>1. tasks[t].account \in Account
    BY <1>3 DEF CreateUser, At, TasksOK, RequestOK
  <2> QED BY <1>3, <2>1 DEF CreateUser, discord
<1>4. ASSUME NEW u \in Account, Rotation(u) PROVE WorldOK'
  <2>1. workers[u] \in Worker
    BY <1>4 DEF Rotation, WorkerAt
  <2>2. workers[u].row.refresh_token.grant \in Grant
    BY <2>1 DEF Worker, Row, Stored
  <2>3. NextGrant \in Grant
    BY <1>4, FreshGrant DEF Rotation, Give
  <2>4. owner[workers[u].row.refresh_token.grant] \in DiscordUser \cup {Nobody}
    BY <2>2
  <2>5. owner' = [owner EXCEPT ![NextGrant] = owner[workers[u].row.refresh_token.grant]]
    BY <1>4 DEF Rotation, Give
  <2>6. live' \in SUBSET Grant /\ UNCHANGED <<now, last_login>>
    BY <1>4, <2>3 DEF Rotation, history
  <2> QED BY <2>3, <2>4, <2>5, <2>6
<1>5. ASSUME NEW u \in Account, ConsoleLogin(u) PROVE WorldOK'
  BY <1>5 DEF ConsoleLogin, discord
<1>6. ASSUME NEW d \in DiscordUser, Revoke(d) PROVE WorldOK'
  BY <1>6 DEF Revoke, history
<1>7. CASE Time
  BY <1>7 DEF Time, discord, history
<1>8. CASE UNCHANGED <<discord, now, last_login>>
  BY <1>8 DEF discord
<1> QED BY <1>1, <1>2, <1>3, <1>4, <1>5, <1>6, <1>7, <1>8, WorldSteps
       DEF Rotated, RotationLost

\* Only Renewed leaves a worker without a new token, and it renews what Discord
\* honours: a token encrypted once.
LEMMA StoreStep == TypeOK /\ StoreOK /\ [Next]_vars => StoreOK'
<1> SUFFICES ASSUME TypeOK, StoreOK, [Next]_vars, NEW u \in Account,
                    WorkerAt(u, "store")', workers'[u].new = 0
             PROVE  workers'[u].row.refresh_token.layers = 1
  BY DEF StoreOK
<1>0. workers \in [Account -> Worker \cup {NoWorker}]
  BY DEF TypeOK
<1>1. CASE CollectBatch
  BY <1>1, NoneAssumption DEF CollectBatch, WorkerAt
<1>2. CASE Restart
  BY <1>2 DEF Restart, WorkerAt
<1>3. ASSUME NEW v \in Account, WorkerDone(v)
      PROVE  workers'[u].row.refresh_token.layers = 1
  BY <1>0, <1>3 DEF WorkerDone, WorkerAt, StoreOK
<1>4. ASSUME NEW v \in Account, workers[v] # NoWorker, NEW label \in {"call", "delete"},
             WorkerGoto(v, label)
      PROVE  workers'[u].row.refresh_token.layers = 1
  <2>1. workers[v] \in Worker
    BY <1>0, <1>4
  <2>2. [workers[v] EXCEPT !.at = label].at = label
    BY <2>1 DEF Worker
  <2>3. u # v
    BY <1>0, <1>4, <2>2 DEF WorkerGoto, WorkerAt
  <2> QED BY <1>0, <1>4, <2>3 DEF WorkerGoto, WorkerAt, StoreOK
<1>5. ASSUME NEW v \in Account, Rotated(v)
      PROVE  workers'[u].row.refresh_token.layers = 1
  <2>1. workers[v] \in Worker
    BY <1>0, <1>5 DEF Rotated, Rotation, WorkerAt
  <2>2. [workers[v] EXCEPT !.at = "store", !.new = NextGrant].new = NextGrant
    BY <2>1 DEF Worker
  <2>3. NextGrant # 0
    BY <1>5, FreshGrant, AccountsAssumption DEF Rotated, Rotation, Give, Grant
  <2>4. u # v
    BY <1>0, <1>5, <2>2, <2>3 DEF Rotated, Rotation
  <2> QED BY <1>0, <1>5, <2>4 DEF Rotated, Rotation, WorkerAt, StoreOK
<1>6. ASSUME NEW v \in Account, Renewed(v)
      PROVE  workers'[u].row.refresh_token.layers = 1
  <2>1. workers[v] \in Worker /\ workers[v].row.refresh_token.layers = 1
    BY <1>0, <1>6 DEF Renewed, WorkerAt, Honoured
  <2>2. [workers[v] EXCEPT !.at = "store"].row = workers[v].row
    BY <2>1 DEF Worker
  <2>3. u # v => workers'[u] = workers[u]
    BY <1>0, <1>6 DEF Renewed, WorkerGoto
  <2>4. u = v => workers'[u] = [workers[v] EXCEPT !.at = "store"]
    BY <1>0, <1>6 DEF Renewed, WorkerGoto
  <2> QED BY <2>1, <2>2, <2>3, <2>4 DEF WorkerAt, StoreOK
<1>7. ASSUME NEW v \in Account, AcquirePermit(v) \/ Refused(v)
      PROVE  workers'[u].row.refresh_token.layers = 1
  BY <1>4, <1>7 DEF AcquirePermit, Refused, WorkerAt
<1>8. ASSUME NEW v \in Account,
             RotationLost(v) \/ CallFails(v) \/ Store(v) \/ DeleteRefused(v) \/ WorkerFails(v)
      PROVE  workers'[u].row.refresh_token.layers = 1
  BY <1>3, <1>8 DEF RotationLost, CallFails, Store, DeleteRefused, WorkerFails
<1>9. CASE UNCHANGED workers
  BY <1>9 DEF WorkerAt, StoreOK
<1> QED BY <1>1, <1>2, <1>5, <1>6, <1>7, <1>8, <1>9, WorkerSteps DEF WorkerStep

LEMMA TypeInit == Init => TypeOK /\ StoreOK
<1> SUFFICES ASSUME Init PROVE TypeOK /\ StoreOK
  OBVIOUS
<1> USE AccountsAssumption DEF Init
<1>1. TicketsOK
  BY DEF TicketsOK
<1>2. TasksOK /\ WorldOK
  BY DEF TasksOK, WorldOK
<1>3. StoreOK
  BY DEF StoreOK, WorkerAt
<1> QED BY <1>1, <1>2, <1>3 DEF TypeOK

\* Every table, handler and worker is well formed in every reachable state.
THEOREM TypeCorrect == Spec => [](TypeOK /\ StoreOK)
<1>1. TypeOK /\ StoreOK /\ [Next]_vars => (TypeOK /\ StoreOK)'
  BY TicketsType, UsersType, TasksType, WorkersType, WorldType, StoreStep DEF TypeOK
<1> QED BY TypeInit, <1>1, PTL DEF Spec

(***************************************************************************)
(* Tickets: a state or consent in its table has a name of its own that was *)
(* issued, and has not served.                                             *)
(***************************************************************************)

StatesInv ==
  /\ \A s \in oauth_states : s.id < next_state /\ redeemed[s.id] = 0
  /\ \A s, r \in oauth_states : s.id = r.id => s = r
  /\ \A k \in OauthState : k >= next_state => redeemed[k] = 0

ConsentsInv ==
  /\ \A c \in pending_consents : c.temp_token < next_consent /\ confirmed[c.temp_token] = 0
  /\ \A c, e \in pending_consents : c.temp_token = e.temp_token => c = e
  /\ \A k \in Consent : k >= next_consent => confirmed[k] = 0

LEMMA StatesStep ==
  ASSUME TicketsOK, StatesInv, [Next]_vars
  PROVE  StatesInv' /\ [States!Next]_(States!vars)
<1> USE AccountsAssumption DEF TicketsOK, StatesInv, States!vars, OauthStateEntry
<1>1. CASE OauthStart
  <2> DEFINE e == [id |-> next_state, created_at |-> now]
  <2>1. /\ next_state \in OauthState /\ next_state' = next_state + 1
        /\ oauth_states' = oauth_states \cup {e} /\ redeemed' = redeemed
        /\ e.id = next_state
    BY <1>1 DEF OauthStart, OauthState, history
  <2>2. \A s \in oauth_states : s.id \in OauthState /\ s.id # next_state
    BY DEF OauthState
  <2>3. StatesInv'
    <3> HIDE DEF e
    <3> QED BY <2>1, <2>2 DEF OauthState
  <2>4. {s.id : s \in oauth_states'} = {s.id : s \in oauth_states} \cup {next_state}
    <3> HIDE DEF e
    <3> QED BY <2>1
  <2>5. 1 .. next_state' - 1 = (1 .. next_state - 1) \cup {next_state}
    BY <2>1 DEF OauthState
  <2>6. PICK k \in OauthState : k = next_state
    BY <2>1
  <2>7. States!Next
    <3> HIDE DEF e
    <3>1. k \notin 1 .. next_state - 1
      BY <2>1, <2>6 DEF OauthState
    <3>2. States!Issue(k)
      BY <2>1, <2>4, <2>5, <2>6, <3>1 DEF States!Issue
    <3> QED BY <3>2 DEF States!Next
  <2> HIDE DEF e, StatesInv
  <2> QED BY <2>3, <2>7
<1>2. ASSUME NEW t \in Task, NEW s \in oauth_states, Register(t, s)
      PROVE  StatesInv' /\ [States!Next]_(States!vars)
  <2>0. s.id \in OauthState /\ UNCHANGED next_state /\ oauth_states' = oauth_states \ {s}
    BY <1>2 DEF Register, Without, names
  <2>1. {r.id : r \in oauth_states'} = {r.id : r \in oauth_states} \ {s.id}
    BY <2>0
  <2>2. CASE UNCHANGED redeemed
    <3>1. States!Withdraw
      BY <2>0, <2>1, <2>2 DEF States!Withdraw
    <3> QED BY <2>0, <2>2, <3>1 DEF States!Next
  <2>3. CASE redeemed' = [redeemed EXCEPT ![s.id] = @ + 1]
    <3>1. redeemed[s.id] = 0
      OBVIOUS
    <3>2. redeemed' = [redeemed EXCEPT ![s.id] = 1]
      BY <2>0, <2>3, <3>1
    <3>3. States!Serve(s.id)
      BY <2>0, <2>1, <3>1, <3>2 DEF States!Serve
    <3>4. States!Next
      BY <2>0, <3>3 DEF States!Next
    <3>5. \A r \in oauth_states' : r.id \in OauthState /\ r.id # s.id /\ r \in oauth_states
      BY <2>0
    <3>6. \A k \in OauthState : k # s.id => redeemed'[k] = redeemed[k]
      BY <2>0, <3>2
    <3>7. s.id < next_state
      OBVIOUS
    <3>8. StatesInv'
      BY <2>0, <3>5, <3>6, <3>7 DEF OauthState
    <3> QED BY <3>4, <3>8
  <2> QED BY <1>2, <2>2, <2>3 DEF Register
<1>3. CASE oauth_states' \in SUBSET oauth_states /\ UNCHANGED <<next_state, redeemed>>
  <2>1. States!Withdraw
    BY <1>3 DEF States!Withdraw
  <2>2. StatesInv'
    BY <1>3
  <2> QED BY <2>1, <2>2 DEF States!Next
<1>4. CASE OauthCleanup \/ Restart
  BY <1>3, <1>4 DEF OauthCleanup, OauthCleanupNow, Restart, quiet, names, history
<1>5. ASSUME NEW t \in Task, OpenConsent(t)
      PROVE  oauth_states' \in SUBSET oauth_states /\ UNCHANGED <<next_state, redeemed>>
  BY <1>5 DEF OpenConsent, history
<1>6. ASSUME NEW t \in Task, NEW c \in pending_consents, Confirm(t, c)
      PROVE  oauth_states' \in SUBSET oauth_states /\ UNCHANGED <<next_state, redeemed>>
  BY <1>6 DEF Confirm, names
<1>7. ASSUME NEW c \in pending_consents, SweepConsent(c)
      PROVE  oauth_states' \in SUBSET oauth_states /\ UNCHANGED <<next_state, redeemed>>
  BY <1>7 DEF SweepConsent, quiet, names, history
<1>8. CASE UNCHANGED <<tickets, names, redeemed, confirmed>>
  BY <1>3, <1>8 DEF tickets, names
<1> QED BY <1>1, <1>2, <1>3, <1>4, <1>5, <1>6, <1>7, <1>8, TicketSteps

LEMMA ConsentsStep ==
  ASSUME TicketsOK, ConsentsInv, [Next]_vars
  PROVE  ConsentsInv' /\ [Consents!Next]_(Consents!vars)
<1> USE AccountsAssumption DEF TicketsOK, ConsentsInv, Consents!vars, PendingConsent
<1>1. ASSUME NEW t \in Task, OpenConsent(t)
      PROVE  ConsentsInv' /\ [Consents!Next]_(Consents!vars)
  <2> DEFINE e == [temp_token |-> next_consent, discord_id |-> tasks[t].discord_id,
                   grant |-> tasks[t].grant, token_expires_at |-> tasks[t].expires_at,
                   created_at |-> now]
  <2>1. /\ next_consent \in Consent /\ next_consent' = next_consent + 1
        /\ pending_consents' = pending_consents \cup {e} /\ confirmed' = confirmed
        /\ e.temp_token = next_consent
    BY <1>1 DEF OpenConsent, Consent, history
  <2>2. \A c \in pending_consents : c.temp_token \in Consent /\ c.temp_token # next_consent
    BY DEF Consent
  <2>3. ConsentsInv'
    <3> HIDE DEF e
    <3> QED BY <2>1, <2>2 DEF Consent
  <2>4. {c.temp_token : c \in pending_consents'}
        = {c.temp_token : c \in pending_consents} \cup {next_consent}
    <3> HIDE DEF e
    <3> QED BY <2>1
  <2>5. 1 .. next_consent' - 1 = (1 .. next_consent - 1) \cup {next_consent}
    BY <2>1 DEF Consent
  <2>6. PICK k \in Consent : k = next_consent
    BY <2>1
  <2>7. Consents!Next
    <3> HIDE DEF e
    <3>1. k \notin 1 .. next_consent - 1
      BY <2>1, <2>6 DEF Consent
    <3>2. Consents!Issue(k)
      BY <2>1, <2>4, <2>5, <2>6, <3>1 DEF Consents!Issue
    <3> QED BY <3>2 DEF Consents!Next
  <2> HIDE DEF e, ConsentsInv
  <2> QED BY <2>3, <2>7
<1>2. ASSUME NEW t \in Task, NEW c \in pending_consents, Confirm(t, c)
      PROVE  ConsentsInv' /\ [Consents!Next]_(Consents!vars)
  <2>0. /\ c.temp_token \in Consent /\ UNCHANGED next_consent
        /\ pending_consents' = pending_consents \ {c}
    BY <1>2 DEF Confirm, WithoutConsent, names
  <2>1. {e.temp_token : e \in pending_consents'}
        = {e.temp_token : e \in pending_consents} \ {c.temp_token}
    BY <2>0
  <2>2. confirmed[c.temp_token] = 0
    OBVIOUS
  <2>3. confirmed' = [confirmed EXCEPT ![c.temp_token] = 1]
    BY <1>2, <2>0, <2>2 DEF Confirm
  <2>4. Consents!Serve(c.temp_token)
    BY <2>0, <2>1, <2>2, <2>3 DEF Consents!Serve
  <2>5. Consents!Next
    BY <2>0, <2>4 DEF Consents!Next
  <2>6. \A e \in pending_consents' :
          e.temp_token \in Consent /\ e.temp_token # c.temp_token /\ e \in pending_consents
    BY <2>0
  <2>7. \A k \in Consent : k # c.temp_token => confirmed'[k] = confirmed[k]
    BY <2>0, <2>3
  <2>8. c.temp_token < next_consent
    OBVIOUS
  <2>9. ConsentsInv'
    BY <2>0, <2>6, <2>7, <2>8 DEF Consent
  <2> QED BY <2>5, <2>9
<1>3. CASE pending_consents' \in SUBSET pending_consents /\ UNCHANGED <<next_consent, confirmed>>
  <2>1. Consents!Withdraw
    BY <1>3 DEF Consents!Withdraw
  <2>2. ConsentsInv'
    BY <1>3
  <2> QED BY <2>1, <2>2 DEF Consents!Next
<1>4. CASE OauthStart \/ OauthCleanup \/ Restart
  BY <1>3, <1>4 DEF OauthStart, OauthCleanup, Restart, quiet, names, history
<1>5. ASSUME NEW t \in Task, NEW s \in oauth_states, Register(t, s)
      PROVE  pending_consents' \in SUBSET pending_consents /\ UNCHANGED <<next_consent, confirmed>>
  BY <1>5 DEF Register, names
<1>6. ASSUME NEW c \in pending_consents, SweepConsent(c)
      PROVE  pending_consents' \in SUBSET pending_consents /\ UNCHANGED <<next_consent, confirmed>>
  BY <1>6 DEF SweepConsent, WithoutConsent, quiet, names, history
<1>7. CASE UNCHANGED <<tickets, names, redeemed, confirmed>>
  BY <1>3, <1>7 DEF tickets, names
<1> QED BY <1>1, <1>2, <1>3, <1>4, <1>5, <1>6, <1>7, TicketSteps

LEMMA TicketsInit == Init => StatesInv /\ ConsentsInv /\ States!Init /\ Consents!Init
<1> SUFFICES ASSUME Init PROVE StatesInv /\ ConsentsInv /\ States!Init /\ Consents!Init
  OBVIOUS
<1> USE AccountsAssumption DEF Init
<1>1. StatesInv
  BY DEF StatesInv
<1>2. ConsentsInv
  BY DEF ConsentsInv
<1>3. States!Init
  BY DEF States!Init
<1>4. Consents!Init
  BY DEF Consents!Init
<1> QED BY <1>1, <1>2, <1>3, <1>4

\* An OAuth state lets one code be exchanged: the table of oauth_state.rs is a
\* table of one-time tickets, whatever requests, expiry and restarts do.
THEOREM StatesOneTime == Spec => StatesServeOnce
<1>1. TicketsOK /\ StatesInv /\ [Next]_vars => StatesInv' /\ [States!Next]_(States!vars)
  BY StatesStep
<1>2. TypeOK => TicketsOK
  BY DEF TypeOK
<1> QED BY TypeCorrect, TicketsInit, <1>1, <1>2, PTL DEF Spec, StatesServeOnce, States!Spec

\* A consent is confirmed once: the pending consents are a table of one-time
\* tickets too.
THEOREM ConsentsOneTime == Spec => ConsentsServeOnce
<1>1. TicketsOK /\ ConsentsInv /\ [Next]_vars => ConsentsInv' /\ [Consents!Next]_(Consents!vars)
  BY ConsentsStep
<1>2. TypeOK => TicketsOK
  BY DEF TypeOK
<1> QED BY TypeCorrect, TicketsInit, <1>1, <1>2, PTL DEF Spec, ConsentsServeOnce, Consents!Spec

(***************************************************************************)
(* No two accounts of one person, and nobody's token under another name:   *)
(* what travels through requests, consents, rows and workers keeps its     *)
(* identity.                                                               *)
(***************************************************************************)

(***************************************************************************)
(* Where each kind of record comes from.                                   *)
(***************************************************************************)

\* A row is the row it was, with the tokens it had, those of a registration or
\* those of the refresh; or it is new.
LEMMA RowComesFrom ==
  ASSUME TypeOK, [Next]_vars, NEW u \in Account, Exists(u)'
  PROVE  \/ /\ Exists(u)
            /\ users'[u].discord_id = users[u].discord_id
            /\ \/ users'[u].refresh_token = users[u].refresh_token
               \/ \E t \in Task : /\ At(t, "update") /\ tasks[t].account = u
                                  /\ users'[u].refresh_token = Encrypted(tasks[t].grant)
               \/ /\ WorkerAt(u, "store")
                  /\ users'[u].refresh_token = Refreshed(workers[u])
         \/ /\ users'[u].discord_id \notin {users[v].discord_id : v \in {w \in Account : Exists(w)}}
            /\ \A v \in Account \ {u} : users'[v] = users[v]
            /\ \E t \in Task : /\ At(t, "create") /\ tasks[t].account = u
                               /\ users'[u] = NewRow(tasks[t])
<1>0. /\ users \in [Account -> Row \cup {NoRow}]
      /\ \A v \in Account : Exists(v) => users[v] \in Row
  BY DEF TypeOK, Exists
<1>1. ASSUME NEW t \in Task, Update(t), u = tasks[t].account
      PROVE  /\ Exists(u)
             /\ users'[u].discord_id = users[u].discord_id
             /\ users'[u].refresh_token = Encrypted(tasks[t].grant)
  <2>1. Exists(u) /\ users'[u] = WithTokens(users[u], Encrypted(tasks[t].grant), tasks[t].expires_at)
    BY <1>0, <1>1 DEF Update, UpdateTokens, Exists
  <2> QED BY <1>0, <2>1 DEF WithTokens, Row
<1>2. ASSUME NEW t \in Task, Update(t), u # tasks[t].account PROVE users'[u] = users[u]
  BY <1>0, <1>2 DEF Update, UpdateTokens
<1>3. ASSUME NEW t \in Task, Touch(t)
      PROVE  /\ Exists(u)
             /\ users'[u].discord_id = users[u].discord_id
             /\ users'[u].refresh_token = users[u].refresh_token
  <2>1. Exists(u) /\ users'[u] \in {users[u], [users[u] EXCEPT !.last_connected = now]}
    BY <1>0, <1>3 DEF Touch, Exists
  <2> QED BY <1>0, <2>1 DEF Row
<1>4. ASSUME NEW t \in Task, CreateUser(t), RowsOf(tasks[t].discord_id) = {}, u = tasks[t].account
      PROVE  /\ users'[u].discord_id \notin {users[v].discord_id : v \in {w \in Account : Exists(w)}}
             /\ \A v \in Account \ {u} : users'[v] = users[v]
             /\ users'[u] = NewRow(tasks[t])
  <2>1. users' = [users EXCEPT ![u] = NewRow(tasks[t])]
    BY <1>4 DEF CreateUser, Insert
  <2>2. users'[u].discord_id = tasks[t].discord_id
    BY <1>0, <2>1 DEF NewRow
  <2> QED BY <1>0, <1>4, <2>1, <2>2 DEF RowsOf
<1>5. ASSUME NEW t \in Task, CreateUser(t),
             RowsOf(tasks[t].discord_id) # {} \/ u # tasks[t].account
      PROVE  users'[u] = users[u]
  BY <1>0, <1>5 DEF CreateUser, Insert
<1>6. ASSUME Store(u)
      PROVE  /\ Exists(u)
             /\ users'[u].discord_id = users[u].discord_id
             /\ users'[u].refresh_token = Refreshed(workers[u])
  <2>1. Exists(u) /\ users'[u] = WithTokens(users[u], Refreshed(workers[u]), now + Lifetime)
    BY <1>0, <1>6 DEF Store, UpdateTokens, Exists
  <2> QED BY <1>0, <2>1 DEF WithTokens, Row
<1>7. ASSUME NEW v \in Account, v # u, Store(v) PROVE users'[u] = users[u]
  BY <1>0, <1>7 DEF Store, UpdateTokens
<1>8. ASSUME NEW v \in Account, DeleteRefused(v) \/ DeleteAccount(v) PROVE users'[u] = users[u]
  BY <1>0, <1>8 DEF DeleteRefused, DeleteAccount, Exists
<1>9. CASE DeleteInactive
  BY <1>0, <1>9 DEF DeleteInactive, Exists
<1>10. CASE users'[u] = users[u]
  BY <1>10 DEF Exists
<1>11. CASE \E t \in Task : Update(t)
  BY <1>1, <1>2, <1>10, <1>11 DEF Update
<1>12. CASE \E t \in Task : CreateUser(t)
  BY <1>4, <1>5, <1>10, <1>12 DEF CreateUser
<1>13. CASE \E v \in Account : Store(v)
  BY <1>6, <1>7, <1>10, <1>13 DEF Store
<1> QED BY <1>3, <1>8, <1>9, <1>10, <1>11, <1>12, <1>13, UserSteps

\* A consent was there, or a handler opens it.
LEMMA ConsentComesFrom ==
  ASSUME [Next]_vars, NEW c \in pending_consents'
  PROVE  \/ c \in pending_consents
         \/ /\ c.temp_token = next_consent /\ next_consent' = next_consent + 1
            /\ \E t \in Task : /\ At(t, "consent")
                               /\ c.discord_id = tasks[t].discord_id
                               /\ c.grant = tasks[t].grant
<1>1. CASE \E t \in Task : OpenConsent(t)
  BY <1>1 DEF OpenConsent
<1>2. CASE OauthStart \/ OauthCleanup \/ Restart
  BY <1>2 DEF OauthStart, OauthCleanup, Restart
<1>3. CASE \E t \in Task, s \in oauth_states : Register(t, s)
  BY <1>3 DEF Register
<1>4. CASE \E t \in Task, e \in pending_consents : Confirm(t, e)
  BY <1>4 DEF Confirm, WithoutConsent
<1>5. CASE \E e \in pending_consents : SweepConsent(e)
  BY <1>5 DEF SweepConsent, WithoutConsent
<1>6. CASE UNCHANGED tickets
  BY <1>6 DEF tickets
<1> QED BY <1>1, <1>2, <1>3, <1>4, <1>5, <1>6, TicketSteps

\* What a handler knows of a person after the exchange, it keeps; it learns it
\* from Discord or from a consent, and an account from the row it found.
Named == {"update", "touch", "create"}

LEMMA TaskComesFrom ==
  ASSUME TypeOK, [Next]_vars, NEW t \in Task, tasks'[t] # NoRequest, tasks'[t].at # "exchange"
  PROVE  \/ /\ tasks[t] # NoRequest /\ tasks[t].at # "exchange"
            /\ tasks'[t].discord_id = tasks[t].discord_id
            /\ tasks'[t].grant = tasks[t].grant
            /\ tasks'[t].at \in Named =>
                 \/ tasks[t].at \in Named /\ tasks'[t].account = tasks[t].account
                 \/ /\ tasks'[t].account \in Account /\ Exists(tasks'[t].account)
                    /\ users[tasks'[t].account].discord_id = tasks[t].discord_id
         \/ /\ tasks'[t].at \notin Named
            /\ tasks'[t].grant \in Grant /\ owner'[tasks'[t].grant] = tasks'[t].discord_id
         \/ \E c \in pending_consents : /\ tasks'[t].discord_id = c.discord_id
                                        /\ tasks'[t].grant = c.grant
                                        /\ tasks'[t].account = c.temp_token
<1> DEFINE Kept == /\ tasks[t] # NoRequest /\ tasks[t].at # "exchange"
                   /\ tasks'[t].discord_id = tasks[t].discord_id
                   /\ tasks'[t].grant = tasks[t].grant
                   /\ tasks'[t].at \in Named =>
                        \/ tasks[t].at \in Named /\ tasks'[t].account = tasks[t].account
                        \/ /\ tasks'[t].account \in Account /\ Exists(tasks'[t].account)
                           /\ users[tasks'[t].account].discord_id = tasks[t].discord_id
<1>0. /\ tasks \in [Task -> Request \cup {NoRequest}]
      /\ \A s \in Task : tasks[s] # NoRequest => tasks[s] \in Request
  BY DEF TypeOK, TasksOK
<1>1. CASE tasks'[t] = tasks[t]
  BY <1>1
<1>2. ASSUME NEW s \in Task, Finish(s) PROVE tasks'[t] = tasks[t]
  BY <1>0, <1>2 DEF Finish
<1>3. ASSUME NEW s \in Task, NEW e \in oauth_states, Register(s, e) PROVE tasks'[t] = tasks[t]
  BY <1>0, <1>3 DEF Register
<1>4. ASSUME NEW s \in Task, NEW d \in DiscordUser, Exchange(s, d), tasks'[t] # tasks[t]
      PROVE  /\ tasks'[t].at \notin Named
             /\ tasks'[t].grant \in Grant /\ owner'[tasks'[t].grant] = tasks'[t].discord_id
  <2>1. NextGrant \in Grant
    BY <1>4, FreshGrant DEF Exchange, Give
  <2>2. tasks'[t] = [at |-> "lookup", discord_id |-> d, grant |-> NextGrant,
                     expires_at |-> now + Lifetime, account |-> 0]
    BY <1>0, <1>2, <1>4 DEF Exchange
  <2>3. owner'[NextGrant] = d
    BY <1>4, <2>1 DEF Exchange, Give, TypeOK, WorldOK
  <2> QED BY <2>1, <2>2, <2>3 DEF Named
<1>5. ASSUME NEW s \in Task, Lookup(s), tasks'[t] # tasks[t] PROVE Kept
  <2>1. s = t /\ tasks[t] \in Request /\ At(t, "lookup")
    BY <1>0, <1>5 DEF Lookup, At, Goto
  <2>2. CASE Goto(t, "consent")
    <3>1. tasks'[t] = [tasks[t] EXCEPT !.at = "consent"]
      BY <1>0, <2>2 DEF Goto
    <3> QED BY <2>1, <3>1 DEF At, Named, Request
  <2>3. ASSUME NEW u \in RowsOf(tasks[t].discord_id),
               tasks' = [tasks EXCEPT ![t] = [@ EXCEPT !.at = "update", !.account = u]]
        PROVE  Kept
    <3>1. tasks'[t] = [tasks[t] EXCEPT !.at = "update", !.account = u]
      BY <1>0, <2>3
    <3>2. u \in Account /\ Exists(u) /\ users[u].discord_id = tasks[t].discord_id
      BY DEF RowsOf
    <3> QED BY <2>1, <3>1, <3>2 DEF At, Named, Request
  <2> QED BY <1>5, <2>1, <2>2, <2>3 DEF Lookup
<1>6. ASSUME NEW s \in Task, Update(s), tasks'[t] # tasks[t] PROVE Kept
  <2>1. s = t /\ tasks[t] \in Request /\ At(t, "update")
    BY <1>0, <1>6 DEF Update, At, Goto
  <2>2. tasks'[t] = [tasks[t] EXCEPT !.at = "touch"]
    BY <1>0, <1>6, <2>1 DEF Update, Goto
  <2> QED BY <2>1, <2>2 DEF At, Named, Request
<1>7. ASSUME NEW s \in Task, NEW c \in pending_consents, Confirm(s, c), tasks'[t] # tasks[t]
      PROVE  /\ tasks'[t].discord_id = c.discord_id
             /\ tasks'[t].grant = c.grant
             /\ tasks'[t].account = c.temp_token
  <2>1. tasks'[t] = [at |-> "create", discord_id |-> c.discord_id, grant |-> c.grant,
                     expires_at |-> c.token_expires_at, account |-> c.temp_token]
    BY <1>0, <1>7 DEF Confirm
  <2> QED BY <2>1
<1>8. ASSUME NEW s \in Task,
             ExchangeFails(s) \/ Touch(s) \/ OpenConsent(s) \/ CreateUser(s) \/ Abandon(s)
      PROVE  tasks'[t] = tasks[t]
  BY <1>2, <1>8 DEF ExchangeFails, Touch, OpenConsent, CreateUser, Abandon
<1>9. CASE Restart
  BY <1>9 DEF Restart
<1> QED BY <1>1, <1>3, <1>4, <1>5, <1>6, <1>7, <1>8, <1>9, TaskSteps DEF Registration

\* A worker has the row it was started with, and a new token is the owner's.
LEMMA WorkerComesFrom ==
  ASSUME TypeOK, [Next]_vars, NEW u \in Account, workers'[u] # NoWorker
  PROVE  \/ /\ workers[u] # NoWorker /\ workers'[u].row = workers[u].row
            /\ \/ workers'[u].new = workers[u].new
               \/ /\ workers'[u].new \in Grant
                  /\ owner'[workers'[u].new] = owner[workers[u].row.refresh_token.grant]
         \/ Exists(u) /\ workers'[u].row = users[u] /\ workers'[u].new = 0
<1>0. /\ workers \in [Account -> Worker \cup {NoWorker}]
      /\ \A v \in Account : workers[v] # NoWorker => workers[v] \in Worker
  BY DEF TypeOK
<1>1. CASE workers'[u] = workers[u]
  BY <1>1
<1>2. ASSUME NEW v \in Account, WorkerDone(v) PROVE workers'[u] = workers[u]
  BY <1>0, <1>2 DEF WorkerDone
<1>3. ASSUME NEW v \in Account, workers[v] # NoWorker,
             NEW label \in {"call", "store", "delete"}, WorkerGoto(v, label)
      PROVE  /\ workers[u] # NoWorker /\ workers'[u].row = workers[u].row
             /\ workers'[u].new = workers[u].new
  <2>1. workers'[u] \in {workers[u], [workers[u] EXCEPT !.at = label]}
    BY <1>0, <1>3 DEF WorkerGoto
  <2>2. workers[u] # NoWorker
    BY <1>0, <1>3 DEF WorkerGoto
  <2> QED BY <1>0, <2>1, <2>2 DEF Worker
<1>4. ASSUME NEW v \in Account, Rotated(v), workers'[u] # workers[u]
      PROVE  /\ workers[u] # NoWorker /\ workers'[u].row = workers[u].row
             /\ workers'[u].new \in Grant
             /\ owner'[workers'[u].new] = owner[workers[u].row.refresh_token.grant]
  <2>1. NextGrant \in Grant
    BY <1>4, FreshGrant DEF Rotated, Rotation, Give
  <2>2. /\ u = v /\ workers[u] \in Worker /\ workers[u] # NoWorker
        /\ workers'[u] = [workers[u] EXCEPT !.at = "store", !.new = NextGrant]
    BY <1>0, <1>4 DEF Rotated, Rotation, WorkerAt
  <2>3. owner'[NextGrant] = owner[workers[u].row.refresh_token.grant]
    BY <1>4, <2>1, <2>2 DEF Rotated, Rotation, Give, TypeOK, WorldOK
  <2> QED BY <2>1, <2>2, <2>3 DEF Worker
<1>5. CASE CollectBatch
  BY <1>5 DEF CollectBatch, NeedsRefresh
<1>6. CASE Restart
  BY <1>6 DEF Restart
<1>7. ASSUME NEW v \in Account, AcquirePermit(v) \/ Renewed(v) \/ Refused(v)
      PROVE  /\ workers[u] # NoWorker /\ workers'[u].row = workers[u].row
             /\ workers'[u].new = workers[u].new
  BY <1>3, <1>7 DEF AcquirePermit, Renewed, Refused, WorkerAt
<1>8. ASSUME NEW v \in Account,
             RotationLost(v) \/ CallFails(v) \/ Store(v) \/ DeleteRefused(v) \/ WorkerFails(v)
      PROVE  workers'[u] = workers[u]
  BY <1>2, <1>8 DEF RotationLost, CallFails, Store, DeleteRefused, WorkerFails
<1> QED BY <1>1, <1>4, <1>5, <1>6, <1>7, <1>8, WorkerSteps DEF WorkerStep

\* A grant keeps its owner.
LEMMA OwnerStays ==
  ASSUME TypeOK, [Next]_vars, NEW g \in Grant, owner[g] # Nobody
  PROVE  owner'[g] = owner[g]
<1>1. ASSUME NEW d, Give(d) PROVE owner'[g] = owner[g]
  <2>1. g # NextGrant
    BY <1>1, FreshGrant DEF Give
  <2> QED BY <1>1, <2>1 DEF Give, TypeOK, WorldOK
<1>2. CASE \E t \in Task, d \in DiscordUser : Exchange(t, d)
  BY <1>1, <1>2 DEF Exchange
<1>3. CASE \E u \in Account : Rotation(u)
  BY <1>1, <1>3 DEF Rotation
<1>4. CASE \E t \in Task : Touch(t) \/ CreateUser(t)
  BY <1>4 DEF Touch, CreateUser, discord
<1>5. CASE \E u \in Account : ConsoleLogin(u)
  BY <1>5 DEF ConsoleLogin, discord
<1>6. CASE (\E d \in DiscordUser : Revoke(d)) \/ Time
  BY <1>6 DEF Revoke, Time, discord
<1>7. CASE UNCHANGED discord
  BY <1>7 DEF discord
<1> QED BY <1>2, <1>3, <1>4, <1>5, <1>6, <1>7, WorldSteps DEF Rotated, RotationLost

(***************************************************************************)
(* The invariants.  An account number stands for one person, in rows,      *)
(* consents, requests and workers alike, and for none before its consent   *)
(* is issued; and whoever holds a grant is its owner.                      *)
(***************************************************************************)

Claim(u, d) ==
  \/ Exists(u) /\ users[u].discord_id = d
  \/ \E c \in pending_consents : c.temp_token = u /\ c.discord_id = d
  \/ \E t \in Task : /\ tasks[t] # NoRequest /\ tasks[t].at \in Named
                     /\ tasks[t].account = u /\ tasks[t].discord_id = d
  \/ workers[u] # NoWorker /\ workers[u].row.discord_id = d

OnePerson ==
  \A u \in Account : \A d, e \in DiscordUser : Claim(u, d) /\ Claim(u, e) => d = e

ClaimsIssued ==
  \A u \in Account : \A d \in DiscordUser : Claim(u, d) => u < next_consent

Holds(g, d) ==
  \/ \E u \in Account : /\ Exists(u) /\ users[u].refresh_token.grant = g
                        /\ users[u].discord_id = d
  \/ \E c \in pending_consents : c.grant = g /\ c.discord_id = d
  \/ \E t \in Task : /\ tasks[t] # NoRequest /\ tasks[t].at # "exchange"
                     /\ tasks[t].grant = g /\ tasks[t].discord_id = d
  \/ \E u \in Account : /\ workers[u] # NoWorker /\ workers[u].row.discord_id = d
                        /\ \/ workers[u].row.refresh_token.grant = g
                           \/ workers[u].new # 0 /\ workers[u].new = g

HoldersOwn ==
  \A g \in Grant : \A d \in DiscordUser : Holds(g, d) => owner[g] = d

OwnedInv == OneAccountPerUser /\ OnePerson /\ ClaimsIssued /\ HoldersOwn

LEMMA OneNewConsent ==
  ASSUME [Next]_vars, NEW c \in pending_consents', NEW e \in pending_consents',
         c \notin pending_consents, e \notin pending_consents
  PROVE  c = e
<1>1. CASE \E t \in Task : OpenConsent(t)
  BY <1>1 DEF OpenConsent
<1>2. CASE OauthStart \/ OauthCleanup \/ Restart
  BY <1>2 DEF OauthStart, OauthCleanup, Restart
<1>3. CASE \E t \in Task, s \in oauth_states : Register(t, s)
  BY <1>3 DEF Register
<1>4. CASE \E t \in Task, b \in pending_consents : Confirm(t, b)
  BY <1>4 DEF Confirm, WithoutConsent
<1>5. CASE \E b \in pending_consents : SweepConsent(b)
  BY <1>5 DEF SweepConsent, WithoutConsent
<1>6. CASE UNCHANGED tickets
  BY <1>6 DEF tickets
<1> QED BY <1>1, <1>2, <1>3, <1>4, <1>5, <1>6, TicketSteps

\* A claim to an account number is an old one, or comes with the consent that
\* issues the number.
LEMMA ClaimComesFrom ==
  ASSUME TypeOK, [Next]_vars, NEW u \in Account, NEW d \in DiscordUser, Claim(u, d)'
  PROVE  \/ Claim(u, d)
         \/ /\ u = next_consent /\ next_consent' = next_consent + 1
            /\ \E c \in pending_consents' :
                 c \notin pending_consents /\ c.temp_token = u /\ c.discord_id = d
<1>1. CASE Exists(u)' /\ users'[u].discord_id = d
  <2>1. CASE \E t \in Task : /\ At(t, "create") /\ tasks[t].account = u
                             /\ users'[u] = NewRow(tasks[t])
    BY <1>1, <2>1 DEF NewRow, At, Named, Claim
  <2>2. CASE Exists(u) /\ users'[u].discord_id = users[u].discord_id
    BY <1>1, <2>2 DEF Claim
  <2> QED BY <1>1, <2>1, <2>2, RowComesFrom
<1>2. CASE \E c \in pending_consents' : c.temp_token = u /\ c.discord_id = d
  BY <1>2, ConsentComesFrom DEF Claim
<1>3. ASSUME NEW t \in Task, tasks'[t] # NoRequest, tasks'[t].at \in Named,
             tasks'[t].account = u, tasks'[t].discord_id = d
      PROVE  Claim(u, d)
  <2>1. tasks'[t].at # "exchange"
    BY <1>3 DEF Named
  <2> QED BY <1>3, <2>1, TaskComesFrom DEF Claim
<1>4. CASE workers'[u] # NoWorker /\ workers'[u].row.discord_id = d
  BY <1>4, WorkerComesFrom DEF Claim
<1> QED BY <1>1, <1>2, <1>3, <1>4 DEF Claim

LEMMA OnePersonStep ==
  TypeOK /\ OnePerson /\ ClaimsIssued /\ [Next]_vars => OnePerson' /\ ClaimsIssued'
<1> SUFFICES ASSUME TypeOK, OnePerson, ClaimsIssued, [Next]_vars,
                    NEW u \in Account, NEW d \in DiscordUser, Claim(u, d)'
             PROVE  /\ u < next_consent'
                    /\ \A e \in DiscordUser : Claim(u, e)' => d = e
  BY DEF OnePerson, ClaimsIssued
<1>0. u \in Nat /\ next_consent \in Nat
  BY AccountsAssumption DEF Account, Consent, TypeOK, TicketsOK
<1>1. next_consent' = next_consent \/ next_consent' = next_consent + 1
  BY TicketSteps DEF OauthStart, OauthCleanup, Restart, Register, OpenConsent, Confirm,
                     SweepConsent, quiet, names
<1>2. u < next_consent'
  BY <1>0, <1>1, ClaimComesFrom DEF ClaimsIssued
<1>3. ASSUME NEW e \in DiscordUser, Claim(u, e)' PROVE d = e
  <2>1. CASE Claim(u, d) /\ Claim(u, e)
    BY <2>1 DEF OnePerson
  <2>2. CASE u = next_consent
    <3>1. ~Claim(u, d) /\ ~Claim(u, e)
      BY <1>0, <2>2 DEF ClaimsIssued
    <3> QED BY <1>3, <3>1, ClaimComesFrom, OneNewConsent
  <2> QED BY <1>3, <2>1, <2>2, ClaimComesFrom
<1> QED BY <1>2, <1>3

LEMMA OneAccountStep == TypeOK /\ OneAccountPerUser /\ [Next]_vars => OneAccountPerUser'
<1> SUFFICES ASSUME TypeOK, OneAccountPerUser, [Next]_vars,
                    NEW u \in Account, NEW w \in Account, Exists(u)', Exists(w)',
                    users'[u].discord_id = users'[w].discord_id, u # w
             PROVE  FALSE
  BY DEF OneAccountPerUser
<1> DEFINE Had(v) == Exists(v) /\ users'[v].discord_id = users[v].discord_id
           New(v) == /\ users'[v].discord_id \notin {users[x].discord_id : x \in {y \in Account : Exists(y)}}
                     /\ \A x \in Account \ {v} : users'[x] = users[x]
<1>1. (Had(u) \/ New(u)) /\ (Had(w) \/ New(w))
  BY RowComesFrom
<1>2. CASE Had(u) /\ Had(w)
  BY <1>2 DEF OneAccountPerUser
<1>3. CASE New(u)
  BY <1>3 DEF Exists
<1>4. CASE New(w)
  BY <1>4 DEF Exists
<1> QED BY <1>1, <1>2, <1>3, <1>4

LEMMA HoldersStep ==
  TypeOK /\ OnePerson /\ HoldersOwn /\ [Next]_vars => HoldersOwn'
<1> SUFFICES ASSUME TypeOK, OnePerson, HoldersOwn, [Next]_vars,
                    NEW g \in Grant, NEW d \in DiscordUser, Holds(g, d)'
             PROVE  owner'[g] = d
  BY DEF HoldersOwn
<1>0. ASSUME Holds(g, d) PROVE owner'[g] = d
  <2>1. owner[g] = d /\ owner[g] # Nobody
    BY <1>0, AccountsAssumption DEF HoldersOwn
  <2> QED BY <2>1, OwnerStays
<1>1. ASSUME NEW u \in Account, Exists(u)', users'[u].refresh_token.grant = g,
             users'[u].discord_id = d
      PROVE  Holds(g, d)
  <2>1. CASE /\ Exists(u) /\ users'[u].discord_id = users[u].discord_id
             /\ users'[u].refresh_token = users[u].refresh_token
    BY <1>1, <2>1 DEF Holds
  <2>2. ASSUME NEW t \in Task, Exists(u), users'[u].discord_id = users[u].discord_id,
               At(t, "update"), tasks[t].account = u,
               users'[u].refresh_token = Encrypted(tasks[t].grant)
        PROVE  Holds(g, d)
    <3>1. tasks[t].discord_id \in DiscordUser /\ tasks[t].grant = g
      BY <1>1, <2>2 DEF At, TypeOK, TasksOK, RequestOK, Encrypted
    <3>2. Claim(u, d) /\ Claim(u, tasks[t].discord_id)
      BY <1>1, <2>2 DEF Claim, At, Named
    <3> QED BY <2>2, <3>1, <3>2 DEF OnePerson, Holds, At
  <2>3. CASE /\ Exists(u) /\ users'[u].discord_id = users[u].discord_id
             /\ WorkerAt(u, "store") /\ users'[u].refresh_token = Refreshed(workers[u])
    <3>1. workers[u] # NoWorker /\ workers[u].row.discord_id \in DiscordUser
      BY <2>3 DEF WorkerAt, TypeOK, Worker, Row
    <3>2. Claim(u, d) /\ Claim(u, workers[u].row.discord_id)
      BY <1>1, <2>3, <3>1 DEF Claim
    <3>3. workers[u].row.discord_id = d
      BY <3>1, <3>2 DEF OnePerson
    <3>4. \/ workers[u].row.refresh_token.grant = g
          \/ workers[u].new # 0 /\ workers[u].new = g
      BY <1>1, <2>3 DEF Refreshed, Encrypted
    <3> QED BY <3>1, <3>3, <3>4 DEF Holds
  <2>4. CASE \E t \in Task : /\ At(t, "create") /\ tasks[t].account = u
                             /\ users'[u] = NewRow(tasks[t])
    BY <1>1, <2>4 DEF NewRow, Encrypted, At, Holds
  <2> QED BY <1>1, <2>1, <2>2, <2>3, <2>4, RowComesFrom
<1>2. ASSUME NEW c \in pending_consents', c.grant = g, c.discord_id = d
      PROVE  Holds(g, d)
  <2>1. CASE c \in pending_consents
    BY <1>2, <2>1 DEF Holds
  <2>2. ASSUME NEW t \in Task, At(t, "consent"), c.discord_id = tasks[t].discord_id,
               c.grant = tasks[t].grant
        PROVE  Holds(g, d)
    BY <1>2, <2>2 DEF Holds, At
  <2> QED BY <2>1, <2>2, ConsentComesFrom
<1>3. ASSUME NEW t \in Task, tasks'[t] # NoRequest, tasks'[t].at # "exchange",
             tasks'[t].grant = g, tasks'[t].discord_id = d
      PROVE  owner'[g] = d \/ Holds(g, d)
  BY <1>3, TaskComesFrom DEF Holds
<1>4. ASSUME NEW u \in Account, workers'[u] # NoWorker, workers'[u].row.discord_id = d,
             workers'[u].row.refresh_token.grant = g
      PROVE  Holds(g, d)
  BY <1>4, WorkerComesFrom DEF Holds
<1>5. ASSUME NEW u \in Account, workers'[u] # NoWorker, workers'[u].row.discord_id = d,
             workers'[u].new # 0, workers'[u].new = g
      PROVE  owner'[g] = d \/ Holds(g, d)
  <2>1. workers[u] # NoWorker /\ workers'[u].row = workers[u].row
    BY <1>5, WorkerComesFrom
  <2>2. CASE workers'[u].new = workers[u].new
    BY <1>5, <2>1, <2>2 DEF Holds
  <2>3. CASE owner'[workers'[u].new] = owner[workers[u].row.refresh_token.grant]
    <3>1. workers[u].row.refresh_token.grant \in Grant
      BY <2>1 DEF TypeOK, Worker, Row, Stored
    <3>2. Holds(workers[u].row.refresh_token.grant, d)
      BY <1>5, <2>1 DEF Holds
    <3> QED BY <1>5, <2>3, <3>1, <3>2 DEF HoldersOwn
  <2> QED BY <1>5, <2>2, <2>3, WorkerComesFrom
<1> QED BY <1>0, <1>1, <1>2, <1>3, <1>4, <1>5 DEF Holds

LEMMA OwnedInit == Init => OwnedInv
<1> SUFFICES ASSUME Init PROVE OwnedInv
  OBVIOUS
<1>1. \A u \in Account : users[u] = NoRow /\ workers[u] = NoWorker
  BY DEF Init
<1>2. pending_consents = {} /\ \A t \in Task : tasks[t] = NoRequest
  BY DEF Init
<1> QED BY <1>1, <1>2 DEF OwnedInv, OneAccountPerUser, OnePerson, ClaimsIssued,
                          HoldersOwn, Claim, Holds, Exists

\* The inductive invariant holds in every reachable state.
THEOREM Owned == Spec => []OwnedInv
<1>1. TypeOK /\ OwnedInv /\ [Next]_vars => OwnedInv'
  BY OnePersonStep, OneAccountStep, HoldersStep DEF OwnedInv
<1> QED BY TypeCorrect, OwnedInit, <1>1, PTL DEF Spec

\* Registrations of one person that overlap, each with a consent of its own,
\* leave one account: confirm_consent.rs inserts without looking first, and the
\* unique discord_id of the users table refuses the second.
THEOREM OneAccount == Spec => []OneAccountPerUser
BY Owned, PTL DEF OwnedInv

\* No step of a registration, a confirmation or a refresh keeps the token of one
\* person for another, whatever is deleted and registered again in between.
THEOREM TokensOfTheirUser == Spec => []TokensOwned
<1>1. TypeOK /\ OwnedInv => TokensOwned
  <2> SUFFICES ASSUME TypeOK, OwnedInv PROVE TokensOwned
    OBVIOUS
  <2>1. ASSUME NEW u \in Account, Exists(u)
        PROVE  owner[users[u].refresh_token.grant] = users[u].discord_id
    <3>1. users[u].refresh_token.grant \in Grant /\ users[u].discord_id \in DiscordUser
      BY <2>1 DEF TypeOK, Exists, Row, Stored
    <3> QED BY <2>1, <3>1 DEF OwnedInv, HoldersOwn, Holds
  <2>2. ASSUME NEW c \in pending_consents PROVE owner[c.grant] = c.discord_id
    <3>1. c.grant \in Grant /\ c.discord_id \in DiscordUser
      BY <2>2 DEF TypeOK, TicketsOK, PendingConsent
    <3> QED BY <3>1 DEF OwnedInv, HoldersOwn, Holds
  <2>3. ASSUME NEW u \in Account, workers[u] # NoWorker, workers[u].new # 0
        PROVE  owner[workers[u].new] = workers[u].row.discord_id
    <3>1. workers[u] \in Worker
      BY <2>3 DEF TypeOK
    <3>2. workers[u].new \in Grant /\ workers[u].row.discord_id \in DiscordUser
      BY <2>3, <3>1, AccountsAssumption DEF Worker, Row, Grant
    <3> QED BY <2>3, <3>2 DEF OwnedInv, HoldersOwn, Holds
  <2> QED BY <2>1, <2>2, <2>3 DEF TokensOwned
<1> QED BY TypeCorrect, Owned, <1>1, PTL
=============================================================================
