------------------------------ MODULE Accounts ------------------------------
(***************************************************************************)
(* The accounts of the presence server: the OAuth states of oauth_state.rs *)
(* and routes/oauth_start.rs, the registration of routes/register.rs, the  *)
(* consents of session/consent.rs and routes/confirm_consent.rs, the users *)
(* table of db.rs, and the tasks token_refresh.rs and cleanup.rs.          *)
(*                                                                         *)
(* Every statement sent to the database and every critical section is one  *)
(* action.  update_user_tokens reads the row and then updates it; the      *)
(* update sets the token columns alone, and only if the row is still       *)
(* there, so what the table shows is the update.  Discord is modelled by   *)
(* the refresh tokens it has given (grants) and those it still honours.    *)
(* The access token is written wherever the refresh token is, and is left  *)
(* out; so is the AES key, which no action here reads.                     *)
(***************************************************************************)
EXTENDS Integers, FiniteSets

CONSTANTS
  DiscordUser,     \* people, by their Discord snowflake
  Task,            \* slots for requests in progress
  MaxState,        \* bound: OAuth states ever issued
  MaxGrant,        \* bound: refresh tokens Discord ever gives
  MaxTime,         \* bound: the clock
  StateTtl,        \* STATE_TTL_SECS
  ConsentTtl,      \* PENDING_CONSENT_TIMEOUT_SECS
  Lifetime,        \* expires_in of a token
  Margin,          \* margin_secs of the refresh task
  Permits,         \* of the refresh task's semaphore
  InactiveAfter,   \* THREE_YEARS_SECS
  Fails,           \* may a handler be dropped, the database fail, the process stop?
  RevokesMidway,   \* may a user revoke while the server works on that user?
  OmitsToken,      \* may Discord refresh without giving a new refresh token?
  LosesAnswers,    \* may Discord have acted, and the server get an error?
  Logins,          \* do the accounts' consoles log in?
  NoRow, NoRequest, NoWorker, Nobody

OauthState == 1 .. MaxState
Grant == 1 .. MaxGrant

\* An account comes from one consent, and a consent from one OAuth state: both
\* are numbered in order, and an account has the number of its consent.
Consent == 1 .. MaxState
Account == Consent

ASSUME AccountsAssumption ==
  /\ MaxState \in Nat /\ MaxGrant \in Nat /\ MaxTime \in Nat
  /\ StateTtl \in Nat /\ ConsentTtl \in Nat /\ Lifetime \in Nat /\ Margin \in Nat
  /\ InactiveAfter \in Nat /\ Permits \in Nat \ {0}
  /\ {Fails, RevokesMidway, OmitsToken, LosesAnswers, Logins} \subseteq BOOLEAN
  /\ Nobody \notin DiscordUser

VARIABLES
  oauth_states,      \* OauthStateStore.inner
  pending_consents,  \* SessionManager.pending_consents
  users,             \* the users table, by uuid
  tasks,             \* the handlers in progress, with their local variables
  workers,           \* the spawned refreshes of the current batch, by account
  owner,             \* Discord: whom each grant was given for
  live,              \* Discord: the grants it honours
  now,               \* the clock
  next_state,        \* the next OAuth state to issue
  next_consent,      \* the next temp_token to issue
  redeemed,          \* history: how often each state let a code be exchanged
  confirmed,         \* history: how often each consent was confirmed
  last_login         \* history: when each account last registered or logged in

memory == <<oauth_states, pending_consents, tasks, workers>>
discord == <<owner, live>>
names == <<next_state, next_consent>>
history == <<redeemed, confirmed, last_login>>
tickets == <<oauth_states, pending_consents>>
quiet == <<discord, now, names, history>>
vars == <<oauth_states, pending_consents, users, tasks, workers, owner, live,
          now, next_state, next_consent, redeemed, confirmed, last_login>>

(***************************************************************************)
(* Types.                                                                  *)
(***************************************************************************)

OauthStateEntry == [id : OauthState, created_at : Nat]

PendingConsent == [temp_token : Consent, discord_id : DiscordUser, grant : Grant,
                   token_expires_at : Nat, created_at : Nat]

\* A refresh token as the row stores it: a grant, encrypted once or more often.
Stored == [grant : Grant, layers : {1, 2}]

Row == [discord_id : DiscordUser, refresh_token : Stored,
        token_expires_at : Nat, last_connected : Nat]

Label == {"exchange", "lookup", "update", "touch", "consent", "create"}

Request == [at : Label, discord_id : DiscordUser \cup {Nobody}, grant : 0 .. MaxGrant,
            expires_at : Nat, account : 0 .. MaxState]

\* row is the snapshot the batch was made from; new is 0 until Discord has
\* answered, and stays 0 if it gave no new refresh token.
Worker == [at : {"queued", "call", "store", "delete"}, row : Row, new : 0 .. MaxGrant]

RequestOK(r) ==
  /\ r.at # "exchange" => r.discord_id \in DiscordUser /\ r.grant \in Grant
  /\ r.at \in {"update", "touch", "create"} => r.account \in Account

TicketsOK ==
  /\ oauth_states \in SUBSET OauthStateEntry
  /\ pending_consents \in SUBSET PendingConsent
  /\ next_state \in 1 .. MaxState + 1 /\ next_consent \in 1 .. MaxState + 1
  /\ redeemed \in [OauthState -> Nat] /\ confirmed \in [Consent -> Nat]

TasksOK ==
  /\ tasks \in [Task -> Request \cup {NoRequest}]
  /\ \A t \in Task : tasks[t] # NoRequest => RequestOK(tasks[t])

WorldOK ==
  /\ owner \in [Grant -> DiscordUser \cup {Nobody}]
  /\ live \in SUBSET Grant
  /\ now \in 0 .. MaxTime
  /\ last_login \in [Account -> Nat]

\* Every table, handler and worker is well formed.
TypeOK ==
  /\ TicketsOK
  /\ users \in [Account -> Row \cup {NoRow}]
  /\ TasksOK
  /\ workers \in [Account -> Worker \cup {NoWorker}]
  /\ WorldOK

ASSUME NoneAssumption ==
  NoRow \notin Row /\ NoRequest \notin Request /\ NoWorker \notin Worker

(***************************************************************************)
(* Discord.                                                                *)
(***************************************************************************)

NextGrant == CHOOSE g \in Grant : owner[g] = Nobody

Give(d) ==
  /\ \E g \in Grant : owner[g] = Nobody
  /\ owner' = [owner EXCEPT ![NextGrant] = d]

\* Discord honours a token that the row's decryption gives back in the clear.
Honoured(s) == s.layers = 1 /\ s.grant \in live

(***************************************************************************)
(* Small operations the handlers share.                                    *)
(***************************************************************************)

Exists(u) == users[u] # NoRow

\* get_user_by_discord_id.
RowsOfAnyone(d) == {u \in Account : Exists(u)}
RowsOf(d) == {u \in Account : Exists(u) /\ users[u].discord_id = d}

StateExpired(s) == now - s.created_at > StateTtl
ConsentExpired(c) == now - c.created_at > ConsentTtl

\* get_users_needing_refresh.
NeedsRefresh(u) == Exists(u) /\ users[u].token_expires_at <= now + Margin

Encrypted(g) == [grant |-> g, layers |-> 1]

\* update_user_tokens.
WithTokens(row, stored, expires_at) ==
  [row EXCEPT !.refresh_token = stored, !.token_expires_at = expires_at]

UpdateTokens(u, stored, expires_at) ==
  users' = IF Exists(u) THEN [users EXCEPT ![u] = WithTokens(@, stored, expires_at)]
           ELSE users

At(t, label) == tasks[t] # NoRequest /\ tasks[t].at = label
Finish(t) == tasks' = [tasks EXCEPT ![t] = NoRequest]
Goto(t, label) == tasks' = [tasks EXCEPT ![t] = [@ EXCEPT !.at = label]]

WorkerAt(u, label) == workers[u] # NoWorker /\ workers[u].at = label
WorkerDone(u) == workers' = [workers EXCEPT ![u] = NoWorker]
WorkerGoto(u, label) == workers' = [workers EXCEPT ![u] = [@ EXCEPT !.at = label]]

Init ==
  /\ oauth_states = {}
  /\ pending_consents = {}
  /\ users = [u \in Account |-> NoRow]
  /\ tasks = [t \in Task |-> NoRequest]
  /\ workers = [u \in Account |-> NoWorker]
  /\ owner = [g \in Grant |-> Nobody]
  /\ live = {}
  /\ now = 0
  /\ next_state = 1
  /\ next_consent = 1
  /\ redeemed = [s \in OauthState |-> 0]
  /\ confirmed = [c \in Consent |-> 0]
  /\ last_login = [u \in Account |-> 0]

(***************************************************************************)
(* POST /oauth/start, once the captcha has passed: create().               *)
(***************************************************************************)

OauthStart ==
  /\ next_state <= MaxState
  /\ oauth_states' = oauth_states \cup {[id |-> next_state, created_at |-> now]}
  /\ next_state' = next_state + 1
  /\ UNCHANGED <<pending_consents, users, tasks, workers, discord, now,
                 next_consent, history>>

(***************************************************************************)
(* POST /register.  consume() takes the state out whatever its age.        *)
(***************************************************************************)

KeptState(s) == oauth_states
Without(s) == oauth_states \ {s}

Register(t, s) ==
  /\ tasks[t] = NoRequest
  /\ s \in oauth_states
  /\ oauth_states' = Without(s)
  /\ IF StateExpired(s) THEN UNCHANGED <<tasks, redeemed>>
     ELSE /\ tasks' = [tasks EXCEPT ![t] =
               [at |-> "exchange", discord_id |-> Nobody, grant |-> 0,
                expires_at |-> 0, account |-> 0]]
          /\ redeemed' = [redeemed EXCEPT ![s.id] = @ + 1]
  /\ UNCHANGED <<pending_consents, users, workers, discord, now, names,
                 confirmed, last_login>>

\* The code is exchanged and the user asked for: user d authorized it.  The call
\* runs on a blocking thread: Discord may give the grant and the handler be
\* gone, its answer be lost, or the second request fail.
Exchange(t, d) ==
  /\ At(t, "exchange")
  /\ Give(d)
  /\ live' = live \cup {NextGrant}
  /\ \/ tasks' = [tasks EXCEPT ![t] =
          [at |-> "lookup", discord_id |-> d, grant |-> NextGrant,
           expires_at |-> now + Lifetime, account |-> 0]]
     \/ (Fails \/ LosesAnswers) /\ Finish(t)
  /\ UNCHANGED <<tickets, users, workers, now, names, history>>

ExchangeFails(t) ==
  /\ At(t, "exchange")
  /\ Finish(t)
  /\ UNCHANGED <<tickets, users, workers, quiet>>

\* lookup_existing_user.
LookupForgets(t) ==
  /\ At(t, "lookup")
  /\ \/ /\ RowsOf(tasks[t].discord_id) = {}
        /\ Goto(t, "consent")
     \/ /\ RowsOf(tasks[t].discord_id) # {}
        /\ Goto(t, "update")
  /\ UNCHANGED <<tickets, users, workers, quiet>>
Lookup(t) ==
  /\ At(t, "lookup")
  /\ \/ /\ RowsOf(tasks[t].discord_id) = {}
        /\ Goto(t, "consent")
     \/ \E u \in RowsOf(tasks[t].discord_id) :
          tasks' = [tasks EXCEPT ![t] = [@ EXCEPT !.at = "update", !.account = u]]
  /\ UNCHANGED <<tickets, users, workers, quiet>>

\* handle_returning_user: new tokens, then, with errors ignored, last_connected.
Update(t) ==
  /\ At(t, "update")
  /\ UpdateTokens(tasks[t].account, Encrypted(tasks[t].grant), tasks[t].expires_at)
  /\ Goto(t, "touch")
  /\ UNCHANGED <<tickets, workers, quiet>>

Touch(t) ==
  LET u == tasks[t].account IN
  /\ At(t, "touch")
  /\ users' = IF Exists(u) THEN [users EXCEPT ![u] = [@ EXCEPT !.last_connected = now]] ELSE users
  /\ last_login' = IF Exists(u) THEN [last_login EXCEPT ![u] = now] ELSE last_login
  /\ Finish(t)
  /\ UNCHANGED <<tickets, workers, discord, now, names,
                 redeemed, confirmed>>

\* handle_new_user_requires_consent: create_pending_consent.
OpenConsent(t) ==
  /\ At(t, "consent")
  /\ next_consent <= MaxState
  /\ pending_consents' = pending_consents \cup
       {[temp_token |-> next_consent, discord_id |-> tasks[t].discord_id,
         grant |-> tasks[t].grant, token_expires_at |-> tasks[t].expires_at,
         created_at |-> now]}
  /\ next_consent' = next_consent + 1
  /\ Finish(t)
  /\ UNCHANGED <<oauth_states, users, workers, discord, now, next_state, history>>

(***************************************************************************)
(* POST /confirm-consent: the consent is taken out, whatever its age, and  *)
(* the row inserted.  discord_id is unique: the insert of a second account *)
(* of a user is an error of the database.                                  *)
(***************************************************************************)

KeptConsent(c) == pending_consents
WithoutConsent(c) == pending_consents \ {c}

Confirm(t, c) ==
  /\ tasks[t] = NoRequest
  /\ c \in pending_consents
  /\ pending_consents' = WithoutConsent(c)
  /\ confirmed' = [confirmed EXCEPT ![c.temp_token] = @ + 1]
  /\ tasks' = [tasks EXCEPT ![t] =
       [at |-> "create", discord_id |-> c.discord_id, grant |-> c.grant,
        expires_at |-> c.token_expires_at, account |-> c.temp_token]]
  /\ UNCHANGED <<oauth_states, users, workers, discord, now, names, redeemed, last_login>>

NewRow(r) ==
  [discord_id |-> r.discord_id, refresh_token |-> Encrypted(r.grant),
   token_expires_at |-> r.expires_at, last_connected |-> now]

InsertDuplicate(r) == [users EXCEPT ![r.account] = NewRow(r)]
Insert(r) ==
  IF RowsOf(r.discord_id) = {} THEN [users EXCEPT ![r.account] = NewRow(r)] ELSE users

CreateUser(t) ==
  /\ At(t, "create")
  /\ users' = Insert(tasks[t])
  /\ last_login' = [last_login EXCEPT ![tasks[t].account] = now]
  /\ Finish(t)
  /\ UNCHANGED <<tickets, workers, discord, now, names,
                 redeemed, confirmed>>

(***************************************************************************)
(* tasks/token_refresh.rs.  A batch is a snapshot of the rows that expire  *)
(* soon; the next one starts when every worker of this one has ended.      *)
(***************************************************************************)

CollectBatch ==
  /\ \A u \in Account : workers[u] = NoWorker
  /\ \E u \in Account : NeedsRefresh(u)
  /\ workers' = [u \in Account |->
       IF NeedsRefresh(u) THEN [at |-> "queued", row |-> users[u], new |-> 0]
       ELSE NoWorker]
  /\ UNCHANGED <<tickets, users, tasks, quiet>>

\* The workers that hold a permit.
Running == {u \in Account : workers[u] # NoWorker /\ workers[u].at # "queued"}

AcquirePermit(u) ==
  /\ WorkerAt(u, "queued")
  /\ Cardinality(Running) < Permits
  /\ WorkerGoto(u, "call")
  /\ UNCHANGED <<tickets, users, tasks, quiet>>

\* refresh_user_token: Discord takes the token of the snapshot and gives a new
\* one for it; the old one is used up.
Rotation(u) ==
  LET old == workers[u].row.refresh_token IN
  /\ WorkerAt(u, "call")
  /\ Honoured(old)
  /\ Give(owner[old.grant])
  /\ live' = (live \ {old.grant}) \cup {NextGrant}
  /\ UNCHANGED <<tickets, users, tasks, now, names, history>>

Rotated(u) ==
  /\ Rotation(u)
  /\ workers' = [workers EXCEPT ![u] = [@ EXCEPT !.at = "store", !.new = NextGrant]]

\* The same, and what reaches the server is an error: the answer is lost or does
\* not parse.
RotationLost(u) ==
  /\ LosesAnswers
  /\ Rotation(u)
  /\ WorkerDone(u)

\* Discord renews the access token and leaves the refresh token as it is.
Renewed(u) ==
  /\ OmitsToken
  /\ WorkerAt(u, "call")
  /\ Honoured(workers[u].row.refresh_token)
  /\ WorkerGoto(u, "store")
  /\ UNCHANGED <<tickets, users, tasks, quiet>>

\* invalid_grant: revoked, used up, or not a token at all.
RefusedRetried(u) ==
  /\ WorkerAt(u, "call")
  /\ ~Honoured(workers[u].row.refresh_token)
  /\ WorkerDone(u)
  /\ UNCHANGED <<tickets, users, tasks, quiet>>
RefusedQueued(u) ==
  /\ WorkerAt(u, "call")
  /\ ~Honoured(workers[u].row.refresh_token)
  /\ WorkerGoto(u, "queued")
  /\ UNCHANGED <<tickets, users, tasks, quiet>>
Refused(u) ==
  /\ WorkerAt(u, "call")
  /\ ~Honoured(workers[u].row.refresh_token)
  /\ WorkerGoto(u, "delete")
  /\ UNCHANGED <<tickets, users, tasks, quiet>>

\* Any other error is logged, and the account tried again by the next batch;
\* here Discord has done nothing yet.
CallFailsFatally(u) ==
  /\ WorkerAt(u, "call")
  /\ WorkerGoto(u, "delete")
  /\ UNCHANGED <<tickets, users, tasks, quiet>>
CallFails(u) ==
  /\ WorkerAt(u, "call")
  /\ WorkerDone(u)
  /\ UNCHANGED <<tickets, users, tasks, quiet>>

\* apply_refresh: without a new refresh token the stored one of the snapshot is
\* passed on, as it is encrypted, and update_user_tokens encrypts it again.
RefreshedOld(w) == Encrypted(w.row.refresh_token.grant)
Refreshed(w) ==
  IF w.new # 0 THEN Encrypted(w.new)
  ELSE [grant |-> w.row.refresh_token.grant, layers |-> w.row.refresh_token.layers + 1]

Store(u) ==
  /\ WorkerAt(u, "store")
  /\ UpdateTokens(u, Refreshed(workers[u]), now + Lifetime)
  /\ WorkerDone(u)
  /\ UNCHANGED <<tickets, tasks, quiet>>

\* handle_refresh_error.
DeleteRefused(u) ==
  /\ WorkerAt(u, "delete")
  /\ users' = [users EXCEPT ![u] = NoRow]
  /\ WorkerDone(u)
  /\ UNCHANGED <<tickets, tasks, quiet>>

(***************************************************************************)
(* POST /account/delete, tasks/cleanup.rs, and the sweeps of the two       *)
(* tables of tickets.  An expired consent stays expired and its name is    *)
(* never reused: the sweep of tasks/timeout.rs may take each on its own.   *)
(***************************************************************************)

DeleteAccount(u) ==
  /\ Exists(u)
  /\ users' = [users EXCEPT ![u] = NoRow]
  /\ UNCHANGED <<memory, quiet>>

Inactive(u) == Exists(u) /\ users[u].last_connected < now - InactiveAfter

DeleteInactive ==
  /\ \E u \in Account : Inactive(u)
  /\ users' = [u \in Account |-> IF Inactive(u) THEN NoRow ELSE users[u]]
  /\ UNCHANGED <<memory, quiet>>

OauthCleanupLate == {s \in oauth_states : now - s.created_at <= StateTtl + 1}
OauthCleanupNow == {s \in oauth_states : ~StateExpired(s)}

OauthCleanup ==
  /\ oauth_states' = OauthCleanupNow
  /\ UNCHANGED <<pending_consents, users, tasks, workers, quiet>>

SweepConsent(c) ==
  /\ c \in pending_consents
  /\ ConsentExpired(c)
  /\ pending_consents' = WithoutConsent(c)
  /\ UNCHANGED <<oauth_states, users, tasks, workers, quiet>>

(***************************************************************************)
(* The environment.                                                        *)
(***************************************************************************)

\* POST /3ds/login/verify reads the row and writes nothing to it.
ConsoleLogin(u) ==
  /\ Logins
  /\ Exists(u)
  /\ last_login' = [last_login EXCEPT ![u] = now]
  /\ UNCHANGED <<memory, users, discord, now, names, redeemed, confirmed>>

\* The server is in the middle of something for user d.
Busy(d) ==
  \/ \E t \in Task : tasks[t] # NoRequest /\ tasks[t].discord_id = d
  \/ \E c \in pending_consents : c.discord_id = d
  \/ \E u \in Account : workers[u] # NoWorker /\ workers[u].row.discord_id = d

\* A user removes the application: every grant of that user is void.
Revoke(d) ==
  /\ RevokesMidway \/ ~Busy(d)
  /\ \E g \in live : owner[g] = d
  /\ live' = {g \in live : owner[g] # d}
  /\ UNCHANGED <<memory, users, owner, now, names, history>>

\* The database reports an error, or the connection closes and the handler is
\* dropped at an await; the exchange, on a blocking thread, has its own end.
Abandon(t) ==
  /\ Fails
  /\ tasks[t] # NoRequest
  /\ tasks[t].at # "exchange"
  /\ Finish(t)
  /\ UNCHANGED <<tickets, users, workers, quiet>>

WorkerFails(u) ==
  /\ Fails
  /\ workers[u] # NoWorker
  /\ workers[u].at \in {"store", "delete"}
  /\ WorkerDone(u)
  /\ UNCHANGED <<tickets, users, tasks, quiet>>

\* The process stops and starts again: the users table survives.
Restart ==
  /\ Fails
  /\ oauth_states' = {}
  /\ pending_consents' = {}
  /\ tasks' = [t \in Task |-> NoRequest]
  /\ workers' = [u \in Account |-> NoWorker]
  /\ UNCHANGED <<users, quiet>>

Time ==
  /\ now < MaxTime
  /\ now' = now + 1
  /\ UNCHANGED <<memory, users, discord, names, history>>

Registration(t) ==
  \/ \E s \in oauth_states : Register(t, s)
  \/ \E d \in DiscordUser : Exchange(t, d)
  \/ ExchangeFails(t)
  \/ Lookup(t) \/ Update(t) \/ Touch(t) \/ OpenConsent(t)
  \/ \E c \in pending_consents : Confirm(t, c)
  \/ CreateUser(t)

WorkerStep(u) ==
  \/ AcquirePermit(u)
  \/ Rotated(u) \/ Renewed(u) \/ RotationLost(u) \/ Refused(u) \/ CallFails(u)
  \/ Store(u) \/ DeleteRefused(u)

Environment ==
  \/ \E u \in Account : ConsoleLogin(u) \/ DeleteAccount(u) \/ WorkerFails(u)
  \/ \E d \in DiscordUser : Revoke(d)
  \/ \E t \in Task : Abandon(t)
  \/ Restart
  \/ Time

Next ==
  \/ OauthStart
  \/ \E t \in Task : Registration(t)
  \/ CollectBatch
  \/ \E u \in Account : WorkerStep(u)
  \/ DeleteInactive
  \/ OauthCleanup
  \/ \E c \in pending_consents : SweepConsent(c)
  \/ Environment

Spec == Init /\ [][Next]_vars

\* The periodic tasks loop for ever, and the spawned workers are polled; a call
\* to Discord ends, and one that is refused every time is refused in the end.
FairSpec ==
  /\ Spec
  /\ WF_vars(OauthCleanup)
  /\ WF_vars(\E c \in pending_consents : SweepConsent(c))
  /\ WF_vars(CollectBatch)
  /\ \A u \in Account : WF_vars(WorkerStep(u)) /\ SF_vars(Refused(u))

(***************************************************************************)
(* Properties, whatever overlaps and fails.                                *)
(***************************************************************************)

States == INSTANCE OneTime WITH
  Ticket <- OauthState, named <- 1 .. next_state - 1,
  open <- {s.id : s \in oauth_states}, served <- redeemed

\* An OAuth state lets one code be exchanged, whatever requests, expiry and the
\* cleanup do with it at the same time (oauth_state.rs:33).
StatesServeOnce == States!Spec

Consents == INSTANCE OneTime WITH
  Ticket <- Consent, named <- 1 .. next_consent - 1,
  open <- {c.temp_token : c \in pending_consents}, served <- confirmed

\* A consent is confirmed once: it cannot bring back an account that was deleted
\* since (consent.rs:46).
ConsentsServeOnce == Consents!Spec

\* Two registrations of one Discord user that overlap, each with its own
\* consent, leave one account (models.rs:26, confirm_consent.rs:59).
OneAccountPerUser ==
  \A u, w \in Account :
    Exists(u) /\ Exists(w) /\ users[u].discord_id = users[w].discord_id => u = w

\* The token a row, a consent or a worker holds was given by Discord for the
\* user it is kept for: no step mixes two users up (register.rs:69, db.rs:115).
TokensOwned ==
  /\ \A u \in Account : Exists(u) =>
       owner[users[u].refresh_token.grant] = users[u].discord_id
  /\ \A c \in pending_consents : owner[c.grant] = c.discord_id
  /\ \A u \in Account : workers[u] # NoWorker /\ workers[u].new # 0 =>
       owner[workers[u].new] = workers[u].row.discord_id

\* The refresh deletes an account whose token Discord honours only if it was
\* stored after the batch had read the row: the token that was refused is never
\* good again, and no other error deletes (token_refresh.rs:109).
DeletesRefusedToken ==
  [][\A u \in Account :
       DeleteRefused(u) /\ Exists(u) /\ Honoured(users[u].refresh_token) =>
         users[u].refresh_token # workers[u].row.refresh_token]_vars

(***************************************************************************)
(* Properties of a server that does not fail, of users that do not revoke  *)
(* while it works on them, and of a Discord whose answers arrive.          *)
(***************************************************************************)

\* A row that is there, and whose user has a grant that Discord honours, holds
\* such a grant, or a step in progress is about to store one in it: a rotated
\* token is not lost to a stale one (token_refresh.rs:156, register.rs:155).  And
\* what a registration is about to keep, in a consent or in a new row, Discord
\* honours still: nobody else has spent it (consent.rs:46).
GrantKept ==
  /\ \A u \in Account : Exists(u) /\ ~Honoured(users[u].refresh_token) =>
       LET d == users[u].discord_id IN
       \/ \A g \in live : owner[g] # d
       \/ \E t \in Task : /\ At(t, "lookup") \/ At(t, "update")
                          /\ tasks[t].discord_id = d /\ tasks[t].grant \in live
       \/ WorkerAt(u, "store") /\ workers[u].new \in live
  /\ \A c \in pending_consents : c.grant \in live
  /\ \A t \in Task : At(t, "consent") \/ At(t, "create") => tasks[t].grant \in live

\* States and consents that nobody uses do not stay.
TicketsSwept ==
  /\ \A s \in OauthState :
       (\E e \in oauth_states : e.id = s /\ StateExpired(e))
       ~> (\A e \in oauth_states : e.id # s)
  /\ \A c \in Consent :
       (\E e \in pending_consents : e.temp_token = c /\ ConsentExpired(e))
       ~> (\A e \in pending_consents : e.temp_token # c)

\* Every batch ends, so that there is a next one (token_refresh.rs:66).
BatchEnds == \A u \in Account : (workers[u] # NoWorker) ~> (workers[u] = NoWorker)

\* An account whose grant is gone and whose token is due is deleted, unless its
\* user registers again: it is not tried for ever (token_refresh.rs:107).
RevokedAccountGoes ==
  \A u \in Account :
    (NeedsRefresh(u) /\ ~Honoured(users[u].refresh_token))
    ~> (~Exists(u) \/ Honoured(users[u].refresh_token) \/ ~NeedsRefresh(u))

(***************************************************************************)
(* What comments of the code say of it, and it does not keep.              *)
(***************************************************************************)

\* cleanup.rs:25, "deleting inactive accounts": what the daily task deletes was
\* not used for that long.
InactiveOnly ==
  [][DeleteInactive => \A u \in Account :
       Exists(u) /\ users'[u] = NoRow => now - last_login[u] > InactiveAfter]_vars

\* models.rs:32, "Discord OAuth2 refresh token": that is what the column holds,
\* encrypted once.
StoredTokenReadable ==
  \A u \in Account : Exists(u) => users[u].refresh_token.layers = 1

\* token_refresh.rs:109, "Discord returns invalid_grant when the refresh token
\* has been revoked ... the account is deleted": only then.
DeletesOnlyRevoked ==
  [][\A u \in Account :
       DeleteRefused(u) /\ Exists(u) => ~Honoured(users[u].refresh_token)]_vars
=============================================================================
