# Presence-Backend: a verification project

The Presence-Backend (`src/src`) lets a Nintendo 3DS show what it runs as a
Discord presence. It keeps accounts in a database, sessions in memory, one
Discord connection per session, and authenticates every request of a console by
an encrypted, counted envelope. This directory holds TLA+ models of it, the TLC
runs that check them, and TLAPS proofs about them.

Line numbers refer to `src/src` (`verify.rs` is `src/src/session/verify.rs`).

## 1. Inventory

### Components

| component | state | operations | talks to |
|---|---|---|---|
| session store (`session/`) | `sessions`, `ip_counts`, `pending_logins`, `pending_consents`, each behind a tokio mutex of its own | create_pending, verify_and_activate, authenticate_and_tick, verify_and_tick, update_activity, clear_activity, stop_activity, terminate_session, remove_* | Discord clients, routes, timeout task |
| session routes (`routes/login*.rs`, `activity.rs`, `logout.rs`, `get_script.rs`) | none of their own | one HTTP handler each | users table, session store |
| timeout task (`tasks/timeout.rs`) | the accounts collected | every 10 s: idle sessions, old challenges, old consents | session store |
| OAuth state store (`oauth_state.rs`, `routes/oauth_start.rs`) | `inner`: issued states | create, consume, cleanup | registration |
| registration (`routes/register.rs`) | none | exchange a Discord code, then update a known account or open a consent | Discord, users table, session store |
| consent (`session/consent.rs`, `routes/confirm_consent.rs`) | `pending_consents` | open, confirm, expire | users table |
| users table (`db.rs`, `models.rs`) | one row per account, `discord_id` unique | create, read, update tokens, update key, delete | everything above |
| token refresh (`tasks/token_refresh.rs`) | a snapshot of rows, ten permits | hourly: refresh, store, delete on `invalid_grant` | Discord, users table |
| inactive accounts (`tasks/cleanup.rs`) | none | daily: delete rows by `last_connected` | users table |
| account management (`reset_aes.rs`, `delete_account.rs`, `common.rs`) | none | check the key, then change or delete the row | users table, session store |
| crypto and envelopes (`crypto.rs`, `auth.rs`) | none | challenge cipher, activity envelope, encryption at rest | session store, routes |
| validation (`validation.rs`) | none | the checks of each form field | routes |
| errors (`session/error.rs`, `response.rs`) | none | the code of each failure | consoles |
| the rest (config, router, logging, utilities) | none that changes | | |

### How they interact, and what is hard about it

Handlers run concurrently on tokio. A handler takes a lock, leaves it, awaits
something slow (a Discord call, the database, another lock) and takes it again:
what it knows from the first section may be stale in the second. A handler whose
connection closes is dropped at the await it stands at, and what it had done so
far stays done. The timeout task and the two hourly and daily tasks work through
snapshots while requests go on. Discord connections die on their own, and a
restart loses everything but the database. `PROJECT.json` lists each place where
this bites under `hazards`.

### What makes each component correct

* session store: a counter value is used up once per account, whatever logs in
  or out around it; an answered challenge is gone and leaves no older one
  behind; a registered session has a client that started and its own; the
  tables agree with each other; nothing idle stays; a login takes effect.
* timeout task: nothing idle stays, whatever interleaves with the sweep, as long
  as no call it makes hangs for ever.
* OAuth states and consents: each serves once; a state only before it expires. The
  age of a consent is looked at by the sweep alone.
* users table: one account per Discord user; the token in a row is one Discord
  gave for that user.
* token refresh: deletes only accounts whose grant is really gone; never loses
  or spoils a live token whose answer has arrived; at most one
  refresh per account at a time.
* inactive accounts: deletes only what nobody used for three years.
* account management: deleting an account deletes what belongs to it, and it
  stays deleted; a key that was reset does not come back into a session.
* requests: the server does what the console signed, all of it and nothing else;
  it refuses nothing that is unaltered and due; its answer lets the console know
  which counter value comes next.

## 2. Modules

| module | what it is |
|---|---|
| `SessionManager` | the session store with the routes and the task that drive it |
| `ReplayGuard` | what the session store promises about challenges and counters |
| `MCSessionManager` | values and symmetry for TLC |
| `SessionManagerProofs` | theorems about `SessionManager`: types, counters, challenges, and that it implements `ReplayGuard` |
| `SessionGatewayProofs` | the theorem that every session has a started client of its own |
| `SessionSerialProofs` | theorems about accounts whose requests come one at a time: order of logins, whom a handler removes, no client left behind |
| `SessionCountProofs` | the theorems that `ip_counts` is exact for them, and never too low for any |
| `Backend` | `SessionManager` with the users table behind it: the key each login reads, resets, deletions |
| `MCBackend` | values and symmetry for TLC |
| `BackendProofs` | theorems about `Backend` |
| `Requests` | one console and the server: forms, checks, the signed text, answers |
| `MCRequests` | texts for TLC |
| `RequestsProofs` | theorems about `Requests`, for texts of any length |
| `Accounts` | OAuth states, registration, consents, the users table, the refresh and the clean-up tasks |
| `OneTime` | what a table of one-time tickets promises |
| `MCAccounts` | values and symmetry for TLC |
| `AccountsProofs` | theorems about `Accounts`: types, one-time tickets, one account per person, tokens of their owner |
| `AccountsKept` | theorems about `Accounts`: overlapping refreshes and registrations lose no grant, and what refreshes may not store or delete |

### SessionManager

The three tables are `sessions`, `ip_counts` and `pending_logins`. A session's
fields are those of `SessionState::Active` that decide anything. `gateway` is
the state of the Discord clients; a client is named by the challenge whose
verification started it, so names are never reused. `pc` and `loc` are the
program counter and local variables of each handler in progress (`Task`) and of
the timeout task (`Sweeper`), `todo` the accounts the latter has collected.
`ticked` is a history variable: how often a counter value was used up. A logout
checks the next value and leaves the counter where it is, so it uses none up and
is not counted.

Correspondence of actions and code:

| action | code |
|---|---|
| `Login` | `routes/login.rs`, `create_pending` |
| `Verify`, `Lookup` | `extract_pending_login`; the look at the table in `verify_and_activate` |
| `StartOk`, `StartFail` | `create_and_start_client` |
| `PromoteCount`, `PromoteInsert` | the two sections of `promote_to_active` |
| `UpdateRead`, `UpdateCount`, `UpdateWrite` | the sections of `update_active_session` |
| `Activity`, `CheckAlive`, `RemoveDead` | `/set` and `/heartbeat`: `authenticate_and_tick`, `ensure_client_alive`, `remove_dead_session` |
| `Script` | `verify_and_tick` of `/3ds/script` |
| `Logout`, `LogoutStop`, `LogoutRemove`, `LogoutUncount` | `stop_activity`, `remove_session` |
| `Uncount`, `StopRemoved` | the rest of `terminate_session` |
| `SweepCollect`, `SweepRemove`, `SweepPending` | `tasks/timeout.rs` |
| `GatewayDies`, `Cancel`, `Time`, `Restart` | Discord, dropped handlers, the clock, the process |

How the code is abstracted:

* One critical section is one action. No section of the code awaits and none is
  nested in another, so nothing finer can be observed.
* A blocking call (`spawn_blocking`) runs to its end even if its handler is
  dropped meanwhile, so `Cancel` acts after it.
* A random 64-bit nonce is an index in order of issue; `NonceValue` gives its
  value. `NonceAssumption` says that the counter stretches of two logins do not
  meet, which holds but for a chance of about 2^-64 per pair. The counter wraps
  at `CounterMod`.
* An envelope is the pair of a key and a counter value; requests carry any such
  pair, so old envelopes come back at any time.
* The key of an account comes from the database; here it is any key at each
  read, which covers every reset in between. `Backend` has the table.
* A request that is refused without changing anything is a stuttering step.
* `user_info` and the presence text are left out: no decision reads them.

### ReplayGuard

Challenges are issued, answered, installed or dropped; only the challenge
installed for an account lets counter values of its own span be used up, each
once. `ReplayGuardSpec` of `SessionManager` states that every section of every
handler is a step of it or leaves it alone.

### Backend

`Backend` extends `SessionManager` with `rows` (the key in the row of each
account), `born` (the accounts that ever had one), `next_key` (keys are drawn at
random: here they are numbered in the order in which rows get them) and `desk`,
what a handler has read from the database before it enters the session store or
after it has left it. A handler stands at its desk or in the store, never in both.

| action | code |
|---|---|
| `LoginRead`, `LoginIssue` | `routes/login.rs`: the row, then `create_pending` |
| `VerifyRead`, `VerifyExtract`, `VerifyMiss` | `routes/login_verify.rs`: the row, then `extract_pending_login` |
| `ScriptTick`, `SignResponse` | `routes/get_script.rs`: `verify_and_tick`, the script, `sign_response` |
| `SessionRequest` | `/activity/*` and `/logout`, which do not read the row |
| `ResetCheck`, `ResetWrite`, `UpdatedRow` | `authenticate_aes_key` and `update_user_aes_key` of `routes/reset_aes.rs` |
| `DeleteCheck`, `DeleteStop`, `DeleteRow` | the three steps of `routes/delete_account.rs` |
| `CreateRow`, `DropRow` | `routes/confirm_consent.rs`; the tasks that delete rows |
| `DeskFails`, `BackendRestart` | a failed statement, a dropped handler; the process |

* One statement is one action. `update_user_aes_key` finds the row and updates
  it: the update alone shows, and changes nothing if the row has gone.
* Whoever sends the key of the row may reset or delete; any other key is refused
  and changes nothing.
* `DeleteStop` leaves the session store alone: what it passes has the size of a
  key, not of an envelope, so each path through `stop_activity` is a refusal.
* A web page and a console of one account overlap always; two requests of its
  console only with `Overlap`.

### Requests

One console, one session, one request at a time: the overlapping of requests is
`SessionManager`'s. `signed` is the request the console has signed last and for
which counter value, `session` the counter, the cooldown and the state of the
client, `reply` and `acted` the answer and the act of the last step. Any valid
form may come with the envelope, not only the one it was made for.

| definition | code |
|---|---|
| `Checks`, `Check`, `Filled`, `Fits`, `TitleOK` | `validation.rs`, in the order of `set_handler` |
| `AnyField`, `GameFields` | `generate_game_info` |
| `Encoded`, `GameText`, `ExtraText`, `FieldText` | `url_encode_3ds`, `build_field_string`, `sha256_fields` |
| `SignedText`, `ConsoleCode` | the console (not in this repository) |
| `Refuse`, `Accepts`, `VerifyAuth` | `with_active_session`, `check_cooldown`, `verify_activity_auth` |
| `DeadClient`, `SetActivity`, `Heartbeat`, `GetScript`, `Logout` | the handlers behind it |
| `Reject`, `Answer`, `CodeOfOther` | `field_error`, `session_error_to_response` |

* A text is a sequence of symbols. Two of them are the separators of the fields
  themselves, as they may stand inside a name or a publisher; one is a space and
  one a plus, which the encoding treats apart.
* The envelope is its counter and the text that was hashed. The console's
  encoding is external: it is taken to sign the very characters it sends, which
  is how `crypto.rs` describes it.
* Forms that fail a check change nothing and share one action (`Reject`); only
  the first check that fails gives the code.
* `uuid` and `auth_hex` are left out: a request for another account or with
  another text in their place is not one of this session.

### Accounts

`oauth_states` and `pending_consents` are the two tables of tickets, `users` the
table of the database, `tasks` the registrations and confirmations in progress
with their local variables, `workers` the refreshes the current batch has
spawned, each with its snapshot of the row. Discord is `owner` (for whom each
refresh token was given) and `live` (the tokens it honours). `redeemed`,
`confirmed` and `last_login` are history variables.

| action | code |
|---|---|
| `OauthStart` | `routes/oauth_start.rs`, `OauthStateStore::create` |
| `Register` | `routes/register.rs`: `consume` |
| `Exchange`, `ExchangeFails` | `exchange_discord_code`, and Discord's answer |
| `Lookup`, `Update`, `Touch` | `lookup_existing_user`; the two updates of `handle_returning_user` |
| `OpenConsent` | `handle_new_user_requires_consent`, `create_pending_consent` |
| `Confirm`, `CreateUser` | `confirm_consent`; the insert of `routes/confirm_consent.rs` |
| `CollectBatch`, `AcquirePermit` | `run_with_master_key`, `spawn_user_refresh` |
| `Rotated`, `Renewed`, `RotationLost`, `Refused`, `CallFails` | the outcomes of `refresh_user_token`: a new refresh token (`Rotation` at Discord), none, a new one whose answer is lost or does not parse, a refusal, any other error |
| `Store`, `DeleteRefused` | `apply_refresh`, `handle_refresh_error` |
| `DeleteAccount`, `DeleteInactive` | `routes/delete_account.rs`, `tasks/cleanup.rs` |
| `OauthCleanup`, `SweepConsent` | `OauthStateStore::cleanup`, the consents' part of `tasks/timeout.rs` |
| `ConsoleLogin`, `Revoke`, `Abandon`, `WorkerFails`, `Restart`, `Time` | consoles, users, failures, the clock |

How the code is abstracted:

* One statement sent to the database, or one critical section, is one action.
  `update_user_tokens` reads the row and then updates its token columns if it is
  still there: what the table shows of it is the update.
* `discord_id` is unique in the table (`models.rs:26`): a second insert fails.
  The failed insert leaves the table as it is and ends the handler.
* An account is numbered by the consent it comes from, a consent and a state in
  the order of issue: fresh UUIDs and tokens, which the code draws at random.
* A stored token is a grant and the number of times it is encrypted; Discord
  honours a grant that comes out of one decryption in the clear.
* Access tokens go with refresh tokens, and no action here reads the AES key:
  both are left out.
* The exchange of a code runs on a blocking thread, so Discord may have given a
  grant to a handler that is gone (`Exchange` under `Fails`), or the request for
  the user behind it may fail (`Exchange` under `LosesAnswers`).
* `Fails`, `RevokesMidway`, `OmitsToken`, `LosesAnswers` and `Logins` switch on
  failures of the server, revocations while the server works on the user, answers
  of Discord without a new refresh token, answers that are lost after Discord gave
  a token, and logins of consoles.
* `Touch` and `CreateUser` count as a login in `last_login`, in favour of the
  code: `InactiveOnly` fails even so.

### OneTime

A ticket is issued under a name nobody had, serves once, and is withdrawn at any
time. `Accounts` instantiates it twice, for states (the service is the exchange
of a code) and for consents (the service is the confirmation).

## 3. Runs

| run | question | bounds |
|---|---|---|
| `session_safety` | replay protection, order of challenges, implementation of `ReplayGuard`, with everything overlapping and failing | one account, two addresses, two requests at once, two challenges, two ticks |
| `session_serial` | agreement of the tables and the Discord clients, for requests of an account one at a time | two accounts, two requests at once, two challenges, clock 0..3 |
| `session_liveness` | idle sessions and old challenges go, logins take effect | one account, two requests, two challenges, clock 0..3 |
| `session_overlap` | a claim of a comment that fails | as above |
| `backend_serial` | the session store is used as `SessionManager` says; keys and deletions stay in order | one account, two requests of console or web page at once, three keys, two challenges, one tick |
| `backend_deletion` | a claim of a comment that fails | the same with one request at a time |
| `requests` | what is signed is what is done; what the answer tells | five names, five publishers, three extras, two ticks |
| `accounts_safety` | types, one-time tickets, one account per user, tokens of their owner, no deletion with the token that was read, with all failures on | two users, two requests, two states, four grants, clock 0..2 |
| `accounts_kept` | no row that is there and no consent loses its grant; batches end, tickets go, refused accounts go | the same without failures and lost answers, clock 0..1 |
| `accounts_inactive`, `accounts_resealed`, `accounts_reregister` | claims of comments that fail | one user |

Why the bounds are enough. Two requests at once are what every race of this code
needs: no step involves a third. Two challenges give a re-login, a replay of an
old cipher and a login that overtakes another. Two ticks give a counter that was
used, one that is due and one that is next, and `NonceValue` with `CounterMod`
makes one of the stretches wrap. In the serial and liveness runs the clock goes
one step past every timeout, so that something is idle, old and swept; in
`session_safety` a session counts as idle from its login on (a login sets
`last_activity` behind the cooldown), so one step of the clock is enough. Two
accounts matter where one could touch the other: in the sweep, in the counts of
addresses and in the names of clients. Two states give two registrations of one
user or of two, and two accounts; four grants give both a registration and a
refresh, and one more. Three keys give an account, a reset, and a second reset
that a handler with the first key has not seen. The texts of `requests` are
empty, plain, too long by one, with a space and a plus, and with the separator
that follows or precedes them: two forms of which one's text could be read as the
other's need no more. Bounds are constants with `Max` in their names; they are
guards of the actions that count up, and the theorems hold for every value.

Deadlock is checked in `requests` only: elsewhere, with the bounds reached and
nobody sending a request, the server is idle.

Every property has a mutant in `PROJECT.json`: a plausible slip in the code (a
kept entry, a dropped guard, an off-by-one) that makes TLC report exactly that
property. The operators named `...Kept`, `...Late`, `...Ignored` and so on, each
just before the definition it deforms, are these slips and nothing else uses
them.

### Fairness

`FairSpec` of `SessionManager` assumes weak fairness of every handler in progress
and of the periodic task: tokio polls what it holds, its mutexes are fair, the
blocking calls return, and `tasks/timeout.rs` loops for ever. Nothing is assumed
of clients, of Discord connections, or of restarts.

`FairSpec` of `Accounts` assumes weak fairness of the two clean-ups and of the
batches (they loop for ever) and of every spawned worker. It assumes strong
fairness of `Refused`: a refresh that Discord refuses each time it is asked may
end in a network error many times, but not always. No registration is assumed to
go on.

### What the failing runs show

* `session_overlap` (`verify.rs:159`): two overlapping logins of an account both
  find no session; the second overwrites the first, whose client keeps running
  and whose address stays counted. `NothingOverwritten` proves that nothing less
  than two overlapping requests of an account leads there.
* `backend_deletion` (`delete_account.rs:36`): the session of a deleted account
  stays, because the call that is to stop it gets the account's key where an
  envelope belongs, and its error is dropped.
* `accounts_inactive` (`cleanup.rs:25`): `last_connected` moves with
  registrations only, so an account in daily use is deleted as inactive.
* `accounts_resealed` (`models.rs:32`): a refresh without a new refresh token
  encrypts the stored one twice; the next refresh is refused and the account is
  deleted. `StoredOnce` proves that there is no other way to such a token.
* `accounts_reregister` (`token_refresh.rs:109`): the refusal of an old token
  deletes a row that has a new one by then. `NoOtherDeleted` proves that the
  refresh deletes a live token in no other case.

### What the models allow and no run forbids

* An account collected as idle is terminated although it has become active since
  (`timeout.rs:39`, of which line 26 says "inactive active sessions").
* A re-login from another address, whose session the sweeper removes between the
  two locks, gives the old address back twice and leaves the new one counted
  (`verify.rs:250`; line 229 says "adjust the IP counters accordingly"). The guard
  of `decrement_ip` keeps the count from underflowing, which `TypeOK` says of
  `session_safety`, where the account roams; `IpCountsExact` is for accounts that
  stay at their address.
* A restart, a failed statement (`token_refresh.rs:166`) or a lost answer
  (`token_refresh.rs:102`) after Discord has rotated a token loses the grant;
  `GrantKept` is checked and proved of a server that does not fail and gets its
  answers. It speaks of rows that are there: the deletion of one with an honoured
  token is `accounts_reregister`.
* The answer to `/3ds/script` is signed with the session found after the script was
  read (`get_script.rs:67`). If a reset and an overlapping login of the account come
  in between, that is under another key than the request's. Without an
  overlapping login it cannot be, as only a login changes a session's key.
* A login whose session is removed between its two locks is answered with success
  and leaves no session (`verify.rs:243`): `LoginTakesEffect` counts it as an end.
* A comment (`timeout.rs:27`) gives open challenges 30 s where the constant is 10
  (`cleanup.rs:22`). The models have a bound for it and no seconds: `ChallengeSwept`
  holds of any value and does not decide between the two.

## 4. Proofs

All proofs are for any constants that satisfy the named assumptions
(`ConstantsAssumption`, `NonceAssumption`, `NullAssumption`;
`BackendAssumption`, `NoDeskAssumption`; `AccountsAssumption`,
`NoneAssumption`; `RequestsAssumption`) and are checked by TLAPS.

### SessionManager

* `TypeCorrect`: `Spec => []TypeOK`.
* `ReplayProtection`, `CountersStayFresh`: `NoReplay` and
  `FutureCountersUnused`. The inductive invariant `CounterInv` follows a
  challenge through its life. A challenge is *waiting* while it is not issued,
  pending, or being verified. It waits in one place only (`OnePlace`), no
  session counts from a waiting one (`SessionsNotWaiting`), and none of its
  counter values was used up (`WaitingUnused`). A login that takes effect turns
  a waiting challenge into the base of a session, whose values are therefore
  fresh; using a value up moves the session past it. `NonceAssumption` keeps
  the stretches of two challenges apart. Most sections neither add to the
  waiting challenges nor change a counter (`Shrinks`, `Quiet`), which is proved
  once for all of them.
* `OlderChallengesDie`: `ChallengeOrder`, from the same invariant: answering a
  challenge takes every other one of the account with it, and those issued
  later are younger.
* `ImplementsGuard`: `ReplayGuardSpec`. One lemma per kind of step shows which
  action of `ReplayGuard` it is: a login issues, a verification answers, the
  write of a session installs, a request that ticks uses up one value, and a section
  that is `Shrinks` and `Quiet` retires or stutters. `CounterInv` supplies that
  the value was not used up before and that one login holds a challenge.
* `SessionsHaveGateways`: `SessionHasGateway`. The strengthening says that a
  challenge nobody answered has started no client (`UnstartedNone`), that the
  client a handler holds did start (`HandlersStarted`), and that one about to be
  registered is in no session yet (`NewClients`).

The next five hold under assumptions about the requests, which each theorem
names: `~Overlap`, an account's requests come one after the other, and
`~Cancels`, their connections last. `session_overlap` shows what becomes of them
without the first. The sweeper, dying gateways, restarts and the requests of
other accounts interleave everywhere.

* `LoginsStayInOrder`, `HandlersRemoveTheirOwn`, `NoGatewayLeftBehind`:
  `LoginsInOrder`, `RemovesWhatItSaw` and `NoOrphanGateway`. The inductive
  invariant `SerialClients` stands on `CounterInv` and the gateway invariant and
  adds `OneHandler` (an account has one request in progress) and `ClientInv`: a
  client that is not yet registered is nobody else's (`NewClientsAlone`), a
  handler holds a client of its own account (`HeldOfAccount`), what it saw is
  there still or gone (`SawClient`), and a client that was stopped was stopped by
  the logout about to remove it (`LogoutStopped`, `StoppedByLogout`). None is
  inductive alone: that the session a handler removes is the one it saw needs
  that no login of the account registered another meanwhile.
* `NothingOverwritten`: `FreshSessionOnly`, the claim that `session_overlap`
  refutes, under `~Overlap` alone. It follows from `LoginsInOrder`: while a login
  is on its way to register a session, its account has none.
* `CountsAreExact`: `IpCountsExact`, with finitely many accounts and requests
  and one address per account. `AtHome` says that sessions and handlers carry
  that address; `Exact` counts the sessions of an address and the handlers
  between the two tables. Each step moves one of them from one set to the other
  or adds it to, or takes it from, both sides.
* `CountsNeverLow`: without `~Overlap` and `~Cancels`, for one address per
  account, `Covers` keeps the counts from being too low. Every step balances the
  two sides except two, which leave an address counted for nobody (`Forgets`): a
  handler dropped between its two sections, and a login that inserts a session
  over another one. So what overlaps and drops cost is an address counted too high
  until a restart, never a session that is not counted. For accounts that change
  address it does not hold: two overlapping re-logins from new addresses each take
  the old one away.

### Backend

* `UsesSessionStore`: every behaviour of `Backend` is one of `SessionManager`.
  Each step is an action of it with values found in the table, or leaves its
  variables alone. Hence `NoReplayBehindTable`, and every other theorem about
  `SessionManager`.
* `BackendTypeCorrect`: `BackendTypeOK`.
* `DeletedForGood`: `GoneStaysGone`, step by step: only `CreateRow` makes a row
  and only for an account that never had one; only a login past its read installs
  a session, and none is left. `Known` adds that sessions, logins and desks speak
  of accounts that were created and keys that were drawn.
* `KeysInOrder`: `LoginKeysInOrder`, under `~Overlap`: a session's key is no newer
  than that of its row or of a login under way. The invariant adds that one
  handler is engaged with an account's console, at a desk or in the store
  (`Alone`), and that what a login has read is no newer than the row
  (`ReadsNotNewer`).

### Accounts

* `TypeCorrect`: `TypeOK`, strengthened by `StoreOK`: a worker that stores
  without a new token has a snapshot encrypted once, because Discord honoured
  it. Hence a column is encrypted once or twice, never more.
* `StatesOneTime`, `ConsentsOneTime`: both tables implement `OneTime`. The
  strengthening (`StatesInv`, `ConsentsInv`) says that entries have names of
  their own, issued and not yet served, and that names not yet issued have not
  served. A step of `Accounts` maps to a step of `OneTime` or to a stutter.
* `OneAccount`: the insert is refused when the person has a row, and no other
  step adds a row or changes its person (`RowComesFrom`).
* `TokensOfTheirUser`: `TokensOwned`. It needs to know that an account number
  stands for one person in rows, consents, requests and workers alike, even
  when the row is deleted and a stale handler comes back (`OnePerson`), which
  in turn needs that nothing claims a number before its consent is issued
  (`ClaimsIssued`). With it, whoever holds a grant is its owner (`HoldersOwn`).
  Four lemmas say where a row, a consent, a request and a worker come from.

* `GrantsKept`: `GrantKept`, under `~Fails`, `~RevokesMidway`, `~OmitsToken` and
  `~LosesAnswers`: a failed write after Discord's answer, a revocation under a
  handler, a token encrypted twice and a lost answer do lose grants. What is left
  is what overlaps: registrations of one user, and a refresh that works from a
  snapshot while its user registers anew. It says nothing of rows that are deleted.
  The invariant (`KeptInv`) follows each grant to
  the row. A grant is kept in one place (`HeldOnce`): a request that has not spent
  it, a consent, or an account with its row and its worker. What a request or a
  consent keeps, and what a worker is about to store, Discord honours
  (`UnspentLive`, `StoresLive`): a grant stops being live when it is rotated,
  which is done by the one account that keeps it, or when its user revokes, which
  no step in progress sees. And where the row's own token is not honoured
  (`AllCovered`), a registration of that user is on its way to the row or its
  worker is about to write. This needs that a request about to update has found
  this very row, the only one of its user (`OwnedInv`); `GrantKept` alone does not
  say so and is not inductive.
* `StoredOnce`: `StoredTokenReadable`, the claim that `accounts_resealed` refutes,
  under `~OmitsToken`: a worker about to store then has a new token
  (`StoresNew`). Failures and overlaps do not matter here.
* `NoOtherDeleted`: `DeletesRefusedToken`, under every failure. A worker about to
  delete has a snapshot whose token Discord does not honour, and never will again
  (`RefusedForGood`): only grants that nobody had become live
  (`OnlyFreshBecomeLive`), and this one has an owner by `HoldersOwn`.

### Requests

* `TypeCorrect`: `TypeOK`; every answer has a code the protocol knows.
* `SignedIsDone`: `ActsAsAsked`, for texts of any length. The server hashes the
  fields one behind the other, so it must be shown that the text determines them.
  `GameLayout` says at which position of the text each field and each separator
  stands. An encoded symbol is never a separator (`SymbolEncoding`), so two games
  with one text have their separators at the same positions, hence fields of the
  same length with the same encoded symbols, hence the same fields
  (`EncodingInjective`, `GameUnique`). Texts of different routes differ in length;
  only the forms without fields share the empty one (`FormOfText`). Positions take
  the place of an induction over the text.
* `UnalteredIsAccepted`: `UnalteredPasses`. What the server rebuilds from a form is
  what the console signed (`SignedIsRebuilt`).
* `AnswerTellsTick`, `AnswerOrdersLogin`: `ReplyTellsTick` and `ReloginIsNeeded`.
  A form that fails has a first failing check, and the codes of checks are none of
  the store's (`FormCodes`, `CodesApart`).

### Left to TLC

Liveness (`ExpiredSwept`, `ChallengeSwept`, `LoginTakesEffect`, `TicketsSwept`,
`BatchEnds`, `RevokedAccountGoes`): the prover does not handle fairness. Every
other property of a passing run is a theorem.

## 5. Not modelled

* Configuration, logging, headers, the Mii name parser and the export of an
  account's data keep no state and decide nothing but the answer to one request.
  So do the checks of fields other than those of `Requests`.
* Cryptography: ciphers, hashes and random numbers are taken as perfect.
* The presence sent to Discord and `user_info`: no decision reads them. Two
  updates of an account may reach Discord out of order (`activity.rs:189`).
* `max_clients_per_ip` is read from the environment (`config.rs:41`) and compared
  with nothing.
* `Backend` has the key and `Accounts` the tokens of one and the same row. No
  step of the code reads both but the answer to a returning user, which carries
  the key of the row it found.

## 6. Plan

Done: the session store, accounts, the session store behind the users table,
requests and their answers; the theorems on each. Next:

1. `Backend` with the answers of a registration (`register.rs:155`), which carry
   the key that was read, so that a console holding an overwritten key is seen.
2. The order of updates at Discord (`activity.rs:189`), once the client library
   says what it promises.
