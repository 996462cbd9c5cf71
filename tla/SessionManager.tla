--------------------------- MODULE SessionManager ---------------------------
(***************************************************************************)
(* The session store of the presence server: src/src/session/*.rs, driven  *)
(* by the routes login, login/verify, set, heartbeat, 3ds/script and       *)
(* logout and by the periodic task of src/src/tasks/timeout.rs.            *)
(*                                                                         *)
(* Each of the tables is behind its own tokio Mutex.  No critical section  *)
(* of the code awaits and none is nested in another one, so a critical     *)
(* section is one action here, and handlers interleave between sections.   *)
(* A handler that fails without having changed anything leaves the state   *)
(* alone: it is a stuttering step.                                         *)
(***************************************************************************)
EXTENDS Integers, FiniteSets

CONSTANTS
  Uuid,            \* accounts
  Ip,              \* client addresses
  Key,             \* account AES keys
  Task,            \* slots for requests in progress
  Sweeper,         \* the periodic task of tasks/timeout.rs
  MaxNonce,        \* bound: challenges ever issued
  MaxTicks,        \* bound: counter ticks after one login
  CounterMod,      \* 2^64 in the code: the counter is a u64 and wraps
  NonceValue,      \* the random value drawn for the n-th challenge
  MaxTime,         \* bound: the clock
  Cooldown,        \* activity_cooldown_secs
  SessionTimeout,  \* session_timeout_secs
  PendingTimeout,  \* PENDING_TIMEOUT_SECS
  Home,            \* the addresses an account connects from
  Overlap,         \* may two requests of one account be in progress at once?
  Cancels,         \* may a connection close while its handler runs?
  NoSession, NoRequest

Nonce == 1 .. MaxNonce
CounterValue == 0 .. CounterMod - 1
Actor == Task \cup {Sweeper}

\* The u64 value of a counter that started at the n-th nonce, after k ticks.
Value(n, k) == (NonceValue[n] + k) % CounterMod

ASSUME ConstantsAssumption ==
  /\ MaxNonce \in Nat /\ MaxTicks \in Nat /\ MaxTime \in Nat
  /\ CounterMod \in Nat \ {0}
  /\ Cooldown \in Nat /\ SessionTimeout \in Nat /\ PendingTimeout \in Nat
  /\ NonceValue \in [Nonce -> CounterValue]
  /\ Home \in [Uuid -> SUBSET Ip]
  /\ Overlap \in BOOLEAN /\ Cancels \in BOOLEAN
  /\ Sweeper \notin Task

\* Random 64-bit nonces: the stretches of counter values that two logins use
\* do not meet, and a stretch is shorter than the range of the counter.
ASSUME NonceAssumption ==
  \A m, n \in Nonce, j, k \in 0 .. MaxTicks :
    Value(m, j) = Value(n, k) => m = n /\ j = k

VARIABLES
  sessions,        \* SessionManager.sessions: at most one entry per account
  ip_counts,       \* SessionManager.ip_counts; 0 stands for an absent entry
  pending_logins,  \* SessionManager.pending_logins, keyed by (uuid, cipher)
  gateway,         \* the Discord clients, named by the challenge they serve
  pc,              \* where each handler in progress is
  loc,             \* its local variables
  todo,            \* accounts the sweeper has collected and not yet removed
  now,             \* the clock
  next_nonce,      \* the next challenge to issue
  ticked           \* history: how often each counter value was used up

table == <<sessions, ip_counts, pending_logins>>
world == <<now, next_nonce, ticked>>
vars == <<sessions, ip_counts, pending_logins, gateway, pc, loc, todo,
          now, next_nonce, ticked>>

(***************************************************************************)
(* Types.                                                                  *)
(***************************************************************************)

\* A session's counter: the nonce it was set to, and the ticks since.
Counter == [nonce : Nonce, ticks : 0 .. MaxTicks]

Session == [client : Nonce, aes_key : Key, counter : Counter,
            last_activity : Int, client_ip : Ip]

\* The cipher a client must send back is the encryption of nonce under key.
PendingVerify == [uuid : Uuid, key : Key, nonce : Nonce, created_at : Nat]

Request == [uuid : Uuid, key : Key \cup {NoRequest}, ip : Ip \cup {NoRequest},
            old_ip : Ip \cup {NoRequest}, nonce : 0 .. MaxNonce,
            client : 0 .. MaxNonce, at : Int]

ASSUME NullAssumption == NoSession \notin Session /\ NoRequest \notin Request

VerifyPc == {"lookup", "start", "promote_count", "promote_insert",
             "update_read", "update_count", "update_write"}
TickPc == {"check_alive", "remove"}
LogoutPc == {"stop", "logout_remove", "logout_uncount"}
RemovalPc == {"uncount", "stop_removed"}

TaskPc == {"idle"} \cup VerifyPc \cup TickPc \cup LogoutPc \cup RemovalPc
SweeperPc == {"idle", "sweep"} \cup RemovalPc

\* The local variables r that a handler at label reads further on are set.
LocOK(label, r) ==
  /\ r = NoRequest <=> label \in {"idle", "sweep"}
  /\ label \in VerifyPc => r.key \in Key /\ r.ip \in Ip /\ r.nonce \in Nonce
  /\ label = "update_count" => r.old_ip \in Ip
  /\ label \in {"promote_count", "promote_insert"} \cup TickPc \cup LogoutPc \cup RemovalPc
     => r.client \in Nonce
  /\ label \in RemovalPc \cup {"logout_uncount"} => r.ip \in Ip

TablesOK ==
  /\ sessions \in [Uuid -> Session \cup {NoSession}]
  /\ ip_counts \in [Ip -> Nat]
  /\ pending_logins \in SUBSET PendingVerify
  /\ gateway \in [Nonce -> {"none", "alive", "dead", "stopped"}]

ControlOK ==
  /\ pc \in [Actor -> TaskPc \cup SweeperPc]
  /\ loc \in [Actor -> Request \cup {NoRequest}]
  /\ \A t \in Task : pc[t] \in TaskPc
  /\ pc[Sweeper] \in SweeperPc
  /\ \A a \in Actor : LocOK(pc[a], loc[a])
  /\ todo \in SUBSET Uuid

WorldOK ==
  /\ now \in 0 .. MaxTime
  /\ next_nonce \in 1 .. MaxNonce + 1
  /\ ticked \in [Uuid -> [CounterValue -> Nat]]

\* The tables hold what their Rust types allow (a count, a usize, is never
\* negative: mod.rs:69), and each handler what its sections have set.
TypeOK == TablesOK /\ ControlOK /\ WorldOK

(***************************************************************************)
(* Small operations the handlers share.                                    *)
(***************************************************************************)

Local(u, k, ip, n, c) ==
  [uuid |-> u, key |-> k, ip |-> ip, old_ip |-> NoRequest,
   nonce |-> n, client |-> c, at |-> 0]

\* A request of account u may start.
Free(u) == Overlap \/ \A t \in Task : pc[t] # "idle" => loc[t].uuid # u

Begin(t, u, label, request) ==
  /\ t \in Task
  /\ pc[t] = "idle"
  /\ Free(u)
  /\ pc' = [pc EXCEPT ![t] = label]
  /\ loc' = [loc EXCEPT ![t] = request]

Goto(a, label) == pc' = [pc EXCEPT ![a] = label]

Done(a) ==
  /\ pc' = [pc EXCEPT ![a] = IF a = Sweeper THEN "sweep" ELSE "idle"]
  /\ loc' = [loc EXCEPT ![a] = NoRequest]

\* stop_discord_client.
Stopped(c) == [gateway EXCEPT ![c] = "stopped"]

IncrementIp(ip) == [ip_counts EXCEPT ![ip] = @ + 1]

\* decrement_ip: the entry of an address goes with its last session.
DecrementIpUnguarded(ip) == [ip_counts EXCEPT ![ip] = @ - 1]
DecrementIpKeepsOne(ip) == [ip_counts EXCEPT ![ip] = IF @ > 1 THEN @ - 1 ELSE @]
DecrementIp(ip) == [ip_counts EXCEPT ![ip] = IF @ > 1 THEN @ - 1 ELSE 0]

CooldownOver(s) == now - s.last_activity >= Cooldown

SessionExpired(s) == now - s.last_activity > SessionTimeout

PendingExpired(p) == now - p.created_at > PendingTimeout

\* What a login sets last_activity to: the first activity needs no wait.
BeforeCooldown == now - (Cooldown + 1)

\* verify_activity_auth of an envelope made with key k over counter value v.
VerifyAuthCurrent(s, k, v) ==
  k = s.aes_key /\ v = Value(s.counter.nonce, s.counter.ticks)
VerifyAuth(s, k, v) ==
  k = s.aes_key /\ v = Value(s.counter.nonce, s.counter.ticks + 1)

\* Storing good_counter.
TickLost(s) == s
Tick(s) ==
  [s EXCEPT !.counter = [nonce |-> s.counter.nonce, ticks |-> s.counter.ticks + 1]]

NewSession(r) ==
  [client |-> r.client, aes_key |-> r.key,
   counter |-> [nonce |-> r.nonce, ticks |-> 0],
   last_activity |-> r.at, client_ip |-> r.ip]

\* The metadata of a login replaces that of the session it finds; its Discord
\* client stays.
WriteSessionKeepsCounter(s, r) ==
  [s EXCEPT !.aes_key = r.key, !.last_activity = r.at, !.client_ip = r.ip]
WriteSession(s, r) == NewSession([r EXCEPT !.client = s.client])

(***************************************************************************)
(* Initial state, and what a restart of the process leaves: nothing of the *)
(* session store survives it.                                              *)
(***************************************************************************)

Init ==
  /\ sessions = [u \in Uuid |-> NoSession]
  /\ ip_counts = [i \in Ip |-> 0]
  /\ pending_logins = {}
  /\ gateway = [n \in Nonce |-> "none"]
  /\ pc = [a \in Actor |-> "idle"]
  /\ loc = [a \in Actor |-> NoRequest]
  /\ todo = {}
  /\ now = 0
  /\ next_nonce = 1
  /\ ticked = [u \in Uuid |-> [v \in CounterValue |-> 0]]

Restart ==
  /\ sessions' = [u \in Uuid |-> NoSession]
  /\ ip_counts' = [i \in Ip |-> 0]
  /\ pending_logins' = {}
  /\ gateway' = [n \in Nonce |-> IF gateway[n] = "alive" THEN "dead" ELSE gateway[n]]
  /\ pc' = [a \in Actor |-> "idle"]
  /\ loc' = [a \in Actor |-> NoRequest]
  /\ todo' = {}
  /\ UNCHANGED world

(***************************************************************************)
(* POST /login: one challenge more for the account, under the key its row  *)
(* holds.  The nonce is drawn at random; 1, 2, ... is the order of issue.  *)
(***************************************************************************)

PendingFor(u, k) == [uuid |-> u, key |-> k, nonce |-> next_nonce, created_at |-> now]

Login(u, k) ==
  /\ next_nonce <= MaxNonce
  /\ pending_logins' = pending_logins \cup {PendingFor(u, k)}
  /\ next_nonce' = next_nonce + 1
  /\ UNCHANGED <<sessions, ip_counts, gateway, pc, loc, todo, now, ticked>>

(***************************************************************************)
(* POST /login/verify by a client that sends back the cipher of challenge  *)
(* p, k being the key the account's row holds by then.  A submission that  *)
(* matches no pending challenge changes nothing.                           *)
(***************************************************************************)

\* extract_pending_login: the challenge is consumed, and with it every other
\* one of the account.
ExtractKeepsOthers(p) == pending_logins \ {p}
ExtractNothing(p) == pending_logins
Extract(p) == {q \in pending_logins : q.uuid # p.uuid}

Verify(t, p, k, ip) ==
  /\ p \in pending_logins
  /\ ip \in Home[p.uuid]
  /\ Begin(t, p.uuid, "lookup", Local(p.uuid, k, ip, p.nonce, 0))
  /\ pending_logins' = Extract(p)
  /\ UNCHANGED <<sessions, ip_counts, gateway, todo, world>>

\* Is there a session to update, or must a Discord client be started?
Lookup(t) ==
  /\ pc[t] = "lookup"
  /\ IF sessions[loc[t].uuid] = NoSession
     THEN Goto(t, "start") /\ UNCHANGED loc
     ELSE Goto(t, "update_read") /\ loc' = [loc EXCEPT ![t].at = BeforeCooldown]
  /\ UNCHANGED <<table, gateway, todo, world>>

\* create_and_start_client: the Discord library starts the client...
StartOk(t) ==
  /\ pc[t] = "start"
  /\ gateway' = [gateway EXCEPT ![loc[t].nonce] = "alive"]
  /\ loc' = [loc EXCEPT ![t].client = loc[t].nonce]
  /\ Goto(t, "promote_count")
  /\ UNCHANGED <<table, todo, world>>

\* ... or reports an error (a revoked token, no network): the login fails.
StartFailIgnored(t) ==
  /\ pc[t] = "start"
  /\ loc' = [loc EXCEPT ![t].client = loc[t].nonce]
  /\ Goto(t, "promote_count")
  /\ UNCHANGED <<table, gateway, todo, world>>
StartFail(t) ==
  /\ pc[t] = "start"
  /\ Done(t)
  /\ UNCHANGED <<table, gateway, todo, world>>

\* promote_to_active: the address is counted under one lock, ...
PromoteCount(t) ==
  /\ pc[t] = "promote_count"
  /\ ip_counts' = IncrementIp(loc[t].ip)
  /\ loc' = [loc EXCEPT ![t].at = BeforeCooldown]
  /\ Goto(t, "promote_insert")
  /\ UNCHANGED <<sessions, pending_logins, gateway, todo, world>>

\* ... and the session inserted under another; an entry of the account that
\* is there by now is overwritten.
PromoteInsert(t) ==
  /\ pc[t] = "promote_insert"
  /\ sessions' = [sessions EXCEPT ![loc[t].uuid] = NewSession(loc[t])]
  /\ Done(t)
  /\ UNCHANGED <<ip_counts, pending_logins, gateway, todo, world>>

\* update_active_session: the session may be gone by now, which ends the
\* handler; under an unchanged address the lock is kept and the session written.
UpdateRead(t) ==
  LET u == loc[t].uuid IN
  /\ pc[t] = "update_read"
  /\ \/ /\ sessions[u] = NoSession
        /\ Done(t)
        /\ UNCHANGED sessions
     \/ /\ sessions[u] # NoSession
        /\ sessions[u].client_ip = loc[t].ip
        /\ sessions' = [sessions EXCEPT ![u] = WriteSession(@, loc[t])]
        /\ Done(t)
     \/ /\ sessions[u] # NoSession
        /\ sessions[u].client_ip # loc[t].ip
        /\ loc' = [loc EXCEPT ![t].old_ip = sessions[u].client_ip]
        /\ Goto(t, "update_count")
        /\ UNCHANGED sessions
  /\ UNCHANGED <<ip_counts, pending_logins, gateway, todo, world>>

\* Another address: the counts are moved with the sessions lock dropped, ...
UpdateCount(t) ==
  /\ pc[t] = "update_count"
  /\ ip_counts' = [DecrementIp(loc[t].old_ip) EXCEPT ![loc[t].ip] = @ + 1]
  /\ Goto(t, "update_write")
  /\ UNCHANGED <<sessions, pending_logins, gateway, loc, todo, world>>

\* ... and the session is written if it is still there.
UpdateWrite(t) ==
  LET u == loc[t].uuid IN
  /\ pc[t] = "update_write"
  /\ sessions' = IF sessions[u] = NoSession THEN sessions
                 ELSE [sessions EXCEPT ![u] = WriteSession(@, loc[t])]
  /\ Done(t)
  /\ UNCHANGED <<ip_counts, pending_logins, gateway, todo, world>>

(***************************************************************************)
(* Requests of a session.  The envelope is checked and the counter moved   *)
(* on under one lock.                                                      *)
(***************************************************************************)

\* A request has used the counter value v up: last_counter is moved on to it.
CountTick(u, v) == ticked' = [ticked EXCEPT ![u][v] = @ + 1]

\* POST /set and /heartbeat (authenticate_and_tick): at most one per cooldown.
Activity(t, u, k, v) ==
  /\ sessions[u] # NoSession
  /\ CooldownOver(sessions[u])
  /\ VerifyAuth(sessions[u], k, v)
  /\ sessions[u].counter.ticks < MaxTicks
  /\ Begin(t, u, "check_alive", Local(u, NoRequest, NoRequest, 0, sessions[u].client))
  /\ sessions' = [sessions EXCEPT ![u] = [Tick(@) EXCEPT !.last_activity = now]]
  /\ CountTick(u, v)
  /\ UNCHANGED <<ip_counts, pending_logins, gateway, todo, now, next_nonce>>

\* ensure_client_alive: a connection that is only reconnecting counts as alive,
\* a revoked token, a network error and a stopped client do not.  A request
\* that finds its client dead removes the session.  What set_activity then
\* sends to Discord is not modelled.
AliveFrom(status) == status = "alive"

CheckAlive(t) ==
  /\ pc[t] = "check_alive"
  /\ IF AliveFrom(gateway[loc[t].client]) THEN Done(t)
     ELSE Goto(t, "remove") /\ UNCHANGED loc
  /\ UNCHANGED <<table, gateway, todo, world>>

\* POST /3ds/script (verify_and_tick): no cooldown, last_activity unchanged.
Script(u, k, v) ==
  /\ Free(u)
  /\ sessions[u] # NoSession
  /\ VerifyAuth(sessions[u], k, v)
  /\ sessions[u].counter.ticks < MaxTicks
  /\ sessions' = [sessions EXCEPT ![u] = Tick(@)]
  /\ CountTick(u, v)
  /\ UNCHANGED <<ip_counts, pending_logins, gateway, pc, loc, todo, now, next_nonce>>

\* POST /logout (stop_activity): the counter is checked and not moved on, ...
Logout(t, u, k, v) ==
  /\ sessions[u] # NoSession
  /\ VerifyAuth(sessions[u], k, v)
  /\ Begin(t, u, "stop", Local(u, NoRequest, NoRequest, 0, sessions[u].client))
  /\ UNCHANGED <<table, gateway, todo, world>>

\* ... the client seen then is stopped, ...
LogoutStop(t) ==
  /\ pc[t] = "stop"
  /\ gateway' = Stopped(loc[t].client)
  /\ Goto(t, "logout_remove")
  /\ UNCHANGED <<table, loc, todo, world>>

(***************************************************************************)
(* remove_session takes whatever session the account has now out of the    *)
(* table, then, under the other lock, gives its address back;              *)
(* terminate_session then stops the client it took out.                    *)
(***************************************************************************)

Remove(a, u, label) ==
  /\ sessions' = [sessions EXCEPT ![u] = NoSession]
  /\ IF sessions[u] = NoSession THEN Done(a)
     ELSE /\ loc' = [loc EXCEPT ![a] =
                       Local(u, NoRequest, sessions[u].client_ip, 0, sessions[u].client)]
          /\ Goto(a, label)
  /\ UNCHANGED <<ip_counts, pending_logins, gateway, world>>

LogoutRemoveSkipped(t) ==
  /\ pc[t] = "logout_remove"
  /\ Done(t)
  /\ UNCHANGED <<table, gateway, todo, world>>
LogoutRemove(t) ==
  /\ pc[t] = "logout_remove"
  /\ Remove(t, loc[t].uuid, "logout_uncount")
  /\ UNCHANGED todo

RemoveDead(t) ==
  /\ pc[t] = "remove"
  /\ Remove(t, loc[t].uuid, "uncount")
  /\ UNCHANGED todo

LogoutUncount(t) ==
  /\ pc[t] = "logout_uncount"
  /\ ip_counts' = DecrementIp(loc[t].ip)
  /\ Done(t)
  /\ UNCHANGED <<sessions, pending_logins, gateway, todo, world>>

Uncount(a) ==
  /\ pc[a] = "uncount"
  /\ ip_counts' = DecrementIp(loc[a].ip)
  /\ Goto(a, "stop_removed")
  /\ UNCHANGED <<sessions, pending_logins, gateway, loc, todo, world>>

StopRemovedNot(a) ==
  /\ pc[a] = "stop_removed"
  /\ Done(a)
  /\ UNCHANGED <<table, gateway, todo, world>>
StopRemoved(a) ==
  /\ pc[a] = "stop_removed"
  /\ gateway' = Stopped(loc[a].client)
  /\ Done(a)
  /\ UNCHANGED <<table, todo, world>>

(***************************************************************************)
(* tasks/timeout.rs: collect the accounts whose session is idle, terminate *)
(* them one after the other, then drop the expired challenges.             *)
(***************************************************************************)

ExpiredActiveLate ==
  {u \in Uuid : sessions[u] # NoSession
                /\ now - sessions[u].last_activity > SessionTimeout + 1}
ExpiredActive == {u \in Uuid : sessions[u] # NoSession /\ SessionExpired(sessions[u])}

SweepCollect ==
  /\ pc[Sweeper] = "idle"
  /\ todo' = ExpiredActive
  /\ Goto(Sweeper, "sweep")
  /\ UNCHANGED <<table, gateway, loc, world>>

SweepRemove(u) ==
  /\ pc[Sweeper] = "sweep"
  /\ u \in todo
  /\ todo' = todo \ {u}
  /\ Remove(Sweeper, u, "uncount")

\* Collecting the expired challenges and removing them one by one comes to the
\* same as removing them at once: an entry never changes, a key is never reused.
UnexpiredLoginsLate == {p \in pending_logins : now - p.created_at <= PendingTimeout + 1}
UnexpiredLogins == {p \in pending_logins : ~PendingExpired(p)}

SweepPending ==
  /\ pc[Sweeper] = "sweep"
  /\ todo = {}
  /\ pending_logins' = UnexpiredLogins
  /\ Goto(Sweeper, "idle")
  /\ UNCHANGED <<sessions, ip_counts, gateway, loc, todo, world>>

(***************************************************************************)
(* The environment.                                                        *)
(***************************************************************************)

\* Discord closes a connection, or the user revokes the token.
GatewayDies(c) ==
  /\ gateway[c] = "alive"
  /\ gateway' = [gateway EXCEPT ![c] = "dead"]
  /\ UNCHANGED <<table, pc, loc, todo, world>>

\* The connection closes and the handler is dropped at an await.  A call on a
\* blocking thread runs to its end first: "start", "stop" and "stop_removed"
\* are left by their own step, and the handler is dropped after it.
Cancel(t) ==
  /\ Cancels
  /\ pc[t] \notin {"idle", "start", "stop", "stop_removed"}
  /\ Done(t)
  /\ UNCHANGED <<table, gateway, todo, world>>

Time ==
  /\ now < MaxTime
  /\ now' = now + 1
  /\ UNCHANGED <<table, gateway, pc, loc, todo, next_nonce, ticked>>

TaskStep(t) ==
  \/ Lookup(t) \/ StartOk(t) \/ StartFail(t)
  \/ PromoteCount(t) \/ PromoteInsert(t)
  \/ UpdateRead(t) \/ UpdateCount(t) \/ UpdateWrite(t)
  \/ CheckAlive(t) \/ LogoutStop(t) \/ LogoutRemove(t) \/ LogoutUncount(t)
  \/ RemoveDead(t) \/ Uncount(t) \/ StopRemoved(t)

SweeperStep ==
  \/ SweepCollect \/ SweepPending
  \/ \E u \in Uuid : SweepRemove(u)
  \/ Uncount(Sweeper) \/ StopRemoved(Sweeper)

NewRequest ==
  \/ \E u \in Uuid, k \in Key : Login(u, k)
  \/ \E t \in Task, p \in pending_logins, k \in Key, ip \in Ip : Verify(t, p, k, ip)
  \/ \E t \in Task, u \in Uuid, k \in Key, v \in CounterValue : Activity(t, u, k, v)
  \/ \E u \in Uuid, k \in Key, v \in CounterValue : Script(u, k, v)
  \/ \E t \in Task, u \in Uuid, k \in Key, v \in CounterValue : Logout(t, u, k, v)

Environment ==
  \/ \E c \in Nonce : GatewayDies(c)
  \/ \E t \in Task : Cancel(t)
  \/ Time
  \/ Restart

Next ==
  \/ NewRequest
  \/ \E t \in Task : TaskStep(t)
  \/ SweeperStep
  \/ Environment

Spec == Init /\ [][Next]_vars

\* The runtime polls every task it holds, a tokio Mutex is fair, the Discord
\* library's calls return, and the timeout task loops for ever.  Nothing makes
\* a client send a request, a connection close or the process restart.
FairSpec ==
  /\ Spec
  /\ \A t \in Task : WF_vars(TaskStep(t))
  /\ WF_vars(SweeperStep)

(***************************************************************************)
(* Properties of every behaviour, whatever overlaps and wherever a handler *)
(* is dropped.                                                             *)
(***************************************************************************)

\* A challenge is being verified for account u.
Verifying(t, u) == pc[t] \in VerifyPc /\ loc[t].uuid = u

\* A counter value is used up by one request at most of an account, across
\* re-logins, sweeps and restarts: what the single lock section of
\* authenticate_and_tick and verify_and_tick is for (activity.rs:86).  A logout
\* checks the next value and leaves the counter alone (activity.rs:52): it uses
\* none up, and the value it was accepted with is not counted.
NoReplay == \A u \in Uuid, v \in CounterValue : ticked[u][v] <= 1

\* None of the counter values a live session has still to count through was
\* ever used up: no login may set the counter back (verify.rs:221, 269).
FutureCountersUnused ==
  \A u \in Uuid : sessions[u] # NoSession =>
    \A k \in sessions[u].counter.ticks + 1 .. MaxTicks :
      ticked[u][Value(sessions[u].counter.nonce, k)] = 0

\* A challenge that can still be answered is younger than every login that was
\* or is being verified for its account: an answered challenge leaves no older
\* one behind (extract_pending_login, verify.rs:74).
ChallengeOrder ==
  \A p \in pending_logins :
    /\ \A t \in Task : Verifying(t, p.uuid) => loc[t].nonce < p.nonce
    /\ sessions[p.uuid] # NoSession => sessions[p.uuid].counter.nonce < p.nonce

\* A registered session has a Discord client that did start (verify.rs:195), and
\* no client serves two sessions.
SessionHasGateway ==
  /\ \A u \in Uuid : sessions[u] # NoSession => gateway[sessions[u].client] # "none"
  /\ \A u, w \in Uuid :
       /\ sessions[u] # NoSession /\ sessions[w] # NoSession
       /\ sessions[u].client = sessions[w].client
       => u = w

\* What the tables and the handlers in progress show of the challenges.
IssuedNow == {<<p.uuid, p.nonce>> : p \in pending_logins}
AnsweredNow ==
  {<<loc[t].uuid, loc[t].nonce>> : t \in {s \in Task : pc[s] \in VerifyPc}}
CurrentNow ==
  {<<u, sessions[u].counter.nonce>> : u \in {w \in Uuid : sessions[w] # NoSession}}
CounterSpan(n) == {Value(n, k) : k \in 1 .. MaxTicks}

Guard == INSTANCE ReplayGuard WITH
  Account <- Uuid, Challenge <- Nonce, Counter <- CounterValue,
  Span <- CounterSpan,
  used <- 1 .. next_nonce - 1, issued <- IssuedNow,
  answered <- AnsweredNow, current <- CurrentNow, spent <- ticked

\* The session store implements the promise of ReplayGuard: every section of
\* every handler is one of its steps or changes nothing it talks about.
ReplayGuardSpec == Guard!Spec

(***************************************************************************)
(* Properties of an account whose requests do not overlap and are not      *)
(* dropped: the sweeper, the gateway and the other accounts still          *)
(* interleave with every section of its handlers.                          *)
(***************************************************************************)

\* Every address is counted once for each session under it, and for each
\* session between the two sections that insert or remove one: ip_counts is
\* exact whenever no handler is in between (mod.rs:69, verify.rs:209,
\* cleanup.rs:93).
IpCountsExact ==
  \A i \in Ip :
    ip_counts[i] =
      Cardinality({u \in Uuid : sessions[u] # NoSession /\ sessions[u].client_ip = i})
      + Cardinality({a \in Actor :
          pc[a] \in {"promote_insert", "uncount", "logout_uncount"} /\ loc[a].ip = i})

\* A Discord connection that is up belongs to a registered session or to a
\* handler that will register or stop it: none is left running for nobody.
NoOrphanGateway ==
  \A c \in Nonce : gateway[c] = "alive" =>
    \/ \E u \in Uuid : sessions[u] # NoSession /\ sessions[u].client = c
    \/ \E a \in Actor :
         /\ pc[a] \in {"promote_count", "promote_insert", "uncount", "stop_removed"}
         /\ loc[a].client = c

\* A handler about to remove a session by account removes the session it
\* authenticated against (activity.rs:248, 176, 236), and a session whose client
\* was stopped has that handler behind it (activity.rs:268).
RemovesWhatItSaw ==
  /\ \A t \in Task :
       pc[t] \in {"remove", "logout_remove"} /\ sessions[loc[t].uuid] # NoSession
       => sessions[loc[t].uuid].client = loc[t].client
  /\ \A u \in Uuid :
       sessions[u] # NoSession /\ gateway[sessions[u].client] = "stopped"
       => \E t \in Task : pc[t] = "logout_remove" /\ loc[t].uuid = u

\* A login being verified is newer than the session it will replace, and none
\* can slip in while a new client is started.
LoginsInOrder ==
  \A t \in Task, u \in Uuid :
    Verifying(t, u) /\ sessions[u] # NoSession =>
      /\ sessions[u].counter.nonce < loc[t].nonce
      /\ pc[t] \notin {"start", "promote_count", "promote_insert"}

\* An idle session does not stay: it is removed, or its account is active again.
ExpiredSwept ==
  \A u \in Uuid :
    sessions[u] # NoSession /\ SessionExpired(sessions[u])
    ~> sessions[u] = NoSession \/ ~SessionExpired(sessions[u])

\* A challenge that was never answered does not stay in the table.
ChallengeSwept ==
  \A n \in Nonce :
    (\E p \in pending_logins : p.nonce = n /\ PendingExpired(p))
    ~> ~\E p \in pending_logins : p.nonce = n

\* A login whose Discord client started ends in a session that counts from its
\* challenge, unless that client dies first; a re-login does the same, unless
\* the session is removed under it.
LoginTakesEffect ==
  \A t \in Task, u \in Uuid, n \in Nonce :
    LET mine == loc[t] # NoRequest /\ loc[t].uuid = u /\ loc[t].nonce = n
        counts == sessions[u] # NoSession /\ sessions[u].counter.nonce = n
    IN /\ (mine /\ pc[t] = "promote_count") ~> (counts \/ gateway[n] # "alive")
       /\ (mine /\ pc[t] = "update_read") ~> (counts \/ sessions[u] = NoSession)

(***************************************************************************)
(* What comments of the code say of it, and it does not keep.              *)
(***************************************************************************)

\* verify.rs:159, "First connection (or previous session already cleaned up)":
\* a session is registered only where there is none.
FreshSessionOnly ==
  \A t \in Task : pc[t] = "promote_insert" => sessions[loc[t].uuid] = NoSession
=============================================================================
