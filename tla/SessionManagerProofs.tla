------------------------ MODULE SessionManagerProofs ------------------------
(***************************************************************************)
(* Proofs about SessionManager, for any number of accounts, addresses,     *)
(* requests in progress, challenges and ticks.                             *)
(***************************************************************************)
EXTENDS SessionManager, TLAPS

USE DEF Actor, Nonce

\* Every counter value is a value of the u64.
LEMMA ValueType == \A n \in Nonce, k \in Nat : Value(n, k) \in CounterValue
  <1> SUFFICES ASSUME NEW n \in Nonce, NEW k \in Nat PROVE Value(n, k) \in CounterValue
      OBVIOUS
  <1>1. NonceValue[n] \in Nat
      BY ConstantsAssumption DEF CounterValue
  <1>2. CounterMod \in Nat /\ CounterMod > 0
      BY ConstantsAssumption
  <1> QED BY <1>1, <1>2 DEF Value, CounterValue

LEMMA LocalType ==
  ASSUME NEW u \in Uuid, NEW k \in Key \cup {NoRequest}, NEW ip \in Ip \cup {NoRequest},
         NEW n \in 0 .. MaxNonce, NEW c \in 0 .. MaxNonce
  PROVE  Local(u, k, ip, n, c) \in Request
BY DEF Local, Request

\* A step of one handler keeps the control state well typed when the label and
\* the local variables it moves to fit each other.
LEMMA ControlStep ==
  ASSUME ControlOK,
         NEW a \in Actor, NEW label \in IF a = Sweeper THEN SweeperPc ELSE TaskPc,
         NEW r \in Request \cup {NoRequest}, LocOK(label, r),
         pc' = [pc EXCEPT ![a] = label], loc' = [loc EXCEPT ![a] = r],
         todo' \in SUBSET Uuid
  PROVE  ControlOK'
BY ConstantsAssumption DEF ControlOK, LocOK, TaskPc, SweeperPc

LEMMA DoneControl ==
  ASSUME ControlOK, NEW a \in Actor, Done(a), todo' \in SUBSET Uuid
  PROVE  ControlOK'
  <1>1. LocOK(IF a = Sweeper THEN "sweep" ELSE "idle", NoRequest)
      BY DEF LocOK, VerifyPc, TickPc, LogoutPc, RemovalPc
  <1> QED BY <1>1, ControlStep DEF Done, TaskPc, SweeperPc

\* Moving on with the same local variables.
LEMMA GotoControl ==
  ASSUME ControlOK, NEW a \in Actor, NEW label \in IF a = Sweeper THEN SweeperPc ELSE TaskPc,
         Goto(a, label), LocOK(label, loc[a]), UNCHANGED loc, todo' \in SUBSET Uuid
  PROVE  ControlOK'
  <1>1. loc' = [loc EXCEPT ![a] = loc[a]] /\ loc[a] \in Request \cup {NoRequest}
      BY DEF ControlOK
  <1> QED BY <1>1, ControlStep DEF Goto

LEMMA NewSessionType ==
  ASSUME NEW r \in Request, r.client \in Nonce, r.key \in Key, r.ip \in Ip, r.nonce \in Nonce
  PROVE  NewSession(r) \in Session
BY ConstantsAssumption DEF NewSession, Session, Counter, Request

LEMMA WriteSessionType ==
  ASSUME NEW s \in Session,
         NEW r \in Request, r.key \in Key, r.ip \in Ip, r.nonce \in Nonce
  PROVE  WriteSession(s, r) \in Session
  <1> DEFINE q == [r EXCEPT !.client = s.client]
  <1>0. s.client \in Nonce /\ s.client \in 0 .. MaxNonce
      BY ConstantsAssumption DEF Session
  <1>1. /\ q \in Request /\ q.client = s.client /\ q.key = r.key
        /\ q.ip = r.ip /\ q.nonce = r.nonce
      BY <1>0 DEF Request
  <1>2. WriteSession(s, r) = NewSession(q)
      BY DEF WriteSession
  <1> HIDE DEF q
  <1> QED BY <1>0, <1>1, <1>2, NewSessionType

LEMMA TickType ==
  ASSUME NEW s \in Session, s.counter.ticks < MaxTicks
  PROVE  Tick(s) \in Session
  <1>1. [nonce |-> s.counter.nonce, ticks |-> s.counter.ticks + 1] \in Counter
      BY ConstantsAssumption DEF Session, Counter
  <1> QED BY <1>1 DEF Tick, Session

LEMMA DecrementIpType ==
  ASSUME ip_counts \in [Ip -> Nat], NEW ip \in Ip
  PROVE  DecrementIp(ip) \in [Ip -> Nat]
BY DEF DecrementIp

LEMMA CountType ==
  ASSUME WorldOK, NEW u \in Uuid, NEW v \in CounterValue, CountTick(u, v)
  PROVE  ticked' \in [Uuid -> [CounterValue -> Nat]]
BY DEF WorldOK, CountTick

LEMMA RemoveType ==
  ASSUME TablesOK, ControlOK, NEW a \in Actor, NEW u \in Uuid,
         NEW label \in IF a = Sweeper THEN SweeperPc ELSE TaskPc,
         label \in {"uncount", "logout_uncount"},
         Remove(a, u, label), todo' \in SUBSET Uuid
  PROVE  TablesOK' /\ ControlOK'
  <1>1. TablesOK'
      BY DEF TablesOK, Remove
  <1>2. CASE sessions[u] = NoSession
      BY <1>1, <1>2, DoneControl DEF Remove
  <1>3. CASE sessions[u] # NoSession
      <2> DEFINE r == Local(u, NoRequest, sessions[u].client_ip, 0, sessions[u].client)
      <2>1. sessions[u].client_ip \in Ip /\ sessions[u].client \in Nonce
          BY <1>3 DEF TablesOK, Session
      <2>2. r \in Request
          BY <2>1, LocalType, ConstantsAssumption
      <2>3. LocOK(label, r)
          BY <2>1, <2>2, NullAssumption
             DEF LocOK, Local, VerifyPc, TickPc, LogoutPc, RemovalPc
      <2>4. pc' = [pc EXCEPT ![a] = label] /\ loc' = [loc EXCEPT ![a] = r]
          BY <1>3 DEF Remove, Goto
      <2> HIDE DEF r
      <2> QED BY <1>1, <2>2, <2>3, <2>4, ControlStep
  <1> QED BY <1>2, <1>3

(***************************************************************************)
(* TypeOK.                                                                 *)
(***************************************************************************)

LEMMA InitType == Init => TypeOK
BY ConstantsAssumption
   DEF Init, TypeOK, TablesOK, ControlOK, WorldOK, LocOK, TaskPc, SweeperPc,
       VerifyPc, TickPc, LogoutPc, RemovalPc, CounterValue

\* What the typing of one action needs to know of the local variables.
LEMMA LocalFacts ==
  ASSUME ControlOK, NEW a \in Actor, pc[a] \notin {"idle", "sweep"}
  PROVE  /\ loc[a] \in Request
         /\ loc[a] # NoRequest
         /\ LocOK(pc[a], loc[a])
         /\ loc[a].uuid \in Uuid
         /\ loc[a].nonce \in 0 .. MaxNonce
         /\ loc[a].at \in Int
BY DEF ControlOK, LocOK, Request

LEMMA RequestType ==
  TypeOK /\ NewRequest => TypeOK'
  <1> SUFFICES ASSUME TypeOK, NewRequest PROVE TypeOK'
      OBVIOUS
  <1> USE DEF TypeOK
  <1>1. ASSUME NEW u \in Uuid, NEW k \in Key, Login(u, k) PROVE TypeOK'
      BY <1>1, ConstantsAssumption
         DEF TablesOK, ControlOK, WorldOK, Login, PendingFor, PendingVerify
  <1>2. ASSUME NEW t \in Task, NEW p \in pending_logins, NEW k \in Key, NEW ip \in Ip,
               Verify(t, p, k, ip)
        PROVE  TypeOK'
    <2>1. p.uuid \in Uuid /\ p.nonce \in Nonce
        BY DEF TablesOK, PendingVerify
    <2> DEFINE r == Local(p.uuid, k, ip, p.nonce, 0)
    <2>2. r \in Request /\ LocOK("lookup", r)
      <3>1. r \in Request
          BY <2>1, LocalType, ConstantsAssumption
      <3> QED BY <2>1, <3>1, NullAssumption
              DEF LocOK, Local, VerifyPc, TickPc, LogoutPc, RemovalPc
    <2>3. pc' = [pc EXCEPT ![t] = "lookup"] /\ loc' = [loc EXCEPT ![t] = r]
        BY <1>2 DEF Verify, Begin
    <2> HIDE DEF r
    <2>4. ControlOK'
      <3>1. todo' \in SUBSET Uuid
          BY <1>2 DEF Verify, ControlOK
      <3>2. "lookup" \in TaskPc /\ t # Sweeper
          BY ConstantsAssumption DEF TaskPc, VerifyPc
      <3> QED BY <2>2, <2>3, <3>1, <3>2, ControlStep
    <2>5. TablesOK' /\ WorldOK'
        BY <1>2 DEF Verify, Extract, TablesOK, WorldOK, world
    <2> QED BY <2>4, <2>5
  <1>3. ASSUME NEW t \in Task, NEW u \in Uuid, NEW k \in Key, NEW v \in CounterValue,
               Activity(t, u, k, v) \/ Logout(t, u, k, v)
        PROVE  TypeOK'
    <2> DEFINE r == Local(u, NoRequest, NoRequest, 0, sessions[u].client)
    <2>1. PICK label \in {"check_alive", "stop"} :
            pc' = [pc EXCEPT ![t] = label] /\ loc' = [loc EXCEPT ![t] = r]
        BY <1>3 DEF Activity, Logout, Begin
    <2>2. sessions[u] \in Session
        BY <1>3 DEF TablesOK, Activity, Logout
    <2>3. r \in Request /\ LocOK(label, r)
      <3>1. sessions[u].client \in Nonce /\ sessions[u].client \in 0 .. MaxNonce
          BY <2>2 DEF Session
      <3>2. 0 \in 0 .. MaxNonce
          BY ConstantsAssumption
      <3>3. r \in Request
          BY <3>1, <3>2, LocalType
      <3> QED BY <3>1, <3>3, NullAssumption
              DEF LocOK, Local, VerifyPc, TickPc, LogoutPc, RemovalPc
    <2> HIDE DEF r
    <2>4. ControlOK'
      <3>1. todo' \in SUBSET Uuid
          BY <1>3 DEF Activity, Logout, ControlOK
      <3>2. label \in TaskPc /\ t # Sweeper
          BY ConstantsAssumption DEF TaskPc, TickPc, LogoutPc
      <3> QED BY <2>1, <2>3, <3>1, <3>2, ControlStep
    <2>5. CASE Activity(t, u, k, v)
      <3>1. Tick(sessions[u]) \in Session
          BY <2>2, <2>5, TickType DEF Activity
      <3>2. [Tick(sessions[u]) EXCEPT !.last_activity = now] \in Session
          BY <3>1 DEF Session, WorldOK
      <3>3. TablesOK'
          BY <2>5, <3>2 DEF Activity, TablesOK
      <3>4. WorldOK'
          BY <2>5, CountType DEF Activity, WorldOK
      <3> QED BY <2>4, <3>3, <3>4
    <2>6. CASE Logout(t, u, k, v)
        BY <2>4, <2>6 DEF Logout, table, world, TablesOK, WorldOK
    <2> QED BY <1>3, <2>5, <2>6
  <1>4. ASSUME NEW u \in Uuid, NEW k \in Key, NEW v \in CounterValue, Script(u, k, v)
        PROVE  TypeOK'
    <2>1. Tick(sessions[u]) \in Session
        BY <1>4, TickType DEF Script, TablesOK
    <2>2. TablesOK'
        BY <1>4, <2>1 DEF Script, TablesOK
    <2>3. WorldOK'
        BY <1>4, CountType DEF Script, WorldOK
    <2>4. ControlOK'
        BY <1>4 DEF Script, ControlOK
    <2> QED BY <2>2, <2>3, <2>4
  <1> QED BY <1>1, <1>2, <1>3, <1>4 DEF NewRequest

\* An update of one local variable by the handler of a.
LEMMA LocUpdate ==
  ASSUME ControlOK, NEW a \in Actor, pc[a] \notin {"idle", "sweep"}
  PROVE  /\ \A x \in Int :
              [loc EXCEPT ![a].at = x] = [loc EXCEPT ![a] = [loc[a] EXCEPT !.at = x]]
         /\ \A x \in 0 .. MaxNonce :
              [loc EXCEPT ![a].client = x] = [loc EXCEPT ![a] = [loc[a] EXCEPT !.client = x]]
         /\ \A x \in Ip :
              [loc EXCEPT ![a].old_ip = x] = [loc EXCEPT ![a] = [loc[a] EXCEPT !.old_ip = x]]
BY LocalFacts DEF ControlOK

LEMMA SetAt ==
  ASSUME NEW r \in Request, NEW x \in Int
  PROVE  LET q == [r EXCEPT !.at = x] IN
         /\ q \in Request
         /\ q.uuid = r.uuid /\ q.key = r.key /\ q.ip = r.ip /\ q.old_ip = r.old_ip
         /\ q.nonce = r.nonce /\ q.client = r.client /\ q.at = x
BY DEF Request

LEMMA SetClient ==
  ASSUME NEW r \in Request, NEW x \in 0 .. MaxNonce
  PROVE  LET q == [r EXCEPT !.client = x] IN
         /\ q \in Request
         /\ q.uuid = r.uuid /\ q.key = r.key /\ q.ip = r.ip /\ q.old_ip = r.old_ip
         /\ q.nonce = r.nonce /\ q.client = x /\ q.at = r.at
BY DEF Request

LEMMA SetOldIp ==
  ASSUME NEW r \in Request, NEW x \in Ip
  PROVE  LET q == [r EXCEPT !.old_ip = x] IN
         /\ q \in Request
         /\ q.uuid = r.uuid /\ q.key = r.key /\ q.ip = r.ip /\ q.old_ip = x
         /\ q.nonce = r.nonce /\ q.client = r.client /\ q.at = r.at
BY DEF Request

\* The sections of a login keep the types: what a section reads of the local
\* variables, an earlier one has set.
LEMMA LoginStepType ==
  ASSUME TypeOK, NEW t \in Task, 
         \/ Lookup(t) \/ StartOk(t) \/ StartFail(t) \/ PromoteCount(t) \/ PromoteInsert(t)
         \/ UpdateRead(t) \/ UpdateCount(t) \/ UpdateWrite(t)
  PROVE  TypeOK'
  <1> USE DEF TypeOK
  <1> DEFINE u == loc[t].uuid
  <1>0. /\ t \in Actor /\ t # Sweeper
        /\ pc[t] \notin {"idle", "sweep"}
        /\ pc[t] \in VerifyPc
      BY ConstantsAssumption
         DEF Lookup, StartOk, StartFail, PromoteCount, PromoteInsert, UpdateRead,
             UpdateCount, UpdateWrite, VerifyPc
  <1>1. /\ loc[t] \in Request /\ loc[t] # NoRequest /\ u \in Uuid
        /\ loc[t].key \in Key /\ loc[t].ip \in Ip
        /\ loc[t].nonce \in Nonce /\ loc[t].nonce \in 0 .. MaxNonce
        /\ LocOK(pc[t], loc[t])
      BY <1>0, LocalFacts DEF LocOK
  <1>2. BeforeCooldown \in Int
      BY ConstantsAssumption DEF BeforeCooldown, WorldOK
  <1>3. \A label \in VerifyPc : label \in TaskPc /\ label \notin {"idle", "sweep"}
      BY DEF TaskPc, VerifyPc
  <1>4. ASSUME world' = world PROVE WorldOK'
      BY <1>4 DEF world, WorldOK
  <1>5. CASE Lookup(t)
    <2>1. TablesOK' /\ WorldOK' /\ todo' \in SUBSET Uuid
        BY <1>5, <1>4 DEF Lookup, table, TablesOK, ControlOK
    <2>2. CASE sessions[u] = NoSession
      <3>1. LocOK("start", loc[t])
          BY <1>0, <1>1 DEF LocOK, VerifyPc, TickPc, LogoutPc, RemovalPc
      <3>2. Goto(t, "start") /\ UNCHANGED loc
          BY <1>5, <2>2 DEF Lookup
      <3>3. "start" \in TaskPc
          BY DEF TaskPc, VerifyPc
      <3> QED BY <1>0, <2>1, <3>1, <3>2, <3>3, GotoControl
    <2>3. CASE sessions[u] # NoSession
      <3> DEFINE r == [loc[t] EXCEPT !.at = BeforeCooldown]
      <3>1. r \in Request /\ r.key = loc[t].key /\ r.ip = loc[t].ip /\ r.nonce = loc[t].nonce
          BY <1>1, <1>2, SetAt
      <3>2. pc' = [pc EXCEPT ![t] = "update_read"] /\ loc' = [loc EXCEPT ![t] = r]
          BY <1>0, <1>2, <1>5, <2>3, LocUpdate DEF Lookup, Goto
      <3> HIDE DEF r
      <3>3. LocOK("update_read", r)
          BY <1>1, <3>1, NullAssumption DEF LocOK, VerifyPc, TickPc, LogoutPc, RemovalPc
      <3>4. "update_read" \in TaskPc
          BY DEF TaskPc, VerifyPc
      <3> QED BY <1>0, <2>1, <3>1, <3>2, <3>3, <3>4, ControlStep
    <2> QED BY <2>2, <2>3
  <1>6. CASE StartOk(t)
    <2>1. TablesOK' /\ WorldOK' /\ todo' \in SUBSET Uuid
        BY <1>1, <1>6, <1>4 DEF StartOk, table, TablesOK, ControlOK
    <2> DEFINE r == [loc[t] EXCEPT !.client = loc[t].nonce]
    <2>2. /\ r \in Request /\ r.key = loc[t].key /\ r.ip = loc[t].ip
          /\ r.nonce = loc[t].nonce /\ r.client = loc[t].nonce
        BY <1>1, SetClient
    <2>3. pc' = [pc EXCEPT ![t] = "promote_count"] /\ loc' = [loc EXCEPT ![t] = r]
        BY <1>0, <1>1, <1>6, LocUpdate DEF StartOk, Goto
    <2> HIDE DEF r
    <2>4. LocOK("promote_count", r)
        BY <1>1, <2>2, NullAssumption DEF LocOK, VerifyPc, TickPc, LogoutPc, RemovalPc
    <2>5. "promote_count" \in TaskPc
        BY DEF TaskPc, VerifyPc
    <2> QED BY <1>0, <2>1, <2>2, <2>3, <2>4, <2>5, ControlStep
  <1>7. CASE StartFail(t)
      BY <1>0, <1>4, <1>7, DoneControl DEF StartFail, table, TablesOK, ControlOK
  <1>8. CASE PromoteCount(t)
    <2>1. TablesOK' /\ WorldOK' /\ todo' \in SUBSET Uuid
        BY <1>1, <1>8, <1>4 DEF PromoteCount, IncrementIp, TablesOK, ControlOK
    <2> DEFINE r == [loc[t] EXCEPT !.at = BeforeCooldown]
    <2>2. /\ r \in Request /\ r.key = loc[t].key /\ r.ip = loc[t].ip
          /\ r.nonce = loc[t].nonce /\ r.client = loc[t].client
        BY <1>1, <1>2, SetAt
    <2>3. pc' = [pc EXCEPT ![t] = "promote_insert"] /\ loc' = [loc EXCEPT ![t] = r]
        BY <1>0, <1>2, <1>8, LocUpdate DEF PromoteCount, Goto
    <2> HIDE DEF r
    <2>4. loc[t].client \in Nonce
        BY <1>1, <1>8 DEF PromoteCount, LocOK
    <2>5. LocOK("promote_insert", r)
        BY <1>1, <2>2, <2>4, NullAssumption DEF LocOK, VerifyPc, TickPc, LogoutPc, RemovalPc
    <2>6. "promote_insert" \in TaskPc
        BY DEF TaskPc, VerifyPc
    <2> QED BY <1>0, <2>1, <2>2, <2>3, <2>5, <2>6, ControlStep
  <1>9. CASE PromoteInsert(t)
    <2>1. loc[t].client \in Nonce
        BY <1>1, <1>9 DEF PromoteInsert, LocOK
    <2>2. NewSession(loc[t]) \in Session
        BY <1>1, <2>1, NewSessionType
    <2>3. TablesOK' /\ todo' \in SUBSET Uuid
        BY <1>9, <2>2 DEF PromoteInsert, TablesOK, ControlOK
    <2> QED BY <1>0, <1>4, <1>9, <2>3, DoneControl DEF PromoteInsert
  <1>10. CASE UpdateRead(t)
    <2>1. WorldOK' /\ todo' \in SUBSET Uuid
        BY <1>10, <1>4 DEF UpdateRead, ControlOK
    <2>2. CASE sessions[u] = NoSession
        BY <1>0, <1>10, <2>1, <2>2, DoneControl DEF UpdateRead, TablesOK
    <2>3. CASE sessions[u] # NoSession /\ sessions[u].client_ip = loc[t].ip
      <3>1. WriteSession(sessions[u], loc[t]) \in Session
          BY <1>1, <2>3, WriteSessionType DEF TablesOK
      <3>2. TablesOK' /\ Done(t)
          BY <1>10, <2>3, <3>1 DEF UpdateRead, TablesOK
      <3> QED BY <1>0, <2>1, <3>2, DoneControl
    <2>4. CASE sessions[u] # NoSession /\ sessions[u].client_ip # loc[t].ip
      <3> DEFINE r == [loc[t] EXCEPT !.old_ip = sessions[u].client_ip]
      <3>1. sessions[u].client_ip \in Ip
          BY <1>1, <2>4 DEF TablesOK, Session
      <3>2. /\ r \in Request /\ r.key = loc[t].key /\ r.ip = loc[t].ip
            /\ r.nonce = loc[t].nonce /\ r.old_ip = sessions[u].client_ip
          BY <1>1, <3>1, SetOldIp
      <3>3. pc' = [pc EXCEPT ![t] = "update_count"] /\ loc' = [loc EXCEPT ![t] = r]
          BY <1>0, <1>10, <2>4, <3>1, LocUpdate DEF UpdateRead, Goto
      <3> HIDE DEF r
      <3>4. LocOK("update_count", r)
          BY <1>1, <3>1, <3>2, NullAssumption
             DEF LocOK, VerifyPc, TickPc, LogoutPc, RemovalPc
      <3>5. "update_count" \in TaskPc
          BY DEF TaskPc, VerifyPc
      <3>6. TablesOK'
          BY <1>10, <2>4 DEF UpdateRead, TablesOK
      <3> QED BY <1>0, <2>1, <3>2, <3>3, <3>4, <3>5, <3>6, ControlStep
    <2> QED BY <2>2, <2>3, <2>4
  <1>11. CASE UpdateCount(t)
    <2>1. loc[t].old_ip \in Ip
        BY <1>1, <1>11 DEF UpdateCount, LocOK
    <2>2. DecrementIp(loc[t].old_ip) \in [Ip -> Nat]
        BY <2>1, DecrementIpType DEF TablesOK
    <2>3. TablesOK' /\ WorldOK' /\ todo' \in SUBSET Uuid
        BY <1>1, <1>4, <1>11, <2>2 DEF UpdateCount, TablesOK, ControlOK
    <2>4. LocOK("update_write", loc[t])
        BY <1>0, <1>1 DEF LocOK, VerifyPc, TickPc, LogoutPc, RemovalPc
    <2>5. "update_write" \in TaskPc
        BY DEF TaskPc, VerifyPc
    <2> QED BY <1>0, <1>11, <2>3, <2>4, <2>5, GotoControl DEF UpdateCount
  <1>12. CASE UpdateWrite(t)
    <2>1. sessions[u] # NoSession => WriteSession(sessions[u], loc[t]) \in Session
        BY <1>1, WriteSessionType DEF TablesOK
    <2>2. TablesOK' /\ todo' \in SUBSET Uuid
        BY <1>12, <2>1 DEF UpdateWrite, TablesOK, ControlOK
    <2> QED BY <1>0, <1>4, <1>12, <2>2, DoneControl DEF UpdateWrite
  <1> QED BY <1>5, <1>6, <1>7, <1>8, <1>9, <1>10, <1>11, <1>12

\* The sections that follow an activity or a logout, and the removal of a
\* session, whoever runs it.
LEMMA RemovalStepType ==
  ASSUME TypeOK, NEW a \in Actor,
         \/ a \in Task /\ (CheckAlive(a) \/ LogoutStop(a) \/ LogoutRemove(a)
                           \/ LogoutUncount(a) \/ RemoveDead(a))
         \/ Uncount(a) \/ StopRemoved(a)
  PROVE  TypeOK'
  <1> USE DEF TypeOK
  <1>1. /\ pc[a] \in TickPc \cup LogoutPc \cup RemovalPc
        /\ pc[a] \notin {"idle", "sweep"}
      BY DEF CheckAlive, LogoutStop, LogoutRemove, LogoutUncount, RemoveDead, Uncount,
             StopRemoved, TickPc, LogoutPc, RemovalPc
  <1>2. /\ loc[a] \in Request /\ loc[a] # NoRequest /\ loc[a].uuid \in Uuid
        /\ loc[a].client \in Nonce /\ LocOK(pc[a], loc[a])
      BY <1>1, LocalFacts DEF LocOK
  <1>3. ASSUME world' = world PROVE WorldOK'
      BY <1>3 DEF world, WorldOK
  <1>4. a \in Task => a # Sweeper
      BY ConstantsAssumption
  <1>5. CASE a \in Task /\ CheckAlive(a)
    <2>1. TablesOK' /\ WorldOK' /\ todo' \in SUBSET Uuid
        BY <1>5, <1>3 DEF CheckAlive, table, TablesOK, ControlOK
    <2>2. CASE AliveFrom(gateway[loc[a].client])
        BY <1>5, <2>1, <2>2, DoneControl DEF CheckAlive
    <2>3. CASE ~AliveFrom(gateway[loc[a].client])
      <3>1. LocOK("remove", loc[a])
          BY <1>2 DEF LocOK, VerifyPc, TickPc, LogoutPc, RemovalPc
      <3>2. "remove" \in TaskPc
          BY DEF TaskPc, TickPc
      <3> QED BY <1>4, <1>5, <2>1, <2>3, <3>1, <3>2, GotoControl DEF CheckAlive
    <2> QED BY <2>2, <2>3
  <1>6. CASE a \in Task /\ LogoutStop(a)
    <2>1. TablesOK' /\ WorldOK' /\ todo' \in SUBSET Uuid
        BY <1>2, <1>3, <1>6 DEF LogoutStop, Stopped, table, TablesOK, ControlOK
    <2>2. LocOK("logout_remove", loc[a])
        BY <1>2 DEF LocOK, VerifyPc, TickPc, LogoutPc, RemovalPc
    <2>3. "logout_remove" \in TaskPc
        BY DEF TaskPc, LogoutPc
    <2> QED BY <1>4, <1>6, <2>1, <2>2, <2>3, GotoControl DEF LogoutStop
  <1>7. CASE a \in Task /\ (LogoutRemove(a) \/ RemoveDead(a))
    <2>1. PICK label \in {"uncount", "logout_uncount"} : Remove(a, loc[a].uuid, label)
        BY <1>7 DEF LogoutRemove, RemoveDead
    <2>2. label \in TaskPc
        BY DEF TaskPc, LogoutPc, RemovalPc
    <2>3. WorldOK' /\ todo' \in SUBSET Uuid
        BY <1>3, <1>7, <2>1 DEF LogoutRemove, RemoveDead, Remove, ControlOK
    <2> QED BY <1>2, <1>4, <1>7, <2>1, <2>2, <2>3, RemoveType
  <1>8. CASE a \in Task /\ LogoutUncount(a)
    <2>1. loc[a].ip \in Ip
        BY <1>2, <1>8 DEF LogoutUncount, LocOK
    <2>2. TablesOK' /\ WorldOK' /\ todo' \in SUBSET Uuid
        BY <1>3, <1>8, <2>1, DecrementIpType DEF LogoutUncount, TablesOK, ControlOK
    <2> QED BY <1>8, <2>2, DoneControl DEF LogoutUncount
  <1>9. CASE Uncount(a)
    <2>1. loc[a].ip \in Ip
        BY <1>2, <1>9 DEF Uncount, LocOK, RemovalPc
    <2>2. TablesOK' /\ WorldOK' /\ todo' \in SUBSET Uuid
        BY <1>3, <1>9, <2>1, DecrementIpType DEF Uncount, TablesOK, ControlOK
    <2>3. LocOK("stop_removed", loc[a])
        BY <1>2, <2>1 DEF LocOK, VerifyPc, TickPc, LogoutPc, RemovalPc
    <2>4. "stop_removed" \in TaskPc /\ "stop_removed" \in SweeperPc
        BY DEF TaskPc, SweeperPc, RemovalPc
    <2> QED BY <1>9, <2>2, <2>3, <2>4, GotoControl DEF Uncount
  <1>10. CASE StopRemoved(a)
    <2>1. TablesOK' /\ WorldOK' /\ todo' \in SUBSET Uuid
        BY <1>2, <1>3, <1>10 DEF StopRemoved, Stopped, table, TablesOK, ControlOK
    <2> QED BY <1>10, <2>1, DoneControl DEF StopRemoved
  <1> QED BY <1>5, <1>6, <1>7, <1>8, <1>9, <1>10

LEMMA SweeperStepType ==
  TypeOK /\ SweeperStep => TypeOK'
  <1> SUFFICES ASSUME TypeOK, SweeperStep PROVE TypeOK'
      OBVIOUS
  <1> USE DEF TypeOK
  <1>1. ASSUME world' = world PROVE WorldOK'
      BY <1>1 DEF world, WorldOK
  <1>2. /\ Sweeper \in Actor
        /\ {"idle", "sweep"} \subseteq SweeperPc /\ "uncount" \in SweeperPc
      BY DEF SweeperPc, RemovalPc
  <1>3. \A label \in {"idle", "sweep"} :
          pc[Sweeper] \in {"idle", "sweep"} => LocOK(label, loc[Sweeper])
      BY DEF ControlOK, LocOK, VerifyPc, TickPc, LogoutPc, RemovalPc
  <1>4. CASE SweepCollect
    <2>1. TablesOK' /\ WorldOK' /\ todo' \in SUBSET Uuid
        BY <1>1, <1>4 DEF SweepCollect, ExpiredActive, table, TablesOK
    <2> QED BY <1>2, <1>3, <1>4, <2>1, GotoControl DEF SweepCollect
  <1>5. CASE SweepPending
    <2>1. TablesOK' /\ WorldOK' /\ todo' \in SUBSET Uuid
        BY <1>1, <1>5 DEF SweepPending, UnexpiredLogins, TablesOK, ControlOK
    <2> QED BY <1>2, <1>3, <1>5, <2>1, GotoControl DEF SweepPending
  <1>6. ASSUME NEW u \in Uuid, SweepRemove(u) PROVE TypeOK'
    <2>1. WorldOK' /\ todo' \in SUBSET Uuid
        BY <1>1, <1>6 DEF SweepRemove, Remove, ControlOK
    <2> QED BY <1>2, <1>6, <2>1, RemoveType DEF SweepRemove
  <1> QED BY <1>2, <1>4, <1>5, <1>6, RemovalStepType DEF SweeperStep

LEMMA EnvironmentType ==
  TypeOK /\ Environment => TypeOK'
  <1> SUFFICES ASSUME TypeOK, Environment PROVE TypeOK'
      OBVIOUS
  <1> USE DEF TypeOK
  <1>1. ASSUME NEW c \in Nonce, GatewayDies(c) PROVE TypeOK'
      BY <1>1 DEF GatewayDies, table, world, TablesOK, ControlOK, WorldOK
  <1>2. ASSUME NEW t \in Task, Cancel(t) PROVE TypeOK'
    <2>1. TablesOK' /\ WorldOK' /\ todo' \in SUBSET Uuid
        BY <1>2 DEF Cancel, table, world, TablesOK, ControlOK, WorldOK
    <2> QED BY <1>2, <2>1, DoneControl DEF Cancel
  <1>3. CASE Time
      BY <1>3, ConstantsAssumption DEF Time, table, TablesOK, ControlOK, WorldOK
  <1>4. CASE Restart
      BY <1>4 DEF Restart, world, TablesOK, ControlOK, WorldOK, LocOK, TaskPc, SweeperPc,
                  VerifyPc, TickPc, LogoutPc, RemovalPc
  <1> QED BY <1>1, <1>2, <1>3, <1>4 DEF Environment

LEMMA TypeStep ==
  TypeOK /\ [Next]_vars => TypeOK'
  <1> SUFFICES ASSUME TypeOK, [Next]_vars PROVE TypeOK'
      OBVIOUS
  <1>1. CASE NewRequest
      BY <1>1, RequestType
  <1>2. ASSUME NEW t \in Task, TaskStep(t) PROVE TypeOK'
      BY <1>2, LoginStepType, RemovalStepType DEF TaskStep
  <1>3. CASE SweeperStep
      BY <1>3, SweeperStepType
  <1>4. CASE Environment
      BY <1>4, EnvironmentType
  <1>5. CASE UNCHANGED vars
      BY <1>5 DEF vars, TypeOK, TablesOK, ControlOK, WorldOK
  <1> QED BY <1>1, <1>2, <1>3, <1>4, <1>5 DEF Next

\* In every reachable state the tables, the handlers and the counts are well
\* typed; in particular no address count, an unsigned integer in the code, is
\* ever decremented below zero, however handlers overlap and are dropped.
THEOREM TypeCorrect == Spec => []TypeOK
  <1> QED BY InitType, TypeStep, PTL DEF Spec

(***************************************************************************)
(* NoReplay.  A challenge that is not yet in force is waiting: not issued, *)
(* pending, or held by one login.  The set of waiting challenges only      *)
(* shrinks, none of its counter values was used, and a session counts      *)
(* from a challenge that has left it.  So a session's counter moves over   *)
(* values nobody used, and no login can bring a used one back.             *)
(***************************************************************************)

Waiting(n) ==
  \/ n >= next_nonce
  \/ \E p \in pending_logins : p.nonce = n
  \/ \E t \in Task : pc[t] \in VerifyPc /\ loc[t].nonce = n

\* A challenge waits in one place.
OnePlace ==
  /\ \A p \in pending_logins : p.nonce < next_nonce
  /\ \A p, q \in pending_logins : p.nonce = q.nonce => p = q
  /\ \A t \in Task : pc[t] \in VerifyPc =>
       /\ loc[t].nonce < next_nonce
       /\ \A p \in pending_logins : p.nonce # loc[t].nonce
       /\ \A s \in Task \ {t} : pc[s] \in VerifyPc => loc[s].nonce # loc[t].nonce

SessionsNotWaiting ==
  \A u \in Uuid : sessions[u] # NoSession => ~Waiting(sessions[u].counter.nonce)

WaitingUnused ==
  \A n \in Nonce, u \in Uuid, k \in 0 .. MaxTicks :
    Waiting(n) => ticked[u][Value(n, k)] = 0

CounterInv ==
  TypeOK /\ OnePlace /\ SessionsNotWaiting /\ WaitingUnused
  /\ FutureCountersUnused /\ NoReplay

\* The sections of a login after its challenge was consumed.
LoginControl(t) ==
  Lookup(t) \/ StartOk(t) \/ StartFail(t) \/ PromoteCount(t) \/ PromoteInsert(t)
  \/ UpdateRead(t) \/ UpdateCount(t) \/ UpdateWrite(t)

\* A step after which every handler that verifies a challenge already did, and
\* every pending challenge already was.
Shrinks ==
  /\ next_nonce' = next_nonce
  /\ pending_logins' \subseteq pending_logins
  /\ \A t \in Task : pc'[t] \in VerifyPc =>
       /\ pc[t] \in VerifyPc
       /\ loc'[t].nonce = loc[t].nonce /\ loc'[t].uuid = loc[t].uuid

LEMMA ShrinkPlaces ==
  ASSUME OnePlace, Shrinks
  PROVE  OnePlace' /\ \A n \in Nonce : Waiting(n)' => Waiting(n)
BY DEF OnePlace, Shrinks, Waiting

LEMMA InstallShrinks ==
  ASSUME TypeOK, NEW t \in Task, LoginControl(t)
  PROVE  Shrinks
  <1>1. ControlOK
      BY DEF TypeOK
  <1>2. /\ t \in Actor /\ t # Sweeper /\ pc[t] \in VerifyPc /\ pc[t] \notin {"idle", "sweep"}
      BY ConstantsAssumption
         DEF LoginControl, Lookup, StartOk, StartFail, PromoteCount, PromoteInsert,
             UpdateRead, UpdateCount, UpdateWrite, VerifyPc
  <1>3. /\ loc[t] \in Request /\ loc[t].nonce \in 0 .. MaxNonce
        /\ \A s \in Task \ {t} : pc'[s] = pc[s] /\ loc'[s] = loc[s]
      BY <1>1, <1>2, LocalFacts, ConstantsAssumption
         DEF ControlOK, LoginControl, Lookup, StartOk, StartFail, PromoteCount, PromoteInsert,
             UpdateRead, UpdateCount, UpdateWrite, Goto, Done
  <1>4. pc'[t] \in VerifyPc => loc'[t].nonce = loc[t].nonce /\ loc'[t].uuid = loc[t].uuid
    <2>1. CASE Done(t)
        BY <1>1, <1>2, <2>1 DEF Done, ControlOK, VerifyPc
    <2>2. CASE loc' = loc
        BY <2>2
    <2>3. CASE \/ loc' = [loc EXCEPT ![t].at = BeforeCooldown]
               \/ loc' = [loc EXCEPT ![t].client = loc[t].nonce]
               \/ loc' = [loc EXCEPT ![t].old_ip = sessions[loc[t].uuid].client_ip]
        BY <1>1, <1>2, <1>3, <2>3 DEF ControlOK, Request
    <2> QED BY <2>1, <2>2, <2>3
            DEF LoginControl, Lookup, StartOk, StartFail, PromoteCount, PromoteInsert,
                UpdateRead, UpdateCount, UpdateWrite
  <1>5. next_nonce' = next_nonce /\ pending_logins' = pending_logins
      BY DEF LoginControl, Lookup, StartOk, StartFail, PromoteCount, PromoteInsert,
             UpdateRead, UpdateCount, UpdateWrite, table, world
  <1> QED BY <1>2, <1>3, <1>4, <1>5 DEF Shrinks

\* Every other handler section, the sweeper and the environment: no session
\* appears or changes, no counter value is used up.
Quiet ==
  /\ ticked' = ticked
  /\ \A u \in Uuid : sessions'[u] \in {sessions[u], NoSession}

LEMMA QuietShrinks ==
  ASSUME TypeOK,
         \/ \E t \in Task, u \in Uuid, k \in Key, v \in CounterValue : Logout(t, u, k, v)
         \/ \E t \in Task :
              \/ CheckAlive(t) \/ LogoutStop(t) \/ LogoutRemove(t) \/ LogoutUncount(t)
              \/ RemoveDead(t) \/ Uncount(t) \/ StopRemoved(t)
         \/ SweeperStep
         \/ Environment
  PROVE  Shrinks /\ Quiet
  <1> USE ConstantsAssumption DEF Quiet, Shrinks, table, world
  <1>0. ControlOK /\ sessions \in [Uuid -> Session \cup {NoSession}]
      BY DEF TypeOK, TablesOK
  <1>1. ASSUME NEW t \in Task, NEW u \in Uuid, NEW k \in Key, NEW v \in CounterValue,
               Logout(t, u, k, v)
        PROVE  Shrinks /\ Quiet
      BY <1>0, <1>1 DEF Logout, Begin, ControlOK, VerifyPc
  <1>2. ASSUME NEW a \in Actor, NEW u \in Uuid, NEW label \in {"uncount", "logout_uncount"},
               Remove(a, u, label)
        PROVE  Shrinks /\ Quiet
      BY <1>0, <1>2 DEF Remove, Goto, Done, ControlOK, VerifyPc
  <1>3. ASSUME NEW a \in Actor, Uncount(a) \/ StopRemoved(a) PROVE Shrinks /\ Quiet
      BY <1>0, <1>3 DEF Uncount, StopRemoved, Goto, Done, ControlOK, VerifyPc
  <1>4. ASSUME NEW t \in Task,
               CheckAlive(t) \/ LogoutStop(t) \/ LogoutUncount(t) \/ Cancel(t)
        PROVE  Shrinks /\ Quiet
      BY <1>0, <1>4 DEF CheckAlive, LogoutStop, LogoutUncount, Cancel, Goto, Done,
                        ControlOK, VerifyPc
  <1>5. ASSUME NEW t \in Task, LogoutRemove(t) \/ RemoveDead(t) PROVE Shrinks /\ Quiet
    <2>1. loc[t].uuid \in Uuid
        BY <1>0, <1>5, LocalFacts DEF LogoutRemove, RemoveDead
    <2> QED BY <1>2, <1>5, <2>1 DEF LogoutRemove, RemoveDead
  <1>6. CASE SweeperStep
    <2>1. CASE SweepCollect \/ SweepPending
        BY <1>0, <2>1
           DEF SweepCollect, SweepPending, UnexpiredLogins, Goto, ControlOK
    <2>2. ASSUME NEW u \in Uuid, SweepRemove(u) PROVE Shrinks /\ Quiet
        BY <1>2, <2>2 DEF SweepRemove
    <2> QED BY <1>3, <1>6, <2>1, <2>2 DEF SweeperStep
  <1>7. CASE Environment
    <2>1. ASSUME NEW c \in Nonce, GatewayDies(c) PROVE Shrinks /\ Quiet
        BY <2>1 DEF GatewayDies
    <2>2. CASE Time
        BY <2>2 DEF Time
    <2>3. CASE Restart
        BY <2>3 DEF Restart, VerifyPc
    <2> QED BY <1>4, <1>7, <2>1, <2>2, <2>3 DEF Environment
  <1> QED BY <1>1, <1>3, <1>4, <1>5, <1>6, <1>7

LEMMA QuietCounter ==
  ASSUME CounterInv, TypeOK', OnePlace', Quiet, \A n \in Nonce : Waiting(n)' => Waiting(n)
  PROVE  CounterInv'
  <1>1. \A u \in Uuid : sessions'[u] # NoSession =>
          sessions'[u] = sessions[u] /\ sessions[u].counter.nonce \in Nonce
      BY DEF Quiet, CounterInv, TypeOK, TablesOK, Session, Counter
  <1>2. SessionsNotWaiting'
      BY <1>1 DEF CounterInv, SessionsNotWaiting
  <1>3. WaitingUnused'
      BY DEF CounterInv, WaitingUnused, Quiet
  <1>4. FutureCountersUnused'
      BY <1>1 DEF CounterInv, FutureCountersUnused, Quiet
  <1>5. NoReplay'
      BY DEF CounterInv, NoReplay, Quiet
  <1> QED BY <1>2, <1>3, <1>4, <1>5 DEF CounterInv

\* A session that appears or is rewritten counts from the challenge its login
\* holds, and the login is over.
LEMMA InstallEffect ==
  ASSUME TypeOK, NEW t \in Task, LoginControl(t)
  PROVE  /\ ticked' = ticked
         /\ \A u \in Uuid :
              \/ sessions'[u] = sessions[u]
              \/ /\ pc[t] \in VerifyPc /\ pc'[t] = "idle"
                 /\ loc[t].nonce \in Nonce
                 /\ sessions'[u].counter = [nonce |-> loc[t].nonce, ticks |-> 0]
  <1>1. /\ pc[t] \in VerifyPc /\ t # Sweeper
        /\ loc[t] \in Request /\ loc[t].nonce \in Nonce /\ loc[t].uuid \in Uuid
        /\ sessions \in [Uuid -> Session \cup {NoSession}]
        /\ pc \in [Actor -> TaskPc \cup SweeperPc]
    <2>1. pc[t] \in VerifyPc /\ pc[t] \notin {"idle", "sweep"} /\ t # Sweeper
        BY ConstantsAssumption
           DEF LoginControl, Lookup, StartOk, StartFail, PromoteCount, PromoteInsert,
               UpdateRead, UpdateCount, UpdateWrite, VerifyPc
    <2> QED BY <2>1, LocalFacts DEF TypeOK, TablesOK, ControlOK, LocOK
  <1>2. NewSession(loc[t]).counter = [nonce |-> loc[t].nonce, ticks |-> 0]
      BY DEF NewSession
  <1>3. \A s \in Session :
          WriteSession(s, loc[t]).counter = [nonce |-> loc[t].nonce, ticks |-> 0]
      BY <1>1 DEF WriteSession, NewSession, Request
  <1>4. CASE PromoteInsert(t)
      BY <1>1, <1>2, <1>4 DEF PromoteInsert, Done, world
  <1>5. CASE UpdateRead(t)
      BY <1>1, <1>3, <1>5 DEF UpdateRead, Done, world
  <1>6. CASE UpdateWrite(t)
      BY <1>1, <1>3, <1>6 DEF UpdateWrite, Done, world
  <1>7. CASE Lookup(t) \/ StartOk(t) \/ StartFail(t) \/ PromoteCount(t) \/ UpdateCount(t)
      BY <1>7 DEF Lookup, StartOk, StartFail, PromoteCount, UpdateCount, table, world
  <1> QED BY <1>4, <1>5, <1>6, <1>7 DEF LoginControl

LEMMA InstallCounter ==
  ASSUME CounterInv, TypeOK', NEW t \in Task, LoginControl(t)
  PROVE  CounterInv'
  <1>1. TypeOK /\ OnePlace
      BY DEF CounterInv
  <1>2. Shrinks
      BY <1>1, InstallShrinks
  <1>3. OnePlace' /\ \A n \in Nonce : Waiting(n)' => Waiting(n)
      BY <1>1, <1>2, ShrinkPlaces
  <1>4. ticked' = ticked
      BY <1>1, InstallEffect
  <1>5. ASSUME NEW u \in Uuid, sessions'[u] # NoSession
        PROVE  \/ sessions'[u] = sessions[u] /\ sessions[u].counter.nonce \in Nonce
               \/ \E n \in Nonce :
                    /\ sessions'[u].counter = [nonce |-> n, ticks |-> 0]
                    /\ Waiting(n) /\ ~Waiting(n)'
    <2>1. CASE sessions'[u] = sessions[u]
        BY <1>1, <1>5, <2>1 DEF TypeOK, TablesOK, Session, Counter
    <2>2. CASE sessions'[u] # sessions[u]
      <3>1. PICK n \in Nonce :
              /\ n = loc[t].nonce
              /\ pc[t] \in VerifyPc /\ pc'[t] = "idle"
              /\ sessions'[u].counter = [nonce |-> n, ticks |-> 0]
          BY <1>1, <2>2, InstallEffect
      <3>2. Waiting(n)
          BY <3>1 DEF Waiting
      <3>3. /\ n < next_nonce
            /\ \A p \in pending_logins : p.nonce # n
            /\ \A s \in Task \ {t} : pc[s] \in VerifyPc => loc[s].nonce # n
          BY <1>1, <3>1 DEF OnePlace
      <3>4. ~(n >= next_nonce')
          BY <1>1, <1>2, <3>3 DEF Shrinks, TypeOK, WorldOK
      <3>5. \A p \in pending_logins' : p.nonce # n
          BY <1>2, <3>3 DEF Shrinks
      <3>6. \A s \in Task : pc'[s] \in VerifyPc => loc'[s].nonce # n
          BY <1>2, <3>1, <3>3 DEF Shrinks, VerifyPc
      <3>7. ~Waiting(n)'
          BY <3>4, <3>5, <3>6 DEF Waiting
      <3> QED BY <3>1, <3>2, <3>7
    <2> QED BY <2>1, <2>2
  <1>6. SessionsNotWaiting'
    <2> SUFFICES ASSUME NEW u \in Uuid, sessions'[u] # NoSession
                 PROVE  ~Waiting(sessions[u].counter.nonce)'
        BY DEF SessionsNotWaiting
    <2>1. CASE sessions'[u] = sessions[u] /\ sessions[u].counter.nonce \in Nonce
      <3>1. ~Waiting(sessions[u].counter.nonce)
          BY <2>1 DEF CounterInv, SessionsNotWaiting
      <3> QED BY <1>3, <2>1, <3>1
    <2>2. CASE \E n \in Nonce :
                 /\ sessions'[u].counter = [nonce |-> n, ticks |-> 0]
                 /\ ~Waiting(n)'
      <3>1. PICK n \in Nonce : sessions'[u].counter = [nonce |-> n, ticks |-> 0] /\ ~Waiting(n)'
          BY <2>2
      <3>2. sessions'[u].counter.nonce = n
          BY <3>1
      <3> QED BY <3>1, <3>2
    <2> QED BY <1>5, <2>1, <2>2
  <1>7. WaitingUnused'
      BY <1>3, <1>4 DEF CounterInv, WaitingUnused
  <1>8. FutureCountersUnused'
    <2> SUFFICES ASSUME NEW u \in Uuid, sessions'[u] # NoSession,
                        NEW k \in sessions'[u].counter.ticks + 1 .. MaxTicks
                 PROVE  ticked[u][Value(sessions'[u].counter.nonce, k)] = 0
        BY <1>4 DEF FutureCountersUnused
    <2>1. CASE sessions'[u] = sessions[u]
        BY <2>1 DEF CounterInv, FutureCountersUnused
    <2>2. CASE \E n \in Nonce :
                 sessions'[u].counter = [nonce |-> n, ticks |-> 0] /\ Waiting(n)
        BY <2>2, ConstantsAssumption DEF CounterInv, WaitingUnused
    <2> QED BY <1>5, <2>1, <2>2
  <1>9. NoReplay'
      BY <1>4 DEF CounterInv, NoReplay
  <1> QED BY <1>3, <1>6, <1>7, <1>8, <1>9 DEF CounterInv

LEMMA IssueCounter ==
  ASSUME CounterInv, TypeOK', NEW u \in Uuid, NEW k \in Key, Login(u, k)
  PROVE  CounterInv'
  <1>1. \A n \in Nonce : Waiting(n)' => Waiting(n)
    <2>1. next_nonce \in Nat /\ next_nonce' = next_nonce + 1
        BY DEF Login, CounterInv, TypeOK, WorldOK
    <2> QED BY <2>1 DEF Login, PendingFor, Waiting
  <1>2. OnePlace'
    <2>1. /\ next_nonce \in Nat /\ next_nonce' = next_nonce + 1
          /\ \A p \in pending_logins : p.nonce \in Nat
          /\ \A t \in Task : loc[t].nonce \in Nat \/ pc[t] \notin VerifyPc
        BY DEF Login, CounterInv, TypeOK, TablesOK, ControlOK, WorldOK, PendingVerify, LocOK
    <2> QED BY <2>1 DEF Login, PendingFor, CounterInv, OnePlace
  <1>3. Quiet
      BY DEF Login, Quiet
  <1> QED BY <1>1, <1>2, <1>3, QuietCounter

LEMMA AnswerCounter ==
  ASSUME CounterInv, TypeOK', NEW t \in Task, NEW p \in pending_logins, NEW k \in Key,
         NEW ip \in Ip, Verify(t, p, k, ip)
  PROVE  CounterInv'
  <1>1. /\ next_nonce' = next_nonce
        /\ pending_logins' \subseteq pending_logins /\ p \notin pending_logins'
        /\ pc[t] = "idle" /\ loc'[t].nonce = p.nonce
        /\ \A s \in Task \ {t} : pc'[s] = pc[s] /\ loc'[s] = loc[s]
      BY DEF Verify, Begin, Extract, Local, world, CounterInv, TypeOK, ControlOK
  <1>2. \A n \in Nonce : Waiting(n)' => Waiting(n)
      BY <1>1 DEF Waiting
  <1>3. OnePlace'
      BY <1>1 DEF CounterInv, OnePlace
  <1>4. Quiet
      BY DEF Verify, Quiet, world
  <1> QED BY <1>2, <1>3, <1>4, QuietCounter

\* A request uses up the next counter value of a session.
LEMMA TickCounter ==
  ASSUME CounterInv, TypeOK', NEW u \in Uuid, NEW v \in CounterValue, CountTick(u, v),
         Shrinks,
         sessions[u] \in Session, sessions[u].counter.ticks < MaxTicks,
         v = Value(sessions[u].counter.nonce, sessions[u].counter.ticks + 1),
         sessions'[u].counter =
           [nonce |-> sessions[u].counter.nonce, ticks |-> sessions[u].counter.ticks + 1],
         \A w \in Uuid \ {u} : sessions'[w] = sessions[w]
  PROVE  CounterInv'
  <1> DEFINE n == sessions[u].counter.nonce
             k == sessions[u].counter.ticks
  <1>1. n \in Nonce /\ k \in 0 .. MaxTicks /\ k + 1 \in 0 .. MaxTicks
      BY ConstantsAssumption DEF Session, Counter
  <1>2. sessions[u] # NoSession
      BY NullAssumption
  <1>3. ~Waiting(n)
      BY <1>2 DEF CounterInv, SessionsNotWaiting
  <1>4. ticked[u][v] = 0
      BY <1>1, <1>2, ConstantsAssumption DEF CounterInv, FutureCountersUnused
  <1>5. OnePlace' /\ \A m \in Nonce : Waiting(m)' => Waiting(m)
      BY ShrinkPlaces DEF CounterInv
  <1>6. \A w \in Uuid, x \in CounterValue :
          ticked'[w][x] = IF w = u /\ x = v THEN 1 ELSE ticked[w][x]
      BY <1>4 DEF CountTick, CounterInv, TypeOK, WorldOK
  <1>7. \A m \in Nonce, j \in 0 .. MaxTicks :
          Value(m, j) \in CounterValue /\ (Value(m, j) = v => m = n /\ j = k + 1)
    <2>1. \A m \in Nonce, j \in 0 .. MaxTicks : Value(m, j) \in CounterValue
        BY ValueType
    <2> QED BY <1>1, <2>1, NonceAssumption
  <1>8. SessionsNotWaiting'
    <2>1. \A w \in Uuid : sessions[w] # NoSession => sessions[w].counter.nonce \in Nonce
        BY DEF CounterInv, TypeOK, TablesOK, Session, Counter
    <2> QED BY <1>1, <1>3, <1>5, <2>1 DEF CounterInv, SessionsNotWaiting
  <1>9. WaitingUnused'
      BY <1>3, <1>5, <1>6, <1>7 DEF CounterInv, WaitingUnused
  <1>10. FutureCountersUnused'
    <2> SUFFICES ASSUME NEW w \in Uuid, sessions'[w] # NoSession,
                        NEW j \in sessions'[w].counter.ticks + 1 .. MaxTicks
                 PROVE  ticked'[w][Value(sessions'[w].counter.nonce, j)] = 0
        BY DEF FutureCountersUnused
    <2>1. CASE w = u
      <3>1. j \in k + 1 .. MaxTicks /\ j # k + 1 /\ j \in 0 .. MaxTicks
          BY <1>1, <2>1, ConstantsAssumption
      <3>2. ticked[u][Value(n, j)] = 0
          BY <1>2, <3>1 DEF CounterInv, FutureCountersUnused
      <3> QED BY <1>1, <1>6, <1>7, <2>1, <3>1, <3>2
    <2>2. CASE w # u
      <3>1. /\ sessions'[w] = sessions[w] /\ sessions[w] \in Session
          BY <2>2 DEF CounterInv, TypeOK, TablesOK
      <3>2. sessions[w].counter.nonce \in Nonce /\ j \in 0 .. MaxTicks
          BY <3>1, ConstantsAssumption DEF Session, Counter
      <3>3. ticked[w][Value(sessions[w].counter.nonce, j)] = 0
          BY <3>1 DEF CounterInv, FutureCountersUnused
      <3> QED BY <1>6, <1>7, <2>2, <3>1, <3>2, <3>3
    <2> QED BY <2>1, <2>2
  <1>11. NoReplay'
      BY <1>6 DEF CounterInv, NoReplay
  <1> QED BY <1>5, <1>8, <1>9, <1>10, <1>11 DEF CounterInv

LEMMA ScriptCounter ==
  ASSUME CounterInv, TypeOK', NEW u \in Uuid, NEW k \in Key, NEW v \in CounterValue,
         \/ Script(u, k, v)
         \/ \E t \in Task : Activity(t, u, k, v)
  PROVE  CounterInv'
  <1>1. sessions \in [Uuid -> Session \cup {NoSession}] /\ ControlOK
      BY DEF CounterInv, TypeOK, TablesOK
  <1>2. /\ sessions[u] \in Session /\ sessions[u].counter.ticks < MaxTicks
        /\ v = Value(sessions[u].counter.nonce, sessions[u].counter.ticks + 1)
        /\ CountTick(u, v)
      BY <1>1 DEF Script, Activity, VerifyAuth
  <1> DEFINE c == [nonce |-> sessions[u].counter.nonce, ticks |-> sessions[u].counter.ticks + 1]
  <1>3. /\ Tick(sessions[u]).counter = c
        /\ [Tick(sessions[u]) EXCEPT !.last_activity = now].counter = c
      BY <1>2 DEF Tick, Session
  <1>4. /\ sessions'[u].counter = c
        /\ \A w \in Uuid \ {u} : sessions'[w] = sessions[w]
      BY <1>1, <1>3 DEF Script, Activity
  <1>5. Shrinks
      BY <1>1 DEF Script, Activity, Begin, Shrinks, ControlOK, VerifyPc
  <1> HIDE DEF c
  <1>6. c = [nonce |-> sessions[u].counter.nonce, ticks |-> sessions[u].counter.ticks + 1]
      BY DEF c
  <1> QED BY <1>2, <1>4, <1>5, <1>6, TickCounter

LEMMA CounterStep ==
  CounterInv /\ [Next]_vars => CounterInv'
  <1> SUFFICES ASSUME CounterInv, [Next]_vars PROVE CounterInv'
      OBVIOUS
  <1>1. TypeOK /\ TypeOK' /\ OnePlace
      BY TypeStep DEF CounterInv
  <1>2. ASSUME Shrinks, Quiet PROVE CounterInv'
      BY <1>1, <1>2, ShrinkPlaces, QuietCounter
  <1>3. CASE NewRequest
      BY <1>1, <1>2, <1>3, IssueCounter, AnswerCounter, ScriptCounter, QuietShrinks
         DEF NewRequest
  <1>4. ASSUME NEW t \in Task, TaskStep(t) PROVE CounterInv'
    <2>1. CASE LoginControl(t)
        BY <1>1, <2>1, InstallCounter
    <2>2. CASE ~LoginControl(t)
        BY <1>1, <1>2, <1>4, <2>2, QuietShrinks DEF TaskStep, LoginControl
    <2> QED BY <2>1, <2>2
  <1>5. CASE SweeperStep \/ Environment
      BY <1>1, <1>2, <1>5, QuietShrinks
  <1>6. CASE UNCHANGED vars
      BY <1>2, <1>6 DEF vars, Shrinks, Quiet
  <1> QED BY <1>3, <1>4, <1>5, <1>6 DEF Next

LEMMA InitCounter == Init => CounterInv
  <1> SUFFICES ASSUME Init PROVE CounterInv
      OBVIOUS
  <1>1. TypeOK
      BY InitType
  <1>2. OnePlace /\ SessionsNotWaiting /\ FutureCountersUnused
      BY DEF Init, OnePlace, SessionsNotWaiting, FutureCountersUnused, VerifyPc
  <1>3. WaitingUnused
      BY ValueType DEF Init, WaitingUnused
  <1>4. NoReplay
      BY DEF Init, NoReplay
  <1> QED BY <1>1, <1>2, <1>3, <1>4 DEF CounterInv

LEMMA CounterAlways == Spec => []CounterInv
  <1> QED BY InitCounter, CounterStep, PTL DEF Spec

\* No counter value is used up twice for an account, whatever re-logins,
\* sweeps, dropped handlers and restarts come in between.
THEOREM ReplayProtection == Spec => []NoReplay
  <1>1. CounterInv => NoReplay
      BY DEF CounterInv
  <1> QED BY <1>1, CounterAlways, PTL

\* What a live session has still to count through was never used up.
THEOREM CountersStayFresh == Spec => []FutureCountersUnused
  <1>1. CounterInv => FutureCountersUnused
      BY DEF CounterInv
  <1> QED BY <1>1, CounterAlways, PTL

(***************************************************************************)
(* ChallengeOrder: Extract leaves no challenge of the account behind, and  *)
(* a challenge issued later is younger than all that is not waiting.       *)
(***************************************************************************)

LEMMA OrderStep ==
  CounterInv /\ ChallengeOrder /\ CounterInv' /\ [Next]_vars => ChallengeOrder'
  <1> SUFFICES ASSUME CounterInv, ChallengeOrder, CounterInv', [Next]_vars
               PROVE  ChallengeOrder'
      OBVIOUS
  <1>1. TypeOK /\ OnePlace /\ ControlOK
        /\ sessions \in [Uuid -> Session \cup {NoSession}]
        /\ next_nonce \in Nat
        /\ \A p \in pending_logins : p.nonce \in Nat /\ p.uuid \in Uuid
      BY DEF CounterInv, TypeOK, TablesOK, WorldOK, PendingVerify
  <1>2. ASSUME Shrinks,
               \A u \in Uuid : sessions'[u] # NoSession =>
                 \/ /\ sessions[u] # NoSession
                    /\ sessions'[u].counter.nonce = sessions[u].counter.nonce
                 \/ \E t \in Task : /\ Verifying(t, u)
                                    /\ sessions'[u].counter.nonce = loc[t].nonce
        PROVE  ChallengeOrder'
      BY <1>1, <1>2 DEF Shrinks, ChallengeOrder, Verifying
  <1>3. ASSUME NEW t \in Task, LoginControl(t) PROVE ChallengeOrder'
    <2>1. Shrinks
        BY <1>1, <1>3, InstallShrinks
    <2>2. /\ pc[t] \in VerifyPc /\ t # Sweeper /\ loc[t] \in Request
          /\ loc[t].nonce \in Nonce
      <3>1. pc[t] \in VerifyPc /\ pc[t] \notin {"idle", "sweep"} /\ t # Sweeper
          BY <1>3, ConstantsAssumption
             DEF LoginControl, Lookup, StartOk, StartFail, PromoteCount, PromoteInsert,
                 UpdateRead, UpdateCount, UpdateWrite, VerifyPc
      <3> QED BY <1>1, <3>1, LocalFacts DEF LocOK
    <2>3. ASSUME NEW u \in Uuid, sessions'[u] # sessions[u]
          PROVE  Verifying(t, u) /\ sessions'[u].counter.nonce = loc[t].nonce
      <3>1. sessions'[u].counter = [nonce |-> loc[t].nonce, ticks |-> 0]
          BY <1>1, <1>3, <2>3, InstallEffect
      <3>2. loc[t].uuid = u
          BY <1>1, <1>3, <2>3
             DEF LoginControl, Lookup, StartOk, StartFail, PromoteCount, PromoteInsert,
                 UpdateRead, UpdateCount, UpdateWrite, table
      <3> QED BY <2>2, <3>1, <3>2 DEF Verifying
    <2> QED BY <1>2, <2>1, <2>3
  <1>4. ASSUME NEW u \in Uuid, NEW k \in Key, Login(u, k) PROVE ChallengeOrder'
    <2>1. \A w \in Uuid : sessions[w] # NoSession =>
            sessions[w].counter.nonce \in Nat /\ sessions[w].counter.nonce < next_nonce
      <3>1. \A w \in Uuid : sessions[w] # NoSession => sessions[w].counter.nonce \in Nonce
          BY <1>1 DEF Session, Counter
      <3> QED BY <1>1, <3>1 DEF CounterInv, SessionsNotWaiting, Waiting
    <2> QED BY <1>1, <1>4, <2>1 DEF Login, PendingFor, OnePlace, ChallengeOrder, Verifying
  <1>5. ASSUME NEW t \in Task, NEW p \in pending_logins, NEW k \in Key, NEW ip \in Ip,
               Verify(t, p, k, ip)
        PROVE  ChallengeOrder'
    <2>1. \A s \in Task \ {t} : pc'[s] = pc[s] /\ loc'[s] = loc[s]
        BY <1>1, <1>5 DEF Verify, Begin, ControlOK
    <2>2. loc'[t].uuid = p.uuid
        BY <1>1, <1>5 DEF Verify, Begin, Local, ControlOK
    <2> QED BY <1>1, <1>5, <2>1, <2>2 DEF Verify, Extract, ChallengeOrder, Verifying
  <1>6. ASSUME NEW u \in Uuid, NEW k \in Key, NEW v \in CounterValue,
               Script(u, k, v) \/ \E t \in Task : Activity(t, u, k, v)
        PROVE  ChallengeOrder'
    <2>1. sessions[u] \in Session
        BY <1>1, <1>6 DEF Script, Activity
    <2>2. /\ Tick(sessions[u]).counter.nonce = sessions[u].counter.nonce
          /\ [Tick(sessions[u]) EXCEPT !.last_activity = now].counter.nonce
               = sessions[u].counter.nonce
        BY <2>1 DEF Tick, Session
    <2>3. \A w \in Uuid : sessions'[w] # NoSession =>
            sessions[w] # NoSession /\ sessions'[w].counter.nonce = sessions[w].counter.nonce
        BY <1>1, <1>6, <2>2 DEF Script, Activity
    <2>4. Shrinks
        BY <1>1, <1>6 DEF Script, Activity, Begin, Shrinks, ControlOK, VerifyPc
    <2> QED BY <1>2, <2>3, <2>4
  <1>7. ASSUME Shrinks, Quiet PROVE ChallengeOrder'
      BY <1>1, <1>7 DEF Shrinks, Quiet, ChallengeOrder, Verifying
  <1>8. ASSUME NEW t \in Task, TaskStep(t) PROVE ChallengeOrder'
    <2>1. CASE LoginControl(t)
        BY <1>3, <2>1
    <2>2. CASE ~LoginControl(t)
        BY <1>1, <1>7, <1>8, <2>2, QuietShrinks DEF TaskStep, LoginControl
    <2> QED BY <2>1, <2>2
  <1>9. CASE SweeperStep \/ Environment
      BY <1>1, <1>7, <1>9, QuietShrinks
  <1>10. CASE NewRequest
      BY <1>1, <1>4, <1>5, <1>6, <1>7, <1>10, QuietShrinks DEF NewRequest
  <1>11. CASE UNCHANGED vars
      BY <1>7, <1>11 DEF vars, Shrinks, Quiet
  <1> QED BY <1>8, <1>9, <1>10, <1>11 DEF Next

\* Answering a challenge leaves no older challenge of the account that could
\* still be answered.
THEOREM OlderChallengesDie == Spec => []ChallengeOrder
  <1>1. Init => ChallengeOrder
      BY DEF Init, ChallengeOrder
  <1> QED BY <1>1, OrderStep, CounterAlways, PTL DEF Spec

(***************************************************************************)
(* What a step does to a session and to the handler that writes one.       *)
(***************************************************************************)

Kept(u) ==
  /\ sessions[u] # NoSession
  /\ sessions'[u].client = sessions[u].client
  /\ sessions'[u].aes_key = sessions[u].aes_key
  /\ sessions'[u].counter.nonce = sessions[u].counter.nonce
  /\ sessions'[u].client_ip = sessions[u].client_ip

\* The sections that write a session, of a login that is then over.
Writes(t, u) ==
  /\ pc[t] \in {"promote_insert", "update_read", "update_write"}
  /\ pc'[t] = "idle"
  /\ loc[t].uuid = u
  /\ sessions'[u].aes_key = loc[t].key
  /\ sessions'[u].counter.nonce = loc[t].nonce
  /\ sessions'[u].client_ip = loc[t].ip
  /\ IF pc[t] = "promote_insert" THEN sessions'[u].client = loc[t].client
     ELSE sessions[u] # NoSession /\ sessions'[u].client = sessions[u].client
  /\ \A w \in Uuid \ {u} : sessions'[w] = sessions[w]

\* A session is the one there was, or was written by a login.
LEMMA SessionSource ==
  ASSUME TypeOK, [Next]_vars, NEW u \in Uuid, sessions'[u] # NoSession
  PROVE  Kept(u) \/ \E t \in Task : Writes(t, u)
<1>0. sessions \in [Uuid -> Session \cup {NoSession}] /\ ControlOK
  BY DEF TypeOK, TablesOK
<1>1. ASSUME sessions'[u] = sessions[u] PROVE Kept(u)
  BY <1>1 DEF Kept
<1>2. CASE Quiet
  BY <1>1, <1>2 DEF Quiet
<1>3. ASSUME NEW t \in Task, PromoteInsert(t), loc[t].uuid = u PROVE Writes(t, u)
  BY <1>0, <1>3, ConstantsAssumption
     DEF PromoteInsert, Done, NewSession, ControlOK, Writes
<1>4. ASSUME NEW t \in Task, UpdateRead(t) \/ UpdateWrite(t), sessions' # sessions,
             loc[t].uuid = u
      PROVE  Writes(t, u)
  <2>1. loc[t] \in Request
    BY <1>0, <1>4, LocalFacts DEF UpdateRead, UpdateWrite
  <2>2. \A s \in Session :
          LET w == WriteSession(s, loc[t]) IN
          /\ w.client = s.client /\ w.aes_key = loc[t].key
          /\ w.counter.nonce = loc[t].nonce /\ w.client_ip = loc[t].ip
    BY <2>1 DEF WriteSession, NewSession, Session, Request
  <2>3. /\ sessions[u] # NoSession /\ pc'[t] = "idle"
        /\ pc[t] \in {"update_read", "update_write"}
        /\ sessions' = [sessions EXCEPT ![u] = WriteSession(@, loc[t])]
    BY <1>0, <1>4, ConstantsAssumption DEF UpdateRead, UpdateWrite, Done, ControlOK
  <2> QED BY <1>0, <1>4, <2>2, <2>3 DEF Writes
<1>5. ASSUME NEW t \in Task, PromoteInsert(t) \/ UpdateRead(t) \/ UpdateWrite(t)
      PROVE  Kept(u) \/ Writes(t, u)
  <2>1. CASE loc[t].uuid = u
    BY <1>1, <1>3, <1>4, <1>5, <2>1 DEF PromoteInsert
  <2>2. CASE loc[t].uuid # u
    BY <1>0, <1>1, <1>5, <2>2 DEF PromoteInsert, UpdateRead, UpdateWrite
  <2> QED BY <2>1, <2>2
<1>6. ASSUME NEW t \in Task, LoginControl(t), ~PromoteInsert(t), ~UpdateRead(t), ~UpdateWrite(t)
      PROVE  sessions'[u] = sessions[u]
  BY <1>6 DEF LoginControl, Lookup, StartOk, StartFail, PromoteCount, UpdateCount, table
<1>7. ASSUME NEW w \in Uuid, NEW k \in Key, NEW v \in CounterValue,
             Script(w, k, v) \/ \E t \in Task : Activity(t, w, k, v)
      PROVE  Kept(u)
  <2>1. ASSUME NEW s \in Session,
               NEW q \in {Tick(s), [Tick(s) EXCEPT !.last_activity = now]}
        PROVE  /\ q.client = s.client /\ q.aes_key = s.aes_key
               /\ q.counter.nonce = s.counter.nonce /\ q.client_ip = s.client_ip
    <3>1. CASE q = Tick(s)
      BY <3>1 DEF Tick, Session
    <3>2. CASE q = [Tick(s) EXCEPT !.last_activity = now]
      BY <3>2 DEF Tick, Session
    <3> QED BY <3>1, <3>2
  <2>2. CASE w = u
    <3>1. /\ sessions[u] # NoSession
          /\ sessions'[u] \in {Tick(sessions[u]), [Tick(sessions[u]) EXCEPT !.last_activity = now]}
      BY <1>0, <1>7, <2>2 DEF Script, Activity
    <3> QED BY <1>0, <2>1, <3>1 DEF Kept
  <2>3. CASE w # u
    BY <1>0, <1>1, <1>7, <2>3 DEF Script, Activity
  <2> QED BY <2>2, <2>3
<1>8. CASE NewRequest
  BY <1>1, <1>2, <1>7, <1>8, QuietShrinks DEF NewRequest, Login, Verify
<1>9. ASSUME NEW t \in Task, TaskStep(t) PROVE LoginControl(t) \/ Quiet
  BY <1>9, QuietShrinks DEF TaskStep, LoginControl
<1>10. CASE SweeperStep \/ Environment
  BY <1>2, <1>10, QuietShrinks
<1>11. CASE UNCHANGED vars
  BY <1>1, <1>11 DEF vars
<1> QED BY <1>1, <1>2, <1>5, <1>6, <1>8, <1>9, <1>10, <1>11 DEF Next

\* A login keeps to its account, its challenge, its key and its address.
LEMMA LoginKeeps ==
  ASSUME TypeOK, [Next]_vars, NEW t \in Task, pc[t] \in VerifyPc, pc'[t] \in VerifyPc
  PROVE  /\ loc'[t].uuid = loc[t].uuid /\ loc'[t].nonce = loc[t].nonce
         /\ loc'[t].key = loc[t].key /\ loc'[t].ip = loc[t].ip
<1> DEFINE Keeps == /\ loc'[t].uuid = loc[t].uuid /\ loc'[t].nonce = loc[t].nonce
                    /\ loc'[t].key = loc[t].key /\ loc'[t].ip = loc[t].ip
<1>0. /\ pc \in [Actor -> TaskPc \cup SweeperPc]
      /\ loc \in [Actor -> Request \cup {NoRequest}]
      /\ loc[t] \in Request /\ t # Sweeper
  BY LocalFacts, ConstantsAssumption DEF TypeOK, ControlOK, VerifyPc
<1>1. CASE loc'[t] = loc[t]
  BY <1>1
<1>2. ASSUME NEW a \in Actor, Done(a) PROVE loc'[t] = loc[t]
  BY <1>0, <1>2 DEF Done, VerifyPc
<1>3. ASSUME NEW a \in Actor, NEW u, NEW label \in {"uncount", "logout_uncount"},
             Remove(a, u, label)
      PROVE  loc'[t] = loc[t]
  BY <1>0, <1>2, <1>3 DEF Remove, Goto, VerifyPc
<1>4. ASSUME NEW s \in Task, LoginControl(s) PROVE Keeps
  <2>1. CASE \/ loc' = [loc EXCEPT ![s].at = BeforeCooldown]
             \/ loc' = [loc EXCEPT ![s].client = loc[s].nonce]
             \/ loc' = [loc EXCEPT ![s].old_ip = sessions[loc[s].uuid].client_ip]
    BY <1>0, <2>1 DEF Request
  <2> QED BY <1>1, <1>2, <1>4, <2>1
          DEF LoginControl, Lookup, StartOk, StartFail, PromoteCount, PromoteInsert,
              UpdateRead, UpdateCount, UpdateWrite
<1>5. ASSUME NEW s \in Task, TaskStep(s), ~LoginControl(s) PROVE loc'[t] = loc[t]
  BY <1>0, <1>2, <1>3, <1>5
     DEF TaskStep, LoginControl, CheckAlive, LogoutStop, LogoutRemove, LogoutUncount,
         RemoveDead, Uncount, StopRemoved
<1>6. CASE SweeperStep
  BY <1>2, <1>3, <1>6 DEF SweeperStep, SweepCollect, SweepPending, SweepRemove, Uncount, StopRemoved
<1>7. CASE NewRequest
  BY <1>0, <1>7 DEF NewRequest, Login, Verify, Activity, Script, Logout, Begin, VerifyPc
<1>8. CASE Environment
  BY <1>0, <1>2, <1>8 DEF Environment, GatewayDies, Cancel, Time, Restart, VerifyPc
<1>9. CASE UNCHANGED vars
  BY <1>9 DEF vars
<1> QED BY <1>1, <1>4, <1>5, <1>6, <1>7, <1>8, <1>9 DEF Next

(***************************************************************************)
(* The session store implements ReplayGuard: a login issues, a             *)
(* verification answers, the write of a session installs, a request uses   *)
(* up one counter value, and whatever else happens retires or nothing.     *)
(***************************************************************************)

GuardStep == [Guard!Next]_(Guard!vars)

\* A section that begins no login, installs none and accepts nothing.
LEMMA QuietGuard ==
  ASSUME TypeOK, Shrinks, Quiet
  PROVE  GuardStep
<1>1. IssuedNow' \in SUBSET IssuedNow
  BY DEF Shrinks, IssuedNow
<1>2. AnsweredNow' \in SUBSET AnsweredNow
  BY DEF Shrinks, AnsweredNow
<1>3. CurrentNow' \in SUBSET CurrentNow
  BY DEF Quiet, CurrentNow
<1>4. UNCHANGED <<1 .. next_nonce - 1, ticked>>
  BY DEF Shrinks, Quiet
<1>5. Guard!Retire
  BY <1>1, <1>2, <1>3, <1>4 DEF Guard!Retire
<1> QED BY <1>5 DEF GuardStep, Guard!Next

LEMMA IssueGuard ==
  ASSUME CounterInv, NEW u \in Uuid, NEW k \in Key, Login(u, k)
  PROVE  GuardStep
<1>1. PICK n \in Nonce : n = next_nonce
  BY DEF CounterInv, TypeOK, WorldOK, Login
<1>2. /\ n \notin 1 .. next_nonce - 1
      /\ 1 .. next_nonce' - 1 = (1 .. next_nonce - 1) \cup {n}
  BY <1>1, ConstantsAssumption DEF Login
<1>3. IssuedNow' = IssuedNow \cup {<<u, n>>}
  <2> DEFINE p == PendingFor(u, k)
  <2>1. p.uuid = u /\ p.nonce = n /\ pending_logins' = pending_logins \cup {p}
    BY <1>1 DEF PendingFor, Login
  <2> HIDE DEF p
  <2> QED BY <2>1 DEF IssuedNow
<1>4. UNCHANGED <<AnsweredNow, CurrentNow, ticked>>
  BY DEF Login, AnsweredNow, CurrentNow
<1>5. Guard!Issue(u, n)
  BY <1>2, <1>3, <1>4 DEF Guard!Issue
<1> QED BY <1>5 DEF GuardStep, Guard!Next

LEMMA AnswerGuard ==
  ASSUME CounterInv, NEW t \in Task, NEW p \in pending_logins, NEW k \in Key,
         NEW ip \in Ip, Verify(t, p, k, ip)
  PROVE  GuardStep
<1>1. p.uuid \in Uuid /\ p.nonce \in Nonce
  BY DEF CounterInv, TypeOK, TablesOK, PendingVerify
<1>2. PICK a \in Uuid, n \in Nonce : a = p.uuid /\ n = p.nonce
  BY <1>1
<1>3. /\ pc[t] = "idle" /\ pc'[t] = "lookup" /\ loc'[t].uuid = a /\ loc'[t].nonce = n
      /\ \A s \in Task \ {t} : pc'[s] = pc[s] /\ loc'[s] = loc[s]
  BY <1>2 DEF Verify, Begin, Local, CounterInv, TypeOK, ControlOK
<1>4. <<a, n>> \in IssuedNow
  BY <1>2 DEF IssuedNow
<1>5. IssuedNow' = Guard!OfOthers(a, IssuedNow)
  BY <1>2 DEF Verify, Extract, IssuedNow, Guard!OfOthers
<1>6. AnsweredNow' = AnsweredNow \cup {<<a, n>>}
  BY <1>3 DEF AnsweredNow, VerifyPc
<1>7. UNCHANGED <<1 .. next_nonce - 1, CurrentNow, ticked>>
  BY DEF Verify, CurrentNow, world
<1>8. Guard!Answer(a, n)
  BY <1>4, <1>5, <1>6, <1>7 DEF Guard!Answer
<1> QED BY <1>8 DEF GuardStep, Guard!Next

\* A login section that writes a session puts the challenge in force that the
\* login holds; any other one is quiet.
LEMMA InstallGuard ==
  ASSUME CounterInv, NEW t \in Task, LoginControl(t)
  PROVE  GuardStep
<1>1. TypeOK /\ OnePlace /\ ControlOK /\ sessions \in [Uuid -> Session \cup {NoSession}]
  BY DEF CounterInv, TypeOK, TablesOK
<1>2. Shrinks
  BY <1>1, InstallShrinks
<1>3. CASE \A u \in Uuid : sessions'[u] = sessions[u]
  <2>1. Quiet
    BY <1>1, <1>3, InstallEffect DEF Quiet
  <2> QED BY <1>1, <1>2, <2>1, QuietGuard
<1>4. ASSUME NEW u \in Uuid, sessions'[u] # sessions[u] PROVE GuardStep
  <2>1. PICK n \in Nonce :
          /\ n = loc[t].nonce /\ pc[t] \in VerifyPc /\ pc'[t] = "idle"
          /\ sessions'[u].counter = [nonce |-> n, ticks |-> 0]
    BY <1>1, <1>4, InstallEffect
  <2>2. PromoteInsert(t) \/ UpdateRead(t) \/ UpdateWrite(t)
    BY <1>4 DEF LoginControl, Lookup, StartOk, StartFail, PromoteCount, UpdateCount, table
  <2>3. /\ loc[t] \in Request /\ loc[t].key \in Key /\ loc[t].ip \in Ip
        /\ loc[t].nonce \in Nonce /\ loc[t].uuid \in Uuid
        /\ pc[t] = "promote_insert" => loc[t].client \in Nonce
    <3>1. pc[t] \notin {"idle", "sweep"} /\ t \in Actor
      BY <2>1 DEF VerifyPc
    <3> QED BY <1>1, <2>1, <3>1, LocalFacts DEF LocOK
  <2>4. loc[t].uuid = u /\ \A w \in Uuid \ {u} : sessions'[w] = sessions[w]
    BY <1>1, <1>4, <2>2, <2>3 DEF PromoteInsert, UpdateRead, UpdateWrite
  <2>5. sessions'[u] \in Session
    <3>1. CASE PromoteInsert(t)
      BY <1>1, <2>3, <2>4, <3>1, NewSessionType DEF PromoteInsert
    <3>2. CASE UpdateRead(t) \/ UpdateWrite(t)
      <4>1. /\ sessions[u] \in Session
            /\ sessions'[u] = WriteSession(sessions[u], loc[t])
        BY <1>1, <1>4, <2>3, <2>4, <3>2 DEF UpdateRead, UpdateWrite
      <4> QED BY <2>3, <4>1, WriteSessionType
    <3> QED BY <2>2, <3>1, <3>2
  <2>6. \A s \in Task \ {t} : pc'[s] = pc[s] /\ loc'[s] = loc[s]
    <3>1. Done(t)
      BY <1>4, <2>2 DEF PromoteInsert, UpdateRead, UpdateWrite
    <3> QED BY <1>1, <3>1 DEF Done, ControlOK
  <2>7. UNCHANGED <<pending_logins, next_nonce, ticked>>
    BY <2>2 DEF PromoteInsert, UpdateRead, UpdateWrite, world
  <2>8. <<u, n>> \in AnsweredNow
    BY <2>1, <2>4 DEF AnsweredNow
  <2>9. AnsweredNow' = AnsweredNow \ {<<u, n>>}
    <3>1. \A s \in Task \ {t} : pc[s] \in VerifyPc => loc[s].nonce # n
      BY <1>1, <2>1 DEF OnePlace
    <3> QED BY <2>1, <2>4, <2>6, <3>1 DEF AnsweredNow, VerifyPc
  <2>10. CurrentNow' = Guard!OfOthers(u, CurrentNow) \cup {<<u, n>>}
    <3>1. sessions'[u] # NoSession /\ sessions'[u].counter.nonce = n
      BY <2>1, <2>5, NullAssumption
    <3> QED BY <2>4, <3>1 DEF CurrentNow, Guard!OfOthers
  <2>11. UNCHANGED <<1 .. next_nonce - 1, IssuedNow, ticked>>
    BY <2>7 DEF IssuedNow
  <2>12. Guard!Install(u, n)
    BY <2>8, <2>9, <2>10, <2>11 DEF Guard!Install
  <2> QED BY <2>12 DEF GuardStep, Guard!Next
<1> QED BY <1>3, <1>4

LEMMA TickGuard ==
  ASSUME CounterInv, NEW u \in Uuid, NEW k \in Key, NEW v \in CounterValue,
         \/ Script(u, k, v)
         \/ \E t \in Task : Activity(t, u, k, v)
  PROVE  GuardStep
<1>1. sessions \in [Uuid -> Session \cup {NoSession}] /\ ControlOK /\ WorldOK
  BY DEF CounterInv, TypeOK, TablesOK
<1>2. /\ sessions[u] \in Session /\ sessions[u] # NoSession
      /\ sessions[u].counter.ticks < MaxTicks
      /\ v = Value(sessions[u].counter.nonce, sessions[u].counter.ticks + 1)
      /\ CountTick(u, v)
  BY <1>1 DEF Script, Activity, VerifyAuth
<1>3. PICK n \in Nonce, j \in 1 .. MaxTicks :
        n = sessions[u].counter.nonce /\ j = sessions[u].counter.ticks + 1
  BY <1>2, ConstantsAssumption DEF Session, Counter
<1>4. v \in CounterSpan(n)
  BY <1>2, <1>3 DEF CounterSpan
<1>5. ticked[u][v] = 0
  BY <1>2, <1>3, ConstantsAssumption DEF CounterInv, FutureCountersUnused
<1>6. ticked' = [ticked EXCEPT ![u][v] = 1]
  BY <1>1, <1>2, <1>5 DEF CountTick, WorldOK
<1>7. /\ sessions'[u] # NoSession /\ sessions'[u].counter.nonce = n
      /\ \A w \in Uuid \ {u} : sessions'[w] = sessions[w]
  <2>1. /\ Tick(sessions[u]) # NoSession
        /\ Tick(sessions[u]).counter.nonce = n
        /\ [Tick(sessions[u]) EXCEPT !.last_activity = now] # NoSession
        /\ [Tick(sessions[u]) EXCEPT !.last_activity = now].counter.nonce = n
    <3>1. Tick(sessions[u]) \in Session
      BY <1>2, TickType
    <3>2. [Tick(sessions[u]) EXCEPT !.last_activity = now] \in Session
      BY <1>1, <3>1 DEF Session, WorldOK
    <3> QED BY <1>2, <1>3, <3>1, <3>2, NullAssumption DEF Tick, Session
  <2> QED BY <1>1, <2>1 DEF Script, Activity
<1>8. CurrentNow' = CurrentNow /\ <<u, n>> \in CurrentNow
  BY <1>2, <1>3, <1>7 DEF CurrentNow
<1>9. AnsweredNow' = AnsweredNow
  BY <1>1 DEF Script, Activity, Begin, AnsweredNow, ControlOK, VerifyPc
<1>10. UNCHANGED <<1 .. next_nonce - 1, IssuedNow>>
  BY DEF Script, Activity, IssuedNow
<1>11. Guard!UseUp(u, n, v)
  BY <1>4, <1>5, <1>6, <1>8, <1>9, <1>10 DEF Guard!UseUp
<1> QED BY <1>11 DEF GuardStep, Guard!Next

LEMMA StepGuard == CounterInv /\ [Next]_vars => GuardStep
<1> SUFFICES ASSUME CounterInv, [Next]_vars PROVE GuardStep
  OBVIOUS
<1>1. TypeOK
  BY DEF CounterInv
<1>2. CASE NewRequest
  BY <1>1, <1>2, IssueGuard, AnswerGuard, TickGuard, QuietGuard, QuietShrinks DEF NewRequest
<1>3. ASSUME NEW t \in Task, TaskStep(t) PROVE GuardStep
  <2>1. CASE LoginControl(t)
    BY <2>1, InstallGuard
  <2>2. CASE ~LoginControl(t)
    BY <1>1, <1>3, <2>2, QuietGuard, QuietShrinks DEF TaskStep, LoginControl
  <2> QED BY <2>1, <2>2
<1>4. CASE SweeperStep \/ Environment
  BY <1>1, <1>4, QuietGuard, QuietShrinks
<1>5. CASE UNCHANGED vars
  BY <1>1, <1>5, QuietGuard DEF vars, Shrinks, Quiet
<1> QED BY <1>2, <1>3, <1>4, <1>5 DEF Next

LEMMA InitGuard == Init => Guard!Init
<1> SUFFICES ASSUME Init PROVE Guard!Init
  OBVIOUS
<1>1. 1 .. next_nonce - 1 = {}
  BY DEF Init
<1>2. IssuedNow = {} /\ AnsweredNow = {} /\ CurrentNow = {}
  BY DEF Init, IssuedNow, AnsweredNow, CurrentNow, VerifyPc
<1> QED BY <1>1, <1>2 DEF Guard!Init, Init

\* Every behaviour of the session store is one that ReplayGuard allows:
\* challenges are answered once, answering one ends the account's others, only
\* an answered challenge is counted from, and a counter value is used up once.
THEOREM ImplementsGuard == Spec => ReplayGuardSpec
<1>1. CounterInv /\ [Next]_vars => [Guard!Next]_(Guard!vars)
  BY StepGuard DEF GuardStep
<1> QED BY InitGuard, <1>1, CounterAlways, PTL DEF Spec, ReplayGuardSpec, Guard!Spec
=============================================================================
