------------------------- MODULE SessionCountProofs -------------------------
(***************************************************************************)
(* ip_counts is exact when the requests of an account wait for each other  *)
(* and no handler is dropped, and never too low whatever overlaps or is    *)
(* dropped: for any finite number of accounts and handlers, each account   *)
(* behind one address that it may share.                                   *)
(***************************************************************************)
EXTENDS SessionSerialProofs, FiniteSetTheorems

USE DEF Actor, Nonce

\* An account connects from one address only.
OneHome == \A u \in Uuid : \A i, j \in Home[u] : i = j

Finite == IsFiniteSet(Uuid) /\ IsFiniteSet(Task)

\* The handlers between the two sections that insert or remove a session.
CountPc == {"promote_insert", "uncount", "logout_uncount"}

Under(i) == {u \in Uuid : sessions[u] # NoSession /\ sessions[u].client_ip = i}
Between(i) == {a \in Actor : pc[a] \in CountPc /\ loc[a].ip = i}

Exact == \A i \in Ip : ip_counts[i] = Cardinality(Under(i)) + Cardinality(Between(i))
Covers == \A i \in Ip : ip_counts[i] >= Cardinality(Under(i)) + Cardinality(Between(i))

\* What a step makes of the difference between the two sides.
Gap(i) == ip_counts[i] - (Cardinality(Under(i)) + Cardinality(Between(i)))
Balanced == \A i \in Ip : Gap(i)' = Gap(i)
Loosened == \A i \in Ip : Gap(i)' >= Gap(i)

LEMMA ExactIs == Exact <=> IpCountsExact
BY DEF Exact, IpCountsExact, Under, Between, CountPc

\* Sessions and logins carry the address their account connects from, so no
\* login moves a count from one address to another.
AtHome ==
  /\ \A u \in Uuid : sessions[u] # NoSession => sessions[u].client_ip \in Home[u]
  /\ \A t \in Task : pc[t] \in VerifyPc => loc[t].ip \in Home[loc[t].uuid]
  /\ \A t \in Task : pc[t] \notin {"update_count", "update_write"}

(***************************************************************************)
(* How the two sets move, and the counts with them.                        *)
(***************************************************************************)

SessionStays(u) ==
  /\ sessions'[u] # NoSession <=> sessions[u] # NoSession
  /\ sessions[u] # NoSession => sessions'[u].client_ip = sessions[u].client_ip

HandlerStays(a) ==
  /\ pc'[a] \in CountPc <=> pc[a] \in CountPc
  /\ pc[a] \in CountPc => loc'[a].ip = loc[a].ip

SessionsStay == \A u \in Uuid : SessionStays(u)
OthersStay(a) == \A b \in Actor \ {a} : HandlerStays(b)

LEMMA FiniteSets ==
  ASSUME Finite, NEW i
  PROVE  /\ IsFiniteSet(Under(i)) /\ Cardinality(Under(i)) \in Nat
         /\ IsFiniteSet(Between(i)) /\ Cardinality(Between(i)) \in Nat
<1>1. IsFiniteSet(Uuid) /\ IsFiniteSet(Actor)
  BY FS_AddElement DEF Finite
<1>2. Under(i) \in SUBSET Uuid /\ Between(i) \in SUBSET Actor
  BY DEF Under, Between
<1>3. IsFiniteSet(Under(i)) /\ IsFiniteSet(Between(i))
  BY <1>1, <1>2, FS_Subset
<1> QED BY <1>3, FS_CardinalityType

LEMMA UnderStays ==
  ASSUME SessionsStay, NEW i
  PROVE  Under(i)' = Under(i)
BY DEF SessionsStay, SessionStays, Under

LEMMA BetweenStays ==
  ASSUME \A a \in Actor : HandlerStays(a), NEW i
  PROVE  Between(i)' = Between(i)
BY DEF HandlerStays, Between

LEMMA NothingMoves ==
  ASSUME SessionsStay, \A a \in Actor : HandlerStays(a), ip_counts' = ip_counts
  PROVE  Balanced
BY UnderStays, BetweenStays DEF Balanced, Gap

LEMMA UnderGrows ==
  ASSUME Finite, NEW u \in Uuid, sessions[u] = NoSession, sessions'[u] # NoSession,
         \A w \in Uuid \ {u} : SessionStays(w), NEW i
  PROVE  Cardinality(Under(i)') =
           Cardinality(Under(i)) + (IF sessions'[u].client_ip = i THEN 1 ELSE 0)
<1>1. CASE sessions'[u].client_ip = i
  <2>1. Under(i)' = Under(i) \cup {u} /\ u \notin Under(i)
    BY <1>1 DEF Under, SessionStays
  <2> QED BY <1>1, <2>1, FiniteSets, FS_AddElement
<1>2. CASE sessions'[u].client_ip # i
  <2>1. Under(i)' = Under(i)
    BY <1>2 DEF Under, SessionStays
  <2> QED BY <1>2, <2>1, FiniteSets
<1> QED BY <1>1, <1>2

LEMMA UnderShrinks ==
  ASSUME Finite, NEW u \in Uuid, sessions[u] # NoSession, sessions'[u] = NoSession,
         \A w \in Uuid \ {u} : SessionStays(w), NEW i
  PROVE  Cardinality(Under(i)') =
           Cardinality(Under(i)) - (IF sessions[u].client_ip = i THEN 1 ELSE 0)
<1>1. CASE sessions[u].client_ip = i
  <2>1. Under(i)' = Under(i) \ {u} /\ u \in Under(i)
    BY <1>1 DEF Under, SessionStays
  <2> QED BY <1>1, <2>1, FiniteSets, FS_RemoveElement
<1>2. CASE sessions[u].client_ip # i
  <2>1. Under(i)' = Under(i)
    BY <1>2 DEF Under, SessionStays
  <2> QED BY <1>2, <2>1, FiniteSets
<1> QED BY <1>1, <1>2

LEMMA BetweenGrows ==
  ASSUME Finite, NEW a \in Actor, pc[a] \notin CountPc, pc'[a] \in CountPc, OthersStay(a), NEW i
  PROVE  Cardinality(Between(i)') =
           Cardinality(Between(i)) + (IF loc'[a].ip = i THEN 1 ELSE 0)
<1>1. CASE loc'[a].ip = i
  <2>1. Between(i)' = Between(i) \cup {a} /\ a \notin Between(i)
    BY <1>1 DEF Between, OthersStay, HandlerStays
  <2> QED BY <1>1, <2>1, FiniteSets, FS_AddElement
<1>2. CASE loc'[a].ip # i
  <2>1. Between(i)' = Between(i)
    BY <1>2 DEF Between, OthersStay, HandlerStays
  <2> QED BY <1>2, <2>1, FiniteSets
<1> QED BY <1>1, <1>2

LEMMA BetweenShrinks ==
  ASSUME Finite, NEW a \in Actor, pc[a] \in CountPc, pc'[a] \notin CountPc, OthersStay(a), NEW i
  PROVE  Cardinality(Between(i)') =
           Cardinality(Between(i)) - (IF loc[a].ip = i THEN 1 ELSE 0)
<1>1. CASE loc[a].ip = i
  <2>1. Between(i)' = Between(i) \ {a} /\ a \in Between(i)
    BY <1>1 DEF Between, OthersStay, HandlerStays
  <2> QED BY <1>1, <2>1, FiniteSets, FS_RemoveElement
<1>2. CASE loc[a].ip # i
  <2>1. Between(i)' = Between(i)
    BY <1>2 DEF Between, OthersStay, HandlerStays
  <2> QED BY <1>2, <2>1, FiniteSets
<1> QED BY <1>1, <1>2

(***************************************************************************)
(* The four ways they move.                                                *)
(***************************************************************************)

\* PromoteCount.
LEMMA CountsUp ==
  ASSUME Finite, ip_counts \in [Ip -> Nat], NEW a \in Actor,
         pc[a] \notin CountPc, pc'[a] \in CountPc, OthersStay(a), SessionsStay,
         ip_counts' = IncrementIp(loc'[a].ip)
  PROVE  Balanced
<1> SUFFICES ASSUME NEW i \in Ip PROVE Gap(i)' = Gap(i)
  BY DEF Balanced
<1>1. Cardinality(Under(i)') = Cardinality(Under(i))
  BY UnderStays
<1>2. ip_counts'[i] = ip_counts[i] + (IF loc'[a].ip = i THEN 1 ELSE 0) /\ ip_counts[i] \in Nat
  BY DEF IncrementIp
<1> QED BY <1>1, <1>2, BetweenGrows, FiniteSets DEF Gap

\* PromoteInsert.
LEMMA Registered ==
  ASSUME Finite, ip_counts \in [Ip -> Nat], NEW a \in Actor, NEW u \in Uuid,
         pc[a] \in CountPc, pc'[a] \notin CountPc, OthersStay(a),
         sessions[u] = NoSession, sessions'[u] # NoSession,
         \A w \in Uuid \ {u} : SessionStays(w),
         sessions'[u].client_ip = loc[a].ip, ip_counts' = ip_counts
  PROVE  Balanced
<1> SUFFICES ASSUME NEW i \in Ip PROVE Gap(i)' = Gap(i)
  BY DEF Balanced
<1>1. ip_counts[i] \in Nat
  OBVIOUS
<1> QED BY <1>1, UnderGrows, BetweenShrinks, FiniteSets DEF Gap

\* LogoutRemove, RemoveDead and SweepRemove.
LEMMA TakenOut ==
  ASSUME Finite, ip_counts \in [Ip -> Nat], NEW a \in Actor, NEW u \in Uuid,
         pc[a] \notin CountPc, pc'[a] \in CountPc, OthersStay(a),
         sessions[u] # NoSession, sessions'[u] = NoSession,
         \A w \in Uuid \ {u} : SessionStays(w),
         loc'[a].ip = sessions[u].client_ip, ip_counts' = ip_counts
  PROVE  Balanced
<1> SUFFICES ASSUME NEW i \in Ip PROVE Gap(i)' = Gap(i)
  BY DEF Balanced
<1>1. ip_counts[i] \in Nat
  OBVIOUS
<1> QED BY <1>1, UnderShrinks, BetweenGrows, FiniteSets DEF Gap

\* LogoutUncount and Uncount: the entry that is given back is there.
LEMMA CountsDown ==
  ASSUME Finite, Covers, ip_counts \in [Ip -> Nat], NEW a \in Actor,
         pc[a] \in CountPc, pc'[a] \notin CountPc, OthersStay(a), SessionsStay,
         ip_counts' = DecrementIp(loc[a].ip)
  PROVE  Balanced
<1> SUFFICES ASSUME NEW i \in Ip PROVE Gap(i)' = Gap(i)
  BY DEF Balanced
<1>1. Cardinality(Under(i)') = Cardinality(Under(i))
  BY UnderStays
<1>2. CASE loc[a].ip = i
  <2>1. Cardinality(Between(i)') = Cardinality(Between(i)) - 1
    BY <1>2, BetweenShrinks
  <2>2. a \in Between(i)
    BY <1>2 DEF Between
  <2>3. Cardinality(Between(i)) # 0
    BY <2>2, FiniteSets, FS_EmptySet
  <2>4. ip_counts[i] >= Cardinality(Under(i)) + Cardinality(Between(i)) /\ ip_counts[i] \in Nat
    BY DEF Covers
  <2>5. ip_counts'[i] = IF ip_counts[i] > 1 THEN ip_counts[i] - 1 ELSE 0
    BY <1>2 DEF DecrementIp
  <2> QED BY <1>1, <2>1, <2>3, <2>4, <2>5, FiniteSets DEF Gap
<1>3. CASE loc[a].ip # i
  <2>1. Cardinality(Between(i)') = Cardinality(Between(i))
    BY <1>3, BetweenShrinks, FiniteSets
  <2>2. ip_counts'[i] = ip_counts[i]
    BY <1>3 DEF DecrementIp
  <2> QED BY <1>1, <2>1, <2>2 DEF Gap
<1> QED BY <1>2, <1>3

\* A handler that leaves the table as it is and gives up what it had counted: it
\* is dropped, or the session it inserts replaces another of the same address.
LEMMA GivenUp ==
  ASSUME Finite, ip_counts \in [Ip -> Nat], NEW a \in Actor,
         pc'[a] \notin CountPc, OthersStay(a), SessionsStay, ip_counts' = ip_counts
  PROVE  Loosened
<1> SUFFICES ASSUME NEW i \in Ip PROVE Gap(i)' >= Gap(i)
  BY DEF Loosened
<1>1. Cardinality(Under(i)') = Cardinality(Under(i)) /\ ip_counts[i] \in Nat
  BY UnderStays
<1>2. CASE pc[a] \in CountPc
  BY <1>1, <1>2, BetweenShrinks, FiniteSets DEF Gap
<1>3. CASE pc[a] \notin CountPc
  <2>1. \A b \in Actor : HandlerStays(b)
    BY <1>3 DEF OthersStay, HandlerStays
  <2> QED BY <1>1, <2>1, BetweenStays, FiniteSets DEF Gap
<1> QED BY <1>2, <1>3

(***************************************************************************)
(* The invariant.                                                          *)
(***************************************************************************)

\* A login gets to the two sections that move a count past a session that
\* carries another address.
LEMMA MoveSource ==
  ASSUME TypeOK, [Next]_vars, NEW t \in Task, pc'[t] \in {"update_count", "update_write"}
  PROVE  \/ pc[t] \in {"update_count", "update_write"}
         \/ /\ pc[t] = "update_read" /\ sessions[loc[t].uuid] # NoSession
            /\ sessions[loc[t].uuid].client_ip # loc[t].ip
<1>0. pc \in [Actor -> TaskPc \cup SweeperPc] /\ t # Sweeper
  BY ConstantsAssumption DEF TypeOK, ControlOK
<1>1. CASE pc'[t] = pc[t]
  BY <1>1
<1>2. ASSUME NEW a \in Actor, Done(a) PROVE pc'[t] = pc[t]
  BY <1>0, <1>2 DEF Done
<1>3. ASSUME NEW a \in Actor, NEW label, Goto(a, label),
             label \notin {"update_count", "update_write"}
      PROVE  pc'[t] = pc[t]
  BY <1>0, <1>3 DEF Goto
<1>4. ASSUME NEW s \in Task, UpdateRead(s) \/ UpdateCount(s)
      PROVE  \/ pc'[t] = pc[t]
             \/ pc[t] \in {"update_count", "update_write"}
             \/ /\ pc[t] = "update_read" /\ sessions[loc[t].uuid] # NoSession
                /\ sessions[loc[t].uuid].client_ip # loc[t].ip
  BY <1>0, <1>2, <1>4 DEF UpdateRead, UpdateCount, Goto
<1>5. ASSUME NEW a \in Actor, NEW u, NEW label \in {"uncount", "logout_uncount"},
             Remove(a, u, label)
      PROVE  pc'[t] = pc[t]
  BY <1>2, <1>3, <1>5 DEF Remove
<1>6. ASSUME NEW s \in Task, TaskStep(s), ~UpdateRead(s), ~UpdateCount(s)
      PROVE  pc'[t] = pc[t]
  BY <1>2, <1>3, <1>5, <1>6
     DEF TaskStep, Lookup, StartOk, StartFail, PromoteCount, PromoteInsert, UpdateWrite,
         CheckAlive, LogoutStop, LogoutRemove, LogoutUncount, RemoveDead, Uncount, StopRemoved
<1>7. CASE SweeperStep
  BY <1>2, <1>3, <1>5, <1>7
     DEF SweeperStep, SweepCollect, SweepPending, SweepRemove, Uncount, StopRemoved
<1>8. CASE NewRequest
  BY <1>0, <1>8 DEF NewRequest, Login, Verify, Activity, Script, Logout, Begin
<1>9. CASE Environment
  BY <1>2, <1>9 DEF Environment, GatewayDies, Cancel, Time, Restart
<1>10. CASE UNCHANGED vars
  BY <1>10 DEF vars
<1> QED BY <1>1, <1>4, <1>6, <1>7, <1>8, <1>9, <1>10 DEF Next

LEMMA AtHomeStep ==
  ASSUME OneHome, TypeOK, AtHome, [Next]_vars
  PROVE  AtHome'
<1>1. ASSUME NEW u \in Uuid, sessions'[u] # NoSession PROVE sessions'[u].client_ip \in Home[u]
  <2>1. ASSUME NEW t \in Task, Writes(t, u) PROVE sessions'[u].client_ip \in Home[u]
    BY <2>1 DEF Writes, AtHome, VerifyPc
  <2> QED BY <1>1, <2>1, SessionSource DEF Kept, AtHome
<1>2. ASSUME NEW t \in Task, pc'[t] \in VerifyPc PROVE loc'[t].ip \in Home[loc'[t].uuid]
  BY <1>2, LoginBegins, LoginKeeps DEF AtHome
<1>3. ASSUME NEW t \in Task PROVE pc'[t] \notin {"update_count", "update_write"}
  <2>1. ASSUME pc[t] = "update_read", sessions[loc[t].uuid] # NoSession
        PROVE  sessions[loc[t].uuid].client_ip = loc[t].ip
    <3>1. loc[t].uuid \in Uuid
      BY <2>1, LocalFacts DEF TypeOK
    <3> QED BY <2>1, <3>1 DEF AtHome, OneHome, VerifyPc
  <2> QED BY <2>1, MoveSource DEF AtHome
<1> QED BY <1>1, <1>2, <1>3 DEF AtHome

LEMMA RemoveCounts ==
  ASSUME Finite, TypeOK, NEW a \in Actor, pc[a] \notin CountPc, NEW u \in Uuid,
         NEW label \in {"uncount", "logout_uncount"}, Remove(a, u, label)
  PROVE  Balanced
<1>0. /\ pc \in [Actor -> TaskPc \cup SweeperPc] /\ loc \in [Actor -> Request \cup {NoRequest}]
      /\ sessions \in [Uuid -> Session \cup {NoSession}] /\ ip_counts \in [Ip -> Nat]
  BY DEF TypeOK, ControlOK, TablesOK
<1>1. OthersStay(a) /\ \A w \in Uuid \ {u} : SessionStays(w)
  BY <1>0 DEF Remove, Goto, Done, OthersStay, HandlerStays, SessionStays
<1>2. CASE sessions[u] = NoSession
  <2>1. HandlerStays(a) /\ SessionStays(u)
    BY <1>0, <1>2 DEF Remove, Done, HandlerStays, SessionStays, CountPc
  <2> QED BY <1>1, <2>1, NothingMoves DEF Remove, OthersStay, SessionsStay
<1>3. CASE sessions[u] # NoSession
  <2>1. /\ pc'[a] \in CountPc /\ sessions'[u] = NoSession
        /\ loc'[a].ip = sessions[u].client_ip
    BY <1>0, <1>3 DEF Remove, Goto, Local, CountPc
  <2> QED BY <1>0, <1>1, <1>3, <2>1, TakenOut DEF Remove
<1> QED BY <1>2, <1>3

\* The steps after which an address stays counted for nobody: a handler is
\* dropped, or a session is inserted over another one.
Forgets ==
  \/ \E t \in Task : Cancel(t)
  \/ \E t \in Task : PromoteInsert(t) /\ sessions[loc[t].uuid] # NoSession

LEMMA CountStep ==
  ASSUME Finite, OneHome, TypeOK, AtHome, Covers, [Next]_vars
  PROVE  Balanced \/ Exact' \/ (Forgets /\ Loosened)
<1> USE ConstantsAssumption
<1>0. /\ pc \in [Actor -> TaskPc \cup SweeperPc] /\ loc \in [Actor -> Request \cup {NoRequest}]
      /\ sessions \in [Uuid -> Session \cup {NoSession}] /\ ip_counts \in [Ip -> Nat]
      /\ \A a \in Actor : pc[a] \notin {"idle", "sweep"} =>
           loc[a] \in Request /\ loc[a].uuid \in Uuid /\ LocOK(pc[a], loc[a])
  BY LocalFacts DEF TypeOK, ControlOK, TablesOK
<1>1. sessions' = sessions => SessionsStay
  BY DEF SessionsStay, SessionStays
<1>2. ASSUME NEW a \in Actor, Done(a)
      PROVE  OthersStay(a) /\ pc'[a] \notin CountPc
  BY <1>0, <1>2 DEF Done, OthersStay, HandlerStays, CountPc
<1>3. ASSUME NEW a \in Actor, NEW label, Goto(a, label), \A b \in Actor \ {a} : loc'[b] = loc[b]
      PROVE  OthersStay(a) /\ pc'[a] = label
  BY <1>0, <1>3 DEF Goto, OthersStay, HandlerStays
<1>4. ASSUME NEW a \in Actor, OthersStay(a), pc[a] \notin CountPc, pc'[a] \notin CountPc
      PROVE  \A b \in Actor : HandlerStays(b)
  BY <1>4 DEF OthersStay, HandlerStays
<1>5. ASSUME NewRequest PROVE Balanced
  <2>1. \A a \in Actor : HandlerStays(a)
    BY <1>0, <1>5
       DEF NewRequest, Login, Verify, Activity, Script, Logout, Begin, HandlerStays, CountPc
  <2>2. SessionsStay
    <3>1. ASSUME NEW u \in Uuid, NEW k \in Key, NEW v \in CounterValue,
                 Script(u, k, v) \/ \E t \in Task : Activity(t, u, k, v)
          PROVE  SessionsStay
      <4>1. sessions[u] \in Session /\ sessions[u].counter.ticks < MaxTicks
        BY <1>0, <3>1 DEF Script, Activity
      <4>2. Tick(sessions[u]) \in Session
        BY <4>1, TickType
      <4>3. /\ \A s \in Session : [s EXCEPT !.last_activity = now].client_ip = s.client_ip
            /\ \A s \in Session : [s EXCEPT !.last_activity = now] \in Session
        <5>1. now \in Int
          BY DEF TypeOK, WorldOK
        <5> QED BY <5>1 DEF Session
      <4>4. Tick(sessions[u]).client_ip = sessions[u].client_ip
        BY <4>1 DEF Tick, Session
      <4>5. sessions'[u] \in Session /\ sessions'[u].client_ip = sessions[u].client_ip
        <5>1. sessions'[u] = Tick(sessions[u])
              \/ sessions'[u] = [Tick(sessions[u]) EXCEPT !.last_activity = now]
          BY <1>0, <3>1 DEF Script, Activity
        <5> QED BY <4>2, <4>3, <4>4, <5>1
      <4>6. \A w \in Uuid \ {u} : sessions'[w] = sessions[w]
        BY <1>0, <3>1 DEF Script, Activity
      <4> QED BY <4>1, <4>5, <4>6, NullAssumption DEF SessionsStay, SessionStays
    <3> QED BY <1>1, <1>5, <3>1 DEF NewRequest, Login, Verify, Logout, table
  <2>3. ip_counts' = ip_counts
    BY <1>5 DEF NewRequest, Login, Verify, Activity, Script, Logout, table
  <2> QED BY <2>1, <2>2, <2>3, NothingMoves
<1>6. ASSUME NEW t \in Task, Lookup(t) \/ StartOk(t) \/ StartFail(t) \/ CheckAlive(t)
                             \/ LogoutStop(t)
      PROVE  Balanced
  <2>1. \A a \in Actor : HandlerStays(a)
    BY <1>0, <1>6 DEF Lookup, StartOk, StartFail, CheckAlive, LogoutStop, Goto, Done,
                      HandlerStays, CountPc
  <2> QED BY <1>1, <1>6, <2>1, NothingMoves
          DEF Lookup, StartOk, StartFail, CheckAlive, LogoutStop, table
<1>7. ASSUME NEW t \in Task, PromoteCount(t) PROVE Balanced
  <2>1. loc'[t].ip = loc[t].ip
    BY <1>0, <1>7 DEF PromoteCount, Request
  <2>2. pc[t] \notin CountPc /\ pc'[t] \in CountPc /\ OthersStay(t)
    BY <1>0, <1>3, <1>7 DEF PromoteCount, CountPc
  <2> QED BY <1>0, <1>1, <1>7, <2>1, <2>2, CountsUp DEF PromoteCount
<1>8. ASSUME NEW t \in Task, PromoteInsert(t)
      PROVE  Balanced \/ (Forgets /\ Loosened)
  <2> DEFINE u == loc[t].uuid
  <2>1. u \in Uuid /\ pc[t] \in CountPc /\ pc'[t] \notin CountPc /\ OthersStay(t)
    BY <1>0, <1>2, <1>8 DEF PromoteInsert, CountPc
  <2>2. ip_counts' = ip_counts
    BY <1>8 DEF PromoteInsert
  <2>3. NewSession(loc[t]) \in Session /\ NewSession(loc[t]).client_ip = loc[t].ip
    BY <1>0, <1>8, NewSessionType DEF PromoteInsert, LocOK, VerifyPc, NewSession
  <2>4. sessions'[u] # NoSession /\ sessions'[u].client_ip = loc[t].ip
    BY <1>0, <1>8, <2>1, <2>3, NullAssumption DEF PromoteInsert
  <2>5. \A w \in Uuid \ {u} : SessionStays(w)
    BY <1>0, <1>8, <2>1 DEF PromoteInsert, SessionStays
  <2>6. CASE sessions[u] = NoSession
    BY <1>0, <2>1, <2>2, <2>4, <2>5, <2>6, Registered
  <2>7. CASE sessions[u] # NoSession
    <3>1. sessions[u].client_ip = loc[t].ip
      BY <1>8, <2>1, <2>7 DEF AtHome, OneHome, VerifyPc, PromoteInsert
    <3>2. SessionsStay
      BY <2>4, <2>5, <2>7, <3>1 DEF SessionsStay, SessionStays
    <3>3. Loosened
      BY <1>0, <2>1, <2>2, <3>2, GivenUp
    <3> QED BY <1>8, <2>7, <3>3 DEF Forgets
  <2> QED BY <2>6, <2>7
<1>9. ASSUME NEW t \in Task, UpdateRead(t) PROVE Balanced
  <2> DEFINE u == loc[t].uuid
  <2>1. u \in Uuid /\ loc[t] \in Request /\ pc[t] = "update_read" /\ LocOK(pc[t], loc[t])
    BY <1>0, <1>9 DEF UpdateRead
  <2>2. sessions[u] # NoSession => sessions[u].client_ip = loc[t].ip
    BY <2>1 DEF AtHome, OneHome, VerifyPc
  <2>3. \A s \in Session : /\ WriteSession(s, loc[t]) \in Session
                           /\ WriteSession(s, loc[t]).client_ip = loc[t].ip
    BY <2>1, WriteSessionType DEF LocOK, VerifyPc, WriteSession, NewSession, Session, Request
  <2>4. SessionsStay
    BY <1>0, <1>1, <1>9, <2>1, <2>2, <2>3, NullAssumption
       DEF UpdateRead, SessionsStay, SessionStays
  <2>5. Done(t)
    BY <1>9, <2>2 DEF UpdateRead
  <2>6. \A a \in Actor : HandlerStays(a)
    BY <1>2, <1>4, <2>1, <2>5 DEF CountPc
  <2> QED BY <1>9, <2>4, <2>6, NothingMoves DEF UpdateRead
<1>10. ASSUME NEW t \in Task, UpdateCount(t) \/ UpdateWrite(t) PROVE FALSE
  BY <1>10 DEF AtHome, UpdateCount, UpdateWrite
<1>11. ASSUME NEW t \in Task, LogoutRemove(t) \/ RemoveDead(t) PROVE Balanced
  BY <1>0, <1>11, RemoveCounts DEF LogoutRemove, RemoveDead, CountPc
<1>12. ASSUME NEW t \in Task, LogoutUncount(t) PROVE Balanced
  BY <1>0, <1>1, <1>2, <1>12, CountsDown DEF LogoutUncount, CountPc
<1>13. ASSUME NEW a \in Actor, Uncount(a) PROVE Balanced
  BY <1>0, <1>1, <1>3, <1>13, CountsDown DEF Uncount, CountPc
<1>14. ASSUME NEW a \in Actor, StopRemoved(a) PROVE Balanced
  <2>1. \A b \in Actor : HandlerStays(b)
    BY <1>2, <1>4, <1>14 DEF StopRemoved, CountPc
  <2> QED BY <1>1, <1>14, <2>1, NothingMoves DEF StopRemoved, table
<1>15. ASSUME SweeperStep PROVE Balanced
  <2>1. ASSUME SweepCollect \/ SweepPending PROVE Balanced
    <3>1. \A a \in Actor : HandlerStays(a)
      BY <1>0, <2>1 DEF SweepCollect, SweepPending, Goto, HandlerStays, CountPc
    <3> QED BY <1>1, <2>1, <3>1, NothingMoves DEF SweepCollect, SweepPending, table
  <2>2. ASSUME NEW u \in Uuid, SweepRemove(u) PROVE Balanced
    BY <2>2, RemoveCounts DEF SweepRemove, CountPc
  <2> QED BY <1>13, <1>14, <1>15, <2>1, <2>2 DEF SweeperStep
<1>16. ASSUME Restart PROVE Exact'
  <2> SUFFICES ASSUME NEW i \in Ip
               PROVE  ip_counts'[i] = Cardinality(Under(i)') + Cardinality(Between(i)')
    BY DEF Exact
  <2>1. Under(i)' = {} /\ Between(i)' = {} /\ ip_counts'[i] = 0
    BY <1>0, <1>16 DEF Restart, Under, Between, CountPc
  <2> QED BY <2>1, FS_EmptySet
<1>17. ASSUME (\E c \in Nonce : GatewayDies(c)) \/ Time \/ UNCHANGED vars PROVE Balanced
  <2>1. pc' = pc /\ loc' = loc /\ sessions' = sessions /\ ip_counts' = ip_counts
    BY <1>17 DEF GatewayDies, Time, vars, table
  <2> QED BY <1>1, <2>1, NothingMoves DEF HandlerStays
<1>18. ASSUME NEW t \in Task, Cancel(t) PROVE Loosened
  BY <1>0, <1>1, <1>2, <1>18, GivenUp DEF Cancel, table
<1>19. ASSUME NEW t \in Task, TaskStep(t) PROVE Balanced \/ (Forgets /\ Loosened)
  BY <1>6, <1>7, <1>8, <1>9, <1>10, <1>11, <1>12, <1>13, <1>14, <1>19 DEF TaskStep
<1> QED BY <1>5, <1>15, <1>16, <1>17, <1>18, <1>19 DEF Next, Environment, Forgets

\* The gap of an address is 0 when it is counted exactly, and not below 0 when
\* the count covers what there is.
LEMMA Gaps ==
  ASSUME Finite, ip_counts \in [Ip -> Nat]
  PROVE  /\ Exact <=> \A i \in Ip : Gap(i) = 0
         /\ Covers <=> \A i \in Ip : Gap(i) >= 0
         /\ \A i \in Ip : Gap(i) \in Int
<1>1. \A i \in Ip : ip_counts[i] \in Nat
  OBVIOUS
<1>2. \A i \in Ip : Cardinality(Under(i)) \in Nat /\ Cardinality(Between(i)) \in Nat
  BY FiniteSets
<1> QED BY <1>1, <1>2 DEF Exact, Covers, Gap

LEMMA GapsAfter ==
  ASSUME Finite, ip_counts' \in [Ip -> Nat]
  PROVE  /\ Exact' <=> \A i \in Ip : Gap(i)' = 0
         /\ Covers' <=> \A i \in Ip : Gap(i)' >= 0
         /\ \A i \in Ip : Gap(i)' \in Int
<1>1. \A i \in Ip : ip_counts'[i] \in Nat
  OBVIOUS
<1>2. \A i \in Ip : Under(i)' \in SUBSET Uuid /\ Between(i)' \in SUBSET Actor
  BY DEF Under, Between
<1>3. IsFiniteSet(Uuid) /\ IsFiniteSet(Actor)
  BY FS_AddElement DEF Finite
<1>4. \A i \in Ip : Cardinality(Under(i)') \in Nat /\ Cardinality(Between(i)') \in Nat
  BY <1>2, <1>3, FS_Subset, FS_CardinalityType
<1> QED BY <1>1, <1>4 DEF Exact, Covers, Gap

LEMMA CoversStep ==
  ASSUME Finite, OneHome, TypeOK, TypeOK', AtHome, Covers, [Next]_vars
  PROVE  Covers' /\ (Exact /\ ~Forgets => Exact')
<1>1. ip_counts \in [Ip -> Nat] /\ ip_counts' \in [Ip -> Nat]
  BY DEF TypeOK, TablesOK
<1>2. CASE Exact'
  BY <1>1, <1>2, GapsAfter
<1>3. CASE Balanced
  BY <1>1, <1>3, Gaps, GapsAfter DEF Balanced
<1>4. CASE Forgets /\ Loosened
  BY <1>1, <1>4, Gaps, GapsAfter DEF Loosened
<1> QED BY <1>2, <1>3, <1>4, CountStep

LEMMA InitCount == Init => AtHome /\ Exact
<1> SUFFICES ASSUME Init PROVE AtHome /\ Exact
  OBVIOUS
<1>1. AtHome
  BY DEF Init, AtHome, VerifyPc
<1>2. \A i \in Ip : Under(i) = {} /\ Between(i) = {} /\ ip_counts[i] = 0
  BY DEF Init, Under, Between, CountPc
<1>3. Exact
  BY <1>2, FS_EmptySet DEF Exact
<1> QED BY <1>1, <1>3

LEMMA ExactCovers == ASSUME Finite, TypeOK, Exact PROVE Covers
<1>1. ip_counts \in [Ip -> Nat]
  BY DEF TypeOK, TablesOK
<1> QED BY <1>1, Gaps

\* Whatever overlaps and wherever a handler is dropped, an address is counted at
\* least once for each session under it: a count may stay too high (a login that
\* overtakes another, a handler dropped between its two sections), and never
\* lets an address have more sessions than it is counted for (mod.rs:69).
THEOREM CountsNeverLow ==
  ASSUME IsFiniteSet(Uuid), IsFiniteSet(Task),
         \A u \in Uuid : \A i, j \in Home[u] : i = j
  PROVE  Spec => []Covers
<1>1. Finite /\ OneHome
  BY DEF Finite, OneHome
<1>2. Init => TypeOK
  BY InitType
<1>3. Init => AtHome /\ Covers
  BY <1>1, <1>2, InitCount, ExactCovers
<1>4. TypeOK /\ TypeOK' /\ AtHome /\ Covers /\ [Next]_vars => (AtHome /\ Covers)'
  BY <1>1, AtHomeStep, CoversStep
<1> QED BY <1>3, <1>4, TypeCorrect, PTL DEF Spec

\* Every address is counted once for each session under it, and for each session
\* between the two sections that insert or remove one.
THEOREM CountsAreExact ==
  ASSUME ~Overlap, ~Cancels, IsFiniteSet(Uuid), IsFiniteSet(Task),
         \A u \in Uuid : \A i, j \in Home[u] : i = j
  PROVE  Spec => []IpCountsExact
<1>1. Finite /\ OneHome
  BY DEF Finite, OneHome
<1>2. ASSUME TypeOK, LoginsInOrder, [Next]_vars PROVE ~Forgets
  <2>1. ASSUME NEW t \in Task, PromoteInsert(t) PROVE sessions[loc[t].uuid] = NoSession
    <3>1. loc[t].uuid \in Uuid
      BY <1>2, <2>1, LocalFacts DEF PromoteInsert, TypeOK
    <3> QED BY <1>2, <2>1, <3>1 DEF LoginsInOrder, Verifying, VerifyPc, PromoteInsert
  <2> QED BY <2>1 DEF Forgets, Cancel
<1>3. TypeOK /\ TypeOK' /\ LoginsInOrder /\ AtHome /\ Exact /\ [Next]_vars => (AtHome /\ Exact)'
  BY <1>1, <1>2, AtHomeStep, CoversStep, ExactCovers
<1>4. Exact => IpCountsExact
  BY ExactIs
<1> QED BY <1>3, <1>4, InitCount, TypeCorrect, LoginsStayInOrder, PTL DEF Spec
=============================================================================
