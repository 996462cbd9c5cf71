------------------------ MODULE SessionSerialProofs ------------------------
(***************************************************************************)
(* What holds of the session store when the requests of an account wait    *)
(* for each other and no handler is dropped, for any number of accounts,   *)
(* handlers, challenges and addresses: the sweeper, the gateway and the    *)
(* other accounts still interleave with every section.                     *)
(***************************************************************************)
EXTENDS SessionGatewayProofs

USE DEF Actor, Nonce

(***************************************************************************)
(* One handler at most is at work for an account.                          *)
(***************************************************************************)

OneHandler ==
  \A s, t \in Task :
    pc[s] # "idle" /\ pc[t] # "idle" /\ loc[s].uuid = loc[t].uuid => s = t

\* A handler in progress was so before, for the same account, or has just begun.
LEMMA TaskSource ==
  ASSUME TypeOK, [Next]_vars, NEW t \in Task, pc'[t] # "idle"
  PROVE  \/ pc[t] # "idle" /\ loc'[t].uuid = loc[t].uuid
         \/ /\ pc[t] = "idle" /\ pc'[t] \in {"lookup", "check_alive", "stop"}
            /\ Free(loc'[t].uuid)
            /\ \A s \in Task \ {t} : pc'[s] = pc[s] /\ loc'[s] = loc[s]
<1> DEFINE Same == pc[t] # "idle" /\ loc'[t].uuid = loc[t].uuid
           Begun == /\ pc[t] = "idle" /\ pc'[t] \in {"lookup", "check_alive", "stop"}
                    /\ Free(loc'[t].uuid)
                    /\ \A s \in Task \ {t} : pc'[s] = pc[s] /\ loc'[s] = loc[s]
<1>0. /\ pc \in [Actor -> TaskPc \cup SweeperPc]
      /\ loc \in [Actor -> Request \cup {NoRequest}]
      /\ \A a \in Actor : pc[a] \notin {"idle", "sweep"} => loc[a] \in Request
      /\ t # Sweeper /\ pc[t] # "sweep"
  BY LocalFacts, ConstantsAssumption
     DEF TypeOK, ControlOK, TaskPc, VerifyPc, TickPc, LogoutPc, RemovalPc
<1>1. CASE pc'[t] = pc[t] /\ loc'[t] = loc[t]
  BY <1>1
<1>2. ASSUME NEW a \in Actor, Done(a) PROVE pc'[t] = pc[t] /\ loc'[t] = loc[t]
  BY <1>0, <1>2 DEF Done
<1>3. ASSUME NEW a \in Actor, pc[a] \notin {"idle", "sweep"}, NEW label, Goto(a, label),
             loc'[t] = loc[t]
      PROVE  Same
  BY <1>0, <1>3 DEF Goto
<1>4. ASSUME NEW s \in Task, LoginControl(s) PROVE Same
  <2>1. CASE s = t
    <3>1. pc[t] \notin {"idle", "sweep"}
      BY <1>4, <2>1 DEF LoginControl, Lookup, StartOk, StartFail, PromoteCount, PromoteInsert,
                       UpdateRead, UpdateCount, UpdateWrite
    <3>2. CASE \/ loc' = [loc EXCEPT ![s].at = BeforeCooldown]
               \/ loc' = [loc EXCEPT ![s].client = loc[s].nonce]
               \/ loc' = [loc EXCEPT ![s].old_ip = sessions[loc[s].uuid].client_ip]
      BY <1>0, <2>1, <3>1, <3>2 DEF Request
    <3> QED BY <1>0, <1>2, <1>4, <2>1, <3>1, <3>2
            DEF LoginControl, Lookup, StartOk, StartFail, PromoteCount, PromoteInsert,
                UpdateRead, UpdateCount, UpdateWrite
  <2>2. CASE s # t
    BY <1>0, <1>1, <1>2, <1>4, <2>2
       DEF LoginControl, Lookup, StartOk, StartFail, PromoteCount, PromoteInsert,
           UpdateRead, UpdateCount, UpdateWrite, Goto
  <2> QED BY <2>1, <2>2
<1>5. ASSUME NEW s \in Task, LogoutRemove(s) \/ RemoveDead(s) PROVE Same
  <2>1. pc[s] \notin {"idle", "sweep"}
    BY <1>5 DEF LogoutRemove, RemoveDead
  <2>2. CASE Done(s)
    BY <1>1, <1>2, <2>2
  <2>3. CASE ~Done(s)
    <3>1. /\ loc' = [loc EXCEPT ![s] = Local(loc[s].uuid, NoRequest,
                       sessions[loc[s].uuid].client_ip, 0, sessions[loc[s].uuid].client)]
          /\ \E label : Goto(s, label)
      BY <1>5, <2>3 DEF LogoutRemove, RemoveDead, Remove
    <3> QED BY <1>0, <2>1, <3>1 DEF Goto, Local
  <2> QED BY <2>2, <2>3
<1>6. ASSUME NEW a \in Actor, Uncount(a) \/ StopRemoved(a) PROVE Same
  BY <1>1, <1>2, <1>3, <1>6 DEF Uncount, StopRemoved
<1>7. ASSUME NEW s \in Task, CheckAlive(s) \/ LogoutStop(s) \/ LogoutUncount(s) \/ Cancel(s)
      PROVE  Same
  BY <1>1, <1>2, <1>3, <1>7 DEF CheckAlive, LogoutStop, LogoutUncount, Cancel
<1>8. CASE SweeperStep
  <2>1. ASSUME NEW u \in Uuid, SweepRemove(u) PROVE Same
    BY <1>0, <1>1, <1>2, <2>1 DEF SweepRemove, Remove, Goto
  <2>2. CASE SweepCollect \/ SweepPending
    BY <1>0, <1>1, <2>2 DEF SweepCollect, SweepPending, Goto
  <2> QED BY <1>6, <1>8, <2>1, <2>2 DEF SweeperStep
<1>9. CASE NewRequest
  <2>1. ASSUME NEW s \in Task, NEW u \in Uuid, NEW k, NEW ip, NEW n, NEW c,
               NEW label \in {"lookup", "check_alive", "stop"},
               Begin(s, u, label, Local(u, k, ip, n, c))
        PROVE  Same \/ Begun
    BY <1>0, <1>1, <2>1 DEF Begin, Local
  <2>2. ASSUME NEW s \in Task, NEW u \in Uuid, NEW k \in Key, NEW v \in CounterValue,
               Activity(s, u, k, v) \/ Logout(s, u, k, v)
        PROVE  Same \/ Begun
    BY <2>1, <2>2 DEF Activity, Logout
  <2>3. ASSUME NEW s \in Task, NEW p \in pending_logins, NEW k \in Key, NEW ip \in Ip,
               Verify(s, p, k, ip)
        PROVE  Same \/ Begun
    <3>1. p.uuid \in Uuid
      BY DEF TypeOK, TablesOK, PendingVerify
    <3> QED BY <2>1, <2>3, <3>1 DEF Verify
  <2>4. ASSUME NEW u \in Uuid, NEW k \in Key,
               Login(u, k) \/ \E v \in CounterValue : Script(u, k, v)
        PROVE  Same
    BY <1>1, <2>4 DEF Login, Script
  <2> QED BY <1>9, <2>2, <2>3, <2>4 DEF NewRequest
<1>10. CASE Environment
  BY <1>1, <1>7, <1>10 DEF Environment, GatewayDies, Time, Restart
<1>11. CASE UNCHANGED vars
  BY <1>1, <1>11 DEF vars
<1>12. ASSUME NEW s \in Task, TaskStep(s) PROVE Same
  BY <1>4, <1>5, <1>6, <1>7, <1>12 DEF TaskStep, LoginControl
<1> QED BY <1>8, <1>9, <1>10, <1>11, <1>12 DEF Next

LEMMA OneHandlerStep ==
  ASSUME ~Overlap, TypeOK, OneHandler, [Next]_vars
  PROVE  OneHandler'
<1> SUFFICES ASSUME NEW s \in Task, NEW t \in Task, s # t,
                    pc'[s] # "idle", pc'[t] # "idle", loc'[s].uuid = loc'[t].uuid
             PROVE  FALSE
  BY DEF OneHandler
<1>1. ASSUME NEW a \in Task, NEW b \in Task, a # b, pc'[b] # "idle",
             loc'[a].uuid = loc'[b].uuid,
             Free(loc'[a].uuid), pc'[b] = pc[b], loc'[b] = loc[b]
      PROVE  FALSE
  BY <1>1 DEF Free
<1> QED BY <1>1, TaskSource DEF OneHandler

(***************************************************************************)
(* LoginsInOrder.                                                          *)
(***************************************************************************)

\* A login begins with a pending challenge of its account.
LEMMA LoginBegins ==
  ASSUME TypeOK, [Next]_vars, NEW t \in Task, pc[t] \notin VerifyPc, pc'[t] \in VerifyPc
  PROVE  /\ pc'[t] = "lookup" /\ sessions' = sessions
         /\ \E p \in pending_logins :
              loc'[t].uuid = p.uuid /\ loc'[t].nonce = p.nonce /\ loc'[t].ip \in Home[p.uuid]
<1>0. /\ pc \in [Actor -> TaskPc \cup SweeperPc]
      /\ loc \in [Actor -> Request \cup {NoRequest}]
  BY DEF TypeOK, ControlOK
<1>1. ASSUME Shrinks PROVE FALSE
  BY <1>1 DEF Shrinks
<1>2. ASSUME NEW s \in Task, NEW p \in pending_logins, NEW k \in Key, NEW ip \in Ip,
             Verify(s, p, k, ip)
      PROVE  /\ pc'[t] = "lookup" /\ sessions' = sessions
             /\ loc'[t].uuid = p.uuid /\ loc'[t].nonce = p.nonce /\ loc'[t].ip \in Home[p.uuid]
  BY <1>0, <1>2 DEF Verify, Begin, Local
<1>3. ASSUME NEW u \in Uuid, NEW k \in Key,
             \/ Login(u, k)
             \/ \E v \in CounterValue :
                  Script(u, k, v) \/ \E s \in Task : Activity(s, u, k, v) \/ Logout(s, u, k, v)
      PROVE  FALSE
  BY <1>0, <1>3 DEF Login, Script, Activity, Logout, Begin, VerifyPc
<1>4. ~UNCHANGED vars
  BY DEF vars
<1>5. ASSUME NEW s \in Task, TaskStep(s) PROVE FALSE
  BY <1>1, <1>5, InstallShrinks, QuietShrinks DEF TaskStep, LoginControl
<1>6. CASE SweeperStep \/ Environment
  BY <1>1, <1>6, QuietShrinks
<1>7. CASE NewRequest
  BY <1>2, <1>3, <1>7 DEF NewRequest
<1> QED BY <1>4, <1>5, <1>6, <1>7 DEF Next

\* A login gets to the start of a client past a lookup that finds no session.
LEMMA FreshLogin ==
  ASSUME TypeOK, [Next]_vars, NEW t \in Task,
         pc'[t] \in {"start", "promote_count", "promote_insert"}
  PROVE  \/ pc[t] \in {"start", "promote_count", "promote_insert"}
         \/ pc[t] = "lookup" /\ sessions[loc[t].uuid] = NoSession /\ sessions' = sessions
<1>0. pc \in [Actor -> TaskPc \cup SweeperPc] /\ t # Sweeper
  BY ConstantsAssumption DEF TypeOK, ControlOK
<1>1. CASE pc'[t] = pc[t]
  BY <1>1
<1>2. ASSUME NEW a \in Actor, Done(a) PROVE pc'[t] = pc[t]
  BY <1>0, <1>2 DEF Done
<1>3. ASSUME NEW a \in Actor, NEW label, Goto(a, label),
             label \notin {"start", "promote_count", "promote_insert"}
      PROVE  pc'[t] = pc[t]
  BY <1>0, <1>3 DEF Goto
<1>4. ASSUME NEW s \in Task, Lookup(s) \/ StartOk(s) \/ PromoteCount(s)
      PROVE  \/ pc'[t] = pc[t]
             \/ pc[t] \in {"start", "promote_count", "promote_insert"}
             \/ pc[t] = "lookup" /\ sessions[loc[t].uuid] = NoSession /\ sessions' = sessions
  BY <1>0, <1>4 DEF Lookup, StartOk, PromoteCount, Goto, table
<1>5. ASSUME NEW a \in Actor, NEW u, NEW label \in {"uncount", "logout_uncount"},
             Remove(a, u, label)
      PROVE  pc'[t] = pc[t]
  BY <1>2, <1>3, <1>5 DEF Remove
<1>6. ASSUME NEW s \in Task, TaskStep(s), ~Lookup(s), ~StartOk(s), ~PromoteCount(s)
      PROVE  pc'[t] = pc[t]
  BY <1>2, <1>3, <1>5, <1>6
     DEF TaskStep, StartFail, PromoteInsert, UpdateRead, UpdateCount, UpdateWrite, CheckAlive,
         LogoutStop, LogoutRemove, LogoutUncount, RemoveDead, Uncount, StopRemoved
<1>7. CASE SweeperStep
  BY <1>2, <1>3, <1>5, <1>7
     DEF SweeperStep, SweepCollect, SweepPending, SweepRemove, Uncount, StopRemoved
<1>8. CASE NewRequest
  BY <1>0, <1>8 DEF NewRequest, Login, Verify, Activity, Script, Logout, Begin
<1>9. CASE Environment
  BY <1>2, <1>9 DEF Environment, GatewayDies, Cancel, Time, Restart
<1>10. CASE UNCHANGED vars
  BY <1>10 DEF vars
<1> QED BY <1>1, <1>4, <1>6, <1>7, <1>8, <1>9, <1>10 DEF Next

\* The login that writes a session is the only handler of its account.
LEMMA WriterAlone ==
  ASSUME TypeOK, OneHandler, NEW t \in Task, NEW u \in Uuid, Writes(t, u)
  PROVE  /\ Verifying(t, u) /\ pc'[t] = "idle"
         /\ \A s \in Task : pc[s] # "idle" /\ loc[s].uuid = u => s = t
BY DEF Writes, Verifying, VerifyPc, OneHandler

LEMMA LoginsStep ==
  ASSUME TypeOK, ChallengeOrder, OneHandler, LoginsInOrder, [Next]_vars
  PROVE  LoginsInOrder'
<1> SUFFICES ASSUME NEW t \in Task, NEW u \in Uuid, Verifying(t, u)', sessions'[u] # NoSession
             PROVE  /\ sessions'[u].counter.nonce < loc'[t].nonce
                    /\ pc'[t] \notin {"start", "promote_count", "promote_insert"}
  BY DEF LoginsInOrder
<1>1. CASE pc[t] \notin VerifyPc
  <2>1. PICK p \in pending_logins :
          /\ pc'[t] = "lookup" /\ sessions' = sessions
          /\ loc'[t].uuid = p.uuid /\ loc'[t].nonce = p.nonce
    BY <1>1, LoginBegins DEF Verifying
  <2> QED BY <2>1 DEF ChallengeOrder, Verifying
<1>2. CASE pc[t] \in VerifyPc
  <2>1. Verifying(t, u) /\ loc'[t].nonce = loc[t].nonce
    BY <1>2, LoginKeeps DEF Verifying
  <2>2. ASSUME NEW s \in Task, Writes(s, u) PROVE FALSE
    <3>1. s = t
      BY <2>1, <2>2, WriterAlone DEF Verifying, VerifyPc
    <3> QED BY <2>2, <3>1, WriterAlone DEF Verifying, VerifyPc
  <2>3. Kept(u)
    BY <2>2, SessionSource
  <2>4. pc'[t] \notin {"start", "promote_count", "promote_insert"}
    BY <2>1, <2>3, FreshLogin DEF Kept, LoginsInOrder, Verifying
  <2> QED BY <2>1, <2>3, <2>4 DEF Kept, LoginsInOrder
<1> QED BY <1>1, <1>2

(***************************************************************************)
(* Who holds a Discord client.                                             *)
(***************************************************************************)

\* A handler here holds the client of a session it has seen, ...
HoldPc == TickPc \cup {"stop", "logout_remove"}
\* ... and here one it has taken out of the table.
OutPc == RemovalPc \cup {"logout_uncount"}

Onward ==
  {<<"promote_count", "promote_insert">>, <<"check_alive", "remove">>,
   <<"stop", "logout_remove">>, <<"uncount", "stop_removed">>}

\* A handler at work with a client has held it for the same account, or has
\* started it, or takes it from a session: to see to it, or out of the table.
LEMMA HolderSource ==
  ASSUME TypeOK, [Next]_vars, NEW a \in Actor, pc'[a] \in ClientPc
  PROVE  \/ /\ pc[a] \in ClientPc
            /\ pc'[a] = pc[a] \/ <<pc[a], pc'[a]>> \in Onward
            /\ loc'[a].client = loc[a].client /\ loc'[a].uuid = loc[a].uuid
            /\ loc'[a].ip = loc[a].ip
         \/ a \in Task /\ StartOk(a) /\ loc'[a].client = loc[a].nonce
         \/ \E u \in Uuid :
              /\ sessions[u] # NoSession /\ loc'[a].client = sessions[u].client
              /\ loc'[a].uuid = u
              /\ \/ pc'[a] \in {"check_alive", "stop"} /\ a \in Task /\ pc[a] = "idle"
                 \/ /\ pc'[a] \in {"uncount", "logout_uncount"}
                    /\ pc[a] \in {"remove", "logout_remove", "sweep"}
                    /\ pc[a] # "sweep" => u = loc[a].uuid
                    /\ loc'[a].ip = sessions[u].client_ip
                    /\ sessions' = [sessions EXCEPT ![u] = NoSession]
<1> USE ConstantsAssumption
<1> DEFINE Held == /\ pc[a] \in ClientPc
                   /\ pc'[a] = pc[a] \/ <<pc[a], pc'[a]>> \in Onward
                   /\ loc'[a].client = loc[a].client /\ loc'[a].uuid = loc[a].uuid
                   /\ loc'[a].ip = loc[a].ip
           Started == a \in Task /\ StartOk(a) /\ loc'[a].client = loc[a].nonce
           Taken(u) ==
              /\ sessions[u] # NoSession /\ loc'[a].client = sessions[u].client
              /\ loc'[a].uuid = u
              /\ \/ pc'[a] \in {"check_alive", "stop"} /\ a \in Task /\ pc[a] = "idle"
                 \/ /\ pc'[a] \in {"uncount", "logout_uncount"}
                    /\ pc[a] \in {"remove", "logout_remove", "sweep"}
                    /\ pc[a] # "sweep" => u = loc[a].uuid
                    /\ loc'[a].ip = sessions[u].client_ip
                    /\ sessions' = [sessions EXCEPT ![u] = NoSession]
<1> SUFFICES Held \/ Started \/ \E u \in Uuid : Taken(u)
  OBVIOUS
<1>0. /\ pc \in [Actor -> TaskPc \cup SweeperPc]
      /\ loc \in [Actor -> Request \cup {NoRequest}]
      /\ \A b \in Actor : pc[b] \notin {"idle", "sweep"} => loc[b] \in Request
  BY LocalFacts DEF TypeOK, ControlOK
<1>1. CASE pc'[a] = pc[a] /\ loc'[a] = loc[a]
  BY <1>1
<1>2. ASSUME NEW b \in Actor, Done(b)
      PROVE  pc'[a] = pc[a] /\ loc'[a] = loc[a]
  BY <1>0, <1>2 DEF Done, ClientPc, PromotePc, TickPc, LogoutPc, RemovalPc
<1>3. ASSUME NEW b \in Actor, NEW u \in Uuid, NEW label \in {"uncount", "logout_uncount"},
             pc[b] \in {"remove", "logout_remove", "sweep"},
             pc[b] # "sweep" => u = loc[b].uuid, Remove(b, u, label)
      PROVE  Held \/ Taken(u)
  <2>1. CASE sessions[u] = NoSession
    BY <1>1, <1>2, <1>3, <2>1 DEF Remove
  <2>2. CASE sessions[u] # NoSession /\ a = b
    BY <1>0, <1>3, <2>2 DEF Remove, Goto, Local
  <2>3. CASE sessions[u] # NoSession /\ a # b
    BY <1>0, <1>1, <1>3, <2>3 DEF Remove, Goto
  <2> QED BY <2>1, <2>2, <2>3
<1>4. CASE NewRequest
  <2>1. ASSUME NEW u \in Uuid, NEW k \in Key,
               Login(u, k) \/ \E v \in CounterValue : Script(u, k, v)
        PROVE  pc'[a] = pc[a] /\ loc'[a] = loc[a]
    BY <2>1 DEF Login, Script
  <2>2. ASSUME NEW t \in Task, NEW p \in pending_logins, NEW k \in Key, NEW ip \in Ip,
               Verify(t, p, k, ip)
        PROVE  pc'[a] = pc[a] /\ loc'[a] = loc[a]
    BY <1>0, <2>2 DEF Verify, Begin, ClientPc, PromotePc, TickPc, LogoutPc, RemovalPc
  <2>3. ASSUME NEW t \in Task, NEW u \in Uuid, NEW k \in Key, NEW v \in CounterValue,
               Activity(t, u, k, v) \/ Logout(t, u, k, v)
        PROVE  Held \/ Taken(u)
    <3>1. CASE a = t
      BY <1>0, <2>3, <3>1 DEF Activity, Logout, Begin, Local
    <3>2. CASE a # t
      BY <1>0, <1>1, <2>3, <3>2 DEF Activity, Logout, Begin
    <3> QED BY <3>1, <3>2
  <2>4. ASSUME pc'[a] = pc[a], loc'[a] = loc[a] PROVE Held
    BY <2>4
  <2> HIDE DEF Taken, Held, Started
  <2> QED BY <1>4, <2>1, <2>2, <2>3, <2>4 DEF NewRequest
<1>5. ASSUME NEW t \in Task, LoginControl(t) PROVE Held \/ Started
  <2>1. CASE a # t
    BY <1>0, <1>1, <1>2, <1>5, <2>1
       DEF LoginControl, Lookup, StartOk, StartFail, PromoteCount, PromoteInsert,
           UpdateRead, UpdateCount, UpdateWrite, Goto
  <2>2. CASE a = t /\ StartOk(t)
    BY <1>0, <2>2 DEF StartOk
  <2>3. CASE a = t /\ PromoteCount(t)
    <3>1. loc[t] \in Request /\ pc[t] = "promote_count" /\ pc'[t] = "promote_insert"
      BY <1>0, <2>3 DEF PromoteCount, Goto
    <3>2. /\ loc'[t].client = loc[t].client /\ loc'[t].uuid = loc[t].uuid
          /\ loc'[t].ip = loc[t].ip
      BY <1>0, <2>3, <3>1 DEF PromoteCount, Request
    <3> QED BY <2>3, <3>1, <3>2 DEF Onward, ClientPc, PromotePc
  <2>4. CASE a = t /\ (Lookup(t) \/ UpdateRead(t) \/ UpdateCount(t))
    BY <1>0, <1>1, <1>2, <2>4
       DEF Lookup, UpdateRead, UpdateCount, Goto, ClientPc, PromotePc, TickPc, LogoutPc, RemovalPc
  <2>5. CASE Done(t)
    BY <1>1, <1>2, <2>5
  <2> QED BY <1>5, <2>1, <2>2, <2>3, <2>4, <2>5
          DEF LoginControl, StartFail, PromoteInsert, UpdateWrite
<1>6. ASSUME NEW b \in Actor,
             \/ Uncount(b) \/ StopRemoved(b)
             \/ b \in Task /\ (CheckAlive(b) \/ LogoutStop(b) \/ LogoutUncount(b) \/ Cancel(b))
      PROVE  Held
  BY <1>0, <1>1, <1>2, <1>6
     DEF Uncount, StopRemoved, CheckAlive, LogoutStop, LogoutUncount, Cancel, Goto, Onward,
         ClientPc, TickPc, LogoutPc, RemovalPc
<1>7. ASSUME NEW t \in Task, LogoutRemove(t) \/ RemoveDead(t)
      PROVE  \E u \in Uuid : Held \/ Taken(u)
  <2>1. loc[t].uuid \in Uuid
    BY <1>0, <1>7 DEF LogoutRemove, RemoveDead, Request
  <2> QED BY <1>3, <1>7, <2>1 DEF LogoutRemove, RemoveDead
<1>8. CASE SweeperStep
  <2>1. CASE SweepCollect \/ SweepPending
    BY <1>0, <1>1, <2>1 DEF SweepCollect, SweepPending, Goto, ClientPc, PromotePc, TickPc,
                            LogoutPc, RemovalPc
  <2>2. ASSUME NEW u \in Uuid, SweepRemove(u) PROVE Held \/ Taken(u)
    BY <1>3, <2>2 DEF SweepRemove
  <2> HIDE DEF Taken, Held, Started
  <2> QED BY <1>1, <1>6, <1>8, <2>1, <2>2 DEF SweeperStep
<1>9. CASE Environment
  BY <1>0, <1>1, <1>6, <1>9 DEF Environment, GatewayDies, Time, Restart, ClientPc, PromotePc,
                                TickPc, LogoutPc, RemovalPc
<1>10. CASE UNCHANGED vars
  BY <1>1, <1>10 DEF vars
<1> HIDE DEF Taken, Held, Started
<1>11. ASSUME NEW t \in Task, TaskStep(t)
       PROVE  Held \/ Started \/ \E u \in Uuid : Taken(u)
  BY <1>5, <1>6, <1>7, <1>11 DEF TaskStep, LoginControl
<1> QED BY <1>4, <1>8, <1>9, <1>10, <1>11 DEF Next

\* A client is stopped by the handler that holds it.
LEMMA ClientStopped ==
  ASSUME TypeOK, [Next]_vars, NEW n \in Nonce, gateway[n] # "stopped", gateway'[n] = "stopped"
  PROVE  \E a \in Actor :
           /\ loc[a].client = n
           /\ \/ pc[a] = "stop_removed"
              \/ /\ a \in Task /\ pc[a] = "stop"
                 /\ pc'[a] = "logout_remove" /\ loc'[a].uuid = loc[a].uuid
<1> USE ConstantsAssumption
<1>0. pc \in [Actor -> TaskPc \cup SweeperPc] /\ gateway \in [Nonce -> {"none", "alive", "dead", "stopped"}]
  BY DEF TypeOK, TablesOK, ControlOK
<1>1. gateway' # gateway
  OBVIOUS
<1>2. ~NewRequest /\ ~UNCHANGED vars
  BY <1>1 DEF NewRequest, Login, Verify, Activity, Script, Logout, vars
<1>3. ~Environment
  BY <1>0 DEF Environment, GatewayDies, Cancel, Time, Restart
<1>4. ASSUME NEW a \in Actor, StopRemoved(a) \/ LogoutStop(a)
      PROVE  loc[a].client = n
  BY <1>0, <1>4 DEF StopRemoved, LogoutStop, Stopped
<1>5. ASSUME NEW t \in Task PROVE ~StartOk(t)
  BY <1>0 DEF StartOk
<1>6. ASSUME NEW t \in Task, TaskStep(t) PROVE LogoutStop(t) \/ StopRemoved(t)
  BY <1>1, <1>5, <1>6
     DEF TaskStep, Lookup, StartFail, PromoteCount, PromoteInsert, UpdateRead, UpdateCount,
         UpdateWrite, CheckAlive, LogoutRemove, LogoutUncount, RemoveDead, Remove, Uncount
<1>7. SweeperStep => StopRemoved(Sweeper)
  BY <1>1 DEF SweeperStep, SweepCollect, SweepPending, SweepRemove, Remove, Uncount
<1>8. CASE SweeperStep
  <2>1. Sweeper \in Actor /\ StopRemoved(Sweeper) /\ loc[Sweeper].client = n
    BY <1>4, <1>7, <1>8
  <2> QED BY <2>1 DEF StopRemoved
<1>9. ASSUME NEW t \in Task, StopRemoved(t) PROVE pc[t] = "stop_removed" /\ loc[t].client = n
  BY <1>4, <1>9 DEF StopRemoved
<1>10. ASSUME NEW t \in Task, LogoutStop(t)
       PROVE  /\ pc[t] = "stop" /\ loc[t].client = n
              /\ pc'[t] = "logout_remove" /\ loc'[t].uuid = loc[t].uuid
  BY <1>0, <1>4, <1>10 DEF LogoutStop, Goto
<1>11. CASE \E t \in Task : TaskStep(t)
  BY <1>6, <1>9, <1>10, <1>11
<1> QED BY <1>2, <1>3, <1>8, <1>11 DEF Next

(***************************************************************************)
(* The invariant behind RemovesWhatItSaw.                                  *)
(***************************************************************************)

\* Nobody else holds the client a login has just started, and it is not stopped.
NewClientsAlone ==
  \A t \in Task : pc[t] \in PromotePc =>
    /\ gateway[loc[t].client] # "stopped"
    /\ \A a \in Actor \ {t} : pc[a] \in ClientPc => loc[a].client # loc[t].client

\* The client of a session is held by requests of its account alone.
HeldOfAccount ==
  \A u \in Uuid, a \in Actor :
    /\ sessions[u] # NoSession /\ pc[a] \in ClientPc \ PromotePc
    /\ loc[a].client = sessions[u].client
    => pc[a] \in HoldPc /\ loc[a].uuid = u

\* A request holds the client its account's session still has.
SawClient ==
  \A t \in Task :
    pc[t] \in HoldPc /\ sessions[loc[t].uuid] # NoSession
    => sessions[loc[t].uuid].client = loc[t].client

\* A logout about to remove the session has stopped the client it holds.
LogoutStopped ==
  \A t \in Task : pc[t] = "logout_remove" => gateway[loc[t].client] = "stopped"

\* A session whose client was stopped has its logout behind it.
StoppedByLogout ==
  \A u \in Uuid :
    sessions[u] # NoSession /\ gateway[sessions[u].client] = "stopped"
    => \E t \in Task : pc[t] = "logout_remove" /\ loc[t].uuid = u

ClientInv ==
  NewClientsAlone /\ HeldOfAccount /\ SawClient /\ LogoutStopped /\ StoppedByLogout

LEMMA ClientNonce ==
  ASSUME TypeOK
  PROVE  /\ \A a \in Actor : pc[a] \in ClientPc => loc[a].client \in Nonce
         /\ \A u \in Uuid : sessions[u] # NoSession => sessions[u].client \in Nonce
BY DEF TypeOK, ControlOK, LocOK, TablesOK, Session, ClientPc, PromotePc

\* The session an account has after a step has the client it had, or one that a
\* login of the account brings, which is then over.
LEMMA ClientSource ==
  ASSUME TypeOK, [Next]_vars, NEW u \in Uuid, sessions'[u] # NoSession
  PROVE  \/ sessions[u] # NoSession /\ sessions'[u].client = sessions[u].client
         \/ \E t \in Task :
              /\ pc[t] = "promote_insert" /\ pc'[t] = "idle" /\ loc[t].uuid = u
              /\ sessions'[u].client = loc[t].client
BY SessionSource DEF Kept, Writes

LEMMA NewClientsAloneStep ==
  ASSUME CounterInv, GatewayInv, NewClientsAlone, [Next]_vars
  PROVE  NewClientsAlone'
<1> SUFFICES ASSUME NEW t \in Task, pc'[t] \in PromotePc
             PROVE  /\ gateway'[loc'[t].client] # "stopped"
                    /\ \A a \in Actor \ {t} : pc'[a] \in ClientPc
                                              => loc'[a].client # loc'[t].client
  BY DEF NewClientsAlone
<1> DEFINE c == loc'[t].client
<1>0. TypeOK /\ OnePlace /\ pc \in [Actor -> TaskPc \cup SweeperPc]
  BY DEF CounterInv, TypeOK, ControlOK
<1>1. /\ c \in Nonce /\ gateway[c] # "stopped"
      /\ pc[t] \in VerifyPc /\ loc[t].nonce = c
      /\ \A a \in Actor \ {t} : pc[a] \in ClientPc => loc[a].client # c
      /\ \A u \in Uuid : sessions[u] # NoSession => sessions[u].client # c
  <2>1. CASE pc[t] \in PromotePc /\ loc'[t].client = loc[t].client
    <3>1. pc[t] \in ClientPc /\ pc[t] \in VerifyPc
      BY <2>1 DEF ClientPc, PromotePc, VerifyPc
    <3> QED BY <1>0, <2>1, <3>1, ClientNonce DEF NewClientsAlone, GatewayInv, NewClients
  <2>2. CASE StartOk(t) /\ loc[t].nonce \in Nonce /\ loc'[t].client = loc[t].nonce
    <3>1. Unstarted(loc[t].nonce) /\ pc[t] = "start"
      BY <2>2 DEF Unstarted, StartOk
    <3>2. gateway[loc[t].nonce] = "none"
      BY <2>2, <3>1 DEF GatewayInv, UnstartedNone
    <3> QED BY <2>2, <3>1, <3>2 DEF GatewayInv, HandlersStarted, SessionHasGateway, VerifyPc
  <2> QED BY <1>0, <2>1, <2>2, NewClient
<1>2. gateway'[c] # "stopped"
  <2>1. ASSUME NEW a \in Actor, pc[a] \in {"stop", "stop_removed"}, loc[a].client = c
        PROVE  FALSE
    BY <1>1, <2>1 DEF ClientPc, LogoutPc, RemovalPc, VerifyPc
  <2> QED BY <1>0, <1>1, <2>1, ClientStopped
<1>3. ASSUME NEW a \in Actor \ {t}, pc'[a] \in ClientPc PROVE loc'[a].client # c
  <2>1. ASSUME a \in Task, StartOk(a) PROVE loc[a].nonce # c
    BY <1>0, <1>1, <2>1 DEF OnePlace, StartOk, VerifyPc
  <2>2. \/ pc[a] \in ClientPc /\ loc'[a].client = loc[a].client
        \/ a \in Task /\ StartOk(a) /\ loc'[a].client = loc[a].nonce
        \/ \E u \in Uuid : sessions[u] # NoSession /\ loc'[a].client = sessions[u].client
    BY <1>0, <1>3, HandlerClient
  <2> QED BY <1>1, <2>1, <2>2
<1> QED BY <1>2, <1>3

LEMMA HeldStep ==
  ASSUME CounterInv, GatewayInv, NewClientsAlone, HeldOfAccount, [Next]_vars
  PROVE  HeldOfAccount'
<1> SUFFICES ASSUME NEW u \in Uuid, NEW a \in Actor, sessions'[u] # NoSession,
                    pc'[a] \in ClientPc \ PromotePc, loc'[a].client = sessions'[u].client
             PROVE  pc'[a] \in HoldPc /\ loc'[a].uuid = u
  BY DEF HeldOfAccount
<1>0. TypeOK
  BY DEF CounterInv
<1> DEFINE Held == /\ pc[a] \in ClientPc
                   /\ pc'[a] = pc[a] \/ <<pc[a], pc'[a]>> \in Onward
                   /\ loc'[a].client = loc[a].client /\ loc'[a].uuid = loc[a].uuid
           Seen(w) == /\ sessions[w] # NoSession /\ loc'[a].client = sessions[w].client
                      /\ loc'[a].uuid = w
                      /\ \/ pc'[a] \in {"check_alive", "stop"}
                         \/ sessions' = [sessions EXCEPT ![w] = NoSession]
<1>1. Held \/ \E w \in Uuid : Seen(w)
  <2>1. ~(a \in Task /\ StartOk(a))
    BY <1>0, ConstantsAssumption DEF StartOk, Goto, PromotePc, TypeOK, ControlOK
  <2> QED BY <1>0, <2>1, HolderSource
<1>2. CASE sessions[u] # NoSession /\ sessions'[u].client = sessions[u].client
  <2>1. CASE Held
    <3>1. pc[a] \in ClientPc \ PromotePc
      BY <2>1 DEF Onward, PromotePc
    <3>2. pc[a] \in HoldPc /\ loc[a].uuid = u
      BY <1>2, <2>1, <3>1 DEF HeldOfAccount
    <3> QED BY <2>1, <3>2 DEF Onward, HoldPc, TickPc
  <2>2. ASSUME NEW w \in Uuid, Seen(w) PROVE pc'[a] \in HoldPc /\ loc'[a].uuid = u
    <3>1. w = u
      BY <1>2, <2>2 DEF GatewayInv, SessionHasGateway
    <3>2. sessions' # [sessions EXCEPT ![u] = NoSession]
      BY <1>0 DEF TypeOK, TablesOK
    <3> QED BY <2>2, <3>1, <3>2 DEF HoldPc, TickPc
  <2> QED BY <1>1, <2>1, <2>2
<1>3. ASSUME NEW t \in Task, pc[t] = "promote_insert", pc'[t] = "idle",
             sessions'[u].client = loc[t].client
      PROVE  FALSE
  <2>1. a # t
    BY <1>3 DEF ClientPc, PromotePc, TickPc, LogoutPc, RemovalPc
  <2>2. ~Held
    BY <1>3, <2>1 DEF NewClientsAlone, PromotePc
  <2>3. \A w \in Uuid : ~Seen(w)
    BY <1>3 DEF GatewayInv, NewClients, PromotePc
  <2> QED BY <1>1, <2>2, <2>3
<1> QED BY <1>0, <1>2, <1>3, ClientSource

LEMMA SawStep ==
  ASSUME TypeOK, OneHandler, SawClient, [Next]_vars
  PROVE  SawClient'
<1> SUFFICES ASSUME NEW t \in Task, pc'[t] \in HoldPc, sessions'[loc'[t].uuid] # NoSession
             PROVE  sessions'[loc'[t].uuid].client = loc'[t].client
  BY DEF SawClient
<1> DEFINE u == loc'[t].uuid
<1>0. pc'[t] \in ClientPc /\ t \in Actor
  BY DEF HoldPc, ClientPc, LogoutPc
<1>1. CASE /\ pc[t] \in ClientPc
           /\ pc'[t] = pc[t] \/ <<pc[t], pc'[t]>> \in Onward
           /\ loc'[t].client = loc[t].client /\ loc'[t].uuid = loc[t].uuid
  <2>1. pc[t] \in HoldPc /\ u \in Uuid
    <3>1. pc[t] \in HoldPc
      BY <1>1 DEF Onward, HoldPc, TickPc
    <3>2. loc[t] \in Request
      BY <1>0, <3>1, LocalFacts DEF HoldPc, TickPc, TypeOK
    <3> QED BY <1>1, <3>1, <3>2 DEF Request
  <2>2. ASSUME NEW s \in Task, Writes(s, u) PROVE FALSE
    BY <1>1, <2>1, <2>2, WriterAlone DEF HoldPc, TickPc, Verifying, VerifyPc
  <2>3. Kept(u)
    BY <2>1, <2>2, SessionSource
  <2> QED BY <1>1, <2>1, <2>3 DEF Kept, SawClient
<1>2. ASSUME NEW w \in Uuid, loc'[t].client = sessions[w].client, u = w, pc[t] = "idle"
      PROVE  sessions'[u].client = loc'[t].client
  <2>1. ASSUME NEW s \in Task, Writes(s, u) PROVE FALSE
    <3>1. s # t /\ pc'[s] # pc[s]
      BY <1>2, <2>1 DEF Writes
    <3>2. pc'[t] # "idle"
      BY DEF HoldPc, TickPc
    <3> QED BY <1>2, <3>1, <3>2, TaskSource
  <2> QED BY <1>2, <2>1, SessionSource DEF Kept
<1>3. pc'[t] \notin {"uncount", "logout_uncount"}
  BY DEF HoldPc, TickPc
<1>4. ~StartOk(t)
  BY DEF StartOk, Goto, HoldPc, TickPc, TypeOK, ControlOK
<1> QED BY <1>0, <1>1, <1>2, <1>3, <1>4, HolderSource

\* A client that changes is stopped, or loses its connection, or is started.
LEMMA ClientMoves ==
  ASSUME TypeOK, [Next]_vars, NEW n \in Nonce, gateway'[n] # gateway[n]
  PROVE  \/ gateway'[n] = "stopped"
         \/ gateway'[n] = "dead" /\ gateway[n] = "alive"
         \/ \E t \in Task : /\ pc[t] = "start" /\ loc[t].nonce = n
                            /\ pc'[t] = "promote_count" /\ loc'[t].client = n
<1> USE ConstantsAssumption
<1>0. /\ pc \in [Actor -> TaskPc \cup SweeperPc] /\ ControlOK
      /\ gateway \in [Nonce -> {"none", "alive", "dead", "stopped"}]
  BY DEF TypeOK, TablesOK, ControlOK
<1>1. gateway' # gateway
  OBVIOUS
<1>2. ~NewRequest /\ ~UNCHANGED vars
  BY <1>1 DEF NewRequest, Login, Verify, Activity, Script, Logout, vars
<1>3. CASE Environment
  BY <1>0, <1>3 DEF Environment, GatewayDies, Cancel, Time, Restart
<1>4. ASSUME NEW a \in Actor, StopRemoved(a) \/ LogoutStop(a) PROVE gateway'[n] = "stopped"
  BY <1>0, <1>4 DEF StopRemoved, LogoutStop, Stopped
<1>5. ASSUME NEW t \in Task, StartOk(t)
      PROVE  /\ pc[t] = "start" /\ loc[t].nonce = n
             /\ pc'[t] = "promote_count" /\ loc'[t].client = n
  <2>1. loc[t] \in Request /\ loc \in [Actor -> Request \cup {NoRequest}] /\ pc[t] = "start"
    BY <1>0, <1>5, LocalFacts DEF StartOk, ControlOK
  <2> QED BY <1>0, <1>5, <2>1 DEF StartOk, Goto, Request
<1>6. ASSUME NEW t \in Task, TaskStep(t) PROVE StartOk(t) \/ LogoutStop(t) \/ StopRemoved(t)
  BY <1>1, <1>6
     DEF TaskStep, Lookup, StartFail, PromoteCount, PromoteInsert, UpdateRead, UpdateCount,
         UpdateWrite, CheckAlive, LogoutRemove, LogoutUncount, RemoveDead, Remove, Uncount
<1>7. CASE SweeperStep
  <2>1. Sweeper \in Actor /\ StopRemoved(Sweeper)
    BY <1>1, <1>7 DEF SweeperStep, SweepCollect, SweepPending, SweepRemove, Remove, Uncount
  <2> QED BY <1>4, <2>1
<1>8. CASE \E t \in Task : TaskStep(t)
  BY <1>4, <1>5, <1>6, <1>8
<1> QED BY <1>2, <1>3, <1>7, <1>8 DEF Next

LEMMA StoppedStays ==
  ASSUME CounterInv, GatewayInv, [Next]_vars, NEW n \in Nonce, gateway[n] = "stopped"
  PROVE  gateway'[n] = "stopped"
<1>1. ASSUME NEW t \in Task, pc[t] = "start", loc[t].nonce = n PROVE FALSE
  BY <1>1 DEF GatewayInv, UnstartedNone, Unstarted
<1> QED BY <1>1, ClientMoves DEF CounterInv

\* Where no handler is dropped, one that will register or stop a client does.
LEMMA HolderMoves ==
  ASSUME ~Cancels, TypeOK, [Next]_vars, NEW a \in Actor,
         pc[a] \in PromotePc \cup RemovalPc \cup {"logout_remove"}
  PROVE  \/ pc'[a] = pc[a] /\ loc'[a] = loc[a]
         \/ /\ \A u \in Uuid : sessions'[u] = NoSession
            /\ \A n \in Nonce : gateway'[n] # "alive"
         \/ /\ <<pc[a], pc'[a]>> \in Onward /\ pc[a] # "logout_remove"
            /\ loc'[a].client = loc[a].client
         \/ /\ pc[a] = "promote_insert" /\ sessions'[loc[a].uuid] # NoSession
            /\ sessions'[loc[a].uuid].client = loc[a].client
         \/ pc[a] = "stop_removed" /\ gateway'[loc[a].client] = "stopped"
         \/ pc[a] = "logout_remove" /\ sessions'[loc[a].uuid] = NoSession
<1> USE ConstantsAssumption
<1> DEFINE Waits == pc'[a] = pc[a] /\ loc'[a] = loc[a]
           Reset == /\ \A u \in Uuid : sessions'[u] = NoSession
                    /\ \A n \in Nonce : gateway'[n] # "alive"
           Goes == /\ <<pc[a], pc'[a]>> \in Onward /\ pc[a] # "logout_remove"
                   /\ loc'[a].client = loc[a].client
           Registers == /\ pc[a] = "promote_insert" /\ sessions'[loc[a].uuid] # NoSession
                        /\ sessions'[loc[a].uuid].client = loc[a].client
           Stops == pc[a] = "stop_removed" /\ gateway'[loc[a].client] = "stopped"
           Removes == pc[a] = "logout_remove" /\ sessions'[loc[a].uuid] = NoSession
<1> SUFFICES Waits \/ Reset \/ Goes \/ Registers \/ Stops \/ Removes
  OBVIOUS
<1>0. /\ pc \in [Actor -> TaskPc \cup SweeperPc] /\ TablesOK
      /\ loc \in [Actor -> Request \cup {NoRequest}]
      /\ loc[a] \in Request /\ loc[a].uuid \in Uuid /\ loc[a].client \in Nonce
      /\ pc[a] \in PromotePc \cup RemovalPc \cup {"logout_remove"}
      /\ pc[Sweeper] \in SweeperPc
  <2>1. pc[a] \notin {"idle", "sweep"} /\ pc[a] \in ClientPc
    BY DEF PromotePc, RemovalPc, ClientPc, LogoutPc
  <2> QED BY <2>1, LocalFacts, ClientNonce DEF TypeOK, ControlOK
<1>1. ASSUME NEW b \in Actor \ {a}, Done(b) PROVE Waits
  BY <1>0, <1>1 DEF Done
<1>2. ASSUME NEW b \in Actor \ {a}, NEW label, Goto(b, label), loc'[a] = loc[a] PROVE Waits
  BY <1>0, <1>2 DEF Goto
<1>3. ASSUME NEW b \in Actor \ {a}, NEW u \in Uuid, NEW label, Remove(b, u, label) PROVE Waits
  BY <1>0, <1>1, <1>2, <1>3 DEF Remove
<1>4. CASE NewRequest
  BY <1>0, <1>4 DEF NewRequest, Login, Verify, Activity, Script, Logout, Begin, PromotePc,
                    RemovalPc
<1>5. ASSUME NEW t \in Task, TaskStep(t), t # a PROVE Waits
  <2>1. CASE LoginControl(t)
    BY <1>0, <1>1, <1>5, <2>1
       DEF LoginControl, Lookup, StartOk, StartFail, PromoteCount, PromoteInsert,
           UpdateRead, UpdateCount, UpdateWrite, Goto
  <2>2. CASE LogoutRemove(t) \/ RemoveDead(t)
    <3>1. loc[t].uuid \in Uuid
      BY <2>2, LocalFacts DEF LogoutRemove, RemoveDead, TypeOK
    <3> QED BY <1>3, <1>5, <2>2, <3>1 DEF LogoutRemove, RemoveDead
  <2>3. CASE CheckAlive(t) \/ LogoutStop(t) \/ LogoutUncount(t) \/ Uncount(t) \/ StopRemoved(t)
    BY <1>1, <1>2, <1>5, <2>3 DEF CheckAlive, LogoutStop, LogoutUncount, Uncount, StopRemoved
  <2> QED BY <1>5, <2>1, <2>2, <2>3 DEF TaskStep, LoginControl
<1>6. CASE PromoteCount(a)
  <2>1. loc' = [loc EXCEPT ![a].at = BeforeCooldown]
    BY <1>6 DEF PromoteCount
  <2>2. loc'[a].client = loc[a].client
    BY <1>0, <2>1 DEF Request
  <2> QED BY <1>0, <1>6, <2>2 DEF PromoteCount, Goto, Onward
<1>7. CASE PromoteInsert(a)
  <2>1. pc[a] = "promote_insert" /\ LocOK(pc[a], loc[a])
    BY <1>7, LocalFacts DEF PromoteInsert, TypeOK
  <2>2. NewSession(loc[a]) \in Session
    BY <1>0, <2>1, NewSessionType DEF LocOK, VerifyPc
  <2>3. sessions'[loc[a].uuid] = NewSession(loc[a])
    BY <1>0, <1>7 DEF PromoteInsert, TablesOK
  <2> QED BY <2>1, <2>2, <2>3, NullAssumption DEF NewSession
<1>8. CASE Uncount(a)
  BY <1>0, <1>8 DEF Uncount, Goto, Onward
<1>9. CASE StopRemoved(a)
  BY <1>0, <1>9 DEF StopRemoved, Stopped, TablesOK
<1>10. CASE LogoutRemove(a)
  BY <1>0, <1>10 DEF LogoutRemove, Remove, TablesOK
<1>11. CASE TaskStep(a)
  BY <1>0, <1>6, <1>7, <1>8, <1>9, <1>10, <1>11
     DEF TaskStep, Lookup, StartOk, StartFail, UpdateRead, UpdateCount, UpdateWrite, CheckAlive,
         LogoutStop, LogoutUncount, RemoveDead, PromotePc, RemovalPc
<1>12. CASE SweeperStep
  <2>1. CASE SweepCollect \/ SweepPending
    BY <1>0, <2>1 DEF SweepCollect, SweepPending, Goto, PromotePc, RemovalPc
  <2>2. ASSUME NEW u \in Uuid, SweepRemove(u) PROVE Waits
    BY <1>0, <1>3, <2>2 DEF SweepRemove, PromotePc, RemovalPc
  <2>3. CASE (Uncount(Sweeper) \/ StopRemoved(Sweeper)) /\ a = Sweeper
    BY <1>8, <1>9, <2>3
  <2>4. CASE (Uncount(Sweeper) \/ StopRemoved(Sweeper)) /\ a # Sweeper
    BY <1>1, <1>2, <2>4 DEF Uncount, StopRemoved
  <2> QED BY <1>12, <2>1, <2>2, <2>3, <2>4 DEF SweeperStep
<1>13. CASE Environment
  BY <1>0, <1>13 DEF Environment, GatewayDies, Cancel, Time, Restart, TablesOK
<1>14. CASE UNCHANGED vars
  BY <1>14 DEF vars
<1>15. ASSUME NEW t \in Task, TaskStep(t)
       PROVE  Waits \/ Reset \/ Goes \/ Registers \/ Stops \/ Removes
  BY <1>5, <1>11, <1>15
<1> QED BY <1>4, <1>12, <1>13, <1>14, <1>15 DEF Next

LEMMA LogoutStops ==
  ASSUME TypeOK, [Next]_vars, NEW t \in Task, pc[t] = "stop", pc'[t] = "logout_remove"
  PROVE  gateway'[loc[t].client] = "stopped"
<1> USE ConstantsAssumption
<1>0. /\ pc \in [Actor -> TaskPc \cup SweeperPc] /\ TablesOK /\ t \in Actor /\ t # Sweeper
      /\ loc[t].client \in Nonce
  BY ClientNonce DEF TypeOK, ControlOK, ClientPc, LogoutPc
<1>1. CASE LogoutStop(t)
  BY <1>0, <1>1 DEF LogoutStop, Stopped, TablesOK
<1>2. ASSUME NEW b \in Actor, Done(b) PROVE FALSE
  BY <1>0, <1>2 DEF Done
<1>3. ASSUME NEW b \in Actor \ {t}, NEW label, Goto(b, label) PROVE FALSE
  BY <1>0, <1>3 DEF Goto
<1>4. ASSUME NEW b \in Actor \ {t}, NEW u, NEW label, Remove(b, u, label) PROVE FALSE
  BY <1>2, <1>3, <1>4 DEF Remove
<1>5. pc' # pc
  OBVIOUS
<1>6. CASE NewRequest
  BY <1>0, <1>6 DEF NewRequest, Login, Verify, Activity, Script, Logout, Begin
<1>7. ASSUME NEW s \in Task, TaskStep(s) PROVE s = t /\ LogoutStop(t)
  <2>1. s = t
    BY <1>2, <1>3, <1>4, <1>7
       DEF TaskStep, Lookup, StartOk, StartFail, PromoteCount, PromoteInsert, UpdateRead,
           UpdateCount, UpdateWrite, CheckAlive, LogoutStop, LogoutRemove, LogoutUncount,
           RemoveDead, Uncount, StopRemoved
  <2> QED BY <1>7, <2>1
          DEF TaskStep, Lookup, StartOk, StartFail, PromoteCount, PromoteInsert, UpdateRead,
              UpdateCount, UpdateWrite, CheckAlive, LogoutRemove, LogoutUncount,
              RemoveDead, Uncount, StopRemoved
<1>8. ~SweeperStep
  BY <1>0, <1>2, <1>3, <1>4
     DEF SweeperStep, SweepCollect, SweepPending, SweepRemove, Uncount, StopRemoved
<1>9. ~Environment /\ ~UNCHANGED vars
  BY <1>2, <1>5 DEF Environment, GatewayDies, Cancel, Time, Restart, vars
<1> QED BY <1>1, <1>6, <1>7, <1>8, <1>9 DEF Next

LEMMA LogoutStoppedStep ==
  ASSUME ~Cancels, CounterInv, GatewayInv, LogoutStopped, [Next]_vars
  PROVE  LogoutStopped'
<1> SUFFICES ASSUME NEW t \in Task, pc'[t] = "logout_remove"
             PROVE  gateway'[loc'[t].client] = "stopped"
  BY DEF LogoutStopped
<1>0. TypeOK /\ pc'[t] \in ClientPc /\ ~StartOk(t)
  BY DEF CounterInv, TypeOK, ControlOK, ClientPc, LogoutPc, StartOk, Goto
<1>1. /\ pc[t] = "logout_remove" \/ pc[t] = "stop"
      /\ loc'[t].client = loc[t].client /\ loc[t].client \in Nonce
  <2>1. /\ pc[t] \in ClientPc /\ loc'[t].client = loc[t].client
        /\ pc'[t] = pc[t] \/ <<pc[t], pc'[t]>> \in Onward
    BY <1>0, HolderSource
  <2> QED BY <1>0, <2>1, ClientNonce DEF Onward
<1>2. CASE pc[t] = "logout_remove"
  BY <1>1, <1>2, StoppedStays DEF LogoutStopped
<1>3. CASE pc[t] = "stop"
  BY <1>0, <1>1, <1>3, LogoutStops
<1> QED BY <1>1, <1>2, <1>3

LEMMA StoppedByLogoutStep ==
  ASSUME ~Cancels, CounterInv, GatewayInv, NewClientsAlone, HeldOfAccount, StoppedByLogout,
         [Next]_vars
  PROVE  StoppedByLogout'
<1> SUFFICES ASSUME NEW u \in Uuid, sessions'[u] # NoSession,
                    gateway'[sessions'[u].client] = "stopped"
             PROVE  \E t \in Task : pc'[t] = "logout_remove" /\ loc'[t].uuid = u
  BY DEF StoppedByLogout
<1> DEFINE c == sessions'[u].client
<1>0. TypeOK
  BY DEF CounterInv
<1>1. CASE sessions[u] # NoSession /\ c = sessions[u].client
  <2>1. c \in Nonce
    BY <1>0, <1>1, ClientNonce
  <2>2. CASE gateway[c] = "stopped"
    <3>1. PICK t \in Task : pc[t] = "logout_remove" /\ loc[t].uuid = u
      BY <1>1, <2>2 DEF StoppedByLogout
    <3>2. pc'[t] = pc[t] /\ loc'[t] = loc[t]
      BY <1>0, <3>1, HolderMoves DEF Onward
    <3> QED BY <3>1, <3>2
  <2>3. CASE gateway[c] # "stopped"
    <3>1. PICK a \in Actor :
            /\ loc[a].client = c
            /\ \/ pc[a] = "stop_removed"
               \/ /\ a \in Task /\ pc[a] = "stop"
                  /\ pc'[a] = "logout_remove" /\ loc'[a].uuid = loc[a].uuid
      BY <1>0, <2>1, <2>3, ClientStopped
    <3>2. pc[a] \in ClientPc \ PromotePc
      BY <3>1 DEF ClientPc, LogoutPc, RemovalPc, PromotePc
    <3>3. pc[a] \in HoldPc /\ loc[a].uuid = u
      BY <1>1, <3>1, <3>2 DEF HeldOfAccount
    <3> QED BY <3>1, <3>3 DEF HoldPc, TickPc
  <2> QED BY <2>2, <2>3
<1>2. ASSUME NEW t \in Task, pc[t] = "promote_insert", c = loc[t].client
      PROVE  FALSE
  <2>1. gateway[c] # "stopped" /\ c \in Nonce
    BY <1>0, <1>2, ClientNonce DEF NewClientsAlone, ClientPc, PromotePc
  <2>2. PICK a \in Actor : loc[a].client = c /\ pc[a] \in {"stop", "stop_removed"}
    BY <1>0, <2>1, ClientStopped
  <2> QED BY <1>2, <2>2 DEF NewClientsAlone, ClientPc, PromotePc, LogoutPc, RemovalPc
<1> QED BY <1>0, <1>1, <1>2, ClientSource

(***************************************************************************)
(* NoOrphanGateway.                                                        *)
(***************************************************************************)

\* A session that goes is lost with the process, or taken out by a logout of the
\* account or by a handler that will stop its client.
LEMMA SessionGone ==
  ASSUME TypeOK, [Next]_vars, NEW u \in Uuid, sessions[u] # NoSession, sessions'[u] = NoSession
  PROVE  \/ \A n \in Nonce : gateway'[n] # "alive"
         \/ \E t \in Task : pc[t] = "logout_remove" /\ loc[t].uuid = u
         \/ \E a \in Actor : pc'[a] = "uncount" /\ loc'[a].client = sessions[u].client
<1> USE ConstantsAssumption
<1>0. /\ pc \in [Actor -> TaskPc \cup SweeperPc] /\ TablesOK
      /\ loc \in [Actor -> Request \cup {NoRequest}]
  BY DEF TypeOK, ControlOK
<1>1. sessions' # sessions
  OBVIOUS
<1>2. ASSUME NEW b \in Actor, NEW w \in Uuid, Remove(b, w, "uncount")
      PROVE  pc'[b] = "uncount" /\ loc'[b].client = sessions[u].client
  <2>1. w = u
    BY <1>0, <1>2 DEF Remove, TablesOK
  <2> QED BY <1>0, <1>2, <2>1 DEF Remove, Goto, Local
<1>3. ASSUME NEW t \in Task, LogoutRemove(t) PROVE pc[t] = "logout_remove" /\ loc[t].uuid = u
  BY <1>0, <1>3 DEF LogoutRemove, Remove, TablesOK
<1>4. ASSUME NEW t \in Task, RemoveDead(t)
      PROVE  pc'[t] = "uncount" /\ loc'[t].client = sessions[u].client
  <2>1. loc[t].uuid \in Uuid
    BY <1>4, LocalFacts DEF RemoveDead, TypeOK
  <2> QED BY <1>2, <1>4, <2>1 DEF RemoveDead
<1>5. ASSUME NEW t \in Task, PromoteInsert(t) \/ UpdateRead(t) \/ UpdateWrite(t) PROVE FALSE
  <2>1. loc[t] \in Request /\ pc[t] \in VerifyPc /\ LocOK(pc[t], loc[t])
    BY <1>5, LocalFacts DEF PromoteInsert, UpdateRead, UpdateWrite, VerifyPc, TypeOK
  <2>2. \A s \in Session : WriteSession(s, loc[t]) # NoSession
    BY <2>1, WriteSessionType, NullAssumption DEF LocOK
  <2>3. pc[t] = "promote_insert" => NewSession(loc[t]) # NoSession
    BY <2>1, NewSessionType, NullAssumption DEF LocOK
  <2> QED BY <1>0, <1>5, <2>2, <2>3 DEF PromoteInsert, UpdateRead, UpdateWrite, TablesOK
<1>6. ~NewRequest /\ ~UNCHANGED vars
  <2>1. ASSUME NEW w \in Uuid, NEW k \in Key, NEW v \in CounterValue,
               Script(w, k, v) \/ \E t \in Task : Activity(t, w, k, v)
        PROVE  FALSE
    <3>1. w = u /\ sessions[u] \in Session /\ sessions[u].counter.ticks < MaxTicks
      BY <1>0, <2>1 DEF Script, Activity, TablesOK
    <3>2. Tick(sessions[u]) \in Session
      BY <3>1, TickType
    <3>3. [Tick(sessions[u]) EXCEPT !.last_activity = now] \in Session
      <4>1. now \in Int
        BY DEF TypeOK, WorldOK
      <4>2. \A s \in Session : [s EXCEPT !.last_activity = now] \in Session
        BY <4>1 DEF Session
      <4> QED BY <3>2, <4>2
    <3> QED BY <1>0, <2>1, <3>1, <3>2, <3>3, NullAssumption DEF Script, Activity, TablesOK
  <2> QED BY <1>1, <2>1 DEF NewRequest, Login, Verify, Logout, vars, table
<1>7. ASSUME NEW t \in Task, TaskStep(t) PROVE LogoutRemove(t) \/ RemoveDead(t)
  BY <1>1, <1>5, <1>7
     DEF TaskStep, Lookup, StartOk, StartFail, PromoteCount, UpdateCount, CheckAlive,
         LogoutStop, LogoutUncount, Uncount, StopRemoved, table
<1>8. CASE SweeperStep
  <2>1. PICK w \in Uuid : SweepRemove(w)
    BY <1>1, <1>8 DEF SweeperStep, SweepCollect, SweepPending, Uncount, StopRemoved, table
  <2>2. pc'[Sweeper] = "uncount" /\ loc'[Sweeper].client = sessions[u].client
    BY <1>2, <2>1 DEF SweepRemove
  <2> QED BY <2>2
<1>9. CASE Environment
  BY <1>0, <1>1, <1>9 DEF Environment, GatewayDies, Cancel, Time, Restart, TablesOK, table
<1>10. ASSUME NEW t \in Task, TaskStep(t)
       PROVE  \/ pc[t] = "logout_remove" /\ loc[t].uuid = u
              \/ pc'[t] = "uncount" /\ loc'[t].client = sessions[u].client
  BY <1>3, <1>4, <1>7, <1>10
<1> QED BY <1>6, <1>8, <1>9, <1>10 DEF Next

\* A session stays with its account as long as it is there: no login replaces it.
LEMMA OrphanStep ==
  ASSUME ~Cancels, CounterInv, GatewayInv, OneHandler, LoginsInOrder, SawClient,
         LogoutStopped, NoOrphanGateway, [Next]_vars
  PROVE  NoOrphanGateway'
<1> SUFFICES ASSUME NEW c \in Nonce, gateway'[c] = "alive"
             PROVE  \/ \E u \in Uuid : sessions'[u] # NoSession /\ sessions'[u].client = c
                    \/ \E a \in Actor :
                         /\ pc'[a] \in PromotePc \cup RemovalPc
                         /\ loc'[a].client = c
  BY DEF NoOrphanGateway, PromotePc, RemovalPc
<1>0. TypeOK
  BY DEF CounterInv
<1>1. CASE gateway[c] # "alive"
  <2>1. PICK t \in Task : pc'[t] = "promote_count" /\ loc'[t].client = c
    BY <1>0, <1>1, ClientMoves
  <2> QED BY <2>1 DEF PromotePc
<1>2. ASSUME gateway[c] = "alive", NEW u \in Uuid, sessions[u] # NoSession,
             sessions[u].client = c
      PROVE  \/ sessions'[u] # NoSession /\ sessions'[u].client = c
             \/ \E a \in Actor : /\ pc'[a] \in PromotePc \cup RemovalPc
                                 /\ loc'[a].client = c
  <2>1. CASE sessions'[u] # NoSession
    <3>1. ASSUME NEW t \in Task, Writes(t, u) PROVE sessions'[u].client = c
      BY <1>2, <3>1 DEF Writes, LoginsInOrder, Verifying, VerifyPc
    <3> QED BY <1>0, <1>2, <2>1, <3>1, SessionSource DEF Kept
  <2>2. CASE sessions'[u] = NoSession
    <3>1. ASSUME NEW t \in Task, pc[t] = "logout_remove", loc[t].uuid = u PROVE FALSE
      <4>1. loc[t].client = c
        BY <1>2, <3>1 DEF SawClient, HoldPc
      <4> QED BY <1>2, <3>1, <4>1 DEF LogoutStopped
    <3>2. PICK a \in Actor : pc'[a] = "uncount" /\ loc'[a].client = sessions[u].client
      BY <1>0, <1>2, <2>2, <3>1, SessionGone
    <3> QED BY <1>2, <3>2 DEF RemovalPc
  <2> QED BY <2>1, <2>2
<1>3. ASSUME gateway[c] = "alive", NEW a \in Actor, pc[a] \in PromotePc \cup RemovalPc,
             loc[a].client = c
      PROVE  \/ \E u \in Uuid : sessions'[u] # NoSession /\ sessions'[u].client = c
             \/ pc'[a] \in PromotePc \cup RemovalPc /\ loc'[a].client = c
  <2>1. loc[a].uuid \in Uuid /\ pc[a] # "logout_remove"
    BY <1>0, <1>3, LocalFacts DEF PromotePc, RemovalPc, TypeOK
  <2>2. <<pc[a], pc'[a]>> \in Onward => pc'[a] \in PromotePc \cup RemovalPc
    BY <1>3 DEF Onward, PromotePc, RemovalPc
  <2> QED BY <1>0, <1>3, <2>1, <2>2, HolderMoves
<1> QED BY <1>1, <1>2, <1>3 DEF NoOrphanGateway, PromotePc, RemovalPc

(***************************************************************************)
(* The theorems.                                                           *)
(***************************************************************************)

SerialClients == OneHandler /\ LoginsInOrder /\ ClientInv /\ NoOrphanGateway

LEMMA InitSerial == Init => SerialClients
<1> SUFFICES ASSUME Init PROVE SerialClients
  OBVIOUS
<1>1. OneHandler /\ LoginsInOrder
  BY DEF Init, OneHandler, LoginsInOrder
<1>2. ClientInv
  BY DEF Init, ClientInv, NewClientsAlone, HeldOfAccount, SawClient, LogoutStopped,
         StoppedByLogout, ClientPc, PromotePc, TickPc, LogoutPc, RemovalPc, HoldPc
<1>3. NoOrphanGateway
  BY DEF Init, NoOrphanGateway
<1> QED BY <1>1, <1>2, <1>3 DEF SerialClients

LEMMA OrderedAlways == ASSUME ~Overlap PROVE Spec => [](OneHandler /\ LoginsInOrder)
<1>1. Init => OneHandler /\ LoginsInOrder
  BY InitSerial DEF SerialClients
<1>2. CounterInv /\ ChallengeOrder /\ OneHandler /\ LoginsInOrder /\ [Next]_vars
      => (OneHandler /\ LoginsInOrder)'
  BY OneHandlerStep, LoginsStep DEF CounterInv
<1> QED BY <1>1, <1>2, CounterAlways, OlderChallengesDie, PTL DEF Spec

\* A login being verified is newer than the session it will replace, and none
\* can slip in while a new client is started.
THEOREM LoginsStayInOrder == ASSUME ~Overlap PROVE Spec => []LoginsInOrder
BY OrderedAlways, PTL

\* A login that registers a session finds none: what verify.rs:159 says is so as
\* long as an account's requests wait for each other, with sweeps, restarts and
\* handlers that are dropped in between.
THEOREM NothingOverwritten == ASSUME ~Overlap PROVE Spec => []FreshSessionOnly
<1>1. TypeOK /\ LoginsInOrder => FreshSessionOnly
  <2> SUFFICES ASSUME TypeOK, LoginsInOrder, NEW t \in Task, pc[t] = "promote_insert"
               PROVE  sessions[loc[t].uuid] = NoSession
    BY DEF FreshSessionOnly
  <2>1. loc[t].uuid \in Uuid
    BY LocalFacts DEF TypeOK, ControlOK, TaskPc, VerifyPc, Request
  <2> QED BY <2>1 DEF LoginsInOrder, Verifying, VerifyPc
<1> QED BY <1>1, LoginsStayInOrder, TypeCorrect, PTL

LEMMA GatewayAlways == Spec => []GatewayInv
BY InitGateway, GatewayStep, CounterAlways, PTL DEF Spec

LEMMA ClientsAlways == ASSUME ~Overlap, ~Cancels PROVE Spec => []SerialClients
<1>1. /\ CounterInv /\ GatewayInv /\ SerialClients /\ [Next]_vars
      /\ (OneHandler /\ LoginsInOrder)'
      => SerialClients'
  BY NewClientsAloneStep, HeldStep, SawStep, LogoutStoppedStep, StoppedByLogoutStep, OrphanStep
     DEF SerialClients, ClientInv, CounterInv
<1> QED BY <1>1, InitSerial, OrderedAlways, CounterAlways, GatewayAlways, PTL DEF Spec

\* A handler about to remove a session by account removes the one it has seen,
\* and a session whose client was stopped has its logout behind it.
THEOREM HandlersRemoveTheirOwn ==
  ASSUME ~Overlap, ~Cancels PROVE Spec => []RemovesWhatItSaw
<1>1. SerialClients => RemovesWhatItSaw
  BY DEF SerialClients, ClientInv, SawClient, StoppedByLogout, RemovesWhatItSaw, HoldPc, TickPc
<1> QED BY <1>1, ClientsAlways, PTL

\* A Discord connection that is up belongs to a session, or to a handler that
\* will register or stop it.
THEOREM NoGatewayLeftBehind ==
  ASSUME ~Overlap, ~Cancels PROVE Spec => []NoOrphanGateway
<1>1. SerialClients => NoOrphanGateway
  BY DEF SerialClients
<1> QED BY <1>1, ClientsAlways, PTL
=============================================================================
