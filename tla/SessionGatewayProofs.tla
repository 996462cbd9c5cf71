------------------------ MODULE SessionGatewayProofs ------------------------
(***************************************************************************)
(* Every session has a Discord client that was started, and its own: a     *)
(* client follows the challenge that started it from one login to one      *)
(* session, and no other login can pick it up.                             *)
(***************************************************************************)
EXTENDS SessionManagerProofs

USE DEF Actor, Nonce

PromotePc == {"promote_count", "promote_insert"}
ClientPc == PromotePc \cup TickPc \cup LogoutPc \cup RemovalPc

\* No login has come so far with challenge n that a client may have started.
Unstarted(n) ==
  \/ n >= next_nonce
  \/ \E p \in pending_logins : p.nonce = n
  \/ \E t \in Task : pc[t] \in {"lookup", "start"} /\ loc[t].nonce = n

UnstartedNone == \A n \in Nonce : Unstarted(n) => gateway[n] = "none"

\* The client a handler holds was started.
HandlersStarted ==
  \A a \in Actor : pc[a] \in ClientPc => gateway[loc[a].client] # "none"

\* The client a login has started is named by its challenge and serves no
\* session yet.
NewClients ==
  \A t \in Task : pc[t] \in PromotePc =>
    /\ loc[t].client = loc[t].nonce
    /\ \A u \in Uuid : sessions[u] # NoSession => sessions[u].client # loc[t].client

GatewayInv == UnstartedNone /\ HandlersStarted /\ NewClients /\ SessionHasGateway

(***************************************************************************)
(* What a step does to clients and to those who hold them.                 *)
(***************************************************************************)

\* A handler that holds a client held it before, took it from a session, or has
\* just started it.
LEMMA HandlerClient ==
  ASSUME TypeOK, [Next]_vars, NEW a \in Actor, pc'[a] \in ClientPc
  PROVE  \/ pc[a] \in ClientPc /\ loc'[a].client = loc[a].client
         \/ \E u \in Uuid : sessions[u] # NoSession /\ loc'[a].client = sessions[u].client
         \/ a \in Task /\ StartOk(a) /\ loc'[a].client = loc[a].nonce
<1> USE ConstantsAssumption
<1>0. /\ pc \in [Actor -> TaskPc \cup SweeperPc]
      /\ loc \in [Actor -> Request \cup {NoRequest}]
      /\ \A b \in Actor : pc[b] \notin {"idle", "sweep"} => loc[b] \in Request
  BY LocalFacts DEF TypeOK, ControlOK
<1>1. CASE pc'[a] = pc[a] /\ loc'[a] = loc[a]
  BY <1>1
<1>2. ASSUME NEW b \in Actor, Done(b)
      PROVE  pc'[a] = pc[a] /\ loc'[a] = loc[a]
  BY <1>0, <1>2 DEF Done, ClientPc, PromotePc, TickPc, LogoutPc, RemovalPc
<1>3. ASSUME NEW b \in Actor, NEW u \in Uuid, NEW label, Remove(b, u, label)
      PROVE  \/ pc'[a] = pc[a] /\ loc'[a] = loc[a]
             \/ sessions[u] # NoSession /\ loc'[a].client = sessions[u].client
  BY <1>0, <1>2, <1>3 DEF Remove, Goto, Local
<1>4. CASE NewRequest
  <2>1. ASSUME NEW u \in Uuid, NEW k \in Key, Login(u, k)
        PROVE  pc'[a] = pc[a] /\ loc'[a] = loc[a]
    BY <2>1 DEF Login
  <2>2. ASSUME NEW t \in Task, NEW p \in pending_logins, NEW k \in Key, NEW ip \in Ip,
               Verify(t, p, k, ip)
        PROVE  pc'[a] = pc[a] /\ loc'[a] = loc[a]
    BY <1>0, <2>2 DEF Verify, Begin, ClientPc, PromotePc, TickPc, LogoutPc, RemovalPc
  <2>3. ASSUME NEW t \in Task, NEW u \in Uuid, NEW k \in Key, NEW v \in CounterValue,
               Activity(t, u, k, v) \/ Logout(t, u, k, v)
        PROVE  \/ pc'[a] = pc[a] /\ loc'[a] = loc[a]
               \/ sessions[u] # NoSession /\ loc'[a].client = sessions[u].client
    BY <1>0, <2>3 DEF Activity, Logout, Begin, Local
  <2>4. ASSUME NEW u \in Uuid, NEW k \in Key, NEW v \in CounterValue, Script(u, k, v)
        PROVE  pc'[a] = pc[a] /\ loc'[a] = loc[a]
    BY <2>4 DEF Script
  <2> QED BY <1>1, <1>4, <2>1, <2>2, <2>3, <2>4 DEF NewRequest
<1>5. ASSUME NEW t \in Task, LoginControl(t)
      PROVE  \/ pc[a] \in ClientPc /\ loc'[a].client = loc[a].client
             \/ a \in Task /\ StartOk(a) /\ loc'[a].client = loc[a].nonce
  <2>1. CASE a # t
    BY <1>0, <1>1, <1>2, <1>5, <2>1
       DEF LoginControl, Lookup, StartOk, StartFail, PromoteCount, PromoteInsert,
           UpdateRead, UpdateCount, UpdateWrite, Goto
  <2>2. CASE a = t /\ StartOk(t)
    BY <1>0, <2>2 DEF StartOk
  <2>3. CASE a = t /\ PromoteCount(t)
    <3>1. loc[t] \in Request /\ pc[t] \in ClientPc
      BY <1>0, <2>3 DEF PromoteCount, ClientPc, PromotePc
    <3>2. loc'[t].client = loc[t].client
      BY <1>0, <2>3, <3>1 DEF PromoteCount, Request
    <3> QED BY <2>3, <3>1, <3>2
  <2>4. CASE a = t /\ (Lookup(t) \/ UpdateRead(t) \/ UpdateCount(t))
    BY <1>0, <1>2, <2>4
       DEF Lookup, UpdateRead, UpdateCount, Goto, ClientPc, PromotePc, TickPc, LogoutPc, RemovalPc
  <2>5. CASE Done(t)
    BY <1>2, <2>5
  <2> QED BY <1>5, <2>1, <2>2, <2>3, <2>4, <2>5
          DEF LoginControl, StartFail, PromoteInsert, UpdateWrite
<1>6. ASSUME NEW b \in Actor, Uncount(b) \/ StopRemoved(b)
      PROVE  \/ pc'[a] = pc[a] /\ loc'[a] = loc[a]
             \/ pc[a] \in ClientPc /\ loc'[a] = loc[a]
  BY <1>0, <1>2, <1>6 DEF Uncount, StopRemoved, Goto, ClientPc, RemovalPc
<1>7. ASSUME NEW t \in Task, CheckAlive(t) \/ LogoutStop(t) \/ LogoutUncount(t) \/ Cancel(t)
      PROVE  \/ pc'[a] = pc[a] /\ loc'[a] = loc[a]
             \/ pc[a] \in ClientPc /\ loc'[a] = loc[a]
  BY <1>0, <1>2, <1>7 DEF CheckAlive, LogoutStop, LogoutUncount, Cancel, Goto,
                          ClientPc, TickPc, LogoutPc
<1>8. ASSUME NEW t \in Task, LogoutRemove(t) \/ RemoveDead(t)
      PROVE  \E u \in Uuid :
               \/ pc'[a] = pc[a] /\ loc'[a] = loc[a]
               \/ sessions[u] # NoSession /\ loc'[a].client = sessions[u].client
  <2>1. loc[t].uuid \in Uuid
    BY <1>0, <1>8 DEF LogoutRemove, RemoveDead, Request
  <2> QED BY <1>3, <1>8, <2>1 DEF LogoutRemove, RemoveDead
<1>9. CASE SweeperStep
  <2>1. CASE SweepCollect \/ SweepPending
    BY <1>0, <1>1, <2>1 DEF SweepCollect, SweepPending, Goto, ClientPc, PromotePc, TickPc,
                            LogoutPc, RemovalPc
  <2>2. ASSUME NEW u \in Uuid, SweepRemove(u)
        PROVE  \/ pc'[a] = pc[a] /\ loc'[a] = loc[a]
               \/ sessions[u] # NoSession /\ loc'[a].client = sessions[u].client
    BY <1>3, <2>2 DEF SweepRemove
  <2> QED BY <1>1, <1>6, <1>9, <2>1, <2>2 DEF SweeperStep
<1>10. CASE Environment
  BY <1>0, <1>1, <1>7, <1>10 DEF Environment, GatewayDies, Time, Restart, ClientPc, PromotePc,
                                 TickPc, LogoutPc, RemovalPc
<1>11. CASE UNCHANGED vars
  BY <1>1, <1>11 DEF vars
<1>12. ASSUME NEW t \in Task, TaskStep(t)
       PROVE  \/ pc[a] \in ClientPc /\ loc'[a].client = loc[a].client
              \/ \E u \in Uuid : sessions[u] # NoSession /\ loc'[a].client = sessions[u].client
              \/ a \in Task /\ StartOk(a) /\ loc'[a].client = loc[a].nonce
  <2>1. CASE LoginControl(t)
    BY <1>5, <2>1
  <2>2. CASE CheckAlive(t) \/ LogoutStop(t) \/ LogoutUncount(t) \/ Uncount(t) \/ StopRemoved(t)
    BY <1>1, <1>6, <1>7, <2>2
  <2>3. CASE LogoutRemove(t) \/ RemoveDead(t)
    BY <1>1, <1>8, <2>3
  <2> QED BY <1>12, <2>1, <2>2, <2>3 DEF TaskStep, LoginControl
<1> QED BY <1>4, <1>9, <1>10, <1>11, <1>12 DEF Next

\* A login that holds a new client held it before, or has just started it.
LEMMA NewClient ==
  ASSUME TypeOK, [Next]_vars, NEW t \in Task, pc'[t] \in PromotePc
  PROVE  \/ /\ pc[t] \in PromotePc
            /\ loc'[t].client = loc[t].client /\ loc'[t].nonce = loc[t].nonce
         \/ /\ StartOk(t) /\ pc'[t] = "promote_count" /\ loc[t].nonce \in Nonce
            /\ loc'[t].client = loc[t].nonce /\ loc'[t].nonce = loc[t].nonce
<1> USE ConstantsAssumption
<1>0. /\ pc \in [Actor -> TaskPc \cup SweeperPc] /\ ControlOK
      /\ loc \in [Actor -> Request \cup {NoRequest}]
      /\ \A b \in Actor : pc[b] \notin {"idle", "sweep"} => loc[b] \in Request
  BY LocalFacts DEF TypeOK, ControlOK
<1>1. CASE pc'[t] = pc[t] /\ loc'[t] = loc[t]
  BY <1>1
<1>2. ASSUME NEW b \in Actor, Done(b) PROVE pc'[t] = pc[t] /\ loc'[t] = loc[t]
  BY <1>0, <1>2 DEF Done, PromotePc
<1>3. ASSUME NEW b \in Actor, NEW u \in Uuid, NEW label \in {"uncount", "logout_uncount"},
             Remove(b, u, label)
      PROVE  pc'[t] = pc[t] /\ loc'[t] = loc[t]
  BY <1>0, <1>2, <1>3 DEF Remove, Goto, PromotePc
<1>4. CASE NewRequest
  BY <1>0, <1>1, <1>4 DEF NewRequest, Login, Verify, Activity, Logout, Script, Begin, PromotePc
<1>5. ASSUME NEW s \in Task, LoginControl(s), s # t PROVE pc'[t] = pc[t] /\ loc'[t] = loc[t]
  BY <1>0, <1>2, <1>5
     DEF LoginControl, Lookup, StartOk, StartFail, PromoteCount, PromoteInsert,
         UpdateRead, UpdateCount, UpdateWrite, Goto
<1>6. CASE StartOk(t)
  <2>1. loc[t] \in Request /\ loc[t].nonce \in Nonce
    BY <1>0, <1>6, LocalFacts DEF StartOk, LocOK, VerifyPc
  <2> QED BY <1>0, <1>6, <2>1 DEF StartOk, Goto, Request
<1>7. CASE PromoteCount(t)
  <2>1. loc[t] \in Request
    BY <1>0, <1>7 DEF PromoteCount
  <2> QED BY <1>0, <1>7, <2>1 DEF PromoteCount, Request, PromotePc
<1>8. CASE Lookup(t) \/ UpdateRead(t) \/ UpdateCount(t)
  BY <1>0, <1>1, <1>2, <1>8 DEF Lookup, UpdateRead, UpdateCount, Goto, PromotePc
<1>9. CASE StartFail(t) \/ PromoteInsert(t) \/ UpdateWrite(t)
  BY <1>1, <1>2, <1>9 DEF StartFail, PromoteInsert, UpdateWrite
<1>10. ASSUME NEW b \in Actor, Uncount(b) \/ StopRemoved(b)
       PROVE  pc'[t] = pc[t] /\ loc'[t] = loc[t]
  BY <1>0, <1>2, <1>10 DEF Uncount, StopRemoved, Goto, PromotePc
<1>11. ASSUME NEW s \in Task, CheckAlive(s) \/ LogoutStop(s) \/ LogoutUncount(s) \/ Cancel(s)
       PROVE  pc'[t] = pc[t] /\ loc'[t] = loc[t]
  BY <1>0, <1>2, <1>11 DEF CheckAlive, LogoutStop, LogoutUncount, Cancel, Goto, PromotePc
<1>12. ASSUME NEW s \in Task, LogoutRemove(s) \/ RemoveDead(s)
       PROVE  pc'[t] = pc[t] /\ loc'[t] = loc[t]
  <2>1. loc[s].uuid \in Uuid
    BY <1>0, <1>12 DEF LogoutRemove, RemoveDead, Request
  <2> QED BY <1>3, <1>12, <2>1 DEF LogoutRemove, RemoveDead
<1>13. CASE SweeperStep
  <2>1. CASE SweepCollect \/ SweepPending
    BY <1>0, <1>1, <2>1 DEF SweepCollect, SweepPending, Goto, PromotePc
  <2>2. ASSUME NEW u \in Uuid, SweepRemove(u) PROVE pc'[t] = pc[t] /\ loc'[t] = loc[t]
    BY <1>3, <2>2 DEF SweepRemove
  <2> QED BY <1>1, <1>10, <1>13, <2>1, <2>2 DEF SweeperStep
<1>14. CASE Environment
  BY <1>0, <1>1, <1>11, <1>14 DEF Environment, GatewayDies, Time, Restart, PromotePc
<1>15. ASSUME NEW s \in Task, TaskStep(s)
       PROVE  \/ pc'[t] = pc[t] /\ loc'[t] = loc[t]
              \/ LoginControl(t)
  BY <1>5, <1>10, <1>11, <1>12, <1>15 DEF TaskStep, LoginControl
<1>16. CASE LoginControl(t)
  BY <1>6, <1>7, <1>8, <1>9, <1>16 DEF LoginControl
<1>17. CASE UNCHANGED vars
  BY <1>1, <1>17 DEF vars
<1> QED BY <1>1, <1>4, <1>13, <1>14, <1>15, <1>16, <1>17 DEF Next

\* A session has the client it had, or the one of the login that registers it.
LEMMA SessionClient ==
  ASSUME TypeOK, [Next]_vars, NEW u \in Uuid, sessions'[u] # NoSession
  PROVE  \/ sessions[u] # NoSession /\ sessions'[u].client = sessions[u].client
         \/ \E t \in Task :
              /\ pc[t] = "promote_insert" /\ pc'[t] = "idle"
              /\ sessions'[u].client = loc[t].client
              /\ \A w \in Uuid \ {u} : sessions'[w] = sessions[w]
BY SessionSource DEF Kept, Writes

\* A client once started stays so, whatever becomes of it.
LEMMA ClientStays ==
  ASSUME TypeOK, [Next]_vars, NEW n \in Nonce, gateway[n] # "none"
  PROVE  gateway'[n] # "none"
<1>0. gateway \in [Nonce -> {"none", "alive", "dead", "stopped"}]
  BY DEF TypeOK, TablesOK
<1>1. CASE gateway' = gateway
  BY <1>1
<1>2. ASSUME NEW c, NEW status \in {"alive", "dead", "stopped"},
             gateway' = [gateway EXCEPT ![c] = status]
      PROVE  gateway'[n] # "none"
  BY <1>0, <1>2
<1>3. CASE NewRequest
  BY <1>1, <1>3 DEF NewRequest, Login, Verify, Activity, Script, Logout
<1>4. ASSUME NEW a \in Actor, Uncount(a) \/ StopRemoved(a) PROVE gateway'[n] # "none"
  BY <1>1, <1>2, <1>4 DEF Uncount, StopRemoved, Stopped
<1>5. ASSUME NEW t \in Task, TaskStep(t) PROVE gateway'[n] # "none"
  BY <1>1, <1>2, <1>4, <1>5
     DEF TaskStep, Lookup, StartOk, StartFail, PromoteCount, PromoteInsert, UpdateRead,
         UpdateCount, UpdateWrite, CheckAlive, LogoutStop, LogoutRemove, LogoutUncount,
         RemoveDead, Remove, Stopped
<1>6. CASE SweeperStep
  BY <1>1, <1>4, <1>6 DEF SweeperStep, SweepCollect, SweepPending, SweepRemove, Remove
<1>7. CASE Environment
  BY <1>0, <1>1, <1>2, <1>7 DEF Environment, GatewayDies, Cancel, Time, Restart
<1>8. CASE UNCHANGED vars
  BY <1>1, <1>8 DEF vars
<1> QED BY <1>3, <1>5, <1>6, <1>7, <1>8 DEF Next

\* No challenge becomes unstarted again.
LEMMA UnstartedShrinks ==
  ASSUME TypeOK, [Next]_vars, NEW n \in Nonce, Unstarted(n)'
  PROVE  Unstarted(n)
<1> DEFINE Early(t) == pc[t] \in {"lookup", "start"} /\ loc[t].nonce = n
<1>0. ControlOK /\ next_nonce \in 1 .. MaxNonce + 1
  BY DEF TypeOK, WorldOK
<1>1. ASSUME Shrinks, \A t \in Task : Early(t)' => Early(t) PROVE Unstarted(n)
  BY <1>1 DEF Unstarted, Shrinks
<1>2. ASSUME NEW a \in Actor, Done(a) PROVE \A t \in Task : Early(t)' => Early(t)
  BY <1>0, <1>2 DEF Done, ControlOK
<1>3. ASSUME NEW u \in Uuid, NEW k \in Key, Login(u, k) PROVE Unstarted(n)
  BY <1>0, <1>3 DEF Unstarted, Login, PendingFor
<1>4. ASSUME NEW t \in Task, NEW p \in pending_logins, NEW k \in Key, NEW ip \in Ip,
             Verify(t, p, k, ip)
      PROVE  Unstarted(n)
  BY <1>0, <1>4 DEF Unstarted, Verify, Begin, Local, Extract, ControlOK, world
<1>5. ASSUME NEW u \in Uuid, NEW k \in Key, NEW v \in CounterValue,
             \/ Script(u, k, v)
             \/ \E t \in Task : Activity(t, u, k, v) \/ Logout(t, u, k, v)
      PROVE  Unstarted(n)
  BY <1>0, <1>5 DEF Unstarted, Activity, Script, Logout, Begin, ControlOK, table, world
<1>6. ASSUME NEW t \in Task, LoginControl(t) PROVE Unstarted(n)
  <2>1. Shrinks
    BY <1>6, InstallShrinks
  <2>2. \A s \in Task : pc'[s] \in {"lookup", "start"} => pc[s] \in {"lookup", "start"}
    BY <1>0, <1>2, <1>6
       DEF LoginControl, Lookup, StartOk, StartFail, PromoteCount, PromoteInsert,
           UpdateRead, UpdateCount, UpdateWrite, Goto, Done, ControlOK
  <2> QED BY <1>1, <2>1, <2>2 DEF Shrinks, VerifyPc
<1>7. ASSUME NEW t \in Task, TaskStep(t), ~LoginControl(t) PROVE Unstarted(n)
  <2>1. Shrinks
    BY <1>7, QuietShrinks DEF TaskStep, LoginControl
  <2>2. \A s \in Task : pc'[s] \in {"lookup", "start"} => pc[s] \in {"lookup", "start"}
    BY <1>0, <1>7
       DEF TaskStep, LoginControl, CheckAlive, LogoutStop, LogoutRemove, LogoutUncount,
           RemoveDead, Uncount, StopRemoved, Remove, Goto, Done, ControlOK
  <2> QED BY <1>1, <2>1, <2>2 DEF Shrinks, VerifyPc
<1>8. CASE SweeperStep
  <2>1. Shrinks
    BY <1>8, QuietShrinks
  <2>2. \A s \in Task : pc'[s] = pc[s]
    BY <1>0, <1>8, ConstantsAssumption
       DEF SweeperStep, SweepCollect, SweepPending, SweepRemove, Remove, Uncount, StopRemoved,
           Goto, Done, ControlOK
  <2> QED BY <1>1, <2>1, <2>2 DEF Shrinks, VerifyPc
<1>9. CASE Environment
  <2>1. Shrinks
    BY <1>9, QuietShrinks
  <2>2. \A s \in Task : pc'[s] \in {pc[s], "idle"}
    BY <1>0, <1>9, ConstantsAssumption
       DEF Environment, GatewayDies, Cancel, Time, Restart, Done, ControlOK
  <2> QED BY <1>1, <2>1, <2>2 DEF Shrinks, VerifyPc
<1>10. CASE UNCHANGED vars
  BY <1>10 DEF vars, Unstarted
<1>11. CASE NewRequest
  BY <1>3, <1>4, <1>5, <1>11 DEF NewRequest
<1> QED BY <1>6, <1>7, <1>8, <1>9, <1>10, <1>11 DEF Next

\* A client is started by the login that has answered its challenge, and only
\* stopped by who holds it.
LEMMA ClientStarted ==
  ASSUME TypeOK, [Next]_vars, NEW n \in Nonce, gateway[n] = "none", gateway'[n] # "none"
  PROVE  \/ \E t \in Task : StartOk(t) /\ loc[t].nonce = n
         \/ \E a \in Actor : pc[a] \in ClientPc /\ loc[a].client = n
<1>0. gateway \in [Nonce -> {"none", "alive", "dead", "stopped"}]
  BY DEF TypeOK, TablesOK
<1>1. gateway' # gateway
  OBVIOUS
<1>2. ~NewRequest /\ ~UNCHANGED vars
  BY <1>1 DEF NewRequest, Login, Verify, Activity, Script, Logout, vars
<1>3. ~Environment
  BY <1>0 DEF Environment, GatewayDies, Cancel, Time, Restart
<1>4. ASSUME NEW a \in Actor, StopRemoved(a) \/ LogoutStop(a)
      PROVE  pc[a] \in ClientPc /\ loc[a].client = n
  BY <1>0, <1>4 DEF StopRemoved, LogoutStop, Stopped, ClientPc, LogoutPc, RemovalPc
<1>5. ASSUME NEW t \in Task, TaskStep(t) PROVE StartOk(t) \/ LogoutStop(t) \/ StopRemoved(t)
  BY <1>1, <1>5
     DEF TaskStep, Lookup, StartFail, PromoteCount, PromoteInsert, UpdateRead, UpdateCount,
         UpdateWrite, CheckAlive, LogoutRemove, LogoutUncount, RemoveDead, Remove, Uncount
<1>6. ASSUME NEW t \in Task, StartOk(t) PROVE loc[t].nonce = n
  BY <1>0, <1>6 DEF StartOk
<1>7. SweeperStep => StopRemoved(Sweeper)
  BY <1>1 DEF SweeperStep, SweepCollect, SweepPending, SweepRemove, Remove, Uncount
<1>8. SweeperStep \/ \E t \in Task : TaskStep(t)
  BY <1>2, <1>3 DEF Next
<1>9. CASE SweeperStep
  <2>1. Sweeper \in Actor /\ StopRemoved(Sweeper)
    BY <1>7, <1>9
  <2>2. pc[Sweeper] \in ClientPc /\ loc[Sweeper].client = n
    BY <1>4, <2>1
  <2> QED BY <2>2
<1>10. ASSUME NEW t \in Task, TaskStep(t)
       PROVE  \/ StartOk(t) /\ loc[t].nonce = n
              \/ pc[t] \in ClientPc /\ loc[t].client = n
  <2>1. CASE StartOk(t)
    BY <1>6, <2>1
  <2>2. CASE LogoutStop(t) \/ StopRemoved(t)
    BY <1>4, <2>2
  <2> QED BY <1>5, <1>10, <2>1, <2>2
<1> QED BY <1>8, <1>9, <1>10

(***************************************************************************)
(* The invariant.                                                          *)
(***************************************************************************)

LEMMA UnstartedStep ==
  ASSUME CounterInv, CounterInv', GatewayInv, [Next]_vars
  PROVE  UnstartedNone'
<1> SUFFICES ASSUME NEW n \in Nonce, Unstarted(n)', gateway'[n] # "none" PROVE FALSE
  BY DEF UnstartedNone
<1>0. TypeOK /\ TypeOK' /\ OnePlace'
  BY DEF CounterInv
<1>1. gateway[n] = "none"
  BY <1>0, UnstartedShrinks DEF GatewayInv, UnstartedNone
<1>2. PICK t \in Task : StartOk(t) /\ loc[t].nonce = n
  BY <1>0, <1>1, ClientStarted DEF GatewayInv, HandlersStarted
<1>3. pc'[t] = "promote_count" /\ loc'[t].nonce = n
  BY <1>0, <1>2, NewClient DEF StartOk, Goto, TypeOK, ControlOK, PromotePc
<1> QED BY <1>0, <1>3 DEF OnePlace, Unstarted, VerifyPc, TypeOK, WorldOK

LEMMA HandlersStep ==
  ASSUME CounterInv, CounterInv', GatewayInv, [Next]_vars
  PROVE  HandlersStarted'
<1> SUFFICES ASSUME NEW a \in Actor, pc'[a] \in ClientPc
             PROVE  gateway'[loc'[a].client] # "none"
  BY DEF HandlersStarted
<1>0. TypeOK /\ TypeOK'
  BY DEF CounterInv
<1>1. ASSUME pc[a] \in ClientPc, loc'[a].client = loc[a].client
      PROVE  gateway'[loc'[a].client] # "none"
  <2>1. loc[a].client \in Nonce
    BY <1>0, <1>1 DEF TypeOK, ControlOK, LocOK, ClientPc, PromotePc
  <2> QED BY <1>0, <1>1, <2>1, ClientStays DEF GatewayInv, HandlersStarted
<1>2. ASSUME NEW u \in Uuid, sessions[u] # NoSession, loc'[a].client = sessions[u].client
      PROVE  gateway'[loc'[a].client] # "none"
  <2>1. sessions[u].client \in Nonce
    BY <1>0, <1>2 DEF TypeOK, TablesOK, Session
  <2> QED BY <1>0, <1>2, <2>1, ClientStays DEF GatewayInv, SessionHasGateway
<1>3. ASSUME a \in Task, StartOk(a), loc'[a].client = loc[a].nonce
      PROVE  gateway'[loc'[a].client] # "none"
  <2>1. loc[a].nonce \in Nonce
    BY <1>0, <1>3 DEF StartOk, TypeOK, ControlOK, LocOK, VerifyPc
  <2> QED BY <1>0, <1>3, <2>1 DEF StartOk, TypeOK, TablesOK
<1> QED BY <1>0, <1>1, <1>2, <1>3, HandlerClient

LEMMA NewClientsStep ==
  ASSUME CounterInv, CounterInv', GatewayInv, [Next]_vars
  PROVE  NewClients'
<1> SUFFICES ASSUME NEW t \in Task, pc'[t] \in PromotePc
             PROVE  /\ loc'[t].client = loc'[t].nonce
                    /\ \A u \in Uuid : sessions'[u] # NoSession
                                       => sessions'[u].client # loc'[t].client
  BY DEF NewClients
<1>0. TypeOK /\ TypeOK' /\ OnePlace
  BY DEF CounterInv
<1>1. /\ pc[t] \in VerifyPc
      /\ loc'[t].client = loc[t].nonce /\ loc'[t].nonce = loc[t].nonce
      /\ \A u \in Uuid : sessions[u] # NoSession => sessions[u].client # loc[t].nonce
  <2>1. CASE pc[t] \in PromotePc /\ loc'[t].client = loc[t].client
             /\ loc'[t].nonce = loc[t].nonce
    BY <2>1 DEF GatewayInv, NewClients, PromotePc, VerifyPc
  <2>2. CASE /\ StartOk(t) /\ loc[t].nonce \in Nonce
             /\ loc'[t].client = loc[t].nonce /\ loc'[t].nonce = loc[t].nonce
    <3>1. Unstarted(loc[t].nonce)
      BY <2>2 DEF Unstarted, StartOk
    <3> QED BY <2>2, <3>1 DEF GatewayInv, UnstartedNone, SessionHasGateway, StartOk, VerifyPc
  <2> QED BY <1>0, <2>1, <2>2, NewClient
<1>2. ASSUME NEW u \in Uuid, sessions'[u] # NoSession PROVE sessions'[u].client # loc[t].nonce
  <2>1. ASSUME NEW s \in Task, pc[s] = "promote_insert", pc'[s] = "idle",
               sessions'[u].client = loc[s].client
        PROVE  sessions'[u].client # loc[t].nonce
    <3>1. s # t /\ loc[s].client = loc[s].nonce
      BY <2>1 DEF GatewayInv, NewClients, PromotePc
    <3> QED BY <1>0, <1>1, <2>1, <3>1 DEF OnePlace, VerifyPc
  <2> QED BY <1>0, <1>1, <1>2, <2>1, SessionClient
<1> QED BY <1>1, <1>2

LEMMA SessionsStep ==
  ASSUME CounterInv, CounterInv', GatewayInv, [Next]_vars
  PROVE  SessionHasGateway'
<1>0. TypeOK /\ TypeOK'
  BY DEF CounterInv
<1> DEFINE Stays(u) == sessions[u] # NoSession /\ sessions'[u].client = sessions[u].client
           New(u) == \E t \in Task :
                       /\ pc[t] = "promote_insert" /\ pc'[t] = "idle"
                       /\ sessions'[u].client = loc[t].client
                       /\ \A w \in Uuid \ {u} : sessions'[w] = sessions[w]
<1>1. \A u \in Uuid : sessions'[u] # NoSession => Stays(u) \/ New(u)
  BY <1>0, SessionClient
<1>2. ASSUME NEW u \in Uuid, sessions'[u] # NoSession
      PROVE  gateway'[sessions'[u].client] # "none"
  <2>1. sessions'[u].client \in Nonce
    BY <1>0, <1>2 DEF TypeOK, TablesOK, Session
  <2>2. gateway[sessions'[u].client] # "none"
    <3>1. CASE Stays(u)
      BY <3>1 DEF GatewayInv, SessionHasGateway
    <3>2. CASE New(u)
      BY <3>2 DEF GatewayInv, HandlersStarted, ClientPc, PromotePc
    <3> QED BY <1>1, <1>2, <3>1, <3>2
  <2> QED BY <1>0, <2>1, <2>2, ClientStays
<1>3. ASSUME NEW u \in Uuid, NEW w \in Uuid, u # w,
             sessions'[u] # NoSession, sessions'[w] # NoSession
      PROVE  sessions'[u].client # sessions'[w].client
  <2>1. ASSUME NEW x \in Uuid, NEW y \in Uuid, x # y, New(x), sessions'[y] # NoSession
        PROVE  sessions'[x].client # sessions'[y].client
    BY <2>1 DEF GatewayInv, NewClients, PromotePc
  <2>2. CASE Stays(u) /\ Stays(w)
    BY <1>3, <2>2 DEF GatewayInv, SessionHasGateway
  <2> HIDE DEF Stays, New
  <2> QED BY <1>1, <1>3, <2>1, <2>2
<1> QED BY <1>2, <1>3 DEF SessionHasGateway

LEMMA GatewayStep ==
  CounterInv /\ CounterInv' /\ GatewayInv /\ [Next]_vars => GatewayInv'
BY UnstartedStep, HandlersStep, NewClientsStep, SessionsStep DEF GatewayInv

LEMMA InitGateway == Init => GatewayInv
BY DEF Init, GatewayInv, UnstartedNone, HandlersStarted, NewClients, SessionHasGateway,
       ClientPc, PromotePc, TickPc, LogoutPc, RemovalPc

\* A registered session has a Discord client that did start, and no client
\* serves two sessions.
THEOREM SessionsHaveGateways == Spec => []SessionHasGateway
  <1>1. GatewayInv => SessionHasGateway
      BY DEF GatewayInv
  <1> QED BY <1>1, InitGateway, GatewayStep, CounterAlways, PTL DEF Spec
=============================================================================
