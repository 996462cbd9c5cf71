--------------------------- MODULE BackendProofs ---------------------------
(***************************************************************************)
(* Proofs about Backend, for any number of accounts, handlers, keys and    *)
(* challenges.                                                             *)
(***************************************************************************)
EXTENDS Backend, SessionManagerProofs

USE DEF Actor, Nonce

(***************************************************************************)
(* The handlers use the session store as SessionManager says.              *)
(***************************************************************************)

LEMMA KeyNumbers == Key = 1 .. MaxKey /\ MaxKey \in Nat /\ NoRow \notin Key
BY BackendAssumption DEF NoRow

\* What a handler has on its desk.
LEMMA DeskFacts ==
  ASSUME DeskOK, NEW t \in Task, desk[t] # NoDesk
  PROVE  /\ desk[t] \in Desk /\ desk[t].uuid \in Uuid /\ desk[t].key \in Key
         /\ desk[t].nonce \in 0 .. MaxNonce
         /\ desk[t].at \in ConsoleDesk \cup WebDesk
         /\ pc[t] = "idle"
BY DEF DeskOK, Desk

LEMMA StepsOfStore ==
  ASSUME BackendTypeOK, [BackendNext]_bvars
  PROVE  [Next]_vars
<1>1. CASE StoreStep
  BY <1>1 DEF StoreStep, Next, Environment
<1>2. ASSUME NEW t \in Task, ConsoleStep(t) PROVE [Next]_vars
  <2>1. CASE LoginIssue(t)
    <3>1. desk[t].uuid \in Uuid /\ desk[t].key \in Key
      BY <2>1, DeskFacts DEF BackendTypeOK, LoginIssue, AtDesk
    <3> QED BY <2>1, <3>1 DEF LoginIssue, Next, NewRequest
  <2>2. CASE VerifyExtract(t)
    <3>1. desk[t].key \in Key
      BY <2>2, DeskFacts DEF BackendTypeOK, VerifyExtract, AtDesk
    <3>2. PICK p \in pending_logins, ip \in Ip : Verify(t, p, desk[t].key, ip)
      BY <2>2 DEF VerifyExtract, Awaited
    <3> QED BY <3>1, <3>2 DEF Next, NewRequest
  <2>3. ASSUME NEW u \in Uuid, NEW k \in Key, NEW v \in CounterValue,
               ScriptTick(t, u, k, v) \/ SessionRequest(t, u, k, v)
        PROVE  [Next]_vars
    BY <2>3 DEF ScriptTick, SessionRequest, Next, NewRequest
  <2>4. ASSUME NEW u \in Uuid, LoginRead(t, u) PROVE [Next]_vars
    BY <2>4 DEF LoginRead
  <2>5. ASSUME NEW p \in pending_logins, VerifyRead(t, p) PROVE [Next]_vars
    BY <2>5 DEF VerifyRead
  <2>6. CASE VerifyMiss(t) \/ SignResponse(t)
    BY <2>6 DEF VerifyMiss, SignResponse
  <2> QED BY <1>2, <2>1, <2>2, <2>3, <2>4, <2>5, <2>6 DEF ConsoleStep
<1>3. ASSUME NEW t \in Task, WebStep(t) \/ DeskFails(t) PROVE UNCHANGED vars
  BY <1>3 DEF WebStep, DeskFails, ResetCheck, DeleteCheck, WebRequest, ResetWrite,
              DeleteStop, DeleteRow
<1>4. ASSUME NEW u \in Uuid, CreateRow(u) \/ DropRow(u) PROVE UNCHANGED vars
  BY <1>4 DEF CreateRow, DropRow
<1>5. CASE BackendRestart
  BY <1>5 DEF BackendRestart, Next, Environment
<1>6. CASE UNCHANGED bvars
  BY <1>6 DEF bvars
<1> QED BY <1>1, <1>2, <1>3, <1>4, <1>5, <1>6 DEF BackendNext

(***************************************************************************)
(* BackendTypeOK.                                                          *)
(***************************************************************************)

\* A handler that is not in the session store enters it by a request only.
LEMMA IdleStays ==
  ASSUME TypeOK, StoreStep, NEW t \in Task, pc[t] = "idle"
  PROVE  pc'[t] = "idle"
<1>0. pc \in [Actor -> TaskPc \cup SweeperPc] /\ t # Sweeper
  BY ConstantsAssumption DEF TypeOK, ControlOK
<1>1. ASSUME NEW a \in Actor, Done(a) PROVE pc'[t] = "idle"
  BY <1>0, <1>1 DEF Done
<1>2. ASSUME NEW a \in Actor, pc[a] # "idle", NEW label, Goto(a, label) PROVE pc'[t] = "idle"
  BY <1>0, <1>2 DEF Goto
<1>3. ASSUME NEW a \in Actor, pc[a] # "idle", NEW u, NEW label, Remove(a, u, label)
      PROVE  pc'[t] = "idle"
  BY <1>1, <1>2, <1>3 DEF Remove
<1>4. ASSUME NEW s \in Task, TaskStep(s) PROVE pc'[t] = "idle"
  BY <1>1, <1>2, <1>3, <1>4
     DEF TaskStep, Lookup, StartOk, StartFail, PromoteCount, PromoteInsert, UpdateRead,
         UpdateCount, UpdateWrite, CheckAlive, LogoutStop, LogoutRemove, LogoutUncount,
         RemoveDead, Uncount, StopRemoved
<1>5. ASSUME NEW s \in Task, Cancel(s) PROVE pc'[t] = "idle"
  BY <1>1, <1>5 DEF Cancel
<1>6. CASE SweeperStep
  BY <1>0, <1>1, <1>2, <1>3, <1>6
     DEF SweeperStep, SweepCollect, SweepPending, SweepRemove, Uncount, StopRemoved, Goto
<1>7. ASSUME NEW c \in Nonce, GatewayDies(c) PROVE pc'[t] = "idle"
  BY <1>7 DEF GatewayDies
<1>8. CASE Time
  BY <1>8 DEF Time
<1> QED BY <1>4, <1>5, <1>6, <1>7, <1>8 DEF StoreStep

\* A handler takes a row, or anything as good, to its desk.
LEMMA PutType ==
  ASSUME BackendTypeOK, NEW t \in Task, pc[t] = "idle", UNCHANGED <<pc, next_key>>,
         NEW label \in ConsoleDesk \cup WebDesk, NEW u \in Uuid, NEW k \in Key, k < next_key,
         NEW n \in 0 .. MaxNonce, label = "verify" => n \in Nonce,
         Put(t, label, u, k, n)
  PROVE  DeskOK'
<1>1. [at |-> label, uuid |-> u, key |-> k, nonce |-> n] \in Desk
  BY DEF Desk
<1> QED BY <1>1 DEF BackendTypeOK, DeskOK, Put

LEMMA ClearType ==
  ASSUME DeskOK, NEW t \in Task, Clear(t), next_key' \in Nat, next_key \in Nat,
         next_key' >= next_key,
         \A s \in Task \ {t} : pc[s] = "idle" => pc'[s] = "idle"
  PROVE  DeskOK'
<1>1. desk' \in [Task -> Desk \cup {NoDesk}]
  BY DEF DeskOK, Clear
<1>2. ASSUME NEW s \in Task, desk'[s] # NoDesk
      PROVE  /\ pc'[s] = "idle" /\ desk'[s].key < next_key'
             /\ desk'[s].at = "verify" => desk'[s].nonce \in Nonce
  <2>1. s # t /\ desk'[s] = desk[s]
    BY <1>2 DEF DeskOK, Clear
  <2>2. desk[s].key \in Nat
    BY <1>2, <2>1, DeskFacts, KeyNumbers
  <2> QED BY <1>2, <2>1, <2>2 DEF DeskOK
<1> QED BY <1>1, <1>2 DEF DeskOK

LEMMA RowsType ==
  ASSUME BackendTypeOK, [BackendNext]_bvars
  PROVE  RowsOK'
<1> USE KeyNumbers DEF RowsOK
<1>0. RowsOK /\ DeskOK /\ next_key \in Nat
  BY DEF BackendTypeOK
<1>1. CASE UNCHANGED db
  BY <1>0, <1>1 DEF db
<1>2. ASSUME NEW u \in Uuid, CreateRow(u) PROVE RowsOK'
  BY <1>0, <1>2 DEF CreateRow
<1>3. ASSUME NEW u \in Uuid, rows' = [rows EXCEPT ![u] = NoRow], UNCHANGED <<born, next_key>>
      PROVE  RowsOK'
  BY <1>0, <1>3
<1>4. ASSUME NEW u \in Uuid, DropRow(u) PROVE RowsOK'
  BY <1>3, <1>4 DEF DropRow
<1>5. ASSUME NEW t \in Task, DeleteRow(t) PROVE RowsOK'
  <2>1. desk[t].uuid \in Uuid
    BY <1>0, <1>5, DeskFacts DEF DeleteRow, AtDesk
  <2> QED BY <1>3, <1>5, <2>1 DEF DeleteRow
<1>6. ASSUME NEW t \in Task, ResetWrite(t) PROVE RowsOK'
  <2>1. desk[t].uuid \in Uuid
    BY <1>0, <1>6, DeskFacts DEF ResetWrite, AtDesk
  <2>2. CASE rows[desk[t].uuid] = NoRow
    BY <1>0, <1>6, <2>2 DEF ResetWrite, UpdatedRow
  <2>3. CASE rows[desk[t].uuid] # NoRow
    BY <1>0, <1>6, <2>1, <2>3 DEF ResetWrite, UpdatedRow
  <2> QED BY <2>2, <2>3
<1>7. ASSUME NEW t \in Task, ConsoleStep(t) \/ DeskFails(t) PROVE UNCHANGED db
  BY <1>7 DEF ConsoleStep, LoginRead, LoginIssue, VerifyRead, VerifyExtract, VerifyMiss,
              ScriptTick, SessionRequest, SignResponse, DeskFails
<1>8. ASSUME NEW t \in Task, WebStep(t) PROVE RowsOK'
  BY <1>1, <1>5, <1>6, <1>8 DEF WebStep, ResetCheck, DeleteCheck, WebRequest, DeleteStop
<1>9. CASE StoreStep \/ BackendRestart \/ UNCHANGED bvars
  BY <1>1, <1>9 DEF StoreStep, BackendRestart, bvars
<1> QED BY <1>1, <1>2, <1>4, <1>7, <1>8, <1>9 DEF BackendNext

(***************************************************************************)
(* Keys are drawn before they are used, and accounts created before        *)
(* anybody speaks of them.                                                 *)
(***************************************************************************)

KnownSessions ==
  \A u \in Uuid : sessions[u] # NoSession => u \in born /\ sessions[u].aes_key < next_key

KnownLogins ==
  \A t \in Task : pc[t] \in VerifyPc => loc[t].uuid \in born /\ loc[t].key < next_key

KnownDesks == \A t \in Task : desk[t] # NoDesk => desk[t].uuid \in born

Known == KnownSessions /\ KnownLogins /\ KnownDesks

BackendInv == TypeOK /\ BackendTypeOK /\ Known

\* What is not a request brings no login into the session store.
LEMMA StoreShrinks ==
  ASSUME TypeOK, StoreStep
  PROVE  Shrinks
<1>1. ASSUME NEW t \in Task, TaskStep(t) PROVE Shrinks
  BY <1>1, InstallShrinks, QuietShrinks DEF TaskStep, LoginControl
<1>2. CASE Environment \/ SweeperStep
  BY <1>2, QuietShrinks
<1> QED BY <1>1, <1>2 DEF StoreStep, Environment

\* A login enters the session store from the desk of its handler.
LEMMA LoginBegins ==
  ASSUME TypeOK, BackendTypeOK, [BackendNext]_bvars,
         NEW t \in Task, pc[t] \notin VerifyPc, pc'[t] \in VerifyPc
  PROVE  /\ VerifyExtract(t)
         /\ desk[t] # NoDesk /\ desk[t].at = "verify" /\ desk'[t] = NoDesk
         /\ loc'[t].uuid = desk[t].uuid /\ loc'[t].key = desk[t].key
         /\ loc'[t].nonce = desk[t].nonce
<1>0. /\ pc \in [Actor -> TaskPc \cup SweeperPc]
      /\ loc \in [Actor -> Request \cup {NoRequest}]
      /\ desk \in [Task -> Desk \cup {NoDesk}]
  BY DEF TypeOK, ControlOK, BackendTypeOK, DeskOK
<1>1. CASE StoreStep
  BY <1>1, StoreShrinks DEF Shrinks
<1>2. ASSUME NEW s \in Task, ConsoleStep(s) PROVE s = t /\ VerifyExtract(t)
  <2>1. CASE VerifyExtract(s)
    BY <1>0, <2>1 DEF VerifyExtract, Verify, Begin
  <2>2. ASSUME NEW u \in Uuid, NEW k \in Key, NEW v \in CounterValue,
               ScriptTick(s, u, k, v) \/ SessionRequest(s, u, k, v)
        PROVE  FALSE
    BY <1>0, <2>2 DEF ScriptTick, SessionRequest, Script, Activity, Logout, Begin, VerifyPc
  <2>3. ASSUME pc' = pc PROVE FALSE
    BY <2>3
  <2> QED BY <1>2, <2>1, <2>2, <2>3
          DEF ConsoleStep, LoginRead, LoginIssue, Login, VerifyRead, VerifyMiss,
              SignResponse, vars
<1>3. ASSUME NEW s \in Task, WebStep(s) \/ DeskFails(s) PROVE FALSE
  BY <1>3 DEF WebStep, DeskFails, ResetCheck, DeleteCheck, WebRequest, ResetWrite,
              DeleteStop, DeleteRow, vars
<1>4. ASSUME NEW u \in Uuid, CreateRow(u) \/ DropRow(u) PROVE FALSE
  BY <1>4 DEF CreateRow, DropRow, vars
<1>5. CASE BackendRestart
  BY <1>5 DEF BackendRestart, Restart, VerifyPc
<1>6. CASE UNCHANGED bvars
  BY <1>6 DEF bvars, vars
<1>7. VerifyExtract(t)
  BY <1>1, <1>2, <1>3, <1>4, <1>5, <1>6 DEF BackendNext
<1>8. /\ desk[t] # NoDesk /\ desk[t].at = "verify" /\ desk'[t] = NoDesk
  BY <1>0, <1>7 DEF VerifyExtract, AtDesk, Clear
<1>9. PICK p \in pending_logins, ip \in Ip :
        /\ Verify(t, p, desk[t].key, ip)
        /\ p.uuid = desk[t].uuid /\ p.nonce = desk[t].nonce
  BY <1>7 DEF VerifyExtract, Awaited
<1>10. loc'[t] = Local(p.uuid, desk[t].key, ip, p.nonce, 0)
  BY <1>0, <1>9 DEF Verify, Begin
<1> QED BY <1>7, <1>8, <1>9, <1>10 DEF Local

\* What was on a desk stays there, ...
DeskStays(t) ==
  /\ desk[t] # NoDesk /\ desk'[t].uuid = desk[t].uuid
  /\ desk'[t].key = desk[t].key /\ desk'[t].nonce = desk[t].nonce
  /\ desk[t].at # "stop" => desk'[t] = desk[t]
  /\ desk[t].at = "stop" => desk'[t].at \in WebDesk
  /\ desk'[t] \in Desk
  /\ pc'[t] = "idle"

\* ... or it has been read in a row or a session.
DeskTaken(t) ==
  /\ FreeSlot(t) /\ pc'[t] = "idle"
  /\ desk'[t] \in Desk
  /\ desk'[t].at # "sign" =>
       rows[desk'[t].uuid] # NoRow /\ desk'[t].key = rows[desk'[t].uuid]
  /\ desk'[t].at = "sign" =>
       sessions[desk'[t].uuid] # NoSession /\ desk'[t].key = sessions[desk'[t].uuid].aes_key
  /\ desk'[t].at = "verify" =>
       \E p \in pending_logins : p.uuid = desk'[t].uuid /\ p.nonce = desk'[t].nonce
  /\ desk'[t].at \in ConsoleDesk => ConsoleFree(desk'[t].uuid)
  /\ \A s \in Task \ {t} : desk'[s] = desk[s]
  /\ UNCHANGED db

LEMMA DeskSource ==
  ASSUME TypeOK, BackendTypeOK, [BackendNext]_bvars,
         NEW t \in Task, desk'[t] # NoDesk
  PROVE  DeskStays(t) \/ DeskTaken(t)
<1> DEFINE Others == \A s \in Task \ {t} : desk'[s] = desk[s]
<1>0. /\ desk \in [Task -> Desk \cup {NoDesk}]
      /\ rows \in [Uuid -> Key \cup {NoRow}] /\ 0 \in 0 .. MaxNonce
      /\ \A s \in Task : desk[s] # NoDesk => pc[s] = "idle"
      /\ pc \in [Actor -> TaskPc \cup SweeperPc]
      /\ \A p \in pending_logins : p.uuid \in Uuid /\ p.nonce \in 0 .. MaxNonce
      /\ \A s \in Task : desk[s] # NoDesk /\ desk[s].at = "stop" => desk[s].at \in WebDesk
  BY ConstantsAssumption
     DEF TypeOK, TablesOK, ControlOK, PendingVerify, BackendTypeOK, RowsOK, DeskOK, WebDesk
<1>1. ASSUME desk'[t] = desk[t], pc[t] = "idle" => pc'[t] = "idle" PROVE DeskStays(t)
  BY <1>0, <1>1 DEF DeskStays
<1>2. ASSUME NEW s \in Task, Clear(s), pc[t] = "idle" /\ t # s => pc'[t] = "idle" PROVE DeskStays(t)
  BY <1>0, <1>1, <1>2 DEF Clear
<1>3. ASSUME NEW s \in Task, FreeSlot(s), NEW label \in ConsoleDesk \cup WebDesk,
             NEW u \in Uuid, NEW k \in Key, NEW n \in 0 .. MaxNonce, Put(s, label, u, k, n), pc' = pc
      PROVE  DeskStays(t) \/ (s = t /\ desk'[t] = [at |-> label, uuid |-> u, key |-> k, nonce |-> n]
                       /\ desk'[t] \in Desk /\ pc'[t] = "idle" /\ Others)
  <2>1. [at |-> label, uuid |-> u, key |-> k, nonce |-> n] \in Desk
    BY DEF Desk
  <2> QED BY <1>0, <1>1, <1>3, <2>1 DEF Put, FreeSlot
<1>4. CASE StoreStep
  BY <1>1, <1>4, IdleStays DEF StoreStep
<1>5. ASSUME NEW s \in Task, LoginIssue(s) \/ VerifyMiss(s) \/ SignResponse(s) PROVE DeskStays(t)
  BY <1>2, <1>5 DEF LoginIssue, Login, VerifyMiss, SignResponse, vars
<1>6. ASSUME NEW s \in Task, VerifyExtract(s) PROVE DeskStays(t)
  BY <1>0, <1>2, <1>6 DEF VerifyExtract, Verify, Begin
<1>7. ASSUME NEW s \in Task, NEW u \in Uuid, NEW k \in Key, NEW v \in CounterValue,
             SessionRequest(s, u, k, v)
      PROVE  DeskStays(t)
  <2>1. desk' = desk /\ desk[s] = NoDesk
    BY <1>7 DEF SessionRequest, FreeSlot
  <2>2. s # t
    BY <2>1
  <2> QED BY <1>0, <1>1, <1>7, <2>1, <2>2 DEF SessionRequest, Activity, Logout, Begin
<1>8. ASSUME NEW s \in Task, NEW u \in Uuid, LoginRead(s, u)
      PROVE  DeskStays(t) \/ DeskTaken(t)
  <2>1. DeskStays(t) \/ (s = t /\ desk'[t] = [at |-> "issue", uuid |-> u, key |-> rows[u], nonce |-> 0]
                       /\ desk'[t] \in Desk /\ pc'[t] = "idle" /\ Others)
    BY <1>0, <1>3, <1>8 DEF LoginRead, ConsoleDesk, vars
  <2> QED BY <1>8, <2>1 DEF LoginRead, DeskTaken, ConsoleDesk
<1>9. ASSUME NEW s \in Task, NEW p \in pending_logins, VerifyRead(s, p)
      PROVE  DeskStays(t) \/ DeskTaken(t)
  <2>1. DeskStays(t) \/ (s = t /\ desk'[t] = [at |-> "verify", uuid |-> p.uuid, key |-> rows[p.uuid],
                                            nonce |-> p.nonce]
                       /\ desk'[t] \in Desk /\ pc'[t] = "idle" /\ Others)
    BY <1>0, <1>3, <1>9 DEF VerifyRead, ConsoleDesk, vars
  <2> QED BY <1>9, <2>1 DEF VerifyRead, DeskTaken, ConsoleDesk
<1>10. ASSUME NEW s \in Task, NEW u \in Uuid, NEW k \in Key, NEW v \in CounterValue,
              ScriptTick(s, u, k, v)
       PROVE  DeskStays(t) \/ DeskTaken(t)
  <2>1. DeskStays(t) \/ (s = t /\ desk'[t] = [at |-> "sign", uuid |-> u, key |-> k, nonce |-> 0]
                       /\ desk'[t] \in Desk /\ pc'[t] = "idle" /\ Others)
    BY <1>0, <1>3, <1>10 DEF ScriptTick, Script, ConsoleDesk
  <2> QED BY <1>10, <2>1 DEF ScriptTick, Script, VerifyAuth, DeskTaken, ConsoleDesk
<1>11. ASSUME NEW s \in Task, NEW u \in Uuid, NEW label \in {"reset", "stop"},
              WebRequest(s, u, label)
       PROVE  DeskStays(t) \/ DeskTaken(t)
  <2>1. DeskStays(t) \/ (s = t /\ desk'[t] = [at |-> label, uuid |-> u, key |-> rows[u], nonce |-> 0]
                       /\ desk'[t] \in Desk /\ pc'[t] = "idle" /\ Others)
    BY <1>0, <1>3, <1>11 DEF WebRequest, WebDesk, vars
  <2> QED BY <1>11, <2>1 DEF WebRequest, DeskTaken, ConsoleDesk
<1>12. ASSUME NEW s \in Task, ResetWrite(s) \/ DeleteRow(s) \/ DeskFails(s) PROVE DeskStays(t)
  BY <1>2, <1>12 DEF ResetWrite, DeleteRow, DeskFails, vars
<1>13. ASSUME NEW s \in Task, DeleteStop(s) PROVE DeskStays(t)
  <2>1. desk[s] # NoDesk /\ desk[s].at = "stop"
        /\ desk' = [desk EXCEPT ![s] = [@ EXCEPT !.at = "delete"]] /\ pc' = pc
    BY <1>13 DEF DeleteStop, AtDesk, Move, vars
  <2>2. CASE s = t
    BY <1>0, <2>1, <2>2 DEF Desk, WebDesk, DeskStays
  <2>3. CASE s # t
    BY <1>0, <1>1, <2>1, <2>3
  <2> QED BY <2>2, <2>3
<1>14. CASE BackendRestart
  BY <1>14 DEF BackendRestart
<1>15. ASSUME NEW u \in Uuid, CreateRow(u) \/ DropRow(u) PROVE DeskStays(t)
  BY <1>1, <1>15 DEF CreateRow, DropRow, vars
<1>16. CASE UNCHANGED bvars
  BY <1>1, <1>16 DEF bvars, vars
<1>17. ASSUME NEW s \in Task, ConsoleStep(s) PROVE DeskStays(t) \/ DeskTaken(t)
  BY <1>5, <1>6, <1>7, <1>8, <1>9, <1>10, <1>17 DEF ConsoleStep
<1>18. ASSUME NEW s \in Task, WebStep(s) PROVE DeskStays(t) \/ DeskTaken(t)
  BY <1>11, <1>12, <1>13, <1>18 DEF WebStep, ResetCheck, DeleteCheck
<1> QED BY <1>4, <1>12, <1>14, <1>15, <1>16, <1>17, <1>18 DEF BackendNext

LEMMA NextKeyGrows ==
  ASSUME BackendTypeOK, [BackendNext]_bvars
  PROVE  /\ next_key \in Nat /\ next_key' \in Nat /\ next_key <= next_key'
         /\ born \subseteq born'
<1>1. next_key \in Nat
  BY KeyNumbers DEF BackendTypeOK, RowsOK
<1>2. CASE UNCHANGED db
  BY <1>1, <1>2 DEF db
<1>3. ASSUME NEW u \in Uuid, CreateRow(u) \/ DropRow(u)
      PROVE  /\ next_key' \in Nat /\ next_key <= next_key'
             /\ born \subseteq born'
  BY <1>1, <1>3 DEF CreateRow, DropRow
<1>4. ASSUME NEW t \in Task, ConsoleStep(t) \/ DeskFails(t) PROVE UNCHANGED db
  BY <1>4 DEF ConsoleStep, LoginRead, LoginIssue, VerifyRead, VerifyExtract, VerifyMiss,
              ScriptTick, SessionRequest, SignResponse, DeskFails
<1>5. ASSUME NEW t \in Task, WebStep(t)
      PROVE  /\ next_key' \in Nat /\ next_key <= next_key'
             /\ born \subseteq born'
  BY <1>1, <1>2, <1>5 DEF WebStep, ResetCheck, DeleteCheck, WebRequest, DeleteStop, ResetWrite, DeleteRow
<1> QED BY <1>1, <1>2, <1>3, <1>4, <1>5 DEF BackendNext, StoreStep, BackendRestart, bvars, db

LEMMA KnownStep ==
  ASSUME BackendInv, TypeOK', [BackendNext]_bvars
  PROVE  Known'
<1>0. /\ TypeOK /\ BackendTypeOK /\ Known /\ [Next]_vars
      /\ next_key \in Nat /\ next_key' \in Nat /\ next_key <= next_key' /\ born \subseteq born'
  BY NextKeyGrows, StepsOfStore DEF BackendInv
<1>1. ASSUME NEW t \in Task, pc[t] \in VerifyPc PROVE loc[t].key \in Nat
  <2>1. loc[t].key \in Key
    BY <1>0, <1>1 DEF TypeOK, ControlOK, LocOK
  <2> QED BY <2>1, KeyNumbers
<1>2. ASSUME NEW u \in Uuid, sessions'[u] # NoSession
      PROVE  u \in born' /\ sessions'[u].aes_key < next_key'
  <2>1. CASE Kept(u)
    <3>1. sessions[u].aes_key \in Key
      BY <1>0, <2>1 DEF Kept, TypeOK, TablesOK, Session
    <3> QED BY <1>0, <2>1, <3>1, KeyNumbers DEF Kept, Known, KnownSessions
  <2>2. ASSUME NEW t \in Task, Writes(t, u) PROVE u \in born' /\ sessions'[u].aes_key < next_key'
    <3>1. pc[t] \in VerifyPc
      BY <2>2 DEF Writes, VerifyPc
    <3>2. loc[t].key < next_key /\ loc[t].uuid \in born /\ loc[t].key \in Nat
      BY <1>0, <1>1, <3>1 DEF Known, KnownLogins
    <3> QED BY <1>0, <2>2, <3>2 DEF Writes
  <2> QED BY <1>0, <1>2, <2>1, <2>2, SessionSource
<1>3. ASSUME NEW t \in Task, pc'[t] \in VerifyPc
      PROVE  loc'[t].uuid \in born' /\ loc'[t].key < next_key'
  <2>1. CASE pc[t] \in VerifyPc
    BY <1>0, <1>1, <1>3, <2>1, LoginKeeps DEF Known, KnownLogins
  <2>2. CASE pc[t] \notin VerifyPc
    <3>1. /\ desk[t] # NoDesk /\ loc'[t].uuid = desk[t].uuid /\ loc'[t].key = desk[t].key
      BY <1>0, <1>3, <2>2, LoginBegins
    <3>2. desk[t].key \in Nat /\ desk[t].key < next_key
      BY <1>0, <3>1, DeskFacts, KeyNumbers DEF BackendTypeOK, DeskOK
    <3> QED BY <1>0, <3>1, <3>2 DEF Known, KnownDesks
  <2> QED BY <2>1, <2>2
<1>4. ASSUME NEW t \in Task, desk'[t] # NoDesk PROVE desk'[t].uuid \in born'
  <2>1. CASE DeskStays(t)
    BY <1>0, <2>1 DEF DeskStays, Known, KnownDesks
  <2>2. CASE DeskTaken(t)
    <3>1. desk'[t].uuid \in Uuid
      BY <2>2 DEF DeskTaken, Desk
    <3> QED BY <1>0, <2>2, <3>1
            DEF DeskTaken, Known, KnownSessions, BackendTypeOK, RowsOK
  <2> QED BY <1>0, <1>4, <2>1, <2>2, DeskSource
<1> QED BY <1>2, <1>3, <1>4 DEF Known, KnownSessions, KnownLogins, KnownDesks

LEMMA DeskShape ==
  ASSUME DeskOK, [BackendNext]_bvars
  PROVE  desk' = [t \in Task |-> desk'[t]]
<1>0. desk \in [Task -> Desk \cup {NoDesk}]
  BY DEF DeskOK
<1>1. CASE UNCHANGED desk
  BY <1>0, <1>1
<1>2. ASSUME NEW t \in Task, NEW x, desk' = [desk EXCEPT ![t] = x]
      PROVE  desk' = [s \in Task |-> desk'[s]]
  BY <1>0, <1>2
<1>3. ASSUME NEW t \in Task, ConsoleStep(t)
      PROVE  desk' = desk \/ \E x : desk' = [desk EXCEPT ![t] = x]
  BY <1>3 DEF ConsoleStep, LoginRead, LoginIssue, VerifyRead, VerifyExtract, VerifyMiss,
              ScriptTick, SessionRequest, SignResponse, Put, Clear
<1>4. ASSUME NEW t \in Task, WebStep(t) \/ DeskFails(t)
      PROVE  \E x : desk' = [desk EXCEPT ![t] = x]
  BY <1>4 DEF WebStep, ResetCheck, DeleteCheck, WebRequest, ResetWrite, DeleteStop, DeleteRow,
              DeskFails, Put, Clear, Move
<1>5. ASSUME NEW u \in Uuid, CreateRow(u) \/ DropRow(u) PROVE UNCHANGED desk
  BY <1>5 DEF CreateRow, DropRow
<1>6. CASE BackendRestart
  BY <1>6 DEF BackendRestart
<1> QED BY <1>1, <1>2, <1>3, <1>4, <1>5, <1>6 DEF BackendNext, StoreStep, bvars

LEMMA DeskType ==
  ASSUME BackendInv, [BackendNext]_bvars
  PROVE  DeskOK'
<1>0. /\ TypeOK /\ BackendTypeOK /\ Known /\ [Next]_vars
      /\ next_key \in Nat /\ next_key' \in Nat /\ next_key <= next_key'
  BY NextKeyGrows, StepsOfStore DEF BackendInv
<1>1. desk' \in [Task -> Desk \cup {NoDesk}]
  <2>1. ASSUME NEW t \in Task, desk'[t] # NoDesk PROVE desk'[t] \in Desk
    BY <1>0, <2>1, DeskSource DEF DeskStays, DeskTaken
  <2> QED BY <1>0, <2>1, DeskShape DEF BackendTypeOK
<1>2. ASSUME NEW t \in Task, desk'[t] # NoDesk
      PROVE  /\ pc'[t] = "idle" /\ desk'[t].key < next_key'
             /\ desk'[t].at = "verify" => desk'[t].nonce \in Nonce
  <2>1. CASE DeskStays(t)
    <3>1. desk[t].key \in Nat /\ desk[t].key < next_key
          /\ (desk[t].at = "verify" => desk[t].nonce \in Nonce)
      BY <1>0, <2>1, DeskFacts, KeyNumbers DEF DeskStays, BackendTypeOK, DeskOK
    <3> QED BY <1>0, <2>1, <3>1 DEF DeskStays, WebDesk
  <2>2. CASE DeskTaken(t)
    <3>1. desk'[t].uuid \in Uuid /\ desk'[t].key \in Nat
      BY <2>2, KeyNumbers DEF DeskTaken, Desk
    <3>2. desk'[t].key < next_key
      BY <1>0, <2>2, <3>1
         DEF DeskTaken, Known, KnownSessions, BackendTypeOK, RowsOK
    <3>3. \A p \in pending_logins : p.nonce \in Nonce
      BY <1>0 DEF TypeOK, TablesOK, PendingVerify
    <3> QED BY <1>0, <2>2, <3>1, <3>2, <3>3 DEF DeskTaken
  <2> QED BY <1>0, <1>2, <2>1, <2>2, DeskSource
<1> QED BY <1>1, <1>2 DEF DeskOK

LEMMA BackendInit_Inv == BackendInit => BackendInv
<1> SUFFICES ASSUME BackendInit PROVE BackendInv
  OBVIOUS
<1>1. TypeOK
  BY InitType DEF BackendInit
<1>2. BackendTypeOK
  BY KeyNumbers, NoDeskAssumption DEF BackendInit, BackendTypeOK, RowsOK, DeskOK, NoRow
<1>3. Known
  BY ConstantsAssumption
     DEF BackendInit, Init, Known, KnownSessions, KnownLogins, KnownDesks, VerifyPc
<1> QED BY <1>1, <1>2, <1>3 DEF BackendInv

LEMMA BackendStep == BackendInv /\ [BackendNext]_bvars => BackendInv'
<1> SUFFICES ASSUME BackendInv, [BackendNext]_bvars PROVE BackendInv'
  OBVIOUS
<1>1. TypeOK'
  BY StepsOfStore, TypeStep DEF BackendInv
<1>2. BackendTypeOK'
  BY RowsType, DeskType DEF BackendInv, BackendTypeOK
<1>3. Known'
  BY <1>1, KnownStep
<1> QED BY <1>1, <1>2, <1>3 DEF BackendInv

LEMMA BackendAlways == BackendSpec => []BackendInv
<1> QED BY BackendInit_Inv, BackendStep, PTL DEF BackendSpec

\* In every reachable state a row, a desk and the key counter are well formed:
\* nobody holds a key that was not drawn, or is on two sides at once.
THEOREM BackendTypeCorrect == BackendSpec => []BackendTypeOK
<1>1. BackendInv => BackendTypeOK
  BY DEF BackendInv
<1> QED BY <1>1, BackendAlways, PTL

\* Every behaviour of the backend is one of the session store: what is proved of
\* SessionManager holds with the users table behind it, and nothing a handler
\* does between two calls of the store changes a session.
THEOREM UsesSessionStore == BackendSpec => SessionsSpec
<1>1. BackendInit => Init
  BY DEF BackendInit
<1>2. BackendInv /\ [BackendNext]_bvars => [Next]_vars
  BY StepsOfStore DEF BackendInv
<1> QED BY <1>1, <1>2, BackendAlways, PTL DEF BackendSpec, SessionsSpec, Spec

\* So a counter value is used up at most once, across resets of the key and
\* deletions of the account too.
THEOREM NoReplayBehindTable == BackendSpec => []NoReplay
<1> QED BY UsesSessionStore, ReplayProtection, PTL DEF SessionsSpec

(***************************************************************************)
(* GoneStaysGone.                                                          *)
(***************************************************************************)

\* A row has a key that is no older than the one it had, or is a new account's.
LEMMA RowSource ==
  ASSUME BackendTypeOK, [BackendNext]_bvars, NEW u \in Uuid, rows'[u] # NoRow
  PROVE  \/ u \notin born
         \/ rows[u] # NoRow /\ rows[u] <= rows'[u]
<1>0. /\ rows \in [Uuid -> Key \cup {NoRow}] /\ next_key \in Nat
      /\ rows[u] # NoRow => rows[u] \in Nat /\ rows[u] < next_key
  BY KeyNumbers DEF BackendTypeOK, RowsOK
<1>1. CASE rows' = rows
  BY <1>0, <1>1
<1>2. ASSUME NEW w \in Uuid, CreateRow(w) \/ DropRow(w)
      PROVE  u \notin born \/ (rows[u] # NoRow /\ rows[u] <= rows'[u])
  BY <1>0, <1>2 DEF CreateRow, DropRow
<1>3. ASSUME NEW t \in Task, ResetWrite(t) PROVE rows[u] # NoRow /\ rows[u] <= rows'[u]
  BY <1>0, <1>3 DEF ResetWrite, UpdatedRow
<1>4. ASSUME NEW t \in Task, DeleteRow(t) PROVE rows[u] # NoRow /\ rows[u] <= rows'[u]
  BY <1>0, <1>4 DEF DeleteRow
<1>5. ASSUME NEW t \in Task, ConsoleStep(t) \/ DeskFails(t) PROVE rows' = rows
  BY <1>5 DEF ConsoleStep, LoginRead, LoginIssue, VerifyRead, VerifyExtract, VerifyMiss,
              ScriptTick, SessionRequest, SignResponse, DeskFails, db
<1>6. ASSUME NEW t \in Task, WebStep(t) PROVE rows' = rows \/ ResetWrite(t) \/ DeleteRow(t)
  BY <1>6 DEF WebStep, ResetCheck, DeleteCheck, WebRequest, DeleteStop, db
<1> QED BY <1>1, <1>2, <1>3, <1>4, <1>5, <1>6 DEF BackendNext, StoreStep, BackendRestart, bvars, db

\* A login past its read was so before, or reads a row now.
LEMMA PastReadSource ==
  ASSUME BackendInv, [BackendNext]_bvars, NEW t \in Task, NEW u \in Uuid, PastRead(t, u)'
  PROVE  \/ PastRead(t, u)
         \/ rows[u] # NoRow
<1>0. TypeOK /\ BackendTypeOK /\ [Next]_vars
  BY StepsOfStore DEF BackendInv
<1>1. CASE Verifying(t, u)'
  <2>1. CASE pc[t] \in VerifyPc
    BY <1>0, <1>1, <2>1, LoginKeeps DEF PastRead, Verifying
  <2>2. CASE pc[t] \notin VerifyPc
    BY <1>0, <1>1, <2>2, LoginBegins DEF PastRead, Verifying, AtDesk
  <2> QED BY <2>1, <2>2
<1>2. CASE AtDesk(t, "verify")' /\ desk'[t].uuid = u
  <2>1. CASE DeskStays(t)
    BY <1>2, <2>1 DEF DeskStays, AtDesk, PastRead, WebDesk
  <2>2. CASE DeskTaken(t)
    BY <1>2, <2>2 DEF DeskTaken, AtDesk
  <2> QED BY <1>0, <1>2, <2>1, <2>2, DeskSource DEF AtDesk
<1> QED BY <1>1, <1>2 DEF PastRead

LEMMA GoneStep ==
  ASSUME BackendInv, [BackendNext]_bvars, NEW u \in Uuid, Gone(u)
  PROVE  /\ Gone(u)'
         /\ \/ sessions'[u] = NoSession
            \/ sessions[u] # NoSession /\ SameLogin(sessions'[u], sessions[u])
<1>0. TypeOK /\ BackendTypeOK /\ [Next]_vars /\ u \in born' /\ u \in born /\ rows[u] = NoRow
  BY StepsOfStore, NextKeyGrows DEF BackendInv, Gone
<1>1. rows'[u] = NoRow
  BY <1>0, RowSource
<1>2. \A t \in Task : ~PastRead(t, u)'
  BY <1>0, PastReadSource DEF Gone
<1>3. ASSUME NEW t \in Task, Writes(t, u) PROVE FALSE
  BY <1>3 DEF Writes, Gone, PastRead, Verifying, VerifyPc
<1>4. Kept(u) => sessions[u] # NoSession /\ SameLogin(sessions'[u], sessions[u])
  BY DEF Kept, SameLogin
<1> QED BY <1>0, <1>1, <1>2, <1>3, <1>4, SessionSource DEF Gone

\* A deleted account stays deleted: no reset, login or open challenge brings its
\* row back, and none registers or renews a session of it.
THEOREM DeletedForGood == BackendSpec => GoneStaysGone
<1> DEFINE Stays == \A u \in Uuid : Gone(u) =>
              /\ Gone(u)'
              /\ \/ sessions'[u] = NoSession
                 \/ sessions[u] # NoSession /\ SameLogin(sessions'[u], sessions[u])
<1>1. BackendInv /\ [BackendNext]_bvars => [Stays]_bvars
  BY GoneStep
<1> QED BY <1>1, BackendAlways, PTL DEF BackendSpec, GoneStaysGone

(***************************************************************************)
(* LoginKeysInOrder, where the console requests of an account wait for     *)
(* each other: one handler at most is engaged with it.                     *)
(***************************************************************************)

Engaged(t, u) ==
  \/ Verifying(t, u)
  \/ desk[t] # NoDesk /\ desk[t].at \in ConsoleDesk /\ desk[t].uuid = u

Alone == \A s, t \in Task, u \in Uuid : Engaged(s, u) /\ Engaged(t, u) => s = t

\* Where requests wait, a handler takes up an account that nobody is engaged with.
LEMMA TakenAlone ==
  ASSUME ~Overlap, TypeOK, NEW t \in Task, DeskTaken(t), desk'[t].at \in ConsoleDesk,
         NEW s \in Task
  PROVE  ~Engaged(s, desk'[t].uuid)
BY DEF DeskTaken, ConsoleFree, Free, Engaged, Verifying, VerifyPc

LEMMA EngagedSource ==
  ASSUME BackendInv, [BackendNext]_bvars, NEW t \in Task, NEW u \in Uuid, Engaged(t, u)'
  PROVE  \/ Engaged(t, u)
         \/ DeskTaken(t) /\ desk'[t].at \in ConsoleDesk /\ desk'[t].uuid = u
<1>0. TypeOK /\ BackendTypeOK /\ [Next]_vars
  BY StepsOfStore DEF BackendInv
<1>1. CASE Verifying(t, u)'
  <2>1. CASE pc[t] \in VerifyPc
    BY <1>0, <1>1, <2>1, LoginKeeps DEF Engaged, Verifying
  <2>2. CASE pc[t] \notin VerifyPc
    BY <1>0, <1>1, <2>2, LoginBegins DEF Engaged, Verifying, ConsoleDesk
  <2> QED BY <2>1, <2>2
<1>2. CASE desk'[t] # NoDesk /\ desk'[t].at \in ConsoleDesk /\ desk'[t].uuid = u
  <2>1. CASE DeskStays(t)
    BY <1>2, <2>1 DEF DeskStays, Engaged, ConsoleDesk, WebDesk
  <2> QED BY <1>0, <1>2, <2>1, DeskSource
<1> QED BY <1>1, <1>2 DEF Engaged

LEMMA AloneStep ==
  ASSUME ~Overlap, BackendInv, Alone, [BackendNext]_bvars
  PROVE  Alone'
<1>0. TypeOK
  BY DEF BackendInv
<1> SUFFICES ASSUME NEW s \in Task, NEW t \in Task, NEW u \in Uuid,
                    Engaged(s, u)', Engaged(t, u)', s # t
             PROVE  FALSE
  BY DEF Alone
<1>1. CASE Engaged(s, u) /\ Engaged(t, u)
  BY <1>1 DEF Alone
<1>2. ASSUME NEW a \in Task, NEW b \in Task, a # b, Engaged(b, u)',
             DeskTaken(a), desk'[a].at \in ConsoleDesk, desk'[a].uuid = u
      PROVE  FALSE
  <2>1. ~Engaged(b, u)
    BY <1>0, <1>2, TakenAlone
  <2>2. DeskTaken(b)
    BY <1>2, <2>1, EngagedSource
  <2>3. desk'[b] = desk[b] /\ desk'[b] # NoDesk
    BY <1>2, <2>2, NoDeskAssumption DEF DeskTaken
  <2> QED BY <2>2, <2>3 DEF DeskTaken, FreeSlot
<1> QED BY <1>1, <1>2, EngagedSource

\* What a login in progress has read is no newer than the row.
ReadsNotNewer ==
  \A t \in Task, u \in Uuid : rows[u] # NoRow =>
    /\ Verifying(t, u) => loc[t].key <= rows[u]
    /\ AtDesk(t, "verify") /\ desk[t].uuid = u => desk[t].key <= rows[u]

SerialInv == BackendInv /\ Alone /\ ReadsNotNewer /\ LoginKeysInOrder

LEMMA ReadsStep ==
  ASSUME BackendInv, ReadsNotNewer, [BackendNext]_bvars
  PROVE  ReadsNotNewer'
<1>0. TypeOK /\ BackendTypeOK /\ Known /\ [Next]_vars
  BY StepsOfStore DEF BackendInv
<1> SUFFICES ASSUME NEW t \in Task, NEW u \in Uuid, rows'[u] # NoRow
             PROVE  /\ Verifying(t, u)' => loc'[t].key <= rows'[u]
                    /\ AtDesk(t, "verify")' /\ desk'[t].uuid = u => desk'[t].key <= rows'[u]
  BY DEF ReadsNotNewer
<1>1. ASSUME NEW k \in Key, u \in born, rows[u] # NoRow => k <= rows[u] PROVE k <= rows'[u]
  <2>1. rows[u] # NoRow /\ rows[u] <= rows'[u]
    BY <1>0, <1>1, RowSource
  <2>2. rows[u] \in Nat /\ k \in Nat
    BY <1>0, KeyNumbers, <2>1 DEF BackendTypeOK, RowsOK
  <2>3. rows'[u] \in Nat
    BY <1>0, RowsType, KeyNumbers DEF RowsOK
  <2> QED BY <1>1, <2>1, <2>2, <2>3
<1>2. ASSUME desk[t] # NoDesk, desk[t].at = "verify", desk[t].uuid = u PROVE desk[t].key <= rows'[u]
  <2>1. desk[t].key \in Key
    BY <1>0, <1>2, DeskFacts DEF BackendTypeOK
  <2> QED BY <1>0, <1>1, <1>2, <2>1 DEF ReadsNotNewer, AtDesk, Known, KnownDesks
<1>3. ASSUME Verifying(t, u)' PROVE loc'[t].key <= rows'[u]
  <2>1. CASE pc[t] \in VerifyPc
    <3>1. Verifying(t, u) /\ loc'[t].key = loc[t].key
      BY <1>0, <1>3, <2>1, LoginKeeps DEF Verifying
    <3>2. loc[t].key \in Key /\ u \in born
      BY <1>0, <3>1 DEF Verifying, TypeOK, ControlOK, LocOK, Known, KnownLogins
    <3> QED BY <1>1, <3>1, <3>2 DEF ReadsNotNewer
  <2>2. CASE pc[t] \notin VerifyPc
    BY <1>0, <1>2, <1>3, <2>2, LoginBegins DEF Verifying
  <2> QED BY <2>1, <2>2
<1>4. ASSUME AtDesk(t, "verify")', desk'[t].uuid = u PROVE desk'[t].key <= rows'[u]
  <2>1. CASE DeskStays(t)
    BY <1>2, <1>4, <2>1 DEF DeskStays, AtDesk, WebDesk
  <2>2. CASE DeskTaken(t)
    <3>1. desk'[t].key = rows[u] /\ rows'[u] = rows[u] /\ rows[u] \in Nat
      BY <1>0, <1>4, <2>2, KeyNumbers DEF DeskTaken, AtDesk, db, BackendTypeOK, RowsOK
    <3> QED BY <3>1
  <2> QED BY <1>0, <1>4, <2>1, <2>2, DeskSource DEF AtDesk
<1> QED BY <1>3, <1>4

\* The login that writes a session is the only handler engaged with its account.
LEMMA WriterAlone ==
  ASSUME TypeOK, DeskOK, Alone, NEW t \in Task, NEW u \in Uuid, Writes(t, u), NEW s \in Task
  PROVE  /\ Engaged(s, u) => s = t
         /\ ~Verifying(t, u)' /\ desk[t] = NoDesk
         /\ Verifying(t, u)
<1>1. pc[t] \in VerifyPc /\ loc[t].uuid = u /\ pc'[t] = "idle"
  BY DEF Writes, VerifyPc
<1>2. Verifying(t, u) /\ pc[t] # "idle"
  BY <1>1 DEF Verifying, VerifyPc
<1> QED BY <1>1, <1>2, DeskFacts DEF Alone, Engaged, Verifying, VerifyPc

LEMMA KeysStep ==
  ASSUME ~Overlap, BackendInv, Alone, ReadsNotNewer, LoginKeysInOrder, [BackendNext]_bvars
  PROVE  LoginKeysInOrder'
<1>0. TypeOK /\ BackendTypeOK /\ DeskOK /\ Known /\ [Next]_vars
  BY StepsOfStore DEF BackendInv, BackendTypeOK
<1> SUFFICES ASSUME NEW u \in Uuid, sessions'[u] # NoSession
             PROVE  /\ rows'[u] # NoRow => sessions'[u].aes_key <= rows'[u]
                    /\ \A t \in Task :
                         /\ Verifying(t, u)' => sessions'[u].aes_key <= loc'[t].key
                         /\ AtDesk(t, "verify")' /\ desk'[t].uuid = u =>
                              sessions'[u].aes_key <= desk'[t].key
  BY DEF LoginKeysInOrder
<1>1. CASE Kept(u)
  <2>0. /\ sessions'[u].aes_key = sessions[u].aes_key /\ sessions[u] # NoSession
        /\ sessions[u].aes_key \in Nat /\ u \in born
    BY <1>0, <1>1, KeyNumbers DEF Kept, TypeOK, TablesOK, Session, Known, KnownSessions
  <2>1. ASSUME rows'[u] # NoRow PROVE sessions'[u].aes_key <= rows'[u]
    <3>1. rows[u] # NoRow /\ rows[u] <= rows'[u]
      BY <1>0, <2>0, <2>1, RowSource
    <3>2. rows[u] \in Nat /\ rows'[u] \in Nat
      BY <1>0, <2>1, <3>1, RowsType, KeyNumbers DEF BackendTypeOK, RowsOK
    <3> QED BY <2>0, <3>1, <3>2 DEF LoginKeysInOrder
  <2>2. ASSUME NEW t \in Task, Verifying(t, u)' PROVE sessions'[u].aes_key <= loc'[t].key
    <3>1. CASE pc[t] \in VerifyPc
      BY <1>0, <2>0, <2>2, <3>1, LoginKeeps DEF LoginKeysInOrder, Verifying
    <3>2. CASE pc[t] \notin VerifyPc
      BY <1>0, <2>0, <2>2, <3>2, LoginBegins DEF LoginKeysInOrder, Verifying, AtDesk
    <3> QED BY <3>1, <3>2
  <2>3. ASSUME NEW t \in Task, AtDesk(t, "verify")', desk'[t].uuid = u
        PROVE  sessions'[u].aes_key <= desk'[t].key
    <3>1. CASE DeskStays(t)
      BY <2>0, <2>3, <3>1 DEF DeskStays, AtDesk, WebDesk, LoginKeysInOrder
    <3>2. CASE DeskTaken(t)
      BY <2>0, <2>3, <3>2 DEF DeskTaken, AtDesk, LoginKeysInOrder
    <3> QED BY <1>0, <2>3, <3>1, <3>2, DeskSource DEF AtDesk
  <2> QED BY <2>1, <2>2, <2>3
<1>2. ASSUME NEW s \in Task, Writes(s, u)
      PROVE  /\ rows'[u] # NoRow => sessions'[u].aes_key <= rows'[u]
             /\ \A t \in Task : ~Verifying(t, u)' /\ ~(AtDesk(t, "verify")' /\ desk'[t].uuid = u)
  <2>0. /\ sessions'[u].aes_key = loc[s].key /\ Verifying(s, u)
        /\ loc[s].key \in Nat /\ u \in born
    BY <1>0, <1>2, WriterAlone, KeyNumbers
       DEF Writes, Verifying, TypeOK, ControlOK, LocOK, Known, KnownLogins
  <2>1. ASSUME rows'[u] # NoRow PROVE sessions'[u].aes_key <= rows'[u]
    <3>1. rows[u] # NoRow /\ rows[u] <= rows'[u]
      BY <1>0, <2>0, <2>1, RowSource
    <3>2. rows[u] \in Nat /\ rows'[u] \in Nat
      BY <1>0, <2>1, <3>1, RowsType, KeyNumbers DEF BackendTypeOK, RowsOK
    <3> QED BY <2>0, <3>1, <3>2 DEF ReadsNotNewer
  <2>2. ASSUME NEW t \in Task, Verifying(t, u)' PROVE FALSE
    <3>1. CASE pc[t] \in VerifyPc
      <4>1. Verifying(t, u)
        BY <1>0, <2>2, <3>1, LoginKeeps DEF Verifying
      <4> QED BY <1>0, <1>2, <2>2, <4>1, WriterAlone DEF Engaged
    <3>2. CASE pc[t] \notin VerifyPc
      <4>1. Engaged(t, u) /\ desk[t] # NoDesk
        BY <1>0, <2>2, <3>2, LoginBegins DEF Engaged, Verifying, ConsoleDesk
      <4> QED BY <1>0, <1>2, <4>1, WriterAlone
    <3> QED BY <3>1, <3>2
  <2>3. ASSUME NEW t \in Task, AtDesk(t, "verify")', desk'[t].uuid = u PROVE FALSE
    <3>1. CASE DeskStays(t)
      <4>1. Engaged(t, u) /\ desk[t] # NoDesk
        BY <2>3, <3>1 DEF DeskStays, AtDesk, WebDesk, Engaged, ConsoleDesk
      <4> QED BY <1>0, <1>2, <4>1, WriterAlone
    <3>2. CASE DeskTaken(t)
      <4>1. ~Engaged(s, u)
        BY <1>0, <2>3, <3>2, TakenAlone DEF AtDesk, ConsoleDesk
      <4> QED BY <2>0, <4>1 DEF Engaged
    <3> QED BY <1>0, <2>3, <3>1, <3>2, DeskSource DEF AtDesk
  <2> QED BY <2>1, <2>2, <2>3
<1> QED BY <1>0, <1>1, <1>2, SessionSource

LEMMA SerialInit == BackendInit => SerialInv
<1> SUFFICES ASSUME BackendInit PROVE SerialInv
  OBVIOUS
<1>1. BackendInv
  BY BackendInit_Inv
<1>2. \A t \in Task : pc[t] = "idle" /\ desk[t] = NoDesk
  BY DEF BackendInit, Init
<1>3. \A u \in Uuid : sessions[u] = NoSession
  BY DEF BackendInit, Init
<1>4. \A t \in Task, u \in Uuid : ~Verifying(t, u) /\ ~Engaged(t, u)
  BY <1>2 DEF Verifying, VerifyPc, Engaged
<1> QED BY <1>1, <1>2, <1>3, <1>4
        DEF SerialInv, Alone, ReadsNotNewer, LoginKeysInOrder, AtDesk

LEMMA SerialAlways ==
  ASSUME ~Overlap
  PROVE  BackendSpec => []SerialInv
<1>1. SerialInv /\ [BackendNext]_bvars => SerialInv'
  BY BackendStep, AloneStep, ReadsStep, KeysStep DEF SerialInv
<1> QED BY <1>1, SerialInit, PTL DEF BackendSpec

\* Where the console requests of an account wait for each other, no login takes
\* a session back to an older key, whatever resets and deletions come between.
THEOREM KeysInOrder ==
  ASSUME ~Overlap
  PROVE  BackendSpec => []LoginKeysInOrder
<1>1. SerialInv => LoginKeysInOrder
  BY DEF SerialInv
<1> QED BY <1>1, SerialAlways, PTL
=============================================================================
