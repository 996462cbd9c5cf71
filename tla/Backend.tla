------------------------------ MODULE Backend ------------------------------
(***************************************************************************)
(* The session store with the users table behind it.  SessionManager lets  *)
(* a login come with any key; here the key is what the handler has read    *)
(* from the account's row, in a statement of its own: rows are created,    *)
(* re-keyed (routes/reset_aes.rs) and deleted (routes/delete_account.rs    *)
(* and the tasks) while logins are under way.                              *)
(*                                                                         *)
(* Each statement sent to the database is one action.  What a handler has  *)
(* read there, or been told by the session store, is on its desk; while a  *)
(* handler is in the session store its desk is empty.                      *)
(***************************************************************************)
EXTENDS SessionManager

CONSTANTS MaxKey, NoDesk

ASSUME BackendAssumption == MaxKey \in Nat /\ Key = 1 .. MaxKey

VARIABLES
  rows,            \* users.aes_key of each account; NoRow if it has no row
  born,            \* accounts that ever had a row: a uuid is not used twice
  next_key,        \* keys are drawn at random; named in the order rows get them
  desk             \* the handlers in progress outside the session store

db == <<rows, born, next_key>>
bvars == <<vars, db, desk>>

NoRow == 0

\* Requests of a console wait for each other unless Overlap; the requests of
\* the account's web page, in another browser, do not.
ConsoleDesk == {"issue", "verify", "sign"}
WebDesk == {"reset", "stop", "delete"}

Desk == [at : ConsoleDesk \cup WebDesk, uuid : Uuid, key : Key, nonce : 0 .. MaxNonce]

ASSUME NoDeskAssumption == NoDesk \notin Desk

RowsOK ==
  /\ rows \in [Uuid -> Key \cup {NoRow}]
  /\ born \in SUBSET Uuid
  /\ next_key \in 1 .. MaxKey + 1
  /\ \A u \in Uuid : rows[u] # NoRow => u \in born /\ rows[u] < next_key

DeskOK ==
  /\ desk \in [Task -> Desk \cup {NoDesk}]
  /\ \A t \in Task : desk[t] # NoDesk =>
       /\ pc[t] = "idle"
       /\ desk[t].key < next_key
       /\ desk[t].at = "verify" => desk[t].nonce \in Nonce

\* An account with a row was created, what a handler has read is well formed, and
\* a handler is on one side only.
BackendTypeOK == RowsOK /\ DeskOK

BackendInit ==
  /\ Init
  /\ rows = [u \in Uuid |-> NoRow]
  /\ born = {}
  /\ next_key = 1
  /\ desk = [t \in Task |-> NoDesk]

(***************************************************************************)
(* Shared steps.                                                           *)
(***************************************************************************)

AtDesk(t, label) == desk[t] # NoDesk /\ desk[t].at = label
FreeSlot(t) == t \in Task /\ pc[t] = "idle" /\ desk[t] = NoDesk

\* Nothing else of account u's console is in progress.
ConsoleFree(u) ==
  /\ Free(u)
  /\ Overlap \/ \A t \in Task :
       desk[t] # NoDesk /\ desk[t].at \in ConsoleDesk => desk[t].uuid # u

Put(t, label, u, k, n) ==
  desk' = [desk EXCEPT ![t] = [at |-> label, uuid |-> u, key |-> k, nonce |-> n]]
Clear(t) == desk' = [desk EXCEPT ![t] = NoDesk]
Move(t, label) == desk' = [desk EXCEPT ![t] = [@ EXCEPT !.at = label]]

(***************************************************************************)
(* The users table.                                                        *)
(***************************************************************************)

\* create_user, at the end of POST /confirm-consent: a new uuid, a new key.
CreateRowReused(u) ==
  /\ u \notin born
  /\ next_key <= MaxKey
  /\ rows' = [rows EXCEPT ![u] = next_key]
  /\ born' = born \cup {u}
  /\ UNCHANGED <<vars, next_key, desk>>
CreateRow(u) ==
  /\ u \notin born
  /\ next_key <= MaxKey
  /\ rows' = [rows EXCEPT ![u] = next_key]
  /\ born' = born \cup {u}
  /\ next_key' = next_key + 1
  /\ UNCHANGED <<vars, desk>>

\* update_user_aes_key finds the row and updates it: no row, no change.
UpdatedRowUpsert(u) == [rows EXCEPT ![u] = next_key]
UpdatedRow(u) == IF rows[u] = NoRow THEN rows ELSE [rows EXCEPT ![u] = next_key]

\* The row goes for another reason: the refresh of its token was refused, or it
\* was not used for years.
DropRow(u) ==
  /\ rows[u] # NoRow
  /\ rows' = [rows EXCEPT ![u] = NoRow]
  /\ UNCHANGED <<vars, born, next_key, desk>>

(***************************************************************************)
(* POST /login and /login/verify: the row is read, then the session store  *)
(* called.  Without a row the answer is 404.                               *)
(***************************************************************************)

LoginRead(t, u) ==
  /\ FreeSlot(t) /\ ConsoleFree(u)
  /\ rows[u] # NoRow
  /\ Put(t, "issue", u, rows[u], 0)
  /\ UNCHANGED <<vars, db>>

LoginIssue(t) ==
  /\ AtDesk(t, "issue")
  /\ Login(desk[t].uuid, desk[t].key)
  /\ Clear(t)
  /\ UNCHANGED db

\* The client answers challenge p.
VerifyRead(t, p) ==
  /\ FreeSlot(t) /\ ConsoleFree(p.uuid)
  /\ rows[p.uuid] # NoRow
  /\ Put(t, "verify", p.uuid, rows[p.uuid], p.nonce)
  /\ UNCHANGED <<vars, db>>

Awaited(t) == {p \in pending_logins : p.uuid = desk[t].uuid /\ p.nonce = desk[t].nonce}

VerifyExtract(t) ==
  /\ AtDesk(t, "verify")
  /\ \E p \in Awaited(t), ip \in Ip : Verify(t, p, desk[t].key, ip)
  /\ Clear(t)
  /\ UNCHANGED db

\* By the time the row is read the challenge is gone: expired, or answered.
VerifyMiss(t) ==
  /\ AtDesk(t, "verify")
  /\ Awaited(t) = {}
  /\ Clear(t)
  /\ UNCHANGED <<vars, db>>

(***************************************************************************)
(* Requests of a session.  /3ds/script takes the lock twice: to check the  *)
(* envelope, and, once the script is read from the disk, to sign the       *)
(* answer with the key of the session it finds then; none found, no answer.*)
(***************************************************************************)

ScriptTick(t, u, k, v) ==
  /\ FreeSlot(t) /\ ConsoleFree(u)
  /\ Script(u, k, v)
  /\ Put(t, "sign", u, k, 0)
  /\ UNCHANGED db

SignResponse(t) ==
  /\ AtDesk(t, "sign")
  /\ Clear(t)
  /\ UNCHANGED <<vars, db>>

SessionRequest(t, u, k, v) ==
  /\ FreeSlot(t) /\ ConsoleFree(u)
  /\ Activity(t, u, k, v) \/ Logout(t, u, k, v)
  /\ UNCHANGED <<db, desk>>

(***************************************************************************)
(* POST /reset_aes and /account/delete, for whoever sends the key of the   *)
(* row (authenticate_aes_key); any other key is refused.                   *)
(***************************************************************************)

WebRequest(t, u, label) ==
  /\ FreeSlot(t)
  /\ rows[u] # NoRow
  /\ Put(t, label, u, rows[u], 0)
  /\ UNCHANGED <<vars, db>>

ResetCheck(t, u) == WebRequest(t, u, "reset")

\* The session of the account is not touched: it counts on under its old key.
ResetWritePushed(t) ==
  /\ AtDesk(t, "reset")
  /\ next_key <= MaxKey
  /\ rows' = UpdatedRow(desk[t].uuid)
  /\ next_key' = IF rows' = rows THEN next_key ELSE next_key + 1
  /\ sessions' = [u \in Uuid |-> IF u = desk[t].uuid /\ sessions[u] # NoSession
                                 THEN [sessions[u] EXCEPT !.aes_key = next_key]
                                 ELSE sessions[u]]
  /\ Clear(t)
  /\ UNCHANGED <<ip_counts, pending_logins, gateway, pc, loc, todo, world, born>>
ResetWrite(t) ==
  /\ AtDesk(t, "reset")
  /\ next_key <= MaxKey
  /\ rows' = UpdatedRow(desk[t].uuid)
  /\ next_key' = IF rows' = rows THEN next_key ELSE next_key + 1
  /\ Clear(t)
  /\ UNCHANGED <<vars, born>>

DeleteCheck(t, u) == WebRequest(t, u, "stop")

\* stop_activity gets the account's key where an envelope belongs.  The key has
\* 32 bytes and an envelope 48: verify_activity_auth refuses it, if the lack of
\* a session or the cooldown has not ended the call before, and the handler
\* drops the error.
DeleteStopUnchecked(t) ==
  /\ AtDesk(t, "stop")
  /\ sessions' = [sessions EXCEPT ![desk[t].uuid] = NoSession]
  /\ Move(t, "delete")
  /\ UNCHANGED <<ip_counts, pending_logins, gateway, pc, loc, todo, world, db>>
DeleteStop(t) ==
  /\ AtDesk(t, "stop")
  /\ Move(t, "delete")
  /\ UNCHANGED <<vars, db>>

DeleteRow(t) ==
  /\ AtDesk(t, "delete")
  /\ rows' = [rows EXCEPT ![desk[t].uuid] = NoRow]
  /\ Clear(t)
  /\ UNCHANGED <<vars, born, next_key>>

(***************************************************************************)
(* Failures.  The database reports an error; the connection of a handler   *)
(* closes; the process stops, of which the table survives.                 *)
(***************************************************************************)

DeskFails(t) ==
  /\ desk[t] # NoDesk
  /\ Cancels \/ desk[t].at \in {"reset", "delete"}
  /\ Clear(t)
  /\ UNCHANGED <<vars, db>>

BackendRestart ==
  /\ Restart
  /\ desk' = [t \in Task |-> NoDesk]
  /\ UNCHANGED db

(***************************************************************************)
(* Every other step of the session store.                                  *)
(***************************************************************************)

StoreStep ==
  /\ \/ \E t \in Task : TaskStep(t) \/ Cancel(t)
     \/ SweeperStep
     \/ \E c \in Nonce : GatewayDies(c)
     \/ Time
  /\ UNCHANGED <<db, desk>>

ConsoleStep(t) ==
  \/ \E u \in Uuid : LoginRead(t, u)
  \/ LoginIssue(t)
  \/ \E p \in pending_logins : VerifyRead(t, p)
  \/ VerifyExtract(t) \/ VerifyMiss(t)
  \/ \E u \in Uuid, k \in Key, v \in CounterValue :
       ScriptTick(t, u, k, v) \/ SessionRequest(t, u, k, v)
  \/ SignResponse(t)

WebStep(t) ==
  \/ \E u \in Uuid : ResetCheck(t, u) \/ DeleteCheck(t, u)
  \/ ResetWrite(t)
  \/ DeleteStop(t) \/ DeleteRow(t)

BackendNext ==
  \/ StoreStep
  \/ \E t \in Task : ConsoleStep(t) \/ WebStep(t) \/ DeskFails(t)
  \/ \E u \in Uuid : CreateRow(u) \/ DropRow(u)
  \/ BackendRestart

BackendSpec == BackendInit /\ [][BackendNext]_bvars

(***************************************************************************)
(* Properties, whatever overlaps and fails.                                *)
(***************************************************************************)

\* The handlers around it use the session store as SessionManager says, so what
\* holds of every behaviour of SessionManager holds here: deleting an account
\* and resetting its key change no session (delete_account.rs:55, reset_aes.rs:54).
SessionsSpec == Spec

\* A login of account u has read the account's row.
PastRead(t, u) == (AtDesk(t, "verify") /\ desk[t].uuid = u) \/ Verifying(t, u)

Gone(u) == u \in born /\ rows[u] = NoRow /\ \A t \in Task : ~PastRead(t, u)

SameLogin(s, q) ==
  s.client = q.client /\ s.aes_key = q.aes_key /\ s.counter.nonce = q.counter.nonce

\* An account that is deleted stays deleted, though resets, logins and open
\* challenges of it are still about: no row comes back (db.rs:139), and once
\* the logins that had read the row are through, no session is registered or
\* renewed (login_verify.rs:54).
GoneStaysGone ==
  [][\A u \in Uuid : Gone(u) =>
       /\ Gone(u)'
       /\ \/ sessions'[u] = NoSession
          \/ sessions[u] # NoSession /\ SameLogin(sessions'[u], sessions[u])]_bvars

(***************************************************************************)
(* Properties of accounts whose console requests neither overlap nor are   *)
(* dropped; web requests, tasks and the sweeper interleave with them.      *)
(***************************************************************************)

\* A login that read its key before a reset does not take a session back to
\* that key from a newer one (login_verify.rs:61), and no session is ahead of
\* its account's row.
LoginKeysInOrder ==
  \A u \in Uuid : sessions[u] # NoSession =>
    /\ rows[u] # NoRow => sessions[u].aes_key <= rows[u]
    /\ \A t \in Task :
         /\ Verifying(t, u) => sessions[u].aes_key <= loc[t].key
         /\ AtDesk(t, "verify") /\ desk[t].uuid = u => sessions[u].aes_key <= desk[t].key

(***************************************************************************)
(* What a comment of the code says of it, and it does not keep.            *)
(***************************************************************************)

\* delete_account.rs:36, "Permanently delete the user's account and all
\* associated data": a deletion leaves no session of the account.
DeletionEndsSession ==
  [][\A t \in Task : DeleteRow(t) => sessions'[desk[t].uuid] = NoSession]_bvars
=============================================================================
