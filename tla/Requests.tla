------------------------------ MODULE Requests ------------------------------
(***************************************************************************)
(* One console and the server, a request at a time: the form a request     *)
(* carries, the checks of validation.rs and routes/activity.rs, the text   *)
(* that the console signs and the server rebuilds from the form            *)
(* (build_field_string, url_encode_3ds, sha256_fields), the envelope that  *)
(* binds it to a counter value, and the answer (session/error.rs).  The    *)
(* interleaving of several requests is the subject of SessionManager.      *)
(*                                                                         *)
(* A text is a sequence of symbols: "a" stands for unreserved characters,  *)
(* "&publisher=" and "&extra=" for those very words inside a text, which   *)
(* are also what separates the fields.  AES and SHA-256 are perfect: an    *)
(* envelope is its counter and the text that was hashed.                   *)
(***************************************************************************)
EXTENDS Naturals, Sequences, FiniteSets

CONSTANTS
  HexTitle, OtherTitle,      \* title ids of 16 hex digits, and anything else
  Name, Publisher, Extra,    \* the texts that forms carry
  NameMax, PublisherMax, ExtraMax,
  MaxTicks,                  \* bound: requests accepted in one session
  Absent,                    \* a field that the form leaves out
  NoSession, Nothing

Title == HexTitle \cup OtherTitle

SetForm == [route : {"set"}, titleid : Title \cup {Absent}, name : Name \cup {Absent},
            publisher : Publisher \cup {Absent}, extra : Extra \cup {Absent}]
ScriptForm == [route : {"script"}, titleid : Title]
BareForm == [route : {"heartbeat", "logout"}]
Form == SetForm \cup ScriptForm \cup BareForm

Symbol == {"a", " ", "+", "&publisher=", "&extra="}

ASSUME RequestsAssumption ==
  /\ Name \cup Publisher \cup Extra \subseteq Seq(Symbol)
  /\ {NameMax, PublisherMax, ExtraMax, MaxTicks} \subseteq Nat
  /\ Absent \notin Title /\ Absent \notin Name \cup Publisher \cup Extra

VARIABLES
  session,    \* the console's session: its counter, its client, its cooldown
  signed,     \* the request the console has signed, and for which counter
  reply,      \* the code of the last answer
  acted       \* what the server has done for the last request

vars == <<session, signed, reply, acted>>

Session == [counter : 0 .. MaxTicks, client : {"ok", "invalid", "dead"}, cooling : BOOLEAN]

(***************************************************************************)
(* validation.rs and generate_game_info: the checks of a form in their     *)
(* order, each with the code it is refused with.                           *)
(***************************************************************************)

Check(code, passed) == [code |-> code, passed |-> passed]

\* check_max_len of a field that may be left out.
Filled(text) == text = Absent \/ text # <<>>
Fits(text, max) == text = Absent \/ Len(text) <= max

TitleOK(titleid) == titleid \in HexTitle \cup {Absent}

AnyField(f) == \E x \in {"titleid", "name", "publisher", "extra"} : f[x] # Absent
GameFields(f) == \A x \in {"titleid", "name", "publisher"} : f[x] # Absent

Checks(f) ==
  CASE f.route = "set" ->
         << Check("invalid_titleid", TitleOK(f.titleid)),
            Check("missing_name", Filled(f.name)),
            Check("invalid_name", Fits(f.name, NameMax)),
            Check("missing_publisher", Filled(f.publisher)),
            Check("invalid_publisher", Fits(f.publisher, PublisherMax)),
            Check("invalid_extra", Fits(f.extra, ExtraMax)),
            Check("incomplete_fields", AnyField(f) => GameFields(f)) >>
    [] f.route = "script" -> << Check("invalid_titleid", TitleOK(f.titleid)) >>
    [] OTHER -> <<>>

Failed(f) == {i \in DOMAIN Checks(f) : ~Checks(f)[i].passed}
Valid(f) == Failed(f) = {}
FirstFailure(f) == Checks(f)[CHOOSE i \in Failed(f) : \A j \in Failed(f) : i <= j].code

ValidForm == {f \in Form : Valid(f)}
FormCode == {FirstFailure(f) : f \in Form \ ValidForm}

(***************************************************************************)
(* The text that is hashed.  The body of the request is decoded before the *)
(* handler sees it, so the server encodes the fields again.                *)
(***************************************************************************)

\* url_encode_3ds, symbol by symbol.
EncodedKept(c) == IF c = " " THEN "+" ELSE c
EncodedAsForm(c) ==
  CASE c = "a" -> c [] c = " " -> "%20" [] c = "+" -> "%2B"
    [] c = "&publisher=" -> "%26publisher%3D" [] c = "&extra=" -> "%26extra%3D"
Encoded(c) ==
  CASE c = "a" -> c
    [] c = " " -> "+"
    [] c = "+" -> "%2B"
    [] c = "&publisher=" -> "%26publisher%3D"
    [] c = "&extra=" -> "%26extra%3D"

EncodedText(text) == [i \in DOMAIN text |-> Encoded(text[i])]

\* build_field_string, and the fields of the other routes; sha256_fields puts
\* them one behind the other.
GameText(f) ==
  IF ~GameFields(f) THEN <<>>
  ELSE <<"titleid=", f.titleid, "&name=">> \o EncodedText(f.name)
       \o <<"&publisher=">> \o EncodedText(f.publisher)
ExtraText(f) == IF f.extra = Absent THEN <<>> ELSE <<"&extra=">> \o EncodedText(f.extra)

FieldText(f) ==
  CASE f.route = "set" -> GameText(f) \o ExtraText(f)
    [] f.route = "script" -> <<"titleid=", f.titleid>>
    [] f.route = "logout" -> <<"logout">>
    [] f.route = "heartbeat" -> <<>>

(***************************************************************************)
(* The console: it sends each field the way it signs it, unreserved        *)
(* characters as they are, a space as + and the rest as %XX.               *)
(***************************************************************************)

ConsoleCode == [c \in Symbol |->
  CASE c = "a" -> "a" [] c = " " -> "+" [] c = "+" -> "%2B"
    [] c = "&publisher=" -> "%26publisher%3D" [] c = "&extra=" -> "%26extra%3D"]
ConsoleText(text) == [i \in DOMAIN text |-> ConsoleCode[text[i]]]

Fieldless(f) == f.route = "heartbeat" \/ (f.route = "set" /\ ~AnyField(f))

SignedText(f) ==
  CASE Fieldless(f) -> <<>>
    [] f.route = "set" /\ ~Fieldless(f) ->
         <<"titleid=", f.titleid, "&name=">> \o ConsoleText(f.name)
         \o <<"&publisher=">> \o ConsoleText(f.publisher)
         \o (IF f.extra = Absent THEN <<>> ELSE <<"&extra=">> \o ConsoleText(f.extra))
    [] f.route = "script" -> <<"titleid=", f.titleid>>
    [] f.route = "logout" -> <<"logout">>

Signed == [form : ValidForm, counter : 1 .. MaxTicks]

(***************************************************************************)
(* Answers (session_error_to_response).                                    *)
(***************************************************************************)

CodeOfOtherUnknown == "internal"
CodeOfOtherExpired == "session_expired"
CodeOfOther == "error"

Reply == FormCode \cup {"none", "success", "session_expired", "token_revoked",
                        "auth_failed", "cooldown", "error"}

\* Every answer has a code of the protocol, and the session a live shape.
TypeOK ==
  /\ session \in Session \cup {NoSession}
  /\ signed \in Signed \cup {Nothing}
  /\ reply \in Reply
  /\ acted \in Form \cup {Nothing}

Init ==
  /\ session = NoSession
  /\ signed = Nothing
  /\ reply = "none"
  /\ acted = Nothing

\* reply and acted are what the last step has put out.
Silent == reply' = "none" /\ acted' = Nothing
Answer(code, next) == reply' = code /\ acted' = Nothing /\ session' = next
Success(f, next) == reply' = "success" /\ acted' = f /\ session' = next

(***************************************************************************)
(* The handlers.                                                           *)
(***************************************************************************)

VerifyAuth(f) ==
  /\ signed.counter = session.counter + 1
  /\ SignedText(signed.form) = FieldText(f)

Paced(f) == f.route \in {"set", "heartbeat"}

\* with_active_session and what is checked under its lock.
RefuseTicking(f) ==
  \/ session = NoSession /\ Answer("session_expired", session)
  \/ /\ session # NoSession
     /\ Paced(f) /\ session.cooling
     /\ Answer("cooldown", session)
  \/ /\ session # NoSession
     /\ ~(Paced(f) /\ session.cooling)
     /\ ~VerifyAuth(f)
     /\ Answer("auth_failed", [session EXCEPT !.counter = IF @ < MaxTicks THEN @ + 1 ELSE @])
Refuse(f) ==
  \/ session = NoSession /\ Answer("session_expired", session)
  \/ /\ session # NoSession
     /\ Paced(f) /\ session.cooling
     /\ Answer("cooldown", session)
  \/ /\ session # NoSession
     /\ ~(Paced(f) /\ session.cooling)
     /\ ~VerifyAuth(f)
     /\ Answer("auth_failed", session)

Accepts(f) ==
  /\ session # NoSession
  /\ ~(Paced(f) /\ session.cooling)
  /\ VerifyAuth(f)

Ticked == [session EXCEPT !.counter = @ + 1]
Refreshed == [Ticked EXCEPT !.cooling = TRUE]

\* ensure_client_alive: a session without a usable client is removed.
DeadClient ==
  \/ session.client = "invalid" /\ Answer("token_revoked", NoSession)
  \/ session.client = "dead" /\ Answer("session_expired", NoSession)

SetActivity(f) ==
  \/ DeadClient
  \/ /\ session.client = "ok"
     /\ \/ Success(f, Refreshed)
        \/ Answer("token_revoked", [Refreshed EXCEPT !.client = "invalid"])
        \/ Answer(CodeOfOther, Refreshed)

Heartbeat(f) == DeadClient \/ (session.client = "ok" /\ Success(f, Refreshed))

\* The session may be gone when the answer is signed.
GetScript(f) == Success(f, Ticked) \/ Answer("session_expired", NoSession)

Logout(f) == Success(f, NoSession)

\* Of a form that fails a check, only its first failure shows.
Reject(code) ==
  /\ signed # Nothing
  /\ Answer(code, session)
  /\ UNCHANGED signed

Handle(f) ==
  /\ signed # Nothing
  /\ \/ Refuse(f)
     \/ /\ Accepts(f)
        /\ \/ f.route = "set" /\ SetActivity(f)
           \/ f.route = "heartbeat" /\ Heartbeat(f)
           \/ f.route = "script" /\ GetScript(f)
           \/ f.route = "logout" /\ Logout(f)
  /\ UNCHANGED signed

(***************************************************************************)
(* The rest of the system.                                                 *)
(***************************************************************************)

Sign(r) ==
  /\ signed' = r
  /\ Silent
  /\ UNCHANGED session

\* A login: a new session, or the one there is, counting from a new nonce.
Login ==
  /\ session' = [counter |-> 0, cooling |-> FALSE,
                 client |-> IF session = NoSession THEN "ok" ELSE session.client]
  /\ signed' = Nothing
  /\ Silent

ClientFails(status) ==
  /\ session # NoSession /\ session.client = "ok"
  /\ session' = [session EXCEPT !.client = status]
  /\ Silent
  /\ UNCHANGED signed

CooldownEnds ==
  /\ session # NoSession /\ session.cooling
  /\ session' = [session EXCEPT !.cooling = FALSE]
  /\ Silent
  /\ UNCHANGED signed

Sweep ==
  /\ session' = NoSession
  /\ Silent
  /\ UNCHANGED signed

Next ==
  \/ \E code \in FormCode : Reject(code)
  \/ \E f \in ValidForm : Handle(f)
  \/ \E r \in Signed : Sign(r)
  \/ Login \/ CooldownEnds \/ Sweep
  \/ \E status \in {"invalid", "dead"} : ClientFails(status)

Spec == Init /\ [][Next]_vars

(***************************************************************************)
(* Properties.                                                             *)
(***************************************************************************)

\* What the server does is what the console signed, whatever form comes with the
\* envelope: no two requests have the same text, though the fields are hashed
\* one behind the other (crypto.rs:97).  A heartbeat and a /set without fields
\* both sign the empty text.
ActsAsAsked ==
  acted # Nothing => acted = signed.form \/ (Fieldless(acted) /\ Fieldless(signed.form))

\* A request that arrives as it was signed, for the next counter value, is never
\* refused as forged: the server rebuilds the very text the console signed
\* (activity.rs:192).
UnalteredPasses ==
  [][signed # Nothing /\ session # NoSession /\ signed.counter = session.counter + 1
     /\ Handle(signed.form) => reply' # "auth_failed"]_vars

\* The code of an answer tells the console whether its counter value is used up:
\* after an error of the form, the envelope or the cooldown the session stands as
\* it was; after success and after "error" it has moved on by one or is gone; any
\* other error orders a new login (error.rs:80).
ReplyTellsTick ==
  [][/\ reply' \in FormCode \cup {"auth_failed", "cooldown"} => session' = session
     /\ reply' \in {"success", "error"} =>
          session' = NoSession \/ session'.counter = session.counter + 1]_vars

\* A console that is told to log in anew has no session any more, or one whose
\* token Discord has refused (error.rs:83, activity.rs:224).
ReloginIsNeeded ==
  [][reply' \in {"session_expired", "token_revoked"} =>
       session' = NoSession \/ session'.client = "invalid"]_vars
=============================================================================
