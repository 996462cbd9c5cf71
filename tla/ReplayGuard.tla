----------------------------- MODULE ReplayGuard -----------------------------
(***************************************************************************)
(* What the login and the counter envelopes of the presence server promise *)
(* a console, whatever the server does inside.  A challenge is answered at *)
(* most once; answering one ends the account's other challenges; only an   *)
(* answered challenge becomes the base of the account's counter; and a     *)
(* counter value is used up once, while the challenge it counts from is    *)
(* the account's current one.                                              *)
(***************************************************************************)
EXTENDS Naturals

CONSTANTS
  Account, Challenge,
  Counter,       \* counter values
  Span(_)        \* the counter values that count from a challenge

VARIABLES
  used,          \* the challenges issued so far
  issued,        \* <<account, challenge>>: may still be answered
  answered,      \* answered, and not yet in force
  current,       \* in force: the account's counter counts from it
  spent          \* how often each account used up each counter value

vars == <<used, issued, answered, current, spent>>

Init ==
  /\ used = {} /\ issued = {} /\ answered = {} /\ current = {}
  /\ spent = [a \in Account |-> [v \in Counter |-> 0]]

OfOthers(a, pairs) == {p \in pairs : p[1] # a}

Issue(a, c) ==
  /\ c \notin used
  /\ used' = used \cup {c}
  /\ issued' = issued \cup {<<a, c>>}
  /\ UNCHANGED <<answered, current, spent>>

Answer(a, c) ==
  /\ <<a, c>> \in issued
  /\ issued' = OfOthers(a, issued)
  /\ answered' = answered \cup {<<a, c>>}
  /\ UNCHANGED <<used, current, spent>>

Install(a, c) ==
  /\ <<a, c>> \in answered
  /\ answered' = answered \ {<<a, c>>}
  /\ current' = OfOthers(a, current) \cup {<<a, c>>}
  /\ UNCHANGED <<used, issued, spent>>

UseUp(a, c, v) ==
  /\ <<a, c>> \in current
  /\ v \in Span(c)
  /\ spent[a][v] = 0
  /\ spent' = [spent EXCEPT ![a][v] = 1]
  /\ UNCHANGED <<used, issued, answered, current>>

\* Expiry, a failed or abandoned login, the end of a session, a crash.
Retire ==
  /\ issued' \in SUBSET issued
  /\ answered' \in SUBSET answered
  /\ current' \in SUBSET current
  /\ UNCHANGED <<used, spent>>

Next ==
  \/ \E a \in Account, c \in Challenge :
       \/ Issue(a, c) \/ Answer(a, c) \/ Install(a, c)
       \/ \E v \in Counter : UseUp(a, c, v)
  \/ Retire

Spec == Init /\ [][Next]_vars
=============================================================================
