------------------------------- MODULE OneTime -------------------------------
(***************************************************************************)
(* What a table of one-time tickets promises: a ticket is issued under a   *)
(* name nobody had before, serves at most once, and never again after it   *)
(* has served or was withdrawn.  The OAuth states and the pending consents *)
(* of the server are two such tables.                                      *)
(***************************************************************************)
EXTENDS Naturals

CONSTANT Ticket

VARIABLES
  named,        \* tickets ever issued
  open,         \* tickets that can still serve
  served        \* how often each ticket has served

vars == <<named, open, served>>

Init == named = {} /\ open = {} /\ served = [k \in Ticket |-> 0]

Issue(k) ==
  /\ k \notin named
  /\ named' = named \cup {k}
  /\ open' = open \cup {k}
  /\ UNCHANGED served

Serve(k) ==
  /\ k \in open
  /\ served[k] = 0
  /\ open' = open \ {k}
  /\ served' = [served EXCEPT ![k] = 1]
  /\ UNCHANGED named

\* Expiry, a refusal, a crash.
Withdraw ==
  /\ open' \in SUBSET open
  /\ UNCHANGED <<named, served>>

Next ==
  \/ \E k \in Ticket : Issue(k) \/ Serve(k)
  \/ Withdraw

Spec == Init /\ [][Next]_vars
=============================================================================
