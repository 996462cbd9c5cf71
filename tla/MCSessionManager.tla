-------------------------- MODULE MCSessionManager --------------------------
(* Instances of SessionManager for TLC. *)
EXTENDS SessionManager, TLC

\* Counter stretches of at most 3 values in a range of 12; the first one wraps.
MCNonceValue3 == <<10, 2, 6>>
MCNonceValue2 == <<10, 2>>

CONSTANTS u1, u2, i1, i2

\* Accounts that always connect from one address, which they share...
HomeShared == [u \in Uuid |-> {i1}]
\* ... and accounts that roam.
HomeAny == [u \in Uuid |-> Ip]

TaskSymmetry == Permutations(Task)
=============================================================================
