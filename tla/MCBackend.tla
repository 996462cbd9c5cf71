------------------------------ MODULE MCBackend ------------------------------
(* Instances of Backend for TLC. *)
EXTENDS Backend, TLC

CONSTANTS u1, u2, i1

\* Counter stretches of two values in a range of 4; the first one wraps.
MCNonceValue2 == <<3, 1>>

\* Every account connects from one address.
HomeShared == [u \in Uuid |-> {i1}]

TaskSymmetry == Permutations(Task)
=============================================================================
