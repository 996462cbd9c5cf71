----------------------------- MODULE MCRequests -----------------------------
(* Texts for Requests: one that is empty, too long, or holds a separator. *)
EXTENDS Requests

MCName == {<<>>, <<"a">>, <<" ", "+">>, <<"a", "&publisher=">>, <<"a", "a", "a">>}
MCPublisher == {<<>>, <<"a">>, <<"&publisher=", "a">>, <<"a", "&extra=">>, <<"a", "a", "a">>}
MCExtra == {<<>>, <<"a">>, <<"a", "a", "a">>}
=============================================================================
