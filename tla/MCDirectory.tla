----------------------------- MODULE MCDirectory -----------------------------
(* One replica, two requests of the user in flight, and tokens that list   *)
(* no role, one, and two roles in the order that matters. DirectoryProofs  *)
(* shows the invariants for any number of replicas.                        *)
EXTENDS Directory

MCTokens == {<< >>, <<"viewer">>, <<"owner">>, <<"viewer", "owner">>}
=============================================================================
