--------------------------- MODULE MCKeyBootstrap ----------------------------
(* Three replicas racing with two possible key sets and two faults.        *)
EXTENDS KeyBootstrap
=============================================================================
