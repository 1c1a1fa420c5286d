-------------------------- MODULE MCServiceAccounts --------------------------
(* One account name created up to twice, two DELETEs, and two runs.        *)
EXTENDS ServiceAccounts
=============================================================================
