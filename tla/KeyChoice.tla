------------------------------ MODULE KeyChoice ------------------------------
(***************************************************************************)
(* What LoadOrCreate and LoadOrCreateKeys promise: one deployment has one  *)
(* set of keys. Keys are chosen at most once, never replaced, and every    *)
(* replica that runs uses the chosen ones.                                 *)
(***************************************************************************)
CONSTANTS Replicas, Keys, None, Bad

VARIABLES
  chosen,   \* the deployment's keys, None before the first run
  adopted   \* the keys each running replica uses, None while it is not running

vars == <<chosen, adopted>>

Init ==
  /\ chosen \in Keys \cup {None, Bad}
  /\ adopted = [r \in Replicas |-> None]

Choose ==
  /\ chosen = None
  /\ chosen' \in Keys
  /\ UNCHANGED adopted

Adopt(r) ==
  /\ chosen \in Keys
  /\ adopted' = [adopted EXCEPT ![r] = chosen]
  /\ UNCHANGED chosen

Drop(r) ==
  /\ adopted' = [adopted EXCEPT ![r] = None]
  /\ UNCHANGED chosen

Next == Choose \/ \E r \in Replicas : Adopt(r) \/ Drop(r)

Spec == Init /\ [][Next]_vars
=============================================================================
