----------------------------- MODULE MCRegistry ------------------------------
(* Two objects, named after two modules, whose manifests may say otherwise,*)
(* and one kind, which either may declare and one may give up.             *)
EXTENDS Registry, TLC

CONSTANTS o1, o2, a, b, k

MCNameOf == o1 :> a @@ o2 :> b

MCManifests == [id : {a, b}, kinds : {{k}}] \cup {[id |-> a, kinds |-> {}]}
=============================================================================
