------------------------- MODULE MCModuleCredentials -------------------------
(* Two replicas; two modules in the namespace, one of which changes what   *)
(* it declares; credentials of three units, renewed in the last.           *)
EXTENDS ModuleCredentials, TLC

CONSTANTS a, b, g1, g2

MCCharts == a :> {g1, g2, Nothing} @@ b :> {g1, Malformed}
=============================================================================
