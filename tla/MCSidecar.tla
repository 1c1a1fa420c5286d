------------------------------ MODULE MCSidecar ------------------------------
(* The sidecar with one connection handler and leases of seven or eight    *)
(* time units, polled every second unit. As in production the fixed margin *)
(* of s3 mode is less than a poll and a slow call together.                *)
EXTENDS Sidecar

MCTTLs == {7, 8}
=============================================================================
