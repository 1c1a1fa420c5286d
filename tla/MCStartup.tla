----------------------------- MODULE MCStartup -------------------------------
(* Two replicas boot at once; up to two deaths of a replica or a server.   *)
EXTENDS Startup
=============================================================================
