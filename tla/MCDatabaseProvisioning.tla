----------------------- MODULE MCDatabaseProvisioning ------------------------
(* Two replicas, and a password more than can be in use at once.           *)
EXTENDS DatabaseProvisioning
=============================================================================
