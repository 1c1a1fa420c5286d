-------------------------- MODULE MCCredentialBroker -------------------------
(* Two requests at a time, two modules that may declare the kind, an eight *)
(* bit Duration of which a second takes ten units, and five requests: one  *)
(* that asks for too long, a revocation whose ttl overflows a Duration,    *)
(* and three that are refused (a viewer and a table writer who overreach,  *)
(* a negative ttl).                                                        *)
EXTENDS CredentialBroker

Ask(role, access, ttl) ==
  [role |-> role, access |-> access, ttl |-> ttl, apiwrite |-> FALSE, revoke |-> FALSE]

MCRequests ==
  { Ask("editor", "readwrite", 6),
    [Ask("editor", "tablewrite", 13) EXCEPT !.apiwrite = TRUE, !.revoke = TRUE],
    Ask("viewer", "readwrite", 3), Ask("editor", "read", -1),
    [Ask("editor", "readwrite", 0) EXCEPT !.apiwrite = TRUE] }
=============================================================================
