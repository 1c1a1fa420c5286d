------------------------------- MODULE Startup -------------------------------
(***************************************************************************)
(* A fresh installation coming up: replicas of core walk through run in    *)
(* cmd/core/main.go while the pods of the bundled NATS, PostgreSQL and     *)
(* Keycloak wait for what core leaves in the cluster for them, and core    *)
(* waits for the servers. A server takes its admin password from its       *)
(* Secret when it first starts, and keeps it.                              *)
(*                                                                         *)
(* What a step does inside is modelled elsewhere: the signing keys in      *)
(* KeyBootstrap, a database in DatabaseProvisioning, the switch of the     *)
(* stores in Directory, CredentialBroker, ServiceAccounts, ProjectStore.   *)
(***************************************************************************)
EXTENDS Naturals, Sequences, FiniteSets

CONSTANTS
  Replicas,   \* of core
  MaxFaults,  \* bound: deaths of a replica or a server
  None

ASSUME StartupConstants ==
  /\ MaxFaults \in Nat
  /\ None \notin [by : Replicas, after : 0 .. MaxFaults]

Servers == {"nats", "postgres", "keycloak"}

\* The servers whose admin password core makes up.
Admins == {"postgres", "keycloak"}


\* run, with every part that can be on switched on.
BootOrder == <<"eventbus", "postgres", "claim", "ping", "keycloak", "database", "keys", "serving">>

\* persistCoreDatabase, once it has four stores.
Swaps == <<"users", "audit", "serviceAccounts", "projects">>

VARIABLES
  core,       \* each replica: its step, where it is within the step, and what it holds
  nats,       \* the ConfigMap of the event bus exists
  secrets,    \* the admin passwords as the Secrets have them
  claim,      \* the backup volume's claim exists
  database,   \* the Secret with Keycloak's database credentials exists
  pinned,     \* the StatefulSet's template names the node of its volume
  up,         \* servers that answer
  initial,    \* the admin password each server was initialised with
  faults

cluster == <<nats, secrets, claim, database, pinned>>
vars == <<core, cluster, up, initial, faults>>

Passwords == [by : Replicas, after : 0 .. MaxFaults]

Booting ==
  [step |-> 1, at |-> "get", made |-> None, password |-> None, verifier |-> FALSE, swapped |-> 0, bus |-> FALSE]

TypeOK ==
  /\ core \in [Replicas -> [step : 1 .. Len(BootOrder), at : {"get", "create", "adopt"},
                            made : Passwords \cup {None}, password : Passwords \cup {None},
                            verifier : BOOLEAN, swapped : 0 .. Len(Swaps), bus : BOOLEAN]]
  /\ {nats, claim, database, pinned} \subseteq BOOLEAN
  /\ secrets \in [Admins -> Passwords \cup {None}]
  /\ initial \in [Admins -> Passwords \cup {None}]
  /\ up \subseteq Servers
  /\ faults \in 0 .. MaxFaults

Init ==
  /\ core = [r \in Replicas |-> Booting]
  /\ nats = FALSE
  /\ secrets = [s \in Admins |-> None]
  /\ claim = FALSE
  /\ database = FALSE
  /\ pinned = FALSE
  /\ up = {}
  /\ initial = [s \in Admins |-> None]
  /\ faults = 0

Step(r) == BootOrder[core[r].step]

StepDone(r) == [core[r] EXCEPT !.step = @ + 1, !.at = "get", !.made = None]

----------------------------------------------------------------------------
(* run, step by step.                                                      *)

\* Mutant: a failure is logged, and run goes on without the event bus.
EventBusOptional(r) ==
  /\ Step(r) = "eventbus"
  /\ nats' \in {nats, TRUE}
  /\ core' = [core EXCEPT ![r] = StepDone(r)]
  /\ UNCHANGED <<secrets, claim, database, pinned, up, initial, faults>>

\* natsauth.LoadOrCreate ends with the ConfigMap the NATS pod waits for.
EventBus(r) ==
  /\ Step(r) = "eventbus"
  /\ nats' = TRUE
  /\ core' = [core EXCEPT ![r] = StepDone(r)]
  /\ UNCHANGED <<secrets, claim, database, pinned, up, initial, faults>>

\* The password EnsureAdminPassword returns; Keycloak's is thrown away.
Hold(r, s, password) ==
  core' = [core EXCEPT ![r] = [StepDone(r) EXCEPT !.password = IF s = "postgres" THEN password ELSE @]]

\* EnsureAdminPassword of either server: a Secret that is there is honoured. (One
\* without the key, which only somebody else can have made, is an error until a
\* person removes it; an installation that core makes by itself has none.)
GetSecret(r, s) ==
  /\ Step(r) = s
  /\ core[r].at = "get"
  /\ IF secrets[s] # None THEN Hold(r, s, secrets[s])
     ELSE core' = [core EXCEPT ![r].at = "create", ![r].made = [by |-> r, after |-> faults]]
  /\ UNCHANGED <<cluster, up, initial, faults>>

\* Mutant: a Secret that has come into being meanwhile is overwritten.
CreateOrUpdateSecret(r, s) ==
  /\ Step(r) = s
  /\ core[r].at = "create"
  /\ secrets' = [secrets EXCEPT ![s] = core[r].made]
  /\ Hold(r, s, core[r].made)
  /\ UNCHANGED <<nats, claim, database, pinned, up, initial, faults>>

CreateSecret(r, s) ==
  /\ Step(r) = s
  /\ core[r].at = "create"
  /\ IF secrets[s] = None
     THEN secrets' = [secrets EXCEPT ![s] = core[r].made] /\ Hold(r, s, core[r].made)
     ELSE core' = [core EXCEPT ![r].at = "adopt"] /\ UNCHANGED secrets
  /\ UNCHANGED <<nats, claim, database, pinned, up, initial, faults>>

\* "Another replica won the race; adopt its password."
AdoptSecret(r, s) ==
  /\ Step(r) = s
  /\ core[r].at = "adopt"
  /\ Hold(r, s, secrets[s])
  /\ UNCHANGED <<cluster, up, initial, faults>>

EnsureBackupClaim(r) ==
  /\ Step(r) = "claim"
  /\ claim' = TRUE
  /\ core' = [core EXCEPT ![r] = StepDone(r)]
  /\ UNCHANGED <<nats, secrets, database, pinned, up, initial, faults>>

\* The server answers, and the password is the one it was initialised with.
Reachable(r) == "postgres" \in up /\ initial["postgres"] = core[r].password

\* dbwait.Retry around Ping, and around EnsureKeycloak.
Ping(r) ==
  /\ Step(r) = "ping"
  /\ Reachable(r)
  /\ core' = [core EXCEPT ![r] = StepDone(r)]
  /\ UNCHANGED <<cluster, up, initial, faults>>

EnsureKeycloak(r) ==
  /\ Step(r) = "database"
  /\ Reachable(r)
  /\ database' = TRUE
  /\ core' = [core EXCEPT ![r] = StepDone(r)]
  /\ UNCHANGED <<nats, secrets, claim, pinned, up, initial, faults>>

\* DefaultMaxElapsed has passed: run returns the error, main exits, and the
\* kubelet starts the container again.
GiveUp(r) ==
  /\ Step(r) \in {"ping", "database"}
  /\ ~Reachable(r)
  /\ core' = [core EXCEPT ![r] = Booting]
  /\ UNCHANGED <<cluster, up, initial, faults>>

\* The certificate, the signing keys, the registry's controller.
Keys(r) ==
  /\ Step(r) = "keys"
  /\ core' = [core EXCEPT ![r] = StepDone(r)]
  /\ UNCHANGED <<cluster, up, initial, faults>>

----------------------------------------------------------------------------
(* What run leaves in the background, retried for ever.                    *)

\* pinBundledPostgresNode: a template that changes makes the StatefulSet replace
\* its pod, under whoever is using the server.
Pin(r) ==
  /\ \E i \in 1 .. core[r].step - 1 : BootOrder[i] = "ping"
  /\ ~pinned
  /\ initial["postgres"] # None
  /\ pinned' = TRUE
  /\ up' = up \ {"postgres"}
  /\ UNCHANGED <<core, nats, secrets, claim, database, initial, faults>>

\* initVerifierWithRetry and VerifierHolder.Store.
InitVerifier(r) ==
  /\ Step(r) = "serving"
  /\ ~core[r].verifier
  /\ "keycloak" \in up
  /\ core' = [core EXCEPT ![r].verifier = TRUE]
  /\ UNCHANGED <<cluster, up, initial, faults>>

\* persistCoreDatabase: EnsureCore needs the server, the switches that follow,
\* one store after the other, do not.
PersistCoreDatabase(r) ==
  /\ Step(r) = "serving"
  /\ core[r].swapped < Len(Swaps)
  /\ core[r].swapped = 0 => Reachable(r)
  /\ core' = [core EXCEPT ![r].swapped = @ + 1]
  /\ UNCHANGED <<cluster, up, initial, faults>>

\* maintainBus.
MaintainBus(r) ==
  /\ Step(r) = "serving"
  /\ ~core[r].bus
  /\ "nats" \in up
  /\ core' = [core EXCEPT ![r].bus = TRUE]
  /\ UNCHANGED <<cluster, up, initial, faults>>

----------------------------------------------------------------------------
(* The pods of the bundled servers, and what may befall anyone.            *)

\* What each pod mounts, which core has to write first.
Mountable(s) ==
  CASE s = "nats" -> nats
    [] s = "postgres" -> secrets["postgres"] # None
    [] s = "keycloak" -> secrets["keycloak"] # None /\ database

CanStart(s) == Mountable(s) /\ (s = "keycloak" => "postgres" \in up)

Start(s) ==
  /\ s \notin up
  /\ CanStart(s)
  /\ up' = up \cup {s}
  /\ initial' = IF s \in Admins /\ initial[s] = None THEN [initial EXCEPT ![s] = secrets[s]] ELSE initial
  /\ UNCHANGED <<core, cluster, faults>>

Stop(s) ==
  /\ s \in up
  /\ faults < MaxFaults
  /\ faults' = faults + 1
  /\ up' = up \ {s}
  /\ UNCHANGED <<core, cluster, initial>>

\* A replica dies, or an answer of the API server is lost and run returns.
Die(r) ==
  /\ faults < MaxFaults
  /\ faults' = faults + 1
  /\ core' = [core EXCEPT ![r] = Booting]
  /\ UNCHANGED <<cluster, up, initial>>

Boot(r) ==
  \/ EventBus(r)
  \/ \E s \in Admins : GetSecret(r, s) \/ CreateSecret(r, s) \/ AdoptSecret(r, s)
  \/ EnsureBackupClaim(r) \/ Ping(r) \/ EnsureKeycloak(r) \/ GiveUp(r) \/ Keys(r)

Next ==
  \/ \E r \in Replicas :
       Boot(r) \/ Pin(r) \/ InitVerifier(r) \/ PersistCoreDatabase(r) \/ MaintainBus(r) \/ Die(r)
  \/ \E s \in Servers : Start(s) \/ Stop(s)

\* Every goroutine goes on, and the kubelet starts what can start.
Spec ==
  /\ Init
  /\ [][Next]_vars
  /\ \A r \in Replicas : /\ WF_vars(Boot(r)) /\ WF_vars(Pin(r)) /\ WF_vars(InitVerifier(r))
                         /\ WF_vars(PersistCoreDatabase(r)) /\ WF_vars(MaintainBus(r))
  /\ \A s \in Servers : WF_vars(Start(s))

----------------------------------------------------------------------------
(* Properties.                                                             *)

\* EnsureAdminPassword: "The bundled StatefulSet reads the same Secret, so the
\* server's first initialisation and core agree ... safe under several core
\* replicas": the password a server was initialised with stays the one in its
\* Secret, every replica that has one has that one, and none that waits for a
\* server is locked out of it when it answers.
AdminPasswordsAgree ==
  /\ \A s \in Admins : initial[s] \in {None, secrets[s]}
  /\ \A r \in Replicas : core[r].password \in {None, secrets["postgres"]}
  /\ \A r \in Replicas : Step(r) \in {"ping", "database", "serving"} /\ "postgres" \in up => Reachable(r)


\* The servers a replica waits for: before it serves, and in its background loops.
Awaits(r) ==
  IF Step(r) \in {"ping", "database"} THEN {"postgres"}
  ELSE IF Step(r) = "serving" THEN Servers ELSE {}

\* "Must complete before anything waits on NATS", "Same ordering rule as the bus":
\* whoever waits for a server finds written what the server's pod waits for, however
\* replicas that race, die and start again have shared the writing.
WaitsCanEnd == \A r \in Replicas : \A s \in Awaits(r) : Mountable(s)
=============================================================================
