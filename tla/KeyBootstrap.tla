---------------------------- MODULE KeyBootstrap -----------------------------
(***************************************************************************)
(* Create-then-adopt, the way every core replica obtains the deployment's  *)
(* shared secrets before it serves: get the Secret, generate and create it *)
(* when it is missing, adopt the winner's when the create comes second.    *)
(* The event-bus keys (natsauth.LoadOrCreate) add the server ConfigMap     *)
(* that must be rendered from those keys; the workload, iframe-identity    *)
(* and credential-broker keys, the TLS CA and the bundled servers' admin   *)
(* passwords are the same protocol without it.                             *)
(*                                                                         *)
(* Each API call is one step. A call may fail, may fail after the API      *)
(* server applied it, and a replica may die anywhere; core exits on the    *)
(* error and the kubelet starts it again. Nothing in the code deletes or   *)
(* rewrites the Secret.                                                    *)
(***************************************************************************)
EXTENDS Naturals

CONSTANTS
  Replicas,   \* core replicas
  Keys,       \* key sets a replica may generate
  None,       \* the object does not exist
  Bad,        \* a Secret that holds no usable keys
  Stale,      \* a ConfigMap rendered from the keys of an earlier deployment
  MaxFaults   \* bound: failed calls and crashes in one behaviour

ASSUME KeyBootstrapConstants ==
  /\ MaxFaults \in Nat
  /\ None \notin Keys /\ Bad \notin Keys /\ Stale \notin Keys
  /\ None # Bad /\ None # Stale

VARIABLES
  secret,   \* the keys Secret
  config,   \* the keys the server ConfigMap was rendered from
  pc,       \* where each replica's bootstrap is
  own,      \* the keys each replica has in hand
  seen,     \* the ConfigMap as the replica last read it
  faults    \* faults so far

vars == <<secret, config, pc, own, seen, faults>>

Calls == {"load", "create", "adopt", "readConfig", "writeConfig"}

TypeOK ==
  /\ secret \in Keys \cup {None, Bad}
  /\ config \in Keys \cup {None, Stale}
  /\ pc \in [Replicas -> Calls \cup {"down", "running"}]
  /\ own \in [Replicas -> Keys \cup {None}]
  /\ seen \in [Replicas -> Keys \cup {None, Stale}]
  /\ faults \in 0 .. MaxFaults

\* A first install, an upgrade, a damaged Secret, or a ConfigMap left behind.
Init ==
  /\ secret \in Keys \cup {None, Bad}
  /\ config \in {None, Stale} \cup (IF secret \in Keys THEN {secret} ELSE {})
  /\ pc = [r \in Replicas |-> "down"]
  /\ own = [r \in Replicas |-> None]
  /\ seen = [r \in Replicas |-> None]
  /\ faults = 0

Goto(r, to) == pc' = [pc EXCEPT ![r] = to]

\* The process exits; what it had in memory is gone.
Exit(r) ==
  /\ Goto(r, "down")
  /\ own' = [own EXCEPT ![r] = None]

Start(r) ==
  /\ pc[r] = "down"
  /\ Goto(r, "load")
  /\ UNCHANGED <<secret, config, own, seen, faults>>

\* Mutant: an unusable Secret is taken as it is.
UseSecretUnchecked(r) ==
  /\ own' = [own EXCEPT ![r] = secret]
  /\ Goto(r, "readConfig")

\* loadSeeds / keysFromSecret: unusable keys are an error, never replaced.
UseSecret(r) ==
  IF secret \in Keys
  THEN own' = [own EXCEPT ![r] = secret] /\ Goto(r, "readConfig")
  ELSE Exit(r)

Load(r) ==
  /\ pc[r] = "load"
  /\ IF secret = None
     THEN \E k \in Keys : own' = [own EXCEPT ![r] = k] /\ Goto(r, "create")
     ELSE UseSecret(r)
  /\ UNCHANGED <<secret, config, seen, faults>>

\* Mutants: keeping its own keys after losing the race, and creating again.
CreateKeepingOwn(r) ==
  /\ pc[r] = "create"
  /\ secret' = IF secret = None THEN own[r] ELSE secret
  /\ Goto(r, "readConfig")
  /\ UNCHANGED <<config, own, seen, faults>>

CreateRetrying(r) ==
  /\ pc[r] = "create"
  /\ secret' = IF secret = None THEN own[r] ELSE secret
  /\ Goto(r, IF secret = None THEN "readConfig" ELSE "create")
  /\ UNCHANGED <<config, own, seen, faults>>

\* createSeeds: Create, or AlreadyExists and the winner's keys.
Create(r) ==
  /\ pc[r] = "create"
  /\ secret' = IF secret = None THEN own[r] ELSE secret
  /\ Goto(r, IF secret = None THEN "readConfig" ELSE "adopt")
  /\ UNCHANGED <<config, own, seen, faults>>

Adopt(r) ==
  /\ pc[r] = "adopt"
  /\ UseSecret(r)
  /\ UNCHANGED <<secret, config, seen, faults>>

\* Mutant: any ConfigMap that exists is taken for current.
ReadConfigAnyIsCurrent(r) ==
  /\ pc[r] = "readConfig"
  /\ seen' = [seen EXCEPT ![r] = config]
  /\ Goto(r, IF config # None THEN "running" ELSE "writeConfig")
  /\ UNCHANGED <<secret, config, own, faults>>

\* ensureServerConfig: done when it was rendered from these keys.
ReadConfig(r) ==
  /\ pc[r] = "readConfig"
  /\ seen' = [seen EXCEPT ![r] = config]
  /\ Goto(r, IF config = own[r] THEN "running" ELSE "writeConfig")
  /\ UNCHANGED <<secret, config, own, faults>>

\* A missing ConfigMap is created, a second creation being fine; an outdated one
\* is updated under the version that was read, a conflict being an error.
WriteConfig(r) ==
  /\ pc[r] = "writeConfig"
  /\ config' = IF config = seen[r] THEN own[r] ELSE config
  /\ IF config = seen[r] \/ seen[r] = None
     THEN Goto(r, "running") /\ UNCHANGED own
     ELSE Exit(r)
  /\ UNCHANGED <<secret, seen, faults>>

Fault ==
  /\ faults < MaxFaults
  /\ faults' = faults + 1

\* A call returned an error, or the process died.
Crash(r) ==
  /\ Fault
  /\ pc[r] # "down"
  /\ Exit(r)
  /\ UNCHANGED <<secret, config, seen>>

\* The API server applied a write whose answer never arrived.
LostAnswer(r) ==
  /\ Fault
  /\ \/ /\ pc[r] = "create"
        /\ secret = None
        /\ secret' = own[r]
        /\ UNCHANGED config
     \/ /\ pc[r] = "writeConfig"
        /\ config = seen[r]
        /\ config' = own[r]
        /\ UNCHANGED secret
  /\ Exit(r)
  /\ UNCHANGED seen

Step(r) ==
  \/ Start(r) \/ Load(r) \/ Create(r) \/ Adopt(r)
  \/ ReadConfig(r) \/ WriteConfig(r)

Next == \E r \in Replicas : Step(r) \/ Crash(r) \/ LostAnswer(r)

\* Every replica is scheduled, and restarted when it is down.
Spec == Init /\ [][Next]_vars /\ \A r \in Replicas : WF_vars(Step(r))

----------------------------------------------------------------------------
(* Properties.                                                             *)

\* LoadOrCreate: "the NATS server and core always agree on the trust root" - a
\* replica that finished bootstrapping uses the keys of the Secret, and the
\* server's configuration was rendered from them, whatever crashed on the way.
TrustRootAgreed ==
  \A r \in Replicas : pc[r] = "running" => own[r] = secret /\ config = secret

\* The promise of create-then-adopt: the first replica to create wins, the rest
\* adopt, and a Secret once there is never replaced.
Choice == INSTANCE KeyChoice WITH
  chosen <- secret,
  adopted <- [r \in Replicas |-> IF pc[r] = "running" THEN own[r] ELSE None]

ChoiceSpec == Choice!Spec

\* Bootstrapping never wedges: unless the Secret itself is damaged, once calls
\* stop failing every replica gets to run, conflicts and lost races included.
EveryReplicaRuns ==
  secret # Bad ~> \A r \in Replicas : pc[r] = "running"

----------------------------------------------------------------------------
(* The inductive invariant behind TrustRootAgreed and ChoiceSpec.          *)

Holding(r) == pc[r] \in {"readConfig", "writeConfig", "running"}

\* Keys in hand after the Secret was read or created are the Secret's.
HoldsSecret ==
  \A r \in Replicas : Holding(r) => own[r] = secret /\ secret \in Keys

\* A replica about to create has keys of its own, and one about to adopt lost to
\* a Secret that is there.
BeforeHolding ==
  \A r \in Replicas : /\ pc[r] = "create" => own[r] \in Keys
                      /\ pc[r] = "adopt" => secret # None

\* The ConfigMap was rendered from the Secret's keys or is to be replaced.
ConfigFollowsSecret == config \in Keys => config = secret

\* What a replica read of the ConfigMap before writing it can only have been
\* superseded by the right one.
SeenConfig ==
  \A r \in Replicas : pc[r] = "writeConfig" =>
    /\ seen[r] \in {None, Stale}
    /\ config = seen[r] \/ config \in Keys

IInv ==
  /\ TypeOK
  /\ HoldsSecret
  /\ BeforeHolding
  /\ ConfigFollowsSecret
  /\ SeenConfig
  /\ TrustRootAgreed
=============================================================================
