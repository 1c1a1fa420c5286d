-------------------------- MODULE ModuleCredentials --------------------------
(***************************************************************************)
(* The credential Secret core keeps for the modules of one namespace: the  *)
(* event-bus user (natsauth/provision.go), which expires and is renewed,   *)
(* and the minting and provider credentials (workload/provision.go,        *)
(* credentialbroker/provision.go), which are computed from the module's id *)
(* and last. All three run Ensure at the end of every reconcile, on every  *)
(* replica, and all three give the Secret one fixed name per namespace.    *)
(*                                                                         *)
(* A unit of time is long (days) next to a reconcile (seconds): time       *)
(* passes only when every installed module has been reconciled, which says *)
(* that no outage of the API server is as long as the renewal window, and  *)
(* only once during one reconcile.                                         *)
(***************************************************************************)
EXTENDS Naturals, FiniteSets

CONSTANTS
  Replicas,
  Modules,      \* the modules whose service is in the namespace
  Beside,       \* those whose BoothModule is in the namespace too
  Grants,       \* what manifests may declare
  Charts,       \* the manifests of each module's chart versions
  Nothing,      \* a manifest that declares nothing of the kind
  Malformed,    \* one whose event patterns are refused
  None,         \* no module, no Secret
  TTL,          \* ModuleProvisioner.TTL
  RenewBefore,  \* ModuleProvisioner.RenewBefore
  MaxEdits,     \* bound: charts installed, upgraded, uninstalled
  MaxFaults     \* bound: API calls that fail

ASSUME CredentialConstants ==
  /\ Beside \subseteq Modules
  /\ Charts \in [Modules -> SUBSET (Grants \cup {Nothing, Malformed})]
  /\ {Nothing, Malformed, None} \cap Grants = {}
  /\ Cardinality({Nothing, Malformed, None}) = 3
  /\ RenewBefore \in Nat \ {0} /\ TTL \in Nat /\ TTL > RenewBefore
  /\ {MaxEdits, MaxFaults} \subseteq Nat

VARIABLES
  kind,      \* "bus" (renewed) or "fixed"
  manifest,  \* what each module's BoothModule declares, None when uninstalled
  uid,       \* the incarnation of that object
  secret,    \* the Secret
  labelled,  \* the namespace may reach the event bus
  work,      \* the Ensure each replica is in
  fresh,     \* modules reconciled since the last tick
  settled,   \* history: the only module left was reconciled since the last edit
  minted,    \* history: replicas that minted since a credential was last due or missing
  edits, faults

envVars == <<kind, manifest, uid>>
bounds  == <<edits, faults>>
vars    == <<envVars, secret, labelled, work, fresh, settled, minted, bounds>>

Manifests == Grants \cup {Nothing, Malformed}

\* The owner is an incarnation of a module's object, or None.
Owner == [mod : Modules, uid : 0 .. MaxEdits] \cup {None}

Secret == [by : Modules, grants : Grants, left : 0 .. TTL, owner : Owner]

\* A Secret of that name that somebody else made, without the annotations.
Manual == [by |-> None, grants |-> None, left |-> 0, owner |-> None]

Work == [mod : Modules, want : Manifests, uid : 0 .. MaxEdits, fresh : BOOLEAN,
         at : {"read", "write", "delete", "label"}]

TypeOK ==
  /\ kind \in {"bus", "fixed"}
  /\ manifest \in [Modules -> Manifests \cup {None}]
  /\ uid \in [Modules -> 0 .. MaxEdits]
  /\ secret \in Secret \cup {None, Manual}
  /\ labelled \in BOOLEAN
  /\ work \in [Replicas -> Work \cup {None}]
  /\ fresh \subseteq Modules
  /\ settled \in BOOLEAN
  /\ minted \subseteq Replicas
  /\ edits \in 0 .. MaxEdits /\ faults \in 0 .. MaxFaults

\* Only event patterns can be malformed.
Parses(new) == new = Malformed => kind = "bus"

Init ==
  /\ kind \in {"bus", "fixed"}
  /\ manifest \in [Modules -> Manifests \cup {None}]
  /\ \A m \in Modules : manifest[m] \in Charts[m] \cup {None} /\ Parses(manifest[m])
  /\ uid = [m \in Modules |-> 0]
  /\ secret \in {None, Manual}
  /\ labelled = FALSE
  /\ work = [r \in Replicas |-> None]
  /\ fresh = {}
  /\ settled = FALSE
  /\ minted = {}
  /\ edits = 0
  /\ faults = 0

\* m's is the only object whose service is in the namespace.
Alone(m) == manifest[m] # None /\ \A other \in Modules \ {m} : manifest[other] = None

\* A credential is there and has more than the renewal window to live.
NotDue == secret \notin {None, Manual} /\ secret.left > RenewBefore

----------------------------------------------------------------------------
(* The cluster.                                                            *)

\* Helm; an object that is made again has another uid.
Edit(m, new) ==
  /\ edits < MaxEdits
  /\ new # manifest[m] /\ Parses(new)
  /\ edits' = edits + 1
  /\ manifest' = [manifest EXCEPT ![m] = new]
  /\ uid' = [uid EXCEPT ![m] = IF manifest[m] = None THEN @ + 1 ELSE @]
  /\ settled' = FALSE
  /\ UNCHANGED <<kind, secret, labelled, work, fresh, minted, faults>>

\* Kubernetes removes what belongs to an object that is gone.
CollectGarbage ==
  /\ secret # None
  /\ secret.owner # None
  /\ manifest[secret.owner.mod] = None \/ uid[secret.owner.mod] # secret.owner.uid
  /\ secret' = None
  /\ minted' = {}
  /\ UNCHANGED <<envVars, labelled, work, fresh, settled, bounds>>

Tick ==
  /\ kind = "bus"
  /\ {m \in Modules : manifest[m] \notin {None, Malformed}} \subseteq fresh
  /\ \A r \in Replicas : work[r] # None => work[r].fresh
  /\ secret' = IF secret # None /\ secret.left > 0 THEN [secret EXCEPT !.left = @ - 1] ELSE secret
  /\ minted' = IF NotDue' THEN minted ELSE {}
  /\ fresh' = {}
  /\ work' = [r \in Replicas |-> IF work[r] = None THEN None ELSE [work[r] EXCEPT !.fresh = FALSE]]
  /\ UNCHANGED <<envVars, labelled, settled, bounds>>

----------------------------------------------------------------------------
(* Ensure.                                                                 *)

\* The reconcile has read the manifest; what follows goes by that.
Fetch(r, m) ==
  /\ work[r] = None
  /\ manifest[m] # None
  /\ work' = [work EXCEPT ![r] = [mod |-> m, want |-> manifest[m], uid |-> uid[m],
                                  fresh |-> (kind = "bus"), at |-> "read"]]
  /\ UNCHANGED <<envVars, secret, labelled, fresh, settled, minted, bounds>>

Goto(r, at) ==
  /\ work' = [work EXCEPT ![r].at = at]
  /\ UNCHANGED <<fresh, settled>>

\* Ensure returns nil. A reconcile that began before the last tick says nothing of
\* the time since, and one of an earlier manifest nothing of this one.
Done(r) ==
  /\ work' = [work EXCEPT ![r] = None]
  /\ fresh' = IF work[r].fresh THEN fresh \cup {work[r].mod} ELSE fresh
  /\ settled' = (settled \/ (kind = "bus" /\ Alone(work[r].mod) /\ work[r].want = manifest[work[r].mod]))

\* Mutant: renewal only once the window has nearly passed.
IsCurrentLate(w) ==
  secret \notin {None, Manual} /\ secret.grants = w.want /\ secret.left >= RenewBefore

\* Mutant: the annotations are read back wrongly, and nothing is ever current.
IsCurrentNever(w) == FALSE

\* natsauth isCurrent: told by the hash of the grants, and by the expiry.
IsCurrent(w) ==
  secret \notin {None, Manual} /\ secret.grants = w.want /\ secret.left > RenewBefore

\* Mutant: any annotated Secret taken for the module's own.
MatchesAnyone(w) == secret \notin {None, Manual}

\* workload and credentialbroker: the annotation and the credential are made from
\* the module's id.
Matches(w) == secret \notin {None, Manual} /\ secret.by = w.mod

\* A manifest that declares nothing: a Secret of ours is to go.
ReadUnwanted(r) ==
  /\ work[r].want = Nothing
  /\ IF secret \in {None, Manual} THEN Done(r) ELSE Goto(r, "delete")

\* natsauth: malformed patterns are an error before anything is read.
ReadBus(r) ==
  \/ /\ work[r].want = Malformed
     /\ work' = [work EXCEPT ![r] = None]
     /\ UNCHANGED <<fresh, settled>>
  \/ /\ work[r].want \in Grants
     /\ Goto(r, IF IsCurrent(work[r]) THEN "label" ELSE "write")

ReadFixed(r) ==
  /\ work[r].want \in Grants
  /\ IF Matches(work[r]) THEN Done(r) ELSE Goto(r, "write")

\* The Get of the Secret and what follows from it.
Read(r) ==
  /\ work[r] # None
  /\ work[r].at = "read"
  /\ \/ ReadUnwanted(r)
     \/ kind = "bus" /\ ReadBus(r)
     \/ kind = "fixed" /\ ReadFixed(r)
  /\ UNCHANGED <<envVars, secret, labelled, minted, bounds>>

\* Only a Secret beside the module's object can belong to it; otherwise what
\* owned the Secret so far still does.
OwnerFor(w) ==
  IF w.mod \in Beside THEN [mod |-> w.mod, uid |-> w.uid]
  ELSE IF secret = None THEN None ELSE secret.owner

\* CreateOrUpdate, which takes over whatever is there.
ProvisionSecretWith(w) ==
  secret' = [by |-> w.mod, grants |-> w.want, left |-> TTL, owner |-> OwnerFor(w)]

\* MintUser and the Secret that delivers it; then the namespace's label.
WriteBus(r) ==
  /\ kind = "bus"
  /\ ProvisionSecretWith(work[r])
  /\ minted' = minted \cup {r}
  /\ Goto(r, "label")

\* The credential computed from the id.
WriteFixed(r) ==
  /\ kind = "fixed"
  /\ ProvisionSecretWith(work[r])
  /\ minted' = minted
  /\ Done(r)

Write(r) ==
  /\ work[r] # None
  /\ work[r].at = "write"
  /\ WriteBus(r) \/ WriteFixed(r)
  /\ UNCHANGED <<envVars, labelled, bounds>>

\* Mutant: a Secret that is not wanted any more is left where it is.
DeleteNot(r) ==
  /\ work[r] # None
  /\ work[r].at = "delete"
  /\ Done(r)
  /\ UNCHANGED <<envVars, secret, labelled, minted, bounds>>

\* The delete goes by the name, whatever has that name by now.
Delete(r) ==
  /\ work[r] # None
  /\ work[r].at = "delete"
  /\ secret' = None
  /\ minted' = {}
  /\ Done(r)
  /\ UNCHANGED <<envVars, labelled, bounds>>

\* labelNamespace.
Label(r) ==
  /\ work[r] # None
  /\ work[r].at = "label"
  /\ labelled' = TRUE
  /\ Done(r)
  /\ UNCHANGED <<envVars, secret, minted, bounds>>

\* Any call to the API server may fail, the label after the Secret was written.
Fail(r) ==
  /\ work[r] # None
  /\ faults < MaxFaults
  /\ faults' = faults + 1
  /\ work' = [work EXCEPT ![r] = None]
  /\ UNCHANGED <<envVars, secret, labelled, fresh, settled, minted, edits>>

Ensure(r) == Read(r) \/ Write(r) \/ Delete(r) \/ Label(r)

Next ==
  \/ \E m \in Modules : \E new \in Charts[m] \cup {None} : Edit(m, new)
  \/ CollectGarbage
  \/ Tick
  \/ \E r \in Replicas : (\E m \in Modules : Fetch(r, m)) \/ Ensure(r) \/ Fail(r)

\* Every module is queued again after each reconcile and comes up in turn,
\* calls return, time passes, and garbage is collected.
Spec ==
  /\ Init
  /\ [][Next]_vars
  /\ WF_vars(Tick) /\ WF_vars(CollectGarbage)
  /\ \A r \in Replicas :
       WF_vars(Ensure(r)) /\ \A m \in Modules : SF_vars(Fetch(r, m))

----------------------------------------------------------------------------
(* Properties.                                                             *)

\* What the Secret must hold for m to use it.
Serves(m) ==
  /\ secret \notin {None, Manual}
  /\ IF kind = "bus" THEN secret.grants = manifest[m] ELSE secret.by = m

\* DefaultTTL: "Credentials are renewed well before this while the module exists" -
\* from its first reconcile on, a module that has the namespace to itself never
\* finds an expired credential there, though replicas renew concurrently, calls
\* fail and a reconcile may go by what it read before time passed.
NeverLapses ==
  settled => \A m \in Modules : Alone(m) /\ Serves(m) => secret.left > 0

\* Ensure "makes the module's credential Secret match its manifest": in the end a
\* module alone in its namespace holds what it declares, whatever neighbours,
\* earlier incarnations, other replicas or a hand-made Secret left there.
DeclarerIsServed ==
  \A m \in Modules :
    <>[](manifest[m] \in Grants /\ Alone(m))
      => <>[](Serves(m) /\ (kind = "bus" => labelled /\ secret.left > 0))

\* "removing one this package wrote if the module no longer declares any events",
\* and "the expiry is what eventually revokes a module that has been uninstalled":
\* a namespace whose modules declare nothing ends up without a usable credential,
\* by deletion, garbage collection or expiry.
UndeclaredLosesCredential ==
  <>[]({manifest[m] : m \in Modules} \in {{Nothing}, {Nothing, None}}) \/
  <>[](kind = "bus" /\ \A m \in Modules : manifest[m] = None)
    => <>[](secret \in {None, Manual} \/ secret.left = 0)

\* isCurrent: "so reconciling every few seconds doesn't mint a new credential each
\* time" - in the end every replica mints at most once for each time a credential is
\* due (of those that find it due at once, each does), and a credential that does
\* not expire is not written at all.
WritesSettle ==
  <>[](\E m \in Modules : Alone(m)) =>
    <>[][\A r \in Replicas : Write(r) => kind = "bus" /\ (NotDue => r \notin minted)]_vars
=============================================================================
