------------------------------ MODULE Registry -------------------------------
(***************************************************************************)
(* The module registry of one replica: the controller that keeps it in     *)
(* step with the cluster's BoothModule objects (registry/controller.go),   *)
(* the map it writes (registry/registry.go), and the broker's search of    *)
(* that map for the provider of a credential kind.                         *)
(*                                                                         *)
(* The controller has one worker. It reads objects from the informer's     *)
(* cache and is told of a change by name only. The provisioners a          *)
(* reconcile ends with work on other objects: they only decide whether it  *)
(* is repeated after the poll interval or after a back-off.                *)
(***************************************************************************)
EXTENDS Naturals

CONSTANTS
  Objects,   \* BoothModule objects there may be
  Ids,       \* module ids
  Manifests, \* what charts say of their module: its id, the kinds it provides
  NameOf,    \* each object's name in Kubernetes
  Kinds,     \* credential kinds
  Healthy,   \* the status of a module that answers 2xx
  Failures,  \* the other statuses: a phase with the message of its error
  None,      \* no object, no entry, nothing in hand
  MaxEdits   \* bound: charts and health changing while core runs

Statuses == Failures \cup {Healthy}

\* An object: its manifest, and the status core wrote for it, None when that
\* is missing or about an earlier generation.
Module == [spec : Manifests, status : Statuses \cup {None}]

Entry == [spec : Manifests, status : Statuses]

\* A reconcile: the object, what was read of it, and the status once measured.
Work == [obj : Objects, mod : Module, status : Statuses \cup {None}]

ASSUME RegistryConstants ==
  /\ MaxEdits \in Nat
  /\ Manifests \subseteq [id : Ids, kinds : SUBSET Kinds]
  /\ NameOf \in [Objects -> Ids]
  /\ Failures # {}
  /\ None \notin Statuses \cup Module \cup Work

VARIABLES
  objs,    \* the objects at the API server
  changed, \* the objects written since the informer last looked
  cache,   \* the informer's copy
  queue,   \* the controller's work queue
  later,   \* objects that are queued again when a timer fires
  work,    \* the reconcile under way: object, what was read, status measured
  reg,     \* Registry.modules
  up,      \* whether the object's module answers its health check
  edits

vars == <<objs, changed, cache, queue, later, work, reg, up, edits>>

New(spec) == [spec |-> spec, status |-> None]

TypeOK ==
  /\ objs \in [Objects -> Module \cup {None}]
  /\ changed \subseteq Objects
  /\ cache \in [Objects -> Module \cup {None}]
  /\ queue \subseteq Objects
  /\ later \subseteq Objects
  /\ work \in Work \cup {None}
  /\ reg \in [Ids -> Entry \cup {None}]
  /\ up \in [Objects -> BOOLEAN]
  /\ edits \in 0 .. MaxEdits

\* core starts, or starts again, in a cluster where charts are installed.
Init ==
  /\ objs \in [Objects -> Module \cup {None}]
  /\ changed = {o \in Objects : objs[o] # None}
  /\ cache = [o \in Objects |-> None]
  /\ queue = {}
  /\ later = {}
  /\ work = None
  /\ reg = [i \in Ids |-> None]
  /\ up \in [Objects -> BOOLEAN]
  /\ edits = 0

----------------------------------------------------------------------------
(* The cluster.                                                            *)

\* Helm installs, upgrades or uninstalls a chart. An upgrade keeps the status,
\* which is then about the earlier generation.
Edit(o, spec) ==
  /\ edits < MaxEdits
  /\ edits' = edits + 1
  /\ objs' = [objs EXCEPT ![o] =
       IF spec = None THEN None ELSE New(spec)]
  /\ spec # (IF objs[o] = None THEN None ELSE objs[o].spec)
  /\ changed' = changed \cup {o}
  /\ UNCHANGED <<cache, queue, later, work, reg, up>>

HealthChanges(o) ==
  /\ edits < MaxEdits
  /\ edits' = edits + 1
  /\ up' = [up EXCEPT ![o] = ~@]
  /\ UNCHANGED <<objs, changed, cache, queue, later, work, reg>>

\* Mutant: no event for an object that is being reconciled.
WatchUnlessBusy(o) ==
  /\ o \in changed
  /\ changed' = changed \ {o}
  /\ cache' = [cache EXCEPT ![o] = objs[o]]
  /\ queue' = IF work # None /\ work.obj = o THEN queue ELSE queue \cup {o}
  /\ UNCHANGED <<objs, later, work, reg, up, edits>>

\* The informer catches up with the object, perhaps skipping versions, and queues
\* its name.
Watch(o) ==
  /\ o \in changed
  /\ changed' = changed \ {o}
  /\ cache' = [cache EXCEPT ![o] = objs[o]]
  /\ queue' = queue \cup {o}
  /\ UNCHANGED <<objs, later, work, reg, up, edits>>

Timer(o) ==
  /\ o \in later
  /\ later' = later \ {o}
  /\ queue' = queue \cup {o}
  /\ UNCHANGED <<objs, changed, cache, work, reg, up, edits>>

----------------------------------------------------------------------------
(* Reconcile.                                                              *)

\* Mutant: an entry that is there is kept.
PutIfAbsent(spec, status) ==
  reg' = [reg EXCEPT ![spec.id] = IF @ = None THEN [spec |-> spec, status |-> status] ELSE @]

Put(spec, status) == reg' = [reg EXCEPT ![spec.id] = [spec |-> spec, status |-> status]]

\* Mutant: an uninstalled module stays listed.
DeleteNothing(name) == UNCHANGED reg

Delete(name) == reg' = [reg EXCEPT ![name] = None]

\* The object is read. One that is gone is deleted from the registry under the
\* object's name, the id being unknown by now, and is not queued again.
Fetch(o) ==
  /\ work = None
  /\ o \in queue
  /\ queue' = queue \ {o}
  /\ \/ /\ cache[o] = None
        /\ Delete(NameOf[o])
        /\ UNCHANGED work
     \/ /\ cache[o] # None
        /\ work' = [obj |-> o, mod |-> cache[o], status |-> None]
        /\ UNCHANGED reg
  /\ UNCHANGED <<objs, changed, cache, later, up, edits>>

\* Mutant: a reconcile that is over is not repeated.
RequeueNever(o) ==
  /\ UNCHANGED later
  /\ work' = None

\* The end of a reconcile, by RequeueAfter or by an error's back-off.
Requeue(o) ==
  /\ later' = later \cup {o}
  /\ work' = None

\* Mutant: a status that differs in its timestamp only is written.
StatusAlwaysChanges(mod, status) == TRUE

StatusChanged(mod, status) == mod.status # status

\* What the health check may answer; a failure's message may differ every time.
Measured(o) == IF up[o] THEN {Healthy} ELSE Failures

\* checkHealth has answered or timed out: what was read before it is entered now.
CheckHealth ==
  /\ work # None
  /\ work.status = None
  /\ \E status \in Measured(work.obj) :
       /\ Put(work.mod.spec, status)
       /\ IF StatusChanged(work.mod, status)
          THEN work' = [work EXCEPT !.status = status] /\ UNCHANGED later
          ELSE Requeue(work.obj)
  /\ UNCHANGED <<objs, changed, cache, queue, up, edits>>

\* Status().Update: refused when the object has moved on, and free to fail; the
\* reconcile goes on either way.
UpdateStatus ==
  /\ work # None
  /\ work.status # None
  /\ \/ UNCHANGED <<objs, changed>>
     \/ /\ objs[work.obj] = work.mod
        /\ objs' = [objs EXCEPT ![work.obj].status = work.status]
        /\ changed' = changed \cup {work.obj}
  /\ Requeue(work.obj)
  /\ UNCHANGED <<cache, queue, reg, up, edits>>

Reconcile == CheckHealth \/ UpdateStatus

Next ==
  \/ \E o \in Objects :
       \/ \E spec \in Manifests \cup {None} : Edit(o, spec)
       \/ HealthChanges(o)
       \/ Watch(o)
       \/ Timer(o)
       \/ Fetch(o)
  \/ Reconcile

\* The watch delivers, timers fire, the worker runs, and the queue is first in,
\* first out, so that no object waits behind another for ever.
Spec ==
  /\ Init
  /\ [][Next]_vars
  /\ WF_vars(Reconcile)
  /\ \A o \in Objects : WF_vars(Watch(o)) /\ WF_vars(Timer(o)) /\ SF_vars(Fetch(o))

----------------------------------------------------------------------------
(* credentialbroker.Service.findProvider.                                  *)

Providers(kind) == {i \in Ids : reg[i] # None /\ kind \in reg[i].spec.kinds}

\* The one module that declares the kind; none, or several, is an error.
FindProvider(kind) ==
  IF \E i \in Ids : Providers(kind) = {i} THEN CHOOSE i \in Providers(kind) : TRUE ELSE None

----------------------------------------------------------------------------
(* Properties.                                                             *)

Installed(i) == {o \in Objects : objs[o] # None /\ objs[o].spec.id = i}

\* Reconcile: "Charts are expected to name the BoothModule resource after the
\* module ID", which also makes them name it differently from one another.
NamedAfterId == \A o \in Objects : objs[o] # None => objs[o].spec.id = NameOf[o]

WellNamed ==
  /\ NamedAfterId
  /\ \A i \in Ids : \A o, other \in Installed(i) : o = other

OneNameEach == \A o, other \in Objects : NameOf[o] = NameOf[other] => o = other

\* The object is on its way through the informer, the queue or the worker.
UnderWay(o) == o \in changed \cup queue \/ (work # None /\ work.obj = o)

\* The registry's entry for the object says what the object says.
Lists(o) ==
  LET entry == reg[NameOf[o]] IN
  IF objs[o] = None THEN entry = None ELSE entry # None /\ entry.spec = objs[o].spec

\* Reconcile: "the in-memory registry (what the gateway/API actually read from) is
\* already correct" - at any moment, an object that is not under way is listed with
\* today's manifest, or not at all once it is uninstalled, and one that is installed
\* will be looked at again; whatever happened to it while it was being reconciled.
\* Here again objects must be named after their modules, and no two alike.
RegistryIsCorrect ==
  OneNameEach /\ []NamedAfterId =>
    [](\A o \in Objects : ~UnderWay(o) => Lists(o) /\ (objs[o] # None => o \in later))

\* Controller: "reconciles booth-core's Registry from the cluster's live
\* BoothModule resources" - once charts are left alone, every installed module is
\* listed under its id with a manifest of today, however charts name or share ids
\* and although an uninstall may have removed another object's entry.
ListsInstalled ==
  <>[](\A i \in Ids : Installed(i) # {} =>
         reg[i] # None /\ reg[i].spec \in {objs[o].spec : o \in Installed(i)})

Declaring(kind) == {i \in Ids : \E o \in Installed(i) : kind \in objs[o].spec.kinds}

\* A kind goes to the one installed module that declares it, and to nobody when none
\* or several do.
Routed ==
  \A kind \in Kinds :
    IF \E i \in Ids : Declaring(kind) = {i} THEN Declaring(kind) = {FindProvider(kind)}
    ELSE FindProvider(kind) = None

\* ErrNoProvider, ErrAmbiguousProvider: with well-named charts the broker ends up
\* routing a kind to the one installed module that declares it and to nobody when
\* none or several do; no uninstalled module is left in between.
RoutesToSoleProvider == []WellNamed => <>[]Routed

\* healthPollInterval: what the registry says of a module's health follows the
\* module, though nobody touches its object and status writes may all fail.
HealthIsFollowed ==
  \A o \in Objects :
    []WellNamed =>
      <>[](objs[o] # None => reg[NameOf[o]] # None /\ reg[NameOf[o]].status \in Measured(o))

\* statusChanged: "so a Status().Update isn't fired on every single poll when nothing
\* actually changed" - a write wakes the controller through its own watch, and that
\* comes to rest once every module answers (a failure's message need not repeat).
StatusWritesStop ==
  <>[](\A o \in Objects : objs[o] # None => up[o]) => <>[](changed = {})
=============================================================================
