--------------------------- MODULE CredentialBroker --------------------------
(***************************************************************************)
(* The credential broker of one replica (internal/credentialbroker):       *)
(* Service.Issue from the caller's request to the answer, the call to the  *)
(* module that provides the kind, and the audit trail in its bounded       *)
(* in-memory form and, once core's database is there, in PostgreSQL.       *)
(*                                                                         *)
(* One credential kind is modelled. Which modules declare it is the        *)
(* registry's business (module Registry); here it changes at any moment.   *)
(***************************************************************************)
EXTENDS Roles, Integers, FiniteSets

CONSTANTS
  Clients,     \* requests served at the same time
  Mods,        \* modules that may declare the kind
  Requests,    \* what callers ask for, and as whom
  MaxTTL,      \* Options.MaxTTL in seconds
  Second,      \* time.Second in units of time.Duration
  HalfWord,    \* a Duration is a two's complement number of this reach
  MaxMemory,   \* maxMemoryEntries
  MaxMints,    \* bound: credentials minted
  MaxCrashes,  \* bound: core dies and is restarted
  None

Accesses == {"read", "readwrite", "tablewrite"}

ASSUME BrokerConstants ==
  /\ \A r \in Requests :
       /\ r.role \in AnyRole
       /\ {r.apiwrite, r.revoke} \subseteq BOOLEAN
       /\ r.ttl \in Int /\ r.ttl < HalfWord
  /\ {MaxTTL, Second, HalfWord, MaxMemory} \subseteq Nat \ {0}
  /\ MaxTTL * Second < HalfWord
  /\ {MaxMints, MaxCrashes} \subseteq Nat

VARIABLES
  declares,   \* the modules whose registry entry declares the kind
  calls,      \* each request: where Issue is and what it holds
  mints,      \* credentials the providers have made
  store,      \* Switchable.cur: "memory" or "postgres"
  memory,     \* MemoryStore.entries
  table,      \* booth_credential_issuances
  migrated,   \* PostgresStore.migrated
  migrating,  \* the request that holds PostgresStore.mu, or None
  logged,     \* leases whose missing audit entry was logged
  handed,     \* history: leases answered with 201, and the store they went to
  crashes

storeVars == <<store, memory, table, migrated, migrating>>
vars == <<declares, calls, mints, storeVars, logged, handed, crashes>>

States == {"idle", "calling", "minted", "answered", "recording", "migrating", "inserting"}

Stores == {"memory", "postgres"}

Idle == [at |-> "idle", req |-> None, mod |-> None, lease |-> None, into |-> None]

\* What a provider made, and what an audit entry says of it.
Lease == [id : 1 .. MaxMints, by : Mods, req : Requests, ttl : Int, credential : {"login", "null"}]

Entries == table \cup {memory[i] : i \in 1 .. Len(memory)}

TypeOK ==
  /\ declares \subseteq Mods
  /\ calls \in [Clients -> [at : States, req : Requests \cup {None}, mod : Mods \cup {None},
                            lease : Lease \cup {None}, into : Stores \cup {None}]]
  /\ mints \subseteq Lease
  /\ store \in Stores
  /\ memory \in Seq(Lease) /\ Len(memory) <= MaxMemory
  /\ table \subseteq Lease
  /\ migrated \in BOOLEAN
  /\ migrating \in Clients \cup {None}
  /\ logged \subseteq 1 .. MaxMints
  /\ handed \subseteq [id : 1 .. MaxMints, into : Stores]
  /\ crashes \in 0 .. MaxCrashes

Init ==
  /\ declares \in SUBSET Mods
  /\ calls = [c \in Clients |-> Idle]
  /\ mints = {}
  /\ store = "memory"
  /\ memory = << >>
  /\ table = {}
  /\ migrated = FALSE
  /\ migrating = None
  /\ logged = {}
  /\ handed = {}
  /\ crashes = 0

----------------------------------------------------------------------------
(* Issue, up to the call of the provider.                                  *)

\* Charts come and go while requests are served.
RegistryChanges(m) ==
  /\ declares' = IF m \in declares THEN declares \ {m} ELSE declares \cup {m}
  /\ UNCHANGED <<calls, mints, storeVars, logged, handed, crashes>>

\* validate: the kind and the scope are there.
Valid(req) == req.access \in Accesses /\ req.ttl >= 0

Authorize(req) ==
  IF req.apiwrite THEN req.access = "tablewrite" /\ RoleRank(req.role) >= RoleRank("editor")
  ELSE IF req.access \in {"readwrite", "tablewrite"} THEN RoleRank(req.role) >= RoleRank("editor")
  ELSE RoleRank(req.role) > 0

\* findProvider: none, and several, are errors.
FindProvider == IF Cardinality(declares) = 1 THEN CHOOSE m \in declares : TRUE ELSE None

Wrapped(n) == ((n + HalfWord) % (2 * HalfWord)) - HalfWord

\* Mutant: only a missing ttl is replaced.
ClampMissing(ttl) == IF ttl <= 0 THEN MaxTTL ELSE ttl

\* The comparison is made in Durations, where the product may wrap around.
Clamp(ttl) == IF ttl <= 0 \/ Wrapped(ttl * Second) > MaxTTL * Second THEN MaxTTL ELSE ttl

\* A request is refused by validate, authorize or findProvider, which leaves
\* nothing behind, or goes out to the provider found at this moment.
Issue(c, req) ==
  /\ calls[c].at = "idle"
  /\ Valid(req)
  /\ Authorize(req)
  /\ FindProvider # None
  /\ calls' = [calls EXCEPT ![c] = [Idle EXCEPT !.at = "calling", !.req = req, !.mod = FindProvider]]
  /\ UNCHANGED <<declares, mints, storeVars, logged, handed, crashes>>

----------------------------------------------------------------------------
(* callProvider.                                                           *)

\* The provider makes a credential for the request as core sent it. Asked to
\* revoke it answers with credential null, and a faulty one does so unasked.
ProviderMints(c) ==
  /\ calls[c].at = "calling"
  /\ Cardinality(mints) < MaxMints
  /\ \E credential \in IF calls[c].req.revoke THEN {"null"} ELSE {"login", "null"} :
       LET made == [id |-> Cardinality(mints) + 1, by |-> calls[c].mod, req |-> calls[c].req,
                    ttl |-> Clamp(calls[c].req.ttl), credential |-> credential]
       IN  /\ mints' = mints \cup {made}
           /\ calls' = [calls EXCEPT ![c].at = "minted", ![c].lease = made]
  /\ UNCHANGED <<declares, storeVars, logged, handed, crashes>>

IsRevokeRequest(req) == req.access = "tablewrite" /\ req.revoke

\* Core takes a response with a credential, or without one from a revocation.
Complete(call) == call.lease.credential = "login" \/ IsRevokeRequest(call.req)

ProviderAnswers(c) ==
  /\ calls[c].at = "minted"
  /\ calls' = [calls EXCEPT ![c] = IF Complete(calls[c]) THEN [@ EXCEPT !.at = "answered"] ELSE Idle]
  /\ UNCHANGED <<declares, mints, storeVars, logged, handed, crashes>>

\* Mutant: a call without a deadline ends only when the provider has acted.
ProviderCallIsPatient(c) ==
  /\ calls[c].at = "minted"
  /\ calls' = [calls EXCEPT ![c] = Idle]
  /\ UNCHANGED <<declares, mints, storeVars, logged, handed, crashes>>

\* The call fails or times out before or after the provider acted, or the
\* provider refuses: the caller gets an error, and nothing is recorded.
ProviderCallFails(c) ==
  /\ calls[c].at \in {"calling", "minted"}
  /\ calls' = [calls EXCEPT ![c] = Idle]
  /\ UNCHANGED <<declares, mints, storeVars, logged, handed, crashes>>

----------------------------------------------------------------------------
(* The audit trail. Every path ends with the 201 that carries the          *)
(* credential: a failure to record is logged and not reported.             *)

Respond(c) ==
  /\ calls' = [calls EXCEPT ![c] = Idle]
  /\ handed' = handed \cup {[id |-> calls[c].lease.id, into |-> calls[c].into]}

LogUnrecorded(c) == logged' = logged \cup {calls[c].lease.id}

\* Switchable.Record loads the store once; a Swap may follow before the entry
\* is in it.
LoadStore(c) ==
  /\ calls[c].at = "answered"
  /\ calls' = [calls EXCEPT ![c].at = "recording", ![c].into = store]
  /\ UNCHANGED <<declares, mints, storeVars, logged, handed, crashes>>

DropOldest(entries) ==
  IF Len(entries) > MaxMemory THEN SubSeq(entries, Len(entries) - MaxMemory + 1, Len(entries)) ELSE entries

\* MemoryStore.Record.
RecordMemory(c) ==
  /\ calls[c].at = "recording"
  /\ calls[c].into = "memory"
  /\ memory' = DropOldest(Append(memory, calls[c].lease))
  /\ Respond(c)
  /\ UNCHANGED <<declares, mints, store, table, migrated, migrating, logged, crashes>>

\* PostgresStore.ready: one request at a time creates the schema.
Ready(c) ==
  /\ calls[c].at = "recording"
  /\ calls[c].into = "postgres"
  /\ migrating = None
  /\ calls' = [calls EXCEPT ![c].at = IF migrated THEN "inserting" ELSE "migrating"]
  /\ migrating' = IF migrated THEN None ELSE c
  /\ UNCHANGED <<declares, mints, store, memory, table, migrated, logged, handed, crashes>>

Migrate(c) ==
  /\ calls[c].at = "migrating"
  /\ migrating' = None
  /\ \/ /\ migrated' = TRUE
        /\ calls' = [calls EXCEPT ![c].at = "inserting"]
        /\ UNCHANGED <<logged, handed>>
     \/ /\ LogUnrecorded(c)
        /\ Respond(c)
        /\ UNCHANGED migrated
  /\ UNCHANGED <<declares, mints, store, memory, table, crashes>>

\* Mutants: an error that is swallowed, and an entry that names the provider
\* registered by now.
InsertQuietly(c) ==
  /\ calls[c].at = "inserting"
  /\ table' \in {table, table \cup {calls[c].lease}}
  /\ Respond(c)
  /\ UNCHANGED <<declares, mints, store, memory, migrated, migrating, logged, crashes>>

InsertLookingUpAgain(c) ==
  /\ calls[c].at = "inserting"
  /\ table' = table \cup {[calls[c].lease EXCEPT !.by = IF FindProvider = None THEN @ ELSE FindProvider]}
  /\ Respond(c)
  /\ UNCHANGED <<declares, mints, store, memory, migrated, migrating, logged, crashes>>

\* PostgresStore.Record's INSERT; one that failed may have been applied.
Insert(c) ==
  /\ calls[c].at = "inserting"
  /\ \/ table' = table \cup {calls[c].lease} /\ UNCHANGED logged
     \/ table' \in {table, table \cup {calls[c].lease}} /\ LogUnrecorded(c)
  /\ Respond(c)
  /\ UNCHANGED <<declares, mints, store, memory, migrated, migrating, crashes>>

----------------------------------------------------------------------------
(* The process.                                                            *)

\* persistCoreDatabase has reached core's database.
Swap ==
  /\ store = "memory"
  /\ store' = "postgres"
  /\ UNCHANGED <<declares, calls, mints, memory, table, migrated, migrating, logged, handed, crashes>>

\* What was in memory is gone, and so is the claim to have it.
Crash ==
  /\ crashes < MaxCrashes
  /\ crashes' = crashes + 1
  /\ calls' = [c \in Clients |-> Idle]
  /\ store' = "memory"
  /\ memory' = << >>
  /\ migrated' = FALSE
  /\ migrating' = None
  /\ handed' = {h \in handed : h.into = "postgres"}
  /\ UNCHANGED <<declares, mints, table, logged>>

Record(c) == LoadStore(c) \/ RecordMemory(c) \/ Ready(c) \/ Migrate(c) \/ Insert(c)

Next ==
  \/ \E m \in Mods : RegistryChanges(m)
  \/ \E c \in Clients :
       \/ \E req \in Requests : Issue(c, req)
       \/ ProviderMints(c) \/ ProviderAnswers(c) \/ ProviderCallFails(c)
       \/ Record(c)
  \/ Swap
  \/ Crash

\* The deadline of a provider call passes, a statement succeeds or fails, and
\* a mutex is given to whoever waits for it. No provider has to answer.
Spec ==
  /\ Init
  /\ [][Next]_vars
  /\ \A c \in Clients : /\ WF_vars(ProviderCallFails(c))
                        /\ WF_vars(LoadStore(c) \/ RecordMemory(c) \/ Migrate(c) \/ Insert(c))
                        /\ SF_vars(Ready(c))

----------------------------------------------------------------------------
(* Properties.                                                             *)

\* Service: "recording an audit entry for every genuine issuance". A lease a
\* caller was given through the PostgreSQL store is in the table or its loss was
\* logged, across restarts; one given through the memory store is there until
\* the store is full, is swapped for PostgreSQL, or dies with the process.
HandedOutIsAudited ==
  \A h \in handed :
    \/ h.id \in {e.id : e \in Entries} \cup logged
    \/ h.into = "memory" /\ (store = "postgres" \/ Len(memory) = MaxMemory)

\* "never for a refusal": an entry, in either store, is a credential that the
\* module it names really made for that caller, complete enough to be handed on,
\* and that the caller was allowed; whatever the registry says by now.
EntriesAreIssuances ==
  \A e \in Entries :
    /\ e \in mints
    /\ e.credential = "null" => e.req.revoke /\ e.req.access = "tablewrite"
    /\ e.req.apiwrite => e.req.access = "tablewrite"
    /\ e.req.role = "viewer" => e.req.access = "read"

\* DefaultMaxTTL: "the ceiling on ttlSeconds a caller may request ... A request
\* asking for more is clamped down to this" - as long as the seconds asked for fit
\* into a Duration; beyond that the comparison wraps around.
TTLWithinCeiling ==
  \A l \in mints : l.ttl > 0 /\ (l.ttl <= MaxTTL \/ l.req.ttl * Second >= HalfWord)

\* ProviderCallTimeout: "so one slow/hung provider can't stall the broker route" -
\* every request is answered, though a provider never does and the first use of
\* the database is serialised by a mutex.
EveryRequestIsAnswered ==
  \A c \in Clients : calls[c].at # "idle" ~> calls[c].at = "idle"
=============================================================================
