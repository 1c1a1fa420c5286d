------------------------ MODULE CredentialBrokerProofs ------------------------
(***************************************************************************)
(* For any number of requests, modules, audit entries and credentials and  *)
(* any width of a Duration: a credential handed out is audited or its loss *)
(* logged, an entry is a genuine issuance, and a lifetime keeps within the *)
(* ceiling unless the comparison overflows.                                *)
(*                                                                         *)
(* At the end, for any number of objects, the registry the broker searches *)
(* for its provider: an object that nobody is busy with is listed as it is.*)
(***************************************************************************)
EXTENDS CredentialBroker, FiniteSetTheorems, SequenceTheorems, TLAPS

----------------------------------------------------------------------------
(* Numbers and sequences.                                                  *)

\* A product in range does not wrap around.
LEMMA WrappedInRange ==
  ASSUME NEW n \in Int, 0 <= n, n < HalfWord
  PROVE  Wrapped(n) = n
<1>1. HalfWord \in Nat \ {0}
  BY BrokerConstants
<1>2. n + HalfWord \in Nat /\ 2 * HalfWord \in Nat \ {0} /\ n + HalfWord < 2 * HalfWord
  BY <1>1
<1>3. \A x \in Nat, m \in Nat \ {0} : x < m => x % m = x
  OBVIOUS
<1> QED BY <1>1, <1>2, <1>3 DEF Wrapped

\* Durations compare as the seconds they stand for.
LEMMA SecondsCompare ==
  ASSUME NEW a \in Int, NEW b \in Int, NEW s \in Nat \ {0}, a * s <= b * s
  PROVE  a <= b
OBVIOUS

\* Clamp: within the ceiling, unless the seconds do not fit into a Duration.
LEMMA ClampWithin ==
  ASSUME NEW ttl \in Int
  PROVE  /\ Clamp(ttl) \in Int /\ Clamp(ttl) > 0
         /\ Clamp(ttl) <= MaxTTL \/ ttl * Second >= HalfWord
<1>1. {MaxTTL, Second, HalfWord} \subseteq Nat \ {0}
  BY BrokerConstants
<1>2. CASE ttl <= 0 \/ Wrapped(ttl * Second) > MaxTTL * Second
  BY <1>1, <1>2 DEF Clamp
<1>3. CASE ~(ttl <= 0 \/ Wrapped(ttl * Second) > MaxTTL * Second)
  <2>1. Clamp(ttl) = ttl /\ ttl > 0
    BY <1>3 DEF Clamp
  <2>2. CASE ttl * Second >= HalfWord
    BY <2>1, <2>2
  <2>3. CASE ttl * Second < HalfWord
    <3>1. ttl * Second \in Int /\ 0 <= ttl * Second /\ MaxTTL * Second \in Int
      BY <1>1, <2>1
    <3>2. Wrapped(ttl * Second) = ttl * Second
      BY <2>3, <3>1, WrappedInRange
    <3>3. ttl * Second <= MaxTTL * Second
      BY <1>3, <3>1, <3>2
    <3> QED BY <1>1, <2>1, <3>3, SecondsCompare
  <2> QED BY <1>1, <2>1, <2>2, <2>3
<1> QED BY <1>2, <1>3

\* MemoryStore.Record keeps the newest MaxMemory entries, the new one among them.
Kept(old, e, new) ==
  /\ new \in Seq(Lease) /\ Len(new) <= MaxMemory
  /\ Len(old) = MaxMemory => Len(new) = MaxMemory
  /\ \E i \in 1 .. Len(new) : new[i] = e
  /\ \A i \in 1 .. Len(new) : new[i] = e \/ \E k \in 1 .. Len(old) : new[i] = old[k]
  /\ Len(old) < MaxMemory => \A k \in 1 .. Len(old) : \E i \in 1 .. Len(new) : new[i] = old[k]

\* DropOldest after Append is that.
LEMMA Recorded ==
  ASSUME NEW old \in Seq(Lease), NEW e \in Lease, Len(old) <= MaxMemory
  PROVE  Kept(old, e, DropOldest(Append(old, e)))
<1>0. PICK new : new = DropOldest(Append(old, e))
  OBVIOUS
<1> SUFFICES Kept(old, e, new)
  BY <1>0
<1> DEFINE a == Append(old, e)
<1>1. MaxMemory \in Nat \ {0} /\ Len(old) \in Nat
  BY BrokerConstants
<1>2. /\ a \in Seq(Lease) /\ Len(a) = Len(old) + 1
      /\ \A i \in 1 .. Len(old) : a[i] = old[i]
      /\ a[Len(old) + 1] = e
  BY AppendProperties
<1> HIDE DEF a
<1>3. CASE Len(a) > MaxMemory
  <2>1. Len(old) = MaxMemory /\ Len(a) = MaxMemory + 1
    BY <1>1, <1>2, <1>3
  <2>2. new = SubSeq(a, 2, MaxMemory + 1)
    BY <1>0, <1>1, <1>3, <2>1 DEF DropOldest, a
  <2>3. \A i \in 2 .. MaxMemory + 1 : a[i] \in Lease
    BY <1>1, <1>2, <2>1, ElementOfSeq
  <2>4. /\ new \in Seq(Lease) /\ Len(new) = MaxMemory
        /\ \A i \in 1 .. MaxMemory : new[i] = a[i + 1]
    BY <1>1, <2>2, <2>3, SubSeqProperties
  <2>5. new[MaxMemory] = e
    BY <1>1, <1>2, <2>1, <2>4
  <2>6. \A i \in 1 .. MaxMemory : new[i] = e \/ \E k \in 1 .. Len(old) : new[i] = old[k]
    <3> SUFFICES ASSUME NEW i \in 1 .. MaxMemory, i # MaxMemory
                 PROVE  \E k \in 1 .. Len(old) : new[i] = old[k]
      BY <2>5
    <3>1. i + 1 \in 1 .. Len(old) /\ new[i] = old[i + 1]
      BY <1>1, <1>2, <2>1, <2>4
    <3> QED BY <3>1
  <2> QED BY <1>1, <2>1, <2>4, <2>5, <2>6 DEF Kept
<1>4. CASE Len(a) <= MaxMemory
  <2>1. new = a
    BY <1>0, <1>1, <1>2, <1>4 DEF DropOldest, a
  <2>2. \A i \in 1 .. Len(a) : a[i] = e \/ \E k \in 1 .. Len(old) : a[i] = old[k]
    BY <1>1, <1>2
  <2>3. Len(a) \in 1 .. Len(a) /\ a[Len(a)] = e /\ \A k \in 1 .. Len(old) : k \in 1 .. Len(a)
    BY <1>1, <1>2
  <2>4. Len(old) # MaxMemory
    BY <1>1, <1>2, <1>4
  <2>5. \A k \in 1 .. Len(old) : \E i \in 1 .. Len(a) : a[i] = old[k]
    BY <1>2, <2>3
  <2> QED BY <1>2, <1>4, <2>1, <2>2, <2>3, <2>4, <2>5 DEF Kept
<1> QED BY <1>1, <1>2, <1>3, <1>4

----------------------------------------------------------------------------
(* The inductive invariant.                                                *)

\* What authorize lets through.
Allowed(req) ==
  /\ req.apiwrite => req.access = "tablewrite"
  /\ req.role = "viewer" => req.access = "read"

\* A lease that may be audited.
Genuine(l) ==
  /\ l \in mints
  /\ l.credential = "null" => l.req.revoke /\ l.req.access = "tablewrite"
  /\ Allowed(l.req)

\* Once a request has left, what it holds is what the provider was asked and made.
CallsGenuine ==
  \A c \in Clients :
    /\ calls[c].at # "idle" => calls[c].req \in Requests /\ Allowed(calls[c].req) /\ calls[c].mod \in Mods
    /\ calls[c].at = "minted" => calls[c].lease \in mints /\ calls[c].lease.req = calls[c].req
    /\ calls[c].at \in {"answered", "recording", "migrating", "inserting"} => Genuine(calls[c].lease)

\* Record holds on to the store it loaded.
IntoLoaded ==
  \A c \in Clients :
    /\ calls[c].at = "recording" => calls[c].into \in Stores
    /\ calls[c].at \in {"migrating", "inserting"} => calls[c].into = "postgres"

InTable(id) == \E e \in table : e.id = id
InMemory(id) == \E i \in 1 .. Len(memory) : memory[i].id = id

\* HandedOutIsAudited, store by store: an entry lost from memory must not be one
\* that vouches for PostgreSQL.
AuditedWhere ==
  \A h \in handed :
    /\ h.into = "postgres" => InTable(h.id) \/ h.id \in logged
    /\ h.into = "memory" => InMemory(h.id) \/ store = "postgres" \/ Len(memory) = MaxMemory

EntriesGenuine ==
  /\ \A e \in table : Genuine(e)
  /\ \A i \in 1 .. Len(memory) : Genuine(memory[i])

IInv ==
  /\ TypeOK
  /\ IsFiniteSet(mints)
  /\ CallsGenuine
  /\ IntoLoaded
  /\ AuditedWhere
  /\ EntriesGenuine
  /\ TTLWithinCeiling

----------------------------------------------------------------------------
(* Operators on requests.                                                  *)

Calls ==
  [at : States, req : Requests \cup {None}, mod : Mods \cup {None},
   lease : Lease \cup {None}, into : Stores \cup {None}]

\* A request that is over.
LEMMA IdleTyped == Idle \in Calls /\ Idle.at = "idle"
BY DEF Idle, Calls, States

\* The fields of a request that core reads.
LEMMA RequestTyped ==
  ASSUME NEW r \in Requests
  PROVE  r.role \in AnyRole /\ r.apiwrite \in BOOLEAN /\ r.revoke \in BOOLEAN /\ r.ttl \in Int
BY BrokerConstants

\* authorize lets a viewer read, and a table writer only write tables.
LEMMA AuthorizeAllows ==
  ASSUME NEW r \in Requests, Valid(r), Authorize(r)
  PROVE  Allowed(r)
<1>1. RoleRank("viewer") = 1 /\ RoleRank("editor") = 2
  BY DEF RoleRank
<1>2. r.access \in Accesses
  BY DEF Valid
<1> QED BY <1>1, <1>2 DEF Authorize, Allowed, Accesses

\* findProvider names a registered module.
LEMMA ProviderTyped ==
  ASSUME TypeOK, FindProvider # None
  PROVE  FindProvider \in Mods
<1>1. Cardinality(declares) = 1 /\ FindProvider = CHOOSE m \in declares : TRUE
  BY DEF FindProvider
<1>2. declares # {}
  BY <1>1, FS_EmptySet
<1> QED BY <1>1, <1>2 DEF TypeOK

----------------------------------------------------------------------------
(* Steps.                                                                  *)

\* One request moves on; mints may grow, and nothing is recorded or handed out.
LEMMA CallKeeps ==
  ASSUME IInv, NEW c \in Clients, NEW next \in Calls,
         calls' = [calls EXCEPT ![c] = next],
         UNCHANGED <<declares, store, memory, table, logged, handed, crashes>>,
         migrated' \in BOOLEAN, migrating' \in Clients \cup {None},
         IsFiniteSet(mints'), mints \subseteq mints', mints' \subseteq Lease, TTLWithinCeiling',
         next.at # "idle" => next.req \in Requests /\ Allowed(next.req) /\ next.mod \in Mods,
         next.at = "minted" => next.lease \in mints' /\ next.lease.req = next.req,
         next.at \in {"answered", "recording", "migrating", "inserting"} => Genuine(next.lease),
         next.at = "recording" => next.into \in Stores,
         next.at \in {"migrating", "inserting"} => next.into = "postgres"
  PROVE  IInv'
<1> USE DEF IInv
<1>1. /\ calls' \in [Clients -> Calls]
      /\ \A d \in Clients : calls'[d] = IF d = c THEN next ELSE calls[d]
  BY DEF TypeOK, Calls
<1>2. TypeOK'
  BY <1>1 DEF TypeOK, Calls
<1>3. \A l : Genuine(l) => Genuine(l)'
  BY DEF Genuine
<1>4. CallsGenuine'
  BY <1>1, <1>3 DEF CallsGenuine
<1>5. IntoLoaded'
  BY <1>1 DEF IntoLoaded
<1>6. AuditedWhere'
  BY DEF AuditedWhere, InTable, InMemory
<1>7. EntriesGenuine'
  BY <1>3 DEF EntriesGenuine
<1> QED BY <1>2, <1>4, <1>5, <1>6, <1>7

\* The invariant's view of one request.
LEMMA CallFacts ==
  ASSUME IInv, NEW c \in Clients
  PROVE  /\ calls[c] \in Calls
         /\ calls[c].at # "idle" => calls[c].req \in Requests /\ Allowed(calls[c].req) /\ calls[c].mod \in Mods
         /\ calls[c].at = "minted" => calls[c].lease \in mints /\ calls[c].lease.req = calls[c].req
         /\ calls[c].at \in {"answered", "recording", "migrating", "inserting"} => Genuine(calls[c].lease)
         /\ calls[c].at = "recording" => calls[c].into \in Stores
         /\ calls[c].at \in {"migrating", "inserting"} => calls[c].into = "postgres"
BY DEF IInv, TypeOK, Calls, CallsGenuine, IntoLoaded

\* Issue.
LEMMA IssueKeeps ==
  ASSUME IInv, NEW c \in Clients, NEW req \in Requests, Issue(c, req)
  PROVE  IInv'
<1> DEFINE next == [Idle EXCEPT !.at = "calling", !.req = req, !.mod = FindProvider]
<1>1. FindProvider \in Mods
  BY ProviderTyped DEF Issue, IInv
<1>2. next \in Calls /\ next.at = "calling" /\ next.req = req /\ next.mod = FindProvider
  BY <1>1 DEF Idle, Calls, States
<1>3. Allowed(req)
  BY AuthorizeAllows DEF Issue
<1>4. calls' = [calls EXCEPT ![c] = next]
  BY DEF Issue
<1> HIDE DEF next
<1>5. TTLWithinCeiling' /\ IsFiniteSet(mints') /\ mints' = mints
  BY DEF Issue, IInv, TTLWithinCeiling
<1> QED BY <1>1, <1>2, <1>3, <1>4, <1>5, CallKeeps DEF Issue, storeVars, IInv, TypeOK

\* The provider makes a credential under the clamped lifetime.
LEMMA ProviderMintsKeeps ==
  ASSUME IInv, NEW c \in Clients, ProviderMints(c)
  PROVE  IInv'
<1>1. PICK credential \in {"login", "null"} :
        LET made == [id |-> Cardinality(mints) + 1, by |-> calls[c].mod, req |-> calls[c].req,
                     ttl |-> Clamp(calls[c].req.ttl), credential |-> credential]
        IN  /\ mints' = mints \cup {made}
            /\ calls' = [calls EXCEPT ![c].at = "minted", ![c].lease = made]
  BY DEF ProviderMints
<1> DEFINE made == [id |-> Cardinality(mints) + 1, by |-> calls[c].mod, req |-> calls[c].req,
                    ttl |-> Clamp(calls[c].req.ttl), credential |-> credential]
           next == [calls[c] EXCEPT !.at = "minted", !.lease = made]
<1>2. calls[c] \in Calls /\ calls[c].req \in Requests /\ Allowed(calls[c].req) /\ calls[c].mod \in Mods
  BY CallFacts DEF ProviderMints
<1>3. calls[c].req.ttl \in Int
  BY <1>2, RequestTyped
<1>4. Cardinality(mints) + 1 \in 1 .. MaxMints
  BY FS_CardinalityType, BrokerConstants DEF ProviderMints, IInv
<1>5. made \in Lease
  BY <1>2, <1>3, <1>4, ClampWithin DEF Lease
<1>6. made.req = calls[c].req /\ made.ttl = Clamp(calls[c].req.ttl)
  OBVIOUS
<1>7. mints' = mints \cup {made} /\ calls' = [calls EXCEPT ![c] = next]
  BY <1>1 DEF IInv, TypeOK
<1> HIDE DEF made
<1>8. next \in Calls /\ next.at = "minted" /\ next.lease = made /\ next.req = calls[c].req
      /\ next.mod = calls[c].mod
  BY <1>2, <1>5 DEF Calls, States
<1> HIDE DEF next
<1>9. IsFiniteSet(mints')
  BY <1>7, FS_AddElement DEF IInv
<1>10. TTLWithinCeiling'
  <2>1. made.ttl > 0 /\ (made.ttl <= MaxTTL \/ made.req.ttl * Second >= HalfWord)
    BY <1>3, <1>6, ClampWithin
  <2> QED BY <2>1, <1>7 DEF IInv, TTLWithinCeiling
<1>11. mints \subseteq mints' /\ mints' \subseteq Lease /\ made \in mints'
  BY <1>5, <1>7 DEF IInv, TypeOK
<1> QED BY <1>2, <1>6, <1>7, <1>8, <1>9, <1>10, <1>11, CallKeeps
        DEF ProviderMints, storeVars, IInv, TypeOK

\* The response, or the lack of one, and what Record does before it writes.
LEMMA CallMoves ==
  ASSUME IInv, NEW c \in Clients,
         ProviderAnswers(c) \/ ProviderCallFails(c) \/ LoadStore(c) \/ Ready(c)
  PROVE  IInv'
<1>1. mints' = mints /\ IsFiniteSet(mints') /\ TTLWithinCeiling' /\ mints' \subseteq Lease
  BY DEF ProviderAnswers, ProviderCallFails, LoadStore, Ready, IInv, TypeOK, TTLWithinCeiling
<1>2. /\ UNCHANGED <<declares, store, memory, table, logged, handed, crashes>>
      /\ migrated' \in BOOLEAN /\ migrating' \in Clients \cup {None}
  BY DEF ProviderAnswers, ProviderCallFails, LoadStore, Ready, storeVars, IInv, TypeOK
<1>3. CASE calls' = [calls EXCEPT ![c] = Idle]
  BY <1>1, <1>2, <1>3, IdleTyped, CallKeeps
<1>4. CASE ProviderAnswers(c) /\ Complete(calls[c])
  <2> DEFINE next == [calls[c] EXCEPT !.at = "answered"]
  <2>1. calls[c] \in Calls /\ calls[c].at = "minted" /\ calls[c].lease \in mints
        /\ calls[c].lease.req = calls[c].req /\ Allowed(calls[c].req)
        /\ calls[c].req \in Requests /\ calls[c].mod \in Mods
    BY <1>4, CallFacts DEF ProviderAnswers
  <2>2. next \in Calls /\ next.at = "answered" /\ next.lease = calls[c].lease
        /\ next.req = calls[c].req /\ next.mod = calls[c].mod
    BY <2>1 DEF Calls, States
  <2>3. calls' = [calls EXCEPT ![c] = next]
    BY <1>4 DEF ProviderAnswers
  <2>4. Genuine(calls[c].lease)
    BY <1>4, <2>1 DEF Genuine, Complete, IsRevokeRequest
  <2> HIDE DEF next
  <2> QED BY <1>1, <1>2, <2>1, <2>2, <2>3, <2>4, CallKeeps
<1>5. CASE LoadStore(c)
  <2> DEFINE next == [calls[c] EXCEPT !.at = "recording", !.into = store]
  <2>1. calls[c] \in Calls /\ Genuine(calls[c].lease) /\ Allowed(calls[c].req)
        /\ calls[c].req \in Requests /\ calls[c].mod \in Mods
    BY <1>5, CallFacts DEF LoadStore
  <2>2. store \in Stores
    BY DEF IInv, TypeOK
  <2>3. next \in Calls /\ next.at = "recording" /\ next.into = store /\ next.lease = calls[c].lease
        /\ next.req = calls[c].req /\ next.mod = calls[c].mod
    BY <2>1, <2>2 DEF Calls, States
  <2>4. calls' = [calls EXCEPT ![c] = next]
    BY <1>5 DEF LoadStore, IInv, TypeOK
  <2> HIDE DEF next
  <2> QED BY <1>1, <1>2, <2>1, <2>2, <2>3, <2>4, CallKeeps
<1>6. CASE Ready(c)
  <2>1. PICK to \in {"inserting", "migrating"} : calls' = [calls EXCEPT ![c].at = to]
    BY <1>6 DEF Ready
  <2> DEFINE next == [calls[c] EXCEPT !.at = to]
  <2>2. calls[c] \in Calls /\ Genuine(calls[c].lease) /\ Allowed(calls[c].req)
        /\ calls[c].req \in Requests /\ calls[c].mod \in Mods /\ calls[c].into = "postgres"
    BY <1>6, CallFacts DEF Ready
  <2>3. next \in Calls /\ next.at = to /\ next.into = "postgres" /\ next.lease = calls[c].lease
        /\ next.req = calls[c].req /\ next.mod = calls[c].mod
    BY <2>2 DEF Calls, States
  <2>4. calls' = [calls EXCEPT ![c] = next]
    BY <2>1 DEF IInv, TypeOK
  <2> HIDE DEF next
  <2> QED BY <1>1, <1>2, <2>2, <2>3, <2>4, CallKeeps
<1> QED BY <1>3, <1>4, <1>5, <1>6 DEF ProviderAnswers, ProviderCallFails

\* The 201 after PostgresStore.Record: the entry is in the table, or the failure
\* was logged.
LEMMA RespondKeeps ==
  ASSUME IInv, NEW c \in Clients, calls[c].at \in {"migrating", "inserting"}, Respond(c),
         UNCHANGED <<declares, mints, store, memory, crashes>>,
         migrated' \in BOOLEAN, migrating' \in Clients \cup {None},
         table' \in {table, table \cup {calls[c].lease}},
         logged' \in {logged, logged \cup {calls[c].lease.id}},
         calls[c].lease \in table' \/ calls[c].lease.id \in logged'
  PROVE  IInv'
<1> USE DEF IInv
<1>0. PICK l : l = calls[c].lease
  OBVIOUS
<1>1. Genuine(l) /\ l \in Lease /\ calls[c].into = "postgres"
  BY <1>0, CallFacts DEF Genuine, TypeOK
<1>2. l.id \in 1 .. MaxMints
  BY <1>1 DEF Lease
<1>3. handed' = handed \cup {[id |-> l.id, into |-> "postgres"]}
  BY <1>0, <1>1 DEF Respond
<1>4. /\ calls' \in [Clients -> Calls]
      /\ \A d \in Clients : calls'[d] = IF d = c THEN Idle ELSE calls[d]
  BY IdleTyped DEF Respond, TypeOK, Calls
<1>5. table' \in {table, table \cup {l}} /\ logged' \in {logged, logged \cup {l.id}}
      /\ (l \in table' \/ l.id \in logged')
  BY <1>0
<1>6. TypeOK'
  <2>1. handed' \subseteq [id : 1 .. MaxMints, into : Stores]
    BY <1>2, <1>3 DEF TypeOK, Stores
  <2> QED BY <1>1, <1>2, <1>4, <1>5, <2>1 DEF TypeOK, Calls
<1>7. \A k : Genuine(k)' = Genuine(k)
  BY DEF Genuine
<1>8. \A d \in Clients : calls'[d].at # "idle" => calls'[d] = calls[d]
  BY <1>4, IdleTyped
<1>9. CallsGenuine' /\ IntoLoaded'
  BY <1>7, <1>8, CallFacts DEF CallsGenuine, IntoLoaded
<1>10. EntriesGenuine'
  BY <1>1, <1>5, <1>7 DEF EntriesGenuine
<1>11. TTLWithinCeiling' /\ IsFiniteSet(mints')
  BY DEF TTLWithinCeiling
<1>12. AuditedWhere'
  <2>1. \A id : (InTable(id) => InTable(id)') /\ (InMemory(id)' = InMemory(id))
    BY <1>5 DEF InTable, InMemory
  <2>2. InTable(l.id)' \/ l.id \in logged'
    BY <1>5 DEF InTable
  <2> SUFFICES ASSUME NEW h \in handed'
               PROVE  /\ h.into = "postgres" => InTable(h.id)' \/ h.id \in logged'
                      /\ h.into = "memory" => InMemory(h.id)' \/ store' = "postgres" \/ Len(memory') = MaxMemory
    BY DEF AuditedWhere
  <2>3. CASE h \in handed
    BY <2>1, <2>3, <1>5 DEF AuditedWhere
  <2>4. CASE h = [id |-> l.id, into |-> "postgres"]
    BY <2>2, <2>4
  <2> QED BY <2>3, <2>4, <1>3
<1> QED BY <1>6, <1>9, <1>10, <1>11, <1>12

\* PostgresStore.Record: the schema, and the INSERT.
LEMMA PostgresKeeps ==
  ASSUME IInv, NEW c \in Clients, Migrate(c) \/ Insert(c)
  PROVE  IInv'
<1>1. CASE Migrate(c) /\ migrated' = TRUE /\ calls' = [calls EXCEPT ![c].at = "inserting"]
             /\ UNCHANGED <<logged, handed>>
  <2> DEFINE next == [calls[c] EXCEPT !.at = "inserting"]
  <2>1. calls[c] \in Calls /\ Genuine(calls[c].lease) /\ Allowed(calls[c].req)
        /\ calls[c].req \in Requests /\ calls[c].mod \in Mods /\ calls[c].into = "postgres"
    BY <1>1, CallFacts DEF Migrate
  <2>2. next \in Calls /\ next.at = "inserting" /\ next.into = "postgres" /\ next.lease = calls[c].lease
        /\ next.req = calls[c].req /\ next.mod = calls[c].mod
    BY <2>1 DEF Calls, States
  <2>3. calls' = [calls EXCEPT ![c] = next]
    BY <1>1 DEF IInv, TypeOK
  <2>4. mints' = mints /\ IsFiniteSet(mints') /\ TTLWithinCeiling' /\ mints' \subseteq Lease
    BY <1>1 DEF Migrate, IInv, TypeOK, TTLWithinCeiling
  <2> HIDE DEF next
  <2> QED BY <1>1, <2>1, <2>2, <2>3, <2>4, CallKeeps DEF Migrate
<1>2. CASE Migrate(c) /\ LogUnrecorded(c) /\ Respond(c) /\ UNCHANGED migrated
  BY <1>2, RespondKeeps DEF Migrate, LogUnrecorded, IInv, TypeOK
<1>3. CASE Insert(c)
  <2>1. /\ calls[c].at = "inserting" /\ Respond(c)
        /\ UNCHANGED <<declares, mints, store, memory, migrated, migrating, crashes>>
    BY <1>3 DEF Insert
  <2>2. /\ table' \in {table, table \cup {calls[c].lease}}
        /\ logged' \in {logged, logged \cup {calls[c].lease.id}}
        /\ calls[c].lease \in table' \/ calls[c].lease.id \in logged'
    BY <1>3 DEF Insert, LogUnrecorded
  <2> QED BY <2>1, <2>2, RespondKeeps DEF IInv, TypeOK
<1> QED BY <1>1, <1>2, <1>3 DEF Migrate

\* MemoryStore.Record: what it drops, it drops because it is full.
LEMMA MemoryKeeps ==
  ASSUME IInv, NEW c \in Clients, RecordMemory(c)
  PROVE  IInv'
<1> USE DEF IInv
<1>0. PICK l : l = calls[c].lease
  OBVIOUS
<1>1. Genuine(l) /\ l \in Lease /\ calls[c].into = "memory"
  BY <1>0, CallFacts DEF RecordMemory, Genuine, TypeOK
<1>2. l.id \in 1 .. MaxMints
  BY <1>1 DEF Lease
<1>3. handed' = handed \cup {[id |-> l.id, into |-> "memory"]}
  BY <1>0, <1>1 DEF RecordMemory, Respond
<1>4. /\ calls' \in [Clients -> Calls]
      /\ \A d \in Clients : calls'[d] = IF d = c THEN Idle ELSE calls[d]
  BY IdleTyped DEF RecordMemory, Respond, TypeOK, Calls
<1>5. memory \in Seq(Lease) /\ Len(memory) <= MaxMemory /\ memory' = DropOldest(Append(memory, l))
  BY <1>0 DEF RecordMemory, TypeOK
<1>6. Kept(memory, l, memory')
  BY <1>1, <1>5, Recorded
<1>7. UNCHANGED <<declares, mints, store, table, migrated, migrating, logged, crashes>>
  BY DEF RecordMemory
<1>8. TypeOK'
  <2>1. handed' \subseteq [id : 1 .. MaxMints, into : Stores]
    BY <1>2, <1>3 DEF TypeOK, Stores
  <2> QED BY <1>4, <1>6, <1>7, <2>1 DEF TypeOK, Calls, Kept
<1>9. \A k : Genuine(k)' = Genuine(k)
  BY <1>7 DEF Genuine
<1>10. \A d \in Clients : calls'[d].at # "idle" => calls'[d] = calls[d]
  BY <1>4, IdleTyped
<1>11. CallsGenuine' /\ IntoLoaded'
  <2>1. CallsGenuine'
    BY <1>9, <1>10, <1>7 DEF CallsGenuine
  <2>2. IntoLoaded'
    BY <1>10 DEF IntoLoaded
  <2> QED BY <2>1, <2>2
<1>12. EntriesGenuine'
  BY <1>1, <1>6, <1>7, <1>9 DEF EntriesGenuine, Kept
<1>13. TTLWithinCeiling' /\ IsFiniteSet(mints')
  BY <1>7 DEF TTLWithinCeiling
<1>14. AuditedWhere'
  <2>1. \A id : InTable(id)' = InTable(id)
    BY <1>7 DEF InTable
  <2>2. InMemory(l.id)'
    BY <1>6 DEF InMemory, Kept
  <2>3. CASE Len(memory) = MaxMemory
    BY <2>1, <2>3, <1>3, <1>6, <1>7 DEF AuditedWhere, Kept
  <2>4. CASE Len(memory) # MaxMemory
    <3>1. Len(memory) < MaxMemory
      BY <2>4, <1>5, BrokerConstants
    <3>2. \A id : InMemory(id) => InMemory(id)'
      BY <3>1, <1>6 DEF InMemory, Kept
    <3> SUFFICES ASSUME NEW h \in handed'
                 PROVE  /\ h.into = "postgres" => InTable(h.id)' \/ h.id \in logged'
                        /\ h.into = "memory" => InMemory(h.id)' \/ store' = "postgres" \/ Len(memory') = MaxMemory
      BY DEF AuditedWhere
    <3>3. CASE h \in handed
      BY <2>1, <2>4, <3>2, <3>3, <1>7 DEF AuditedWhere
    <3>4. CASE h = [id |-> l.id, into |-> "memory"]
      BY <2>2, <3>4
    <3> QED BY <3>3, <3>4, <1>3
  <2> QED BY <2>3, <2>4
<1> QED BY <1>8, <1>11, <1>12, <1>13, <1>14

\* The registry changes, the store is swapped, core dies.
LEMMA WorldKeeps ==
  ASSUME IInv, (\E m \in Mods : RegistryChanges(m)) \/ Swap \/ Crash
  PROVE  IInv'
<1> USE DEF IInv
<1>1. CASE (\E m \in Mods : RegistryChanges(m)) \/ Swap
  <2>1. UNCHANGED <<calls, mints, memory, table, migrated, migrating, logged, handed, crashes>>
    BY <1>1 DEF RegistryChanges, Swap, storeVars
  <2>2. declares' \subseteq Mods /\ store' \in Stores /\ (store = "postgres" => store' = "postgres")
    BY <1>1 DEF RegistryChanges, Swap, storeVars, TypeOK, Stores
  <2>3. TypeOK'
    BY <2>1, <2>2 DEF TypeOK
  <2>4. CallsGenuine' /\ IntoLoaded' /\ EntriesGenuine' /\ TTLWithinCeiling'
    BY <2>1 DEF CallsGenuine, IntoLoaded, EntriesGenuine, Genuine, TTLWithinCeiling
  <2>5. AuditedWhere'
    BY <2>1, <2>2 DEF AuditedWhere, InTable, InMemory
  <2> QED BY <2>1, <2>3, <2>4, <2>5
<1>2. CASE Crash
  <2>1. UNCHANGED <<declares, mints, table, logged>> /\ memory' = << >> /\ store' = "memory"
        /\ migrated' = FALSE /\ migrating' = None /\ handed' = {h \in handed : h.into = "postgres"}
        /\ calls' = [c \in Clients |-> Idle]
    BY <1>2 DEF Crash
  <2>2. crashes' \in 0 .. MaxCrashes
    BY <1>2, BrokerConstants DEF Crash, TypeOK
  <2>3. memory' \in Seq(Lease) /\ Len(memory') = 0 /\ Len(memory') <= MaxMemory
    BY <2>1, EmptySeq, BrokerConstants
  <2>4. calls' \in [Clients -> Calls] /\ \A c \in Clients : calls'[c].at = "idle"
    BY <2>1, IdleTyped
  <2>5. TypeOK'
    BY <2>1, <2>2, <2>3, <2>4 DEF TypeOK, Calls, Stores
  <2>6. CallsGenuine' /\ IntoLoaded'
    BY <2>4 DEF CallsGenuine, IntoLoaded
  <2>7. EntriesGenuine' /\ TTLWithinCeiling'
    BY <2>1, <2>3 DEF EntriesGenuine, Genuine, TTLWithinCeiling
  <2>8. AuditedWhere'
    BY <2>1 DEF AuditedWhere, InTable
  <2> QED BY <2>1, <2>5, <2>6, <2>7, <2>8
<1> QED BY <1>1, <1>2

----------------------------------------------------------------------------
(* Together.                                                               *)

\* core starts with nothing minted and an empty memory store.
LEMMA InitInv == Init => IInv
<1> SUFFICES ASSUME Init PROVE IInv
  OBVIOUS
<1>1. calls \in [Clients -> Calls] /\ \A c \in Clients : calls[c].at = "idle"
  BY IdleTyped DEF Init
<1>2. memory \in Seq(Lease) /\ Len(memory) = 0 /\ Len(memory) <= MaxMemory /\ 0 \in 0 .. MaxCrashes
  BY EmptySeq, BrokerConstants DEF Init
<1>3. TypeOK
  BY <1>1, <1>2 DEF Init, TypeOK, Calls, Stores
<1>4. IsFiniteSet(mints)
  BY FS_EmptySet DEF Init
<1>5. CallsGenuine /\ IntoLoaded
  BY <1>1 DEF CallsGenuine, IntoLoaded
<1>6. AuditedWhere /\ EntriesGenuine /\ TTLWithinCeiling
  BY <1>2 DEF Init, AuditedWhere, EntriesGenuine, TTLWithinCeiling
<1> QED BY <1>3, <1>4, <1>5, <1>6 DEF IInv

\* Every step of every request and of the process.
LEMMA NextInv == IInv /\ [Next]_vars => IInv'
<1> SUFFICES ASSUME IInv, [Next]_vars PROVE IInv'
  OBVIOUS
<1>1. CASE UNCHANGED vars
  BY <1>1 DEF vars, storeVars, IInv, TypeOK, CallsGenuine, IntoLoaded, AuditedWhere, InTable, InMemory,
     EntriesGenuine, Genuine, TTLWithinCeiling
<1>2. CASE Next
  BY <1>2, WorldKeeps, IssueKeeps, ProviderMintsKeeps, CallMoves, MemoryKeeps, PostgresKeeps
     DEF Next, Record
<1> QED BY <1>1, <1>2

\* The invariant above is one of the specification.
THEOREM Invariance == Spec => []IInv
BY InitInv, NextInv, PTL DEF Spec

----------------------------------------------------------------------------
(* Results.                                                                *)

\* Issue: whatever fails, swaps or restarts, a credential handed out is in the
\* audit trail, was logged as missing from it, or left a bounded memory store.
THEOREM Audited == Spec => []HandedOutIsAudited
<1>1. IInv => HandedOutIsAudited
  <2> SUFFICES ASSUME IInv, NEW h \in handed
               PROVE  \/ h.id \in {e.id : e \in Entries} \cup logged
                      \/ h.into = "memory" /\ (store = "postgres" \/ Len(memory) = MaxMemory)
    BY DEF HandedOutIsAudited
  <2>1. h.into \in {"memory", "postgres"}
    BY DEF IInv, TypeOK, Stores
  <2>2. InTable(h.id) \/ InMemory(h.id) => h.id \in {e.id : e \in Entries}
    BY DEF InTable, InMemory, Entries
  <2> QED BY <2>1, <2>2 DEF IInv, AuditedWhere
<1> QED BY <1>1, Invariance, PTL

\* No entry without an issuance: authorize, isRevokeRequest and the provider's
\* response stand behind each one.
THEOREM EntriesGenuinelyIssued == Spec => []EntriesAreIssuances
<1>1. IInv => EntriesAreIssuances
  BY DEF IInv, EntriesGenuine, Genuine, Allowed, EntriesAreIssuances, Entries
<1> QED BY <1>1, Invariance, PTL

\* No credential outlives the ceiling unless the seconds asked for overflow a
\* Duration.
THEOREM CeilingHolds == Spec => []TTLWithinCeiling
<1>1. IInv => TTLWithinCeiling
  BY DEF IInv
<1> QED BY <1>1, Invariance, PTL

----------------------------------------------------------------------------
(* The registry the broker looks its provider up in. A module that is      *)
(* instantiated does not bring its assumption along: it is a hypothesis.   *)

CONSTANTS Objects, Ids, Manifests, NameOf, Kinds, Healthy, Failures, MaxEdits

VARIABLES objs, changed, cache, queue, later, work, reg, up, edits

Reg == INSTANCE Registry

Working(o) == work # None /\ work.obj = o

\* The informer is behind only with what it has yet to deliver.
CacheCopies == \A o \in Objects \ changed : cache[o] = objs[o]

\* Nothing the informer knows of is out of sight of queue, timers and worker.
Polled == \A o \in Objects : cache[o] # None => o \in queue \cup later \/ Working(o)

\* What was read is what is known, or the object is queued once more.
WorkCurrent == work # None => work.obj \in queue \/ work.mod = cache[work.obj]

\* What was read bears its object's name, in the cache, at work and in the map.
KnownByName ==
  /\ \A o \in Objects : cache[o] # None => cache[o].spec.id = NameOf[o]
  /\ work # None => work.mod.spec.id = NameOf[work.obj]
  /\ \A i \in Ids : reg[i] # None => \E o \in Objects : NameOf[o] = i

\* The status is only written once the entry is.
EnteredFirst ==
  work # None /\ work.status # None =>
    reg[NameOf[work.obj]] # None /\ reg[NameOf[work.obj]].spec = work.mod.spec

\* An entry and what is known of its object.
Agree(entry, mod) == IF mod = None THEN entry = None ELSE entry # None /\ entry.spec = mod.spec

\* What is neither queued nor at work is entered as it is known.
EntersKnown == \A o \in Objects : o \in queue \/ Working(o) \/ Agree(reg[NameOf[o]], cache[o])

PollInv == Reg!TypeOK /\ CacheCopies /\ Polled

NameInv == WorkCurrent /\ KnownByName /\ EnteredFirst /\ EntersKnown

\* The controller starts with an empty registry and everything to be delivered.
LEMMA PollInit ==
  ASSUME Reg!RegistryConstants, Reg!Init
  PROVE  PollInv /\ NameInv
<1>1. Reg!TypeOK
  BY DEF Reg!RegistryConstants, Reg!Init, Reg!TypeOK
<1>2. CacheCopies /\ Polled
  BY DEF Reg!Init, CacheCopies, Polled, Reg!TypeOK
<1>3. WorkCurrent /\ EnteredFirst
  BY DEF Reg!Init, WorkCurrent, EnteredFirst
<1>4. KnownByName /\ EntersKnown
  BY DEF Reg!RegistryConstants, Reg!Init, KnownByName, EntersKnown, Agree
<1> QED BY <1>1, <1>2, <1>3, <1>4 DEF PollInv, NameInv

\* A chart or a module's health changes: the informer has not seen it yet.
LEMMA ClusterPolls ==
  ASSUME Reg!RegistryConstants, PollInv, NEW o \in Objects,
         \/ \E spec \in Manifests \cup {None} : Reg!Edit(o, spec)
         \/ Reg!HealthChanges(o)
  PROVE  /\ PollInv'
         /\ UNCHANGED <<cache, queue, later, work, reg>>
<1>1. UNCHANGED <<cache, queue, later, work, reg>>
  BY DEF Reg!Edit, Reg!HealthChanges
<1>2. ASSUME NEW spec \in Manifests \cup {None}, Reg!Edit(o, spec)
      PROVE  Reg!TypeOK' /\ CacheCopies'
  <2>1. objs' \in [Objects -> Reg!Module \cup {None}]
    BY <1>2 DEF Reg!Edit, Reg!New, Reg!Module, PollInv, Reg!TypeOK
  <2>2. edits' \in 0 .. MaxEdits
    BY <1>2 DEF Reg!Edit, PollInv, Reg!TypeOK, Reg!RegistryConstants
  <2> QED BY <1>2, <2>1, <2>2 DEF Reg!Edit, PollInv, Reg!TypeOK, CacheCopies
<1>3. ASSUME Reg!HealthChanges(o) PROVE Reg!TypeOK' /\ CacheCopies'
  <2>1. edits' \in 0 .. MaxEdits
    BY <1>3 DEF Reg!HealthChanges, PollInv, Reg!TypeOK, Reg!RegistryConstants
  <2>2. up' \in [Objects -> BOOLEAN]
    BY <1>3 DEF Reg!HealthChanges, PollInv, Reg!TypeOK
  <2> QED BY <1>3, <2>1, <2>2 DEF Reg!HealthChanges, PollInv, Reg!TypeOK, CacheCopies
<1>4. Polled'
  BY <1>1 DEF PollInv, Polled, Working
<1> QED BY <1>1, <1>2, <1>3, <1>4 DEF PollInv

\* The informer and the timers only ever add to the queue.
LEMMA QueuesPoll ==
  ASSUME PollInv, NEW o \in Objects, Reg!Watch(o) \/ Reg!Timer(o)
  PROVE  PollInv'
<1>1. Reg!TypeOK'
  BY DEF Reg!Watch, Reg!Timer, PollInv, Reg!TypeOK
<1>2. CacheCopies'
  BY DEF Reg!Watch, Reg!Timer, PollInv, Reg!TypeOK, CacheCopies
<1>3. Polled'
  BY DEF Reg!Watch, Reg!Timer, PollInv, Reg!TypeOK, Polled, Working
<1> QED BY <1>1, <1>2, <1>3 DEF PollInv

\* What is read of an object that is there.
LEMMA WorkBegins ==
  ASSUME Reg!RegistryConstants, PollInv, NEW o \in Objects, Reg!Fetch(o), cache[o] # None
  PROVE  /\ work' = [obj |-> o, mod |-> cache[o], status |-> None]
         /\ work' \in Reg!Work /\ work' # None
<1>1. cache[o] \in Reg!Module
  BY DEF PollInv, Reg!TypeOK
<1>2. work' = [obj |-> o, mod |-> cache[o], status |-> None]
  BY DEF Reg!Fetch
<1>3. work' \in Reg!Work
  BY <1>1, <1>2 DEF Reg!Work
<1> QED BY <1>2, <1>3 DEF Reg!RegistryConstants

\* What leaves the queue is gone, or is at work from then on.
LEMMA FetchPolls ==
  ASSUME Reg!RegistryConstants, PollInv, NEW o \in Objects, Reg!Fetch(o)
  PROVE  PollInv'
<1>1. work' \in Reg!Work \cup {None} /\ (cache[o] # None => Working(o)')
  BY WorkBegins DEF Reg!Fetch, PollInv, Reg!TypeOK, Working
<1>2. reg' \in [Ids -> Reg!Entry \cup {None}]
  BY DEF Reg!Fetch, Reg!Delete, PollInv, Reg!TypeOK
<1>3. Reg!TypeOK' /\ CacheCopies'
  BY <1>1, <1>2 DEF Reg!Fetch, PollInv, Reg!TypeOK, CacheCopies
<1>4. Polled'
  BY <1>1 DEF Reg!Fetch, PollInv, Polled, Working
<1> QED BY <1>3, <1>4 DEF PollInv

\* The two ways a reconcile goes on from its health check.
LEMMA HealthChecked ==
  ASSUME Reg!RegistryConstants, PollInv, Reg!CheckHealth
  PROVE  \E status \in Reg!Statuses :
           /\ work \in Reg!Work
           /\ reg' = [reg EXCEPT ![work.mod.spec.id] = [spec |-> work.mod.spec, status |-> status]]
           /\ [spec |-> work.mod.spec, status |-> status] \in Reg!Entry \ {None}
           /\ \/ work' = [work EXCEPT !.status = status] /\ later' = later
              \/ work' = None /\ later' = later \cup {work.obj}
<1>1. PICK status \in Reg!Measured(work.obj) :
        /\ Reg!Put(work.mod.spec, status)
        /\ IF Reg!StatusChanged(work.mod, status)
           THEN work' = [work EXCEPT !.status = status] /\ UNCHANGED later
           ELSE Reg!Requeue(work.obj)
  BY DEF Reg!CheckHealth
<1>2. work \in Reg!Work
  BY DEF Reg!CheckHealth, PollInv, Reg!TypeOK
<1>3. status \in Reg!Statuses
  BY <1>1, <1>2 DEF Reg!Measured, Reg!Statuses
<1>4. [spec |-> work.mod.spec, status |-> status] \in Reg!Entry \ {None}
  BY <1>2, <1>3 DEF Reg!Work, Reg!Module, Reg!Entry, Reg!RegistryConstants
<1> QED BY <1>1, <1>2, <1>3, <1>4 DEF Reg!Put, Reg!Requeue

\* A reconcile ends with a timer.
LEMMA ReconcilePolls ==
  ASSUME Reg!RegistryConstants, PollInv, Reg!Reconcile
  PROVE  PollInv'
<1>1. CASE Reg!CheckHealth
  <2>1. PICK status \in Reg!Statuses :
           /\ work \in Reg!Work
           /\ reg' = [reg EXCEPT ![work.mod.spec.id] = [spec |-> work.mod.spec, status |-> status]]
           /\ [spec |-> work.mod.spec, status |-> status] \in Reg!Entry \ {None}
           /\ \/ work' = [work EXCEPT !.status = status] /\ later' = later
              \/ work' = None /\ later' = later \cup {work.obj}
    BY <1>1, HealthChecked
  <2>2. UNCHANGED <<objs, changed, cache, queue, up, edits>>
    BY <1>1 DEF Reg!CheckHealth
  <2>3. reg' \in [Ids -> Reg!Entry \cup {None}]
    BY <2>1 DEF PollInv, Reg!TypeOK
  <2>4. CASE work' = None /\ later' = later \cup {work.obj}
    BY <2>1, <2>2, <2>3, <2>4 DEF PollInv, Reg!TypeOK, CacheCopies, Polled, Working, Reg!Work
  <2>5. CASE work' = [work EXCEPT !.status = status] /\ later' = later
    <3>1. work' \in Reg!Work /\ work'.obj = work.obj
      BY <2>1, <2>5 DEF Reg!Work
    <3>2. work' # None
      BY <3>1 DEF Reg!RegistryConstants
    <3> QED BY <2>2, <2>3, <2>5, <3>1, <3>2 DEF PollInv, Reg!TypeOK, CacheCopies, Polled, Working
  <2> QED BY <2>1, <2>4, <2>5
<1>2. CASE Reg!UpdateStatus
  <2>1. work \in Reg!Work /\ work.status \in Reg!Statuses
    BY <1>2 DEF Reg!UpdateStatus, PollInv, Reg!TypeOK, Reg!Work
  <2>2. work' = None /\ later' = later \cup {work.obj} /\ UNCHANGED <<cache, queue, reg, up, edits>>
    BY <1>2 DEF Reg!UpdateStatus, Reg!Requeue
  <2>3. \/ UNCHANGED <<objs, changed>>
        \/ /\ objs[work.obj] = work.mod
           /\ objs' = [objs EXCEPT ![work.obj].status = work.status]
           /\ changed' = changed \cup {work.obj}
    BY <1>2 DEF Reg!UpdateStatus
  <2>4. objs' \in [Objects -> Reg!Module \cup {None}] /\ changed' \subseteq Objects
    BY <2>1, <2>3 DEF PollInv, Reg!TypeOK, Reg!Work, Reg!Module
  <2>5. CacheCopies'
    BY <2>1, <2>2, <2>3 DEF PollInv, Reg!TypeOK, CacheCopies
  <2>6. Polled'
    BY <2>2 DEF PollInv, Polled, Working
  <2>7. Reg!TypeOK'
    BY <2>1, <2>2, <2>4 DEF PollInv, Reg!TypeOK, Reg!Work
  <2> QED BY <2>5, <2>6, <2>7 DEF PollInv
<1> QED BY <1>1, <1>2 DEF Reg!Reconcile

\* No step loses sight of an object.
LEMMA NextPolls ==
  ASSUME Reg!RegistryConstants, PollInv, [Reg!Next]_(Reg!vars)
  PROVE  PollInv'
<1>1. CASE UNCHANGED Reg!vars
  BY <1>1 DEF Reg!vars, PollInv, Reg!TypeOK, CacheCopies, Polled, Working
<1>2. CASE Reg!Next
  BY <1>2, ClusterPolls, QueuesPoll, FetchPolls, ReconcilePolls DEF Reg!Next
<1> QED BY <1>1, <1>2

\* What the informer delivers is known by its name, and queued.
LEMMA WatchKeepsNames ==
  ASSUME PollInv, NameInv, Reg!NamedAfterId, NEW o \in Objects, Reg!Watch(o)
  PROVE  NameInv'
<1>1. cache' = [cache EXCEPT ![o] = objs[o]] /\ queue' = queue \cup {o} /\ UNCHANGED <<work, reg>>
  BY DEF Reg!Watch
<1>2. WorkCurrent' /\ EnteredFirst'
  BY <1>1 DEF NameInv, WorkCurrent, EnteredFirst, PollInv, Reg!TypeOK
<1>3. KnownByName'
  BY <1>1 DEF NameInv, KnownByName, Reg!NamedAfterId, PollInv, Reg!TypeOK
<1>4. EntersKnown'
  BY <1>1 DEF NameInv, EntersKnown, Working, Agree, PollInv, Reg!TypeOK
<1> QED BY <1>2, <1>3, <1>4 DEF NameInv

\* An object that is gone takes its own entry with it, one that is there goes to work.
LEMMA FetchKeepsNames ==
  ASSUME Reg!RegistryConstants, Reg!OneNameEach, PollInv, NameInv, NEW o \in Objects, Reg!Fetch(o)
  PROVE  NameInv'
<1>1. work = None /\ queue' = queue \ {o} /\ UNCHANGED cache /\ NameOf[o] \in Ids
  BY DEF Reg!Fetch, Reg!RegistryConstants
<1>2. CASE cache[o] = None
  <2>1. reg' = [reg EXCEPT ![NameOf[o]] = None] /\ UNCHANGED work
    BY <1>2 DEF Reg!Fetch, Reg!Delete
  <2>2. \A p \in Objects \ {o} : reg'[NameOf[p]] = reg[NameOf[p]]
    BY <2>1 DEF Reg!OneNameEach, PollInv, Reg!TypeOK, Reg!RegistryConstants
  <2>3. reg'[NameOf[o]] = None
    BY <1>1, <2>1 DEF PollInv, Reg!TypeOK
  <2>4. WorkCurrent' /\ EnteredFirst' /\ KnownByName'
    BY <1>1, <2>1 DEF NameInv, WorkCurrent, EnteredFirst, KnownByName, PollInv, Reg!TypeOK
  <2>5. EntersKnown'
    BY <1>1, <1>2, <2>1, <2>2, <2>3 DEF NameInv, EntersKnown, Working, Agree
  <2> QED BY <2>4, <2>5 DEF NameInv
<1>3. CASE cache[o] # None
  <2>1. work' = [obj |-> o, mod |-> cache[o], status |-> None] /\ work' # None
    BY <1>3, WorkBegins
  <2>2. UNCHANGED reg
    BY <1>3 DEF Reg!Fetch
  <2>3. WorkCurrent' /\ EnteredFirst'
    BY <1>1, <2>1 DEF WorkCurrent, EnteredFirst
  <2>4. KnownByName'
    BY <1>1, <1>3, <2>1, <2>2 DEF NameInv, KnownByName
  <2>5. EntersKnown'
    BY <1>1, <2>1, <2>2 DEF NameInv, EntersKnown, Working, Agree
  <2> QED BY <2>3, <2>4, <2>5 DEF NameInv
<1> QED BY <1>2, <1>3

\* A reconcile enters its object under its own name, and no other.
LEMMA CheckKeepsNames ==
  ASSUME Reg!RegistryConstants, Reg!OneNameEach, PollInv, NameInv, Reg!CheckHealth
  PROVE  NameInv'
<1>1. PICK status \in Reg!Statuses :
         /\ work \in Reg!Work
         /\ reg' = [reg EXCEPT ![work.mod.spec.id] = [spec |-> work.mod.spec, status |-> status]]
         /\ [spec |-> work.mod.spec, status |-> status] \in Reg!Entry \ {None}
         /\ \/ work' = [work EXCEPT !.status = status] /\ later' = later
            \/ work' = None /\ later' = later \cup {work.obj}
  BY HealthChecked
<1>2. UNCHANGED <<cache, queue>> /\ work # None /\ work.obj \in Objects /\ NameOf[work.obj] \in Ids
  BY <1>1 DEF Reg!CheckHealth, Reg!Work, Reg!RegistryConstants
<1>3. work.mod.spec.id = NameOf[work.obj]
  BY <1>2 DEF NameInv, KnownByName
<1>4. /\ reg'[NameOf[work.obj]] # None
      /\ reg'[NameOf[work.obj]].spec = work.mod.spec
      /\ \A i \in Ids \ {NameOf[work.obj]} : reg'[i] = reg[i]
  BY <1>1, <1>2, <1>3 DEF PollInv, Reg!TypeOK
<1>5. \A p \in Objects \ {work.obj} : NameOf[p] \in Ids \ {NameOf[work.obj]}
  BY <1>2 DEF Reg!OneNameEach, Reg!RegistryConstants
<1>6. work' # None => work'.obj = work.obj /\ work'.mod = work.mod
  BY <1>1 DEF Reg!Work
<1>7. WorkCurrent' /\ EnteredFirst'
  BY <1>2, <1>4, <1>6 DEF NameInv, WorkCurrent, EnteredFirst
<1>8. KnownByName'
  BY <1>2, <1>3, <1>4, <1>6 DEF NameInv, KnownByName
<1>9. work.obj \in queue \/ work.mod = cache[work.obj]
  BY <1>2 DEF NameInv, WorkCurrent
<1>10. work.mod # None
  BY <1>1 DEF Reg!Work, Reg!RegistryConstants
<1>11. EntersKnown'
  <2> SUFFICES ASSUME NEW o \in Objects
               PROVE  o \in queue' \/ Working(o)' \/ Agree(reg[NameOf[o]], cache[o])'
    BY DEF EntersKnown
  <2>1. CASE o = work.obj
    BY <1>2, <1>4, <1>9, <1>10, <2>1 DEF Agree
  <2>2. CASE o # work.obj
    <3>1. reg'[NameOf[o]] = reg[NameOf[o]]
      BY <1>4, <1>5, <2>2
    <3> QED BY <1>2, <2>2, <3>1 DEF NameInv, EntersKnown, Working, Agree
  <2> QED BY <2>1, <2>2
<1> QED BY <1>7, <1>8, <1>11 DEF NameInv

\* Writing the status leaves the entry that was made before it.
LEMMA UpdateKeepsNames ==
  ASSUME Reg!RegistryConstants, PollInv, NameInv, Reg!UpdateStatus
  PROVE  NameInv'
<1>1. work \in Reg!Work /\ work # None /\ work.status # None
  BY DEF Reg!UpdateStatus, PollInv, Reg!TypeOK
<1>2. work' = None /\ UNCHANGED <<cache, queue, reg>>
  BY DEF Reg!UpdateStatus, Reg!Requeue
<1>3. WorkCurrent' /\ EnteredFirst' /\ KnownByName'
  BY <1>2 DEF NameInv, WorkCurrent, EnteredFirst, KnownByName
<1>4. work.obj \in queue \/ work.mod = cache[work.obj]
  BY <1>1 DEF NameInv, WorkCurrent
<1>5. work.mod # None
  BY <1>1 DEF Reg!Work, Reg!RegistryConstants
<1>6. reg[NameOf[work.obj]] # None /\ reg[NameOf[work.obj]].spec = work.mod.spec
  BY <1>1 DEF NameInv, EnteredFirst
<1>7. EntersKnown'
  BY <1>2, <1>4, <1>5, <1>6 DEF NameInv, EntersKnown, Working, Agree
<1> QED BY <1>3, <1>7 DEF NameInv

\* As long as charts name their objects after their modules, no step parts the
\* registry from what is known.
LEMMA NextKeepsNames ==
  ASSUME Reg!RegistryConstants, Reg!OneNameEach, PollInv, NameInv, Reg!NamedAfterId,
         [Reg!Next]_(Reg!vars)
  PROVE  NameInv'
<1>1. CASE UNCHANGED <<cache, queue, work, reg>>
  BY <1>1 DEF NameInv, WorkCurrent, KnownByName, EnteredFirst, EntersKnown, Working, Agree
<1>2. ASSUME NEW o \in Objects, Reg!Timer(o) PROVE NameInv'
  <2>1. UNCHANGED <<cache, work, reg>> /\ queue' = queue \cup {o}
    BY <1>2 DEF Reg!Timer
  <2> QED BY <2>1 DEF NameInv, WorkCurrent, KnownByName, EnteredFirst, EntersKnown, Working, Agree
<1>3. ASSUME NEW o \in Objects,
             (\E spec \in Manifests \cup {None} : Reg!Edit(o, spec)) \/ Reg!HealthChanges(o)
      PROVE  NameInv'
  BY <1>1, <1>3, ClusterPolls
<1>4. CASE UNCHANGED Reg!vars
  BY <1>1, <1>4 DEF Reg!vars
<1>5. CASE Reg!Next
  BY <1>2, <1>3, <1>5, WatchKeepsNames, FetchKeepsNames, CheckKeepsNames, UpdateKeepsNames
     DEF Reg!Next, Reg!Reconcile
<1> QED BY <1>4, <1>5

\* Reconcile ends with RequeueAfter or an error: for any number of objects, however
\* they are named, no installed module is out of sight of the watch, the queue, the
\* timers and the worker, so that its health goes on being polled.
THEOREM NothingIsForgotten ==
  ASSUME Reg!RegistryConstants
  PROVE  Reg!Spec => [](\A o \in Objects : objs[o] # None => Reg!UnderWay(o) \/ o \in later)
<1>1. Reg!Init => PollInv
  BY PollInit
<1>2. PollInv /\ [Reg!Next]_(Reg!vars) => PollInv'
  BY NextPolls
<1>3. PollInv => \A o \in Objects : objs[o] # None => Reg!UnderWay(o) \/ o \in later
  BY DEF PollInv, CacheCopies, Polled, Working, Reg!UnderWay
<1> QED BY <1>1, <1>2, <1>3, PTL DEF Reg!Spec

\* Names, once right, and the names' invariant: the step for PTL.
LEMMA NamedInvariance ==
  ASSUME Reg!RegistryConstants, Reg!OneNameEach
  PROVE  Reg!Spec /\ []Reg!NamedAfterId => [](PollInv /\ NameInv)
<1>1. Reg!Init => PollInv /\ NameInv
  BY PollInit
<1>2. PollInv /\ NameInv /\ Reg!NamedAfterId /\ [Reg!Next]_(Reg!vars) => (PollInv /\ NameInv)'
  BY NextPolls, NextKeepsNames
<1> QED BY <1>1, <1>2, PTL DEF Reg!Spec

\* What the invariant says of an object nobody is busy with.
LEMMA IdleIsListed ==
  ASSUME PollInv, NameInv, NEW o \in Objects, ~Reg!UnderWay(o)
  PROVE  Reg!Lists(o) /\ (objs[o] # None => o \in later)
<1>1. o \notin changed /\ o \notin queue /\ ~Working(o)
  BY DEF Reg!UnderWay, Working
<1>2. cache[o] = objs[o]
  BY <1>1 DEF PollInv, CacheCopies
<1> QED BY <1>1, <1>2 DEF NameInv, EntersKnown, Agree, Reg!Lists, PollInv, Polled

\* "the in-memory registry ... is already correct": the property of the registry's run,
\* for any objects, ids and manifests.
THEOREM RegistryCorrect ==
  ASSUME Reg!RegistryConstants
  PROVE  Reg!Spec => Reg!RegistryIsCorrect
<1>1. PollInv /\ NameInv =>
        \A o \in Objects : ~Reg!UnderWay(o) => Reg!Lists(o) /\ (objs[o] # None => o \in later)
  BY IdleIsListed
<1>2. Reg!OneNameEach => (Reg!Spec /\ []Reg!NamedAfterId => [](PollInv /\ NameInv))
  BY NamedInvariance
<1> QED BY <1>1, <1>2, PTL DEF Reg!RegistryIsCorrect

\* findProvider: whenever no object is under way, the broker's choice is already the one
\* RoutesToSoleProvider says it comes to.
THEOREM IdleRegistryRoutes ==
  ASSUME Reg!RegistryConstants, Reg!OneNameEach
  PROVE  Reg!Spec /\ []Reg!NamedAfterId =>
           []((\A o \in Objects : ~Reg!UnderWay(o)) => Reg!Routed)
<1>1. PollInv /\ NameInv /\ Reg!NamedAfterId =>
        ((\A o \in Objects : ~Reg!UnderWay(o)) => Reg!Routed)
  <2> SUFFICES ASSUME PollInv, NameInv, Reg!NamedAfterId, \A o \in Objects : ~Reg!UnderWay(o),
                      NEW kind \in Kinds
               PROVE  IF \E i \in Ids : Reg!Declaring(kind) = {i}
                      THEN Reg!Declaring(kind) = {Reg!FindProvider(kind)}
                      ELSE Reg!FindProvider(kind) = None
    BY DEF Reg!Routed
  <2>1. \A o \in Objects : Reg!Lists(o)
    BY IdleIsListed
  <2>2. ASSUME NEW i \in Reg!Providers(kind) PROVE i \in Reg!Declaring(kind)
    <3>1. i \in Ids /\ reg[i] # None /\ kind \in reg[i].spec.kinds
      BY <2>2 DEF Reg!Providers
    <3>2. PICK o \in Objects : NameOf[o] = i
      BY <3>1 DEF NameInv, KnownByName
    <3>3. objs[o] # None /\ reg[i].spec = objs[o].spec
      BY <2>1, <3>1, <3>2 DEF Reg!Lists
    <3>4. o \in Reg!Installed(i)
      BY <3>2, <3>3 DEF Reg!Installed, Reg!NamedAfterId
    <3> QED BY <3>1, <3>3, <3>4 DEF Reg!Declaring
  <2>3. ASSUME NEW i \in Reg!Declaring(kind) PROVE i \in Reg!Providers(kind)
    <3>1. i \in Ids /\ \E o \in Reg!Installed(i) : kind \in objs[o].spec.kinds
      BY <2>3 DEF Reg!Declaring
    <3>2. PICK o \in Objects : objs[o] # None /\ objs[o].spec.id = i /\ kind \in objs[o].spec.kinds
      BY <3>1 DEF Reg!Installed
    <3>3. NameOf[o] = i
      BY <3>2 DEF Reg!NamedAfterId
    <3> QED BY <2>1, <3>1, <3>2, <3>3 DEF Reg!Lists, Reg!Providers
  <2>4. Reg!Providers(kind) = Reg!Declaring(kind)
    BY <2>2, <2>3
  <2>5. CASE \E i \in Ids : Reg!Providers(kind) = {i}
    <3>1. Reg!FindProvider(kind) \in Reg!Providers(kind)
      BY <2>5 DEF Reg!FindProvider
    <3> QED BY <2>4, <2>5, <3>1
  <2>6. CASE ~ \E i \in Ids : Reg!Providers(kind) = {i}
    BY <2>4, <2>6 DEF Reg!FindProvider
  <2> QED BY <2>5, <2>6
<1> QED BY <1>1, NamedInvariance, PTL
=============================================================================
