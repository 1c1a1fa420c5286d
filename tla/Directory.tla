------------------------------ MODULE Directory ------------------------------
(***************************************************************************)
(* The user directory and the workload tokens minted from it: the Recorder *)
(* that every authenticated request passes through (directory/recorder.go),*)
(* the in-memory store a replica starts on, the PostgreSQL store all       *)
(* replicas share, the swap between the two, and the owner lookup of       *)
(* workload.Service.Mint.                                                  *)
(*                                                                         *)
(* One user and one workspace: the directory and the Recorder are keyed by *)
(* the user, and a mint asks about one workspace. Time is kept as ages,    *)
(* each capped just past the largest value anything compares it with.      *)
(***************************************************************************)
EXTENDS Roles

CONSTANTS
  Replicas,       \* core replicas
  Observers,      \* requests of the user that are in Recorder.Observe at once
  Tokens,         \* the user's tokens: their memberships in the workspace
  Interval,       \* Recorder.Interval
  RecordTimeout,  \* recordTimeout
  MaxOwnerAge     \* Options.MaxOwnerAge

ASSUME DirectoryConstants ==
  /\ Interval \in Nat \ {0}
  /\ RecordTimeout \in Nat
  /\ MaxOwnerAge \in Nat
  /\ Tokens \subseteq Seq(Roles)
  /\ Replicas # {}

VARIABLES
  top,       \* the most privileged role the user's unexpired tokens carry
  shown,     \* history: for each role, the time since a request acted with it
             \* or with a more privileged one
  cur,       \* Switchable.cur of each replica
  mem,       \* the replica's in-memory store: the user's role and last-seen age
  pg,        \* the shared PostgreSQL store
  swapping,  \* persistCoreDatabase is between Swap and Reset
  seen,      \* Recorder.seen: fingerprint and age, Interval once it is of no use,
             \* and as history the store the write behind it went into
  obs        \* each Observe: where it is, its replica, its role, its now's age,
             \* and the store it wrote

vars == <<top, shown, cur, mem, pg, swapping, seen, obs>>

\* The longest a record may lag the request that wrote it, and the longest a
\* debounced record may stand.
MintWindow == MaxOwnerAge + RecordTimeout
HealWindow == Interval + RecordTimeout

Horizon == IF MintWindow > HealWindow THEN MintWindow + 1 ELSE HealWindow + 1

NoRecord == [role |-> NoRole, age |-> MaxOwnerAge + 1]
NotSeen  == [role |-> NoRole, age |-> Interval, into |-> "none"]

Stores == {"memory", "postgres"}

Records == [role : AnyRole, age : 0 .. MaxOwnerAge + 1]
Marks   == [role : AnyRole, age : 0 .. Interval, into : Stores \cup {"none"}]
Calls   == [pc : {"idle", "write", "mark"}, rep : Replicas, role : AnyRole,
            age : 0 .. RecordTimeout, into : Stores \cup {"none"}]

TypeOK ==
  /\ top \in AnyRole
  /\ shown \in [Roles -> 0 .. Horizon]
  /\ cur \in [Replicas -> Stores]
  /\ mem \in [Replicas -> Records]
  /\ pg \in Records
  /\ swapping \in [Replicas -> BOOLEAN]
  /\ seen \in [Replicas -> Marks]
  /\ obs \in [Observers -> Calls]

Idle == [pc |-> "idle", rep |-> CHOOSE r \in Replicas : TRUE, role |-> NoRole, age |-> 0,
         into |-> "none"]

\* The roles the user's tokens act with.
Shows == {RoleFor(t) : t \in Tokens}

\* PostgreSQL holds what an earlier run of core recorded, if anything; that
\* user had then acted with a role at least as privileged.
Init ==
  /\ top \in Shows
  /\ \E r \in Shows, a \in 0 .. MaxOwnerAge :
       /\ pg = IF r = NoRole THEN NoRecord ELSE [role |-> r, age |-> a]
       /\ shown = [s \in Roles |-> IF RoleRank(s) <= RoleRank(r) THEN a ELSE Horizon]
  /\ cur = [r \in Replicas |-> "memory"]
  /\ mem = [r \in Replicas |-> NoRecord]
  /\ swapping = [r \in Replicas |-> FALSE]
  /\ seen = [r \in Replicas |-> NotSeen]
  /\ obs = [o \in Observers |-> Idle]

Store(r) == IF cur[r] = "memory" THEN mem[r] ELSE pg

----------------------------------------------------------------------------
(* The user, and time.                                                     *)

\* The IdP's groups change and tokens are issued and expire.
TokensChange ==
  /\ top' \in Shows \ {top}
  /\ UNCHANGED <<shown, cur, mem, pg, swapping, seen, obs>>

Older(age, cap) == IF age < cap THEN age + 1 ELSE age

Aged(rec, cap) == [rec EXCEPT !.age = Older(@, cap)]

\* Mutant: an unchanged identity is never written again.
SeenAgedNever(s) == s

SeenAged(s) == IF s.age + 1 >= Interval THEN NotSeen ELSE [s EXCEPT !.age = @ + 1]

\* An upsert is given up at recordTimeout, and returning takes no time.
Tick ==
  /\ \A o \in Observers : obs[o].pc # "idle" => obs[o].age < RecordTimeout
  /\ shown' = [s \in Roles |-> Older(shown[s], Horizon)]
  /\ mem' = [r \in Replicas |-> Aged(mem[r], MaxOwnerAge + 1)]
  /\ pg' = Aged(pg, MaxOwnerAge + 1)
  /\ seen' = [r \in Replicas |-> SeenAged(seen[r])]
  /\ obs' = [o \in Observers |-> IF obs[o].pc = "idle" THEN obs[o] ELSE Aged(obs[o], RecordTimeout)]
  /\ UNCHANGED <<top, cur, swapping>>

----------------------------------------------------------------------------
(* Recorder.Observe.                                                       *)

\* The same fingerprint was recorded less than Interval ago.
Debounced(r, role) == seen[r].age < Interval /\ seen[r].role = role

\* A request whose token verified, up to the unlock after the debounce check; a
\* debounced one is done.
Check(o, r, t) ==
  /\ obs[o].pc = "idle"
  /\ RoleRank(RoleFor(t)) <= RoleRank(top)
  /\ shown' = [s \in Roles |-> IF RoleRank(s) <= RoleRank(RoleFor(t)) THEN 0 ELSE shown[s]]
  /\ obs' = IF Debounced(r, RolesOf(t)) THEN obs
            ELSE [obs EXCEPT ![o] = [pc |-> "write", rep |-> r, role |-> RolesOf(t),
                                     age |-> 0, into |-> "none"]]
  /\ UNCHANGED <<top, cur, mem, pg, swapping, seen>>

\* Mutants: a write that can only raise the recorded role, and one that leaves
\* last_seen_at at the zero time.
UpsertRaising(r, role) ==
  LET rec == [role |-> IF RoleRank(role) > RoleRank(Store(r).role) THEN role ELSE Store(r).role,
              age |-> 0]
  IN  IF cur[r] = "memory"
      THEN mem' = [mem EXCEPT ![r] = rec] /\ UNCHANGED pg
      ELSE pg' = rec /\ UNCHANGED mem

\* Switchable.Upsert on the store of the moment: role and last_seen_at are
\* overwritten whatever was there.
Upsert(r, role) ==
  LET rec == [role |-> role, age |-> 0]
  IN  IF cur[r] = "memory"
      THEN mem' = [mem EXCEPT ![r] = rec] /\ UNCHANGED pg
      ELSE pg' = rec /\ UNCHANGED mem

Write(o) ==
  /\ obs[o].pc = "write"
  /\ Upsert(obs[o].rep, obs[o].role)
  /\ obs' = [obs EXCEPT ![o].pc = "mark", ![o].into = cur[obs[o].rep]]
  /\ UNCHANGED <<top, shown, cur, swapping, seen>>

\* The upsert failed or timed out; PostgreSQL may have applied it all the same.
WriteFails(o) ==
  /\ obs[o].pc = "write"
  /\ \/ UNCHANGED <<mem, pg>>
     \/ cur[obs[o].rep] = "postgres" /\ Upsert(obs[o].rep, obs[o].role)
  /\ obs' = [obs EXCEPT ![o] = Idle]
  /\ UNCHANGED <<top, shown, cur, swapping, seen>>

\* The identity is remembered as of the time the check was made.
Mark(o) ==
  /\ obs[o].pc = "mark"
  /\ seen' = [seen EXCEPT ![obs[o].rep] =
       IF obs[o].age >= Interval THEN NotSeen ELSE [role |-> obs[o].role, age |-> obs[o].age,
                                                  into |-> obs[o].into]]
  /\ obs' = [obs EXCEPT ![o] = Idle]
  /\ UNCHANGED <<top, shown, cur, mem, pg, swapping>>

----------------------------------------------------------------------------
(* persistCoreDatabase, and a replica's restart.                           *)

Swap(r) ==
  /\ cur[r] = "memory"
  /\ cur' = [cur EXCEPT ![r] = "postgres"]
  /\ mem' = [mem EXCEPT ![r] = NoRecord]
  /\ swapping' = [swapping EXCEPT ![r] = TRUE]
  /\ UNCHANGED <<top, shown, pg, seen, obs>>

Reset(r) ==
  /\ swapping[r]
  /\ swapping' = [swapping EXCEPT ![r] = FALSE]
  /\ seen' = [seen EXCEPT ![r] = NotSeen]
  /\ UNCHANGED <<top, shown, cur, mem, pg, obs>>

\* The process ends and starts over; an upsert it had sent may still land.
Restart(r) ==
  /\ cur' = [cur EXCEPT ![r] = "memory"]
  /\ mem' = [mem EXCEPT ![r] = NoRecord]
  /\ swapping' = [swapping EXCEPT ![r] = FALSE]
  /\ seen' = [seen EXCEPT ![r] = NotSeen]
  /\ obs' = [o \in Observers |-> IF obs[o].rep = r THEN Idle ELSE obs[o]]
  /\ \/ UNCHANGED pg
     \/ \E o \in Observers : /\ obs[o].pc = "write" /\ obs[o].rep = r /\ cur[r] = "postgres"
                             /\ pg' = [role |-> obs[o].role, age |-> 0]
  /\ UNCHANGED <<top, shown>>

ObserveStep(o) == Write(o) \/ WriteFails(o) \/ Mark(o)

Next ==
  \/ TokensChange
  \/ Tick
  \/ \E o \in Observers, r \in Replicas, t \in Tokens : Check(o, r, t)
  \/ \E o \in Observers : ObserveStep(o)
  \/ \E r \in Replicas : Swap(r) \/ Reset(r) \/ Restart(r)

\* Time never stops for good, and an Observe that was begun ends. Nothing obliges
\* the user to make requests or an upsert to succeed.
Spec ==
  /\ Init
  /\ [][Next]_vars
  /\ WF_vars(Tick)
  /\ \A o \in Observers : WF_vars(ObserveStep(o))

----------------------------------------------------------------------------
(* workload.Service.Mint.                                                  *)

\* ownerRole: found in the workspace, seen within MaxOwnerAge; "" is a refusal.
OwnerRole(r) == IF Store(r).age > MaxOwnerAge THEN NoRole ELSE Store(r).role

MintedRole(r, ceiling) == LesserRole(ceiling, OwnerRole(r))

----------------------------------------------------------------------------
(* Properties.                                                             *)

\* ADR 0056, ownerRole's comment: whatever replica mints, whatever raced, the
\* token's role is within its ceiling and is one the owner really acted with in
\* a request no longer ago than MaxOwnerAge and the time a record may take.
MintBacked ==
  \A r \in Replicas, ceiling \in Roles :
    LET m == MintedRole(r, ceiling)
    IN  m # NoRole => /\ RoleRank(m) <= RoleRank(ceiling)
                  /\ shown[m] <= MintWindow

\* What the debounce of Observe costs: a request is let go without a write while
\* the directory still holds a higher role only for a bounded time after the
\* user last acted with such a role (if what it rests on went into this store).
StaleRoleHeals ==
  \A r \in Replicas, t \in Tokens :
    /\ Debounced(r, RolesOf(t))
    /\ RoleRank(Store(r).role) > RoleRank(RolesOf(t))
    /\ seen[r].into = cur[r]
    => shown[Store(r).role] <= HealWindow

\* "A demoted owner's next mint comes out lower, a removed owner's is refused"
\* (Mint): once no unexpired token carries more than a role, mints come down to
\* it, whether or not the user shows up again and whatever writes fail.
DemotionTakesEffect ==
  \A k \in 0 .. 2 :
    <>[](RoleRank(top) <= k) => <>[](\A r \in Replicas : RoleRank(OwnerRole(r)) <= k)

\* fingerprint: "a demotion is written immediately rather than waiting out the
\* debounce interval" - with no request or swap under way, a request is never
\* let go without a write while the directory holds a higher role than its own.
\* It does not hold: README, Findings.
DemotionWritten ==
  \A r \in Replicas, t \in Tokens :
    /\ Debounced(r, RolesOf(t))
    /\ ~swapping[r]
    /\ \A o \in Observers : obs[o].pc = "idle"
    => RoleRank(Store(r).role) <= RoleRank(RolesOf(t))

=============================================================================
