--------------------------- MODULE DirectoryProofs ---------------------------
(***************************************************************************)
(* For any number of replicas and requests in flight and any windows, what *)
(* the directory holds, and what a debounced request leaves standing, was  *)
(* shown by the user within the stated time.                               *)
(***************************************************************************)
EXTENDS Directory, TLAPS

----------------------------------------------------------------------------
(* The inductive invariant.                                                *)

\* A more privileged role was shown no later than a lesser one.
ShownMonotone ==
  \A s, t \in Roles : RoleRank(s) <= RoleRank(t) => shown[s] <= shown[t]

\* A request in Observe acted with its role when it was checked.
ObsBacked ==
  \A o \in Observers :
    obs[o].pc # "idle" /\ obs[o].role \in Roles => shown[obs[o].role] <= obs[o].age

\* What a record says was shown at most one Observe before the record's time.
Backed(rec) ==
  rec.role \in Roles /\ rec.age <= MaxOwnerAge => shown[rec.role] <= rec.age + RecordTimeout

RecordsBacked == Backed(pg) /\ \A r \in Replicas : Backed(mem[r])

\* Restart forgets what went into PostgreSQL before.
IntoCurrent ==
  \A r \in Replicas : cur[r] = "memory" =>
    /\ seen[r].into # "postgres"
    /\ \A o \in Observers : obs[o].rep = r => obs[o].into # "postgres"

\* A higher role in the store came in after the write that a mark rests on.
Overtaken(r, role, age) ==
  Store(r).role \in Roles /\ RoleRank(Store(r).role) > RoleRank(role)
    => shown[Store(r).role] <= age + RecordTimeout

SeenOvertaken ==
  \A r \in Replicas : seen[r].into = cur[r] => Overtaken(r, seen[r].role, seen[r].age)

MarkOvertaken ==
  \A o \in Observers :
    obs[o].pc = "mark" /\ obs[o].into = cur[obs[o].rep]
      => Overtaken(obs[o].rep, obs[o].role, obs[o].age)

IInv ==
  /\ TypeOK
  /\ ShownMonotone
  /\ ObsBacked
  /\ RecordsBacked
  /\ IntoCurrent
  /\ SeenOvertaken
  /\ MarkOvertaken

----------------------------------------------------------------------------
(* Roles, and the windows.                                                 *)

\* RoleRank of the three roles and of "".
LEMMA Ranks ==
  /\ RoleRank("viewer") = 1 /\ RoleRank("editor") = 2 /\ RoleRank("owner") = 3
  /\ RoleRank(NoRole) = 0
  /\ \A r \in AnyRole : RoleRank(r) \in 0 .. 3
  /\ \A r \in AnyRole : r \in Roles <=> RoleRank(r) > 0
BY DEF RoleRank, AnyRole, Roles, NoRole

\* RoleFor and RolesOf of a token: the recorded role is no more privileged than
\* the one the request acts with.
LEMMA TokenRoles ==
  ASSUME NEW m \in Seq(Roles)
  PROVE  /\ RoleFor(m) \in AnyRole
         /\ RolesOf(m) \in AnyRole
         /\ RoleRank(RolesOf(m)) <= RoleRank(RoleFor(m))
<1>1. CASE m = << >>
  <2>1. RoleFor(m) = NoRole /\ RolesOf(m) = NoRole
    BY <1>1 DEF RoleFor, RolesOf
  <2> QED BY <2>1, Ranks DEF AnyRole
<1>2. CASE m # << >>
  <2> DEFINE listed == {m[i] : i \in 1 .. Len(m)}
             Least(r) == \A s \in listed : RoleRank(r) <= RoleRank(s)
  <2>1. 1 \in 1 .. Len(m) /\ m[1] \in listed /\ listed \subseteq Roles
    BY <1>2
  <2>2. \E r \in listed : Least(r)
    <3>1. CASE "viewer" \in listed
      BY <3>1, <2>1, Ranks DEF Roles, AnyRole
    <3>2. CASE "viewer" \notin listed /\ "editor" \in listed
      BY <3>2, <2>1, Ranks DEF Roles, AnyRole
    <3>3. CASE "viewer" \notin listed /\ "editor" \notin listed
      BY <3>3, <2>1, Ranks DEF Roles, AnyRole
    <3> QED BY <3>1, <3>2, <3>3
  <2>3. RolesOf(m) = CHOOSE r \in listed : Least(r)
    BY <1>2 DEF RolesOf
  <2>4. RolesOf(m) \in listed /\ Least(RolesOf(m))
    BY <2>2, <2>3
  <2>5. RoleFor(m) = m[1]
    BY <1>2 DEF RoleFor
  <2> QED BY <2>1, <2>4, <2>5 DEF AnyRole
<1> QED BY <1>1, <1>2

\* The windows and the ages they cap.
LEMMA Windows ==
  /\ Interval \in Nat \ {0} /\ RecordTimeout \in Nat /\ MaxOwnerAge \in Nat
  /\ MintWindow = MaxOwnerAge + RecordTimeout
  /\ HealWindow = Interval + RecordTimeout
  /\ Horizon \in Nat /\ MintWindow < Horizon /\ HealWindow < Horizon
BY DirectoryConstants DEF MintWindow, HealWindow, Horizon

LEMMA ShowsTyped == Shows \subseteq AnyRole
BY DirectoryConstants, TokenRoles DEF Shows

\* Idle is a request of some replica.
LEMMA IdleTyped ==
  /\ Idle.rep \in Replicas
  /\ Idle = [pc |-> "idle", rep |-> Idle.rep, role |-> NoRole, age |-> 0, into |-> "none"]
BY DirectoryConstants DEF Idle

----------------------------------------------------------------------------
(* Initially.                                                              *)

\* What earlier runs of core left in PostgreSQL is backed.
LEMMA InitInv == Init => IInv
<1> SUFFICES ASSUME Init PROVE IInv
  OBVIOUS
<1> USE Windows, IdleTyped
<1>1. PICK r \in Shows, a \in 0 .. MaxOwnerAge :
        /\ pg = IF r = NoRole THEN NoRecord ELSE [role |-> r, age |-> a]
        /\ shown = [s \in Roles |-> IF RoleRank(s) <= RoleRank(r) THEN a ELSE Horizon]
  BY DEF Init
<1>2. r \in AnyRole /\ top \in AnyRole /\ NoRole \in AnyRole
  BY ShowsTyped DEF Init, AnyRole
<1>3. NoRecord \in Records /\ pg \in Records
  BY <1>1, <1>2 DEF NoRecord, Records
<1>4. shown \in [Roles -> 0 .. Horizon]
  BY <1>1
<1>5. TypeOK
  BY <1>2, <1>3, <1>4 DEF Init, TypeOK, Stores, NotSeen, Marks, Calls
<1>6. ShownMonotone
  BY <1>1, <1>2, Ranks DEF ShownMonotone, AnyRole
<1>7. RecordsBacked
  BY <1>1, <1>2, Ranks DEF Init, RecordsBacked, Backed, NoRecord
<1>8. ObsBacked /\ IntoCurrent /\ SeenOvertaken /\ MarkOvertaken
  BY DEF Init, ObsBacked, IntoCurrent, SeenOvertaken, MarkOvertaken, NotSeen
<1> QED BY <1>5, <1>6, <1>7, <1>8 DEF IInv

----------------------------------------------------------------------------
(* Each kind of step.                                                      *)

\* Upsert: a role shown within recordTimeout may be written over anything, and
\* whatever a mark rests on was at most overtaken by it.
LEMMA UpsertKeeps ==
  ASSUME IInv, NEW r \in Replicas, NEW role \in AnyRole,
         role \in Roles => shown[role] <= RecordTimeout,
         Upsert(r, role), UNCHANGED <<shown, cur>>
  PROVE  /\ mem' \in [Replicas -> Records] /\ pg' \in Records
         /\ RecordsBacked'
         /\ Store(r)'.role = role
         /\ \A q \in Replicas, low \in AnyRole, n \in Nat :
              Overtaken(q, low, n) => Overtaken(q, low, n)'
<1> USE Windows
<1> DEFINE rec == [role |-> role, age |-> 0]
<1>1. rec \in Records /\ Backed(rec) /\ Backed(rec)'
  BY DEF Records, Backed, IInv, TypeOK
<1>2. CASE cur[r] = "memory"
  <2>1. mem' = [mem EXCEPT ![r] = rec] /\ pg' = pg
    BY <1>2 DEF Upsert
  <2>2. mem' \in [Replicas -> Records] /\ pg' \in Records
    BY <2>1, <1>1 DEF IInv, TypeOK
  <2>3. RecordsBacked'
    BY <2>1, <1>1 DEF RecordsBacked, Backed, IInv, TypeOK
  <2>4. \A q \in Replicas : Store(q)' = IF q = r THEN rec ELSE Store(q)
    BY <2>1, <1>2 DEF Store, IInv, TypeOK
  <2> QED BY <2>2, <2>3, <2>4 DEF Overtaken, IInv, TypeOK
<1>3. CASE cur[r] # "memory"
  <2>1. pg' = rec /\ mem' = mem
    BY <1>3 DEF Upsert
  <2>2. mem' \in [Replicas -> Records] /\ pg' \in Records
    BY <2>1, <1>1 DEF IInv, TypeOK
  <2>3. RecordsBacked'
    BY <2>1, <1>1 DEF RecordsBacked, Backed, IInv, TypeOK
  <2>4. \A q \in Replicas : Store(q)' = IF cur[q] = "memory" THEN Store(q) ELSE rec
    BY <2>1, <1>3 DEF Store, IInv, TypeOK
  <2> QED BY <2>2, <2>3, <2>4, <1>3 DEF Overtaken, IInv, TypeOK
<1> QED BY <1>2, <1>3

\* TokensChange.
LEMMA TokensChangeKeeps == IInv /\ TokensChange => IInv'
BY ShowsTyped DEF IInv, TokensChange, TypeOK, ShownMonotone, ObsBacked, RecordsBacked, Backed,
   IntoCurrent, SeenOvertaken, MarkOvertaken, Overtaken, Store

\* Tick: nothing is remembered as newer than it is.
LEMMA TickKeeps == IInv /\ Tick => IInv'
<1> SUFFICES ASSUME IInv, Tick PROVE IInv'
  OBVIOUS
<1> USE Windows
<1>1. /\ shown' \in [Roles -> 0 .. Horizon]
      /\ \A s \in Roles : shown'[s] \in Nat /\ shown[s] \in Nat /\ shown'[s] <= shown[s] + 1
      /\ \A s \in Roles : shown'[s] = IF shown[s] < Horizon THEN shown[s] + 1 ELSE shown[s]
  BY DEF Tick, Older, IInv, TypeOK
<1>2. \A rec \in Records : /\ Aged(rec, MaxOwnerAge + 1) \in Records
                           /\ Aged(rec, MaxOwnerAge + 1).role = rec.role
                           /\ Aged(rec, MaxOwnerAge + 1).age <= MaxOwnerAge
                                => Aged(rec, MaxOwnerAge + 1).age = rec.age + 1
  BY DEF Aged, Older, Records
<1>3. /\ pg' \in Records /\ pg'.role = pg.role
      /\ pg'.age <= MaxOwnerAge => pg'.age = pg.age + 1
      /\ mem' \in [Replicas -> Records]
  BY <1>2 DEF Tick, IInv, TypeOK
<1>4. ASSUME NEW r \in Replicas
      PROVE  /\ mem'[r] \in Records /\ mem'[r].role = mem[r].role
             /\ mem'[r].age <= MaxOwnerAge => mem'[r].age = mem[r].age + 1
  <2>1. mem[r] \in Records /\ mem'[r] = Aged(mem[r], MaxOwnerAge + 1)
    BY DEF Tick, IInv, TypeOK
  <2> QED BY <2>1, <1>2
<1>5. \A m \in Marks : /\ SeenAged(m) \in Marks
                       /\ \/ SeenAged(m) = NotSeen
                          \/ /\ SeenAged(m).role = m.role /\ SeenAged(m).age = m.age + 1
                             /\ SeenAged(m).into = m.into
  BY DEF SeenAged, Marks, NotSeen, AnyRole
<1>6. /\ seen' \in [Replicas -> Marks]
      /\ \A r \in Replicas :
           \/ seen'[r] = NotSeen
           \/ seen'[r].role = seen[r].role /\ seen'[r].age = seen[r].age + 1
              /\ seen'[r].into = seen[r].into
  BY <1>5 DEF Tick, IInv, TypeOK
<1>7. \A c \in Calls : c.age < RecordTimeout =>
        /\ Aged(c, RecordTimeout) \in Calls
        /\ Aged(c, RecordTimeout) = [c EXCEPT !.age = @ + 1]
  BY DEF Aged, Older, Calls
<1>8. \A o \in Observers : /\ obs'[o] \in Calls
                           /\ \/ obs[o].pc = "idle" /\ obs'[o] = obs[o]
                              \/ obs'[o] = [obs[o] EXCEPT !.age = @ + 1]
  BY <1>7 DEF Tick, IInv, TypeOK
<1>9. /\ obs' \in [Observers -> Calls]
      /\ \A o \in Observers :
           /\ obs'[o].pc = obs[o].pc /\ obs'[o].rep = obs[o].rep /\ obs'[o].role = obs[o].role
           /\ obs'[o].into = obs[o].into
           /\ obs[o].pc # "idle" => obs'[o].age = obs[o].age + 1
  <2>1. obs' \in [Observers -> Calls]
    BY <1>8 DEF Tick
  <2>2. \A o \in Observers : obs[o] \in Calls
    BY DEF IInv, TypeOK
  <2> QED BY <2>1, <2>2, <1>8 DEF Calls
<1>10. cur' = cur /\ top' = top /\ swapping' = swapping
  BY DEF Tick
<1>11. TypeOK'
  BY <1>1, <1>3, <1>6, <1>9, <1>10 DEF IInv, TypeOK
<1>12. ShownMonotone'
  BY <1>1 DEF ShownMonotone, IInv, TypeOK
<1>13. ObsBacked'
  BY <1>1, <1>9 DEF ObsBacked, IInv, TypeOK, Calls
<1>14. Backed(pg)'
  BY <1>1, <1>3 DEF Backed, Records, RecordsBacked, IInv, TypeOK
<1>15. RecordsBacked'
  <2>1. ASSUME NEW r \in Replicas PROVE Backed(mem[r])'
    <3>1. Backed(mem[r]) /\ mem[r] \in Records
      BY DEF RecordsBacked, IInv, TypeOK
    <3>2. /\ mem'[r] \in Records /\ mem'[r].role = mem[r].role
          /\ mem'[r].age <= MaxOwnerAge => mem'[r].age = mem[r].age + 1
      BY <1>4
    <3> QED BY <3>1, <3>2, <1>1 DEF Backed, Records
  <2> QED BY <1>14, <2>1 DEF RecordsBacked
<1>16. IntoCurrent'
  BY <1>6, <1>9, <1>10 DEF IntoCurrent, NotSeen, IInv, TypeOK
<1>17. ASSUME NEW r \in Replicas PROVE Store(r)'.role = Store(r).role
  <2>1. mem'[r].role = mem[r].role
    BY <1>4
  <2> QED BY <2>1, <1>3, <1>10 DEF Store
<1>18. \A r \in Replicas, low \in AnyRole, n \in Nat :
         Overtaken(r, low, n) => Overtaken(r, low, n + 1)'
  BY <1>1, <1>17 DEF Overtaken, IInv, TypeOK
<1>19. SeenOvertaken'
  <2>1. \A r \in Replicas : seen[r].role \in AnyRole /\ seen[r].age \in Nat /\ cur[r] # "none"
    BY DEF IInv, TypeOK, Marks, Stores
  <2> QED BY <1>6, <1>10, <1>18, <2>1 DEF SeenOvertaken, NotSeen, IInv
<1>20. MarkOvertaken'
  <2>1. \A o \in Observers : obs[o].rep \in Replicas /\ obs[o].role \in AnyRole /\ obs[o].age \in Nat
    BY DEF IInv, TypeOK, Calls
  <2> QED BY <1>9, <1>10, <1>18, <2>1 DEF MarkOvertaken, IInv
<1> QED BY <1>11, <1>12, <1>13, <1>15, <1>16, <1>19, <1>20 DEF IInv

\* The fields of a call and of a mark, for the steps below.
LEMMA Fields ==
  ASSUME TypeOK
  PROVE  /\ \A o \in Observers : /\ obs[o] \in Calls
                                 /\ obs[o].rep \in Replicas /\ obs[o].role \in AnyRole
                                 /\ obs[o].age \in Nat /\ obs[o].age <= RecordTimeout
         /\ \A r \in Replicas : /\ seen[r] \in Marks
                                /\ seen[r].role \in AnyRole /\ seen[r].age \in Nat
                                /\ cur[r] \in Stores /\ cur[r] # "none"
         /\ \A s \in Roles : shown[s] \in Nat
         /\ Idle \in Calls /\ NotSeen \in Marks /\ NoRecord \in Records
BY Windows, IdleTyped DEF TypeOK, Calls, Marks, Stores, NotSeen, NoRecord, Records, AnyRole

\* Check: what a request acts with is shown now.
LEMMA CheckKeeps ==
  ASSUME IInv, NEW o \in Observers, NEW r \in Replicas, NEW t \in Tokens, Check(o, r, t)
  PROVE  IInv'
<1> USE Windows
<1> DEFINE call == [pc |-> "write", rep |-> r, role |-> RolesOf(t), age |-> 0, into |-> "none"]
<1>1. TypeOK
  BY DEF IInv
<1>2. /\ RoleFor(t) \in AnyRole /\ RolesOf(t) \in AnyRole
      /\ RoleRank(RolesOf(t)) <= RoleRank(RoleFor(t))
  BY DirectoryConstants, TokenRoles
<1>3. /\ shown' = [s \in Roles |-> IF RoleRank(s) <= RoleRank(RoleFor(t)) THEN 0 ELSE shown[s]]
      /\ top' = top /\ cur' = cur /\ mem' = mem /\ pg' = pg /\ swapping' = swapping /\ seen' = seen
      /\ obs' = obs \/ obs' = [obs EXCEPT ![o] = call]
  BY DEF Check
<1>4. /\ shown' \in [Roles -> 0 .. Horizon]
      /\ \A s \in Roles : shown'[s] \in Nat /\ shown[s] \in Nat /\ shown'[s] <= shown[s]
      /\ RolesOf(t) \in Roles => shown'[RolesOf(t)] = 0
  BY <1>1, <1>2, <1>3 DEF TypeOK
<1>5. call \in Calls
  BY <1>2 DEF Calls
<1>6. TypeOK'
  BY <1>1, <1>3, <1>4, <1>5 DEF TypeOK
<1>7. ShownMonotone'
  <2>1. ASSUME NEW s \in Roles, NEW u \in Roles, RoleRank(s) <= RoleRank(u)
        PROVE  shown'[s] <= shown'[u]
    <3>1. /\ RoleRank(s) \in 0 .. 3 /\ RoleRank(u) \in 0 .. 3 /\ RoleRank(RoleFor(t)) \in 0 .. 3
          /\ shown[s] <= shown[u]
      BY <2>1, <1>2, Ranks DEF AnyRole, ShownMonotone, IInv
    <3> QED BY <3>1, <2>1, <1>3, <1>4
  <2> QED BY <2>1 DEF ShownMonotone
<1>8. \A p \in Observers : obs'[p] = obs[p] \/ obs'[p] = call
  BY <1>1, <1>3 DEF TypeOK
<1>9. ObsBacked'
  BY <1>1, <1>4, <1>8, Fields DEF ObsBacked, IInv
<1>10. Backed(pg)'
  BY <1>1, <1>3, <1>4 DEF RecordsBacked, Backed, IInv, TypeOK, Records
<1>11. ASSUME NEW q \in Replicas PROVE Backed(mem[q])'
  <2>1. Backed(mem[q]) /\ mem[q] \in Records
    BY <1>1 DEF RecordsBacked, IInv, TypeOK
  <2> QED BY <2>1, <1>3, <1>4 DEF Backed, Records
<1>12. IntoCurrent'
  BY <1>3, <1>8 DEF IntoCurrent, IInv
<1>13. \A q \in Replicas, low \in AnyRole, n \in Nat : Overtaken(q, low, n) => Overtaken(q, low, n)'
  BY <1>3, <1>4 DEF Overtaken, Store
<1>14. SeenOvertaken'
  BY <1>1, <1>3, <1>13, Fields DEF SeenOvertaken, IInv
<1>15. MarkOvertaken'
  BY <1>1, <1>3, <1>8, <1>13, Fields DEF MarkOvertaken, IInv
<1> QED BY <1>6, <1>7, <1>9, <1>10, <1>11, <1>12, <1>14, <1>15 DEF IInv, RecordsBacked

\* Write: the role was shown when the call was checked, and the store now holds it.
LEMMA WriteKeeps ==
  ASSUME IInv, NEW o \in Observers, Write(o)
  PROVE  IInv'
<1> USE Windows
<1>1. TypeOK
  BY DEF IInv
<1>2. PICK c \in Calls, r \in Replicas : c = obs[o] /\ r = obs[o].rep
  BY <1>1, Fields
<1>3. c.role \in AnyRole /\ c.pc = "write" /\ c.rep = r
  BY <1>1, <1>2, Fields DEF Write
<1>4. c.role \in Roles => shown[c.role] <= RecordTimeout
  BY <1>1, <1>3, <1>2, Fields DEF ObsBacked, IInv
<1>5. /\ Upsert(r, c.role)
      /\ obs' = [obs EXCEPT ![o].pc = "mark", ![o].into = cur[r]]
      /\ top' = top /\ shown' = shown /\ cur' = cur /\ swapping' = swapping /\ seen' = seen
  BY <1>2 DEF Write
<1>6. /\ mem' \in [Replicas -> Records] /\ pg' \in Records
      /\ RecordsBacked'
      /\ Store(r)'.role = c.role
      /\ \A q \in Replicas, low \in AnyRole, n \in Nat :
           Overtaken(q, low, n) => Overtaken(q, low, n)'
  BY <1>3, <1>4, <1>5, UpsertKeeps
<1>7. obs'[o] = [c EXCEPT !.pc = "mark", !.into = cur[r]]
  BY <1>1, <1>5, <1>2 DEF TypeOK
<1>8. /\ obs'[o] \in Calls /\ obs'[o].pc = "mark" /\ obs'[o].into = cur[r]
      /\ obs'[o].rep = r /\ obs'[o].role = c.role /\ obs'[o].age = c.age
  BY <1>1, <1>3, <1>7, Fields DEF Calls
<1>9. \A p \in Observers : p # o => obs'[p] = obs[p]
  BY <1>1, <1>5 DEF TypeOK
<1>10. obs' \in [Observers -> Calls]
  BY <1>1, <1>5, <1>8, <1>9 DEF TypeOK
<1>11. TypeOK'
  BY <1>1, <1>5, <1>6, <1>10 DEF TypeOK
<1>12. ShownMonotone'
  BY <1>5 DEF ShownMonotone, IInv
<1>13. ObsBacked'
  BY <1>3, <1>5, <1>8, <1>9, <1>2 DEF ObsBacked, IInv
<1>14. IntoCurrent'
  <2> SUFFICES ASSUME NEW q \in Replicas, cur[q] = "memory", NEW p \in Observers
               PROVE  seen[q].into # "postgres" /\ (obs'[p].rep = q => obs'[p].into # "postgres")
    BY <1>5 DEF IntoCurrent
  <2>1. seen[q].into # "postgres" /\ (obs[p].rep = q => obs[p].into # "postgres")
    BY DEF IntoCurrent, IInv
  <2>2. CASE p = o
    BY <2>1, <2>2, <1>8
  <2>3. CASE p # o
    BY <2>1, <2>3, <1>9
  <2> QED BY <2>2, <2>3
<1>15. SeenOvertaken'
  BY <1>1, <1>5, <1>6, Fields DEF SeenOvertaken, IInv
<1>16. ASSUME NEW p \in Observers, obs'[p].pc = "mark", obs'[p].into = cur'[obs'[p].rep]
       PROVE  Overtaken(obs[p].rep, obs[p].role, obs[p].age)'
  <2>1. CASE p = o
    BY <2>1, <1>5, <1>6, <1>8, <1>3, Ranks DEF Overtaken
  <2>2. CASE p # o
    <3>1. obs'[p] = obs[p] /\ Overtaken(obs[p].rep, obs[p].role, obs[p].age)
      BY <2>2, <1>5, <1>9, <1>16 DEF MarkOvertaken, IInv
    <3>2. obs[p].rep \in Replicas /\ obs[p].role \in AnyRole /\ obs[p].age \in Nat
      BY <1>1, Fields
    <3> QED BY <3>1, <3>2, <1>5, <1>6 DEF Overtaken
  <2> QED BY <2>1, <2>2
<1>17. MarkOvertaken'
  BY <1>16 DEF MarkOvertaken
<1> QED BY <1>6, <1>11, <1>12, <1>13, <1>14, <1>15, <1>17 DEF IInv

\* A call that returns leaves nothing behind in obs.
LEMMA ReturnKeeps ==
  ASSUME IInv, NEW o \in Observers,
         obs' = [obs EXCEPT ![o] = Idle], UNCHANGED <<shown, cur>>
  PROVE  /\ obs' \in [Observers -> Calls]
         /\ ObsBacked'
         /\ \A p \in Observers : obs'[p].into # "postgres" \/ obs'[p] = obs[p]
         /\ \A p \in Observers : obs'[p].pc = "idle" \/ obs'[p] = obs[p]
<1>1. TypeOK
  BY DEF IInv
<1>2. \A p \in Observers : obs'[p] = Idle \/ obs'[p] = obs[p]
  BY <1>1 DEF TypeOK
<1>3. obs' \in [Observers -> Calls]
  BY <1>1, Fields DEF TypeOK
<1>4. Idle.pc = "idle" /\ Idle.into = "none"
  BY IdleTyped
<1> QED BY <1>2, <1>3, <1>4 DEF ObsBacked, IInv

\* WriteFails: the write was applied or it was not, and nothing is marked.
LEMMA WriteFailsKeeps ==
  ASSUME IInv, NEW o \in Observers, WriteFails(o)
  PROVE  IInv'
<1> USE Windows
<1>1. TypeOK
  BY DEF IInv
<1>2. PICK role \in AnyRole, r \in Replicas : role = obs[o].role /\ r = obs[o].rep
  BY <1>1, Fields
<1>3. role \in Roles => shown[role] <= RecordTimeout
  BY <1>1, <1>2, Fields DEF ObsBacked, IInv, WriteFails
<1>4. /\ UNCHANGED <<mem, pg>> \/ Upsert(r, role)
      /\ obs' = [obs EXCEPT ![o] = Idle]
      /\ top' = top /\ shown' = shown /\ cur' = cur /\ swapping' = swapping /\ seen' = seen
  BY <1>2 DEF WriteFails
<1>5. /\ mem' \in [Replicas -> Records] /\ pg' \in Records
      /\ RecordsBacked'
      /\ \A q \in Replicas, low \in AnyRole, n \in Nat :
           Overtaken(q, low, n) => Overtaken(q, low, n)'
  <2>1. CASE UNCHANGED <<mem, pg>>
    BY <2>1, <1>1, <1>4 DEF RecordsBacked, Backed, Overtaken, Store, IInv, TypeOK
  <2>2. CASE Upsert(r, role)
    BY <2>2, <1>3, <1>4, UpsertKeeps
  <2> QED BY <2>1, <2>2, <1>4
<1>6. /\ obs' \in [Observers -> Calls]
      /\ ObsBacked'
      /\ \A p \in Observers : obs'[p].into # "postgres" \/ obs'[p] = obs[p]
      /\ \A p \in Observers : obs'[p].pc = "idle" \/ obs'[p] = obs[p]
  BY <1>4, ReturnKeeps
<1>7. TypeOK'
  BY <1>1, <1>4, <1>5, <1>6 DEF TypeOK
<1>8. ShownMonotone'
  BY <1>4 DEF ShownMonotone, IInv
<1>9. IntoCurrent'
  BY <1>4, <1>6 DEF IntoCurrent, IInv
<1>10. SeenOvertaken'
  BY <1>1, <1>4, <1>5, Fields DEF SeenOvertaken, IInv
<1>11. MarkOvertaken'
  BY <1>1, <1>4, <1>5, <1>6, Fields DEF MarkOvertaken, IInv
<1> QED BY <1>5, <1>6, <1>7, <1>8, <1>9, <1>10, <1>11 DEF IInv

\* Mark: what is remembered rests on the write that was just made.
LEMMA MarkKeeps ==
  ASSUME IInv, NEW o \in Observers, Mark(o)
  PROVE  IInv'
<1> USE Windows
<1>1. TypeOK
  BY DEF IInv
<1>2. PICK c \in Calls, r \in Replicas : c = obs[o] /\ r = obs[o].rep
  BY <1>1, Fields
<1> DEFINE mark == [role |-> c.role, age |-> c.age, into |-> c.into]
<1>3. /\ c.pc = "mark" /\ obs' = [obs EXCEPT ![o] = Idle]
      /\ seen' = [seen EXCEPT ![r] = IF c.age >= Interval THEN NotSeen ELSE mark]
      /\ top' = top /\ shown' = shown /\ cur' = cur /\ mem' = mem /\ pg' = pg /\ swapping' = swapping
  BY <1>2 DEF Mark
<1>4. c.role \in AnyRole /\ c.age \in Nat /\ c.into \in Stores \cup {"none"}
  BY DEF Calls
<1>5. c.age < Interval => mark \in Marks
  BY <1>4 DEF Marks
<1>6. seen' \in [Replicas -> Marks]
  BY <1>1, <1>3, <1>4, <1>5, Fields DEF TypeOK
<1>7. \A q \in Replicas : \/ seen'[q] = seen[q] \/ seen'[q] = NotSeen
                          \/ q = r /\ seen'[q] = mark
  BY <1>1, <1>3 DEF TypeOK
<1>8. /\ obs' \in [Observers -> Calls]
      /\ ObsBacked'
      /\ \A p \in Observers : obs'[p].into # "postgres" \/ obs'[p] = obs[p]
      /\ \A p \in Observers : obs'[p].pc = "idle" \/ obs'[p] = obs[p]
  BY <1>3, ReturnKeeps
<1>9. TypeOK'
  BY <1>1, <1>3, <1>6, <1>8 DEF TypeOK
<1>10. ShownMonotone' /\ RecordsBacked'
  BY <1>3 DEF ShownMonotone, RecordsBacked, Backed, IInv
<1>11. IntoCurrent'
  BY <1>2, <1>3, <1>7, <1>8 DEF IntoCurrent, IInv, NotSeen
<1>12. \A q \in Replicas, low \in AnyRole, n \in Nat : Overtaken(q, low, n) => Overtaken(q, low, n)'
  BY <1>3 DEF Overtaken, Store
<1>13. c.into = cur[r] => Overtaken(r, c.role, c.age)
  BY <1>2, <1>3 DEF MarkOvertaken, IInv
<1>14. SeenOvertaken'
  BY <1>1, <1>3, <1>4, <1>7, <1>12, <1>13, Fields DEF SeenOvertaken, IInv, NotSeen
<1>15. MarkOvertaken'
  BY <1>1, <1>3, <1>8, <1>12, Fields DEF MarkOvertaken, IInv
<1> QED BY <1>8, <1>9, <1>10, <1>11, <1>14, <1>15 DEF IInv

\* Swap: nothing this replica remembers went into the store it swaps to.
LEMMA SwapKeeps ==
  ASSUME IInv, NEW r \in Replicas, Swap(r)
  PROVE  IInv'
<1> USE Windows
<1>1. TypeOK
  BY DEF IInv
<1>2. /\ cur[r] = "memory" /\ cur' = [cur EXCEPT ![r] = "postgres"]
      /\ mem' = [mem EXCEPT ![r] = NoRecord] /\ swapping' = [swapping EXCEPT ![r] = TRUE]
      /\ top' = top /\ shown' = shown /\ pg' = pg /\ seen' = seen /\ obs' = obs
  BY DEF Swap
<1>3. TypeOK'
  BY <1>1, <1>2, Fields DEF TypeOK, Stores
<1>4. ShownMonotone' /\ ObsBacked'
  BY <1>2 DEF ShownMonotone, ObsBacked, IInv
<1>5. RecordsBacked'
  BY <1>1, <1>2 DEF RecordsBacked, Backed, NoRecord, IInv, TypeOK
<1>6. /\ cur'[r] = "postgres"
      /\ \A q \in Replicas : q # r => cur'[q] = cur[q] /\ Store(q)' = Store(q)
  BY <1>1, <1>2 DEF TypeOK, Store
<1>7. IntoCurrent'
  BY <1>2, <1>6 DEF IntoCurrent, IInv
<1>8. \A q \in Replicas, low \in AnyRole, n \in Nat :
        q # r /\ Overtaken(q, low, n) => Overtaken(q, low, n)'
  BY <1>2, <1>6 DEF Overtaken
<1>9. SeenOvertaken'
  BY <1>1, <1>2, <1>6, <1>8, Fields DEF SeenOvertaken, IntoCurrent, IInv
<1>10. MarkOvertaken'
  BY <1>1, <1>2, <1>6, <1>8, Fields DEF MarkOvertaken, IntoCurrent, IInv
<1> QED BY <1>3, <1>4, <1>5, <1>7, <1>9, <1>10 DEF IInv

\* Reset.
LEMMA ResetKeeps ==
  ASSUME IInv, NEW r \in Replicas, Reset(r)
  PROVE  IInv'
<1>1. TypeOK
  BY DEF IInv
<1>2. /\ swapping' = [swapping EXCEPT ![r] = FALSE] /\ seen' = [seen EXCEPT ![r] = NotSeen]
      /\ top' = top /\ shown' = shown /\ cur' = cur /\ mem' = mem /\ pg' = pg /\ obs' = obs
  BY DEF Reset
<1>3. \A q \in Replicas : seen'[q] = seen[q] \/ seen'[q] = NotSeen
  BY <1>1, <1>2 DEF TypeOK
<1>4. TypeOK'
  BY <1>1, <1>2, Fields DEF TypeOK
<1>5. \A q \in Replicas, low \in AnyRole, n \in Nat : Overtaken(q, low, n) => Overtaken(q, low, n)'
  BY <1>2 DEF Overtaken, Store
<1>6. ShownMonotone' /\ ObsBacked' /\ RecordsBacked' /\ IntoCurrent'
  BY <1>2, <1>3 DEF ShownMonotone, ObsBacked, RecordsBacked, Backed, IntoCurrent, NotSeen, IInv
<1>7. SeenOvertaken'
  BY <1>1, <1>2, <1>3, <1>5, Fields DEF SeenOvertaken, NotSeen, IInv
<1>8. MarkOvertaken'
  BY <1>1, <1>2, <1>5, Fields DEF MarkOvertaken, IInv
<1> QED BY <1>4, <1>6, <1>7, <1>8 DEF IInv

\* Restart: the replica forgets, and the upsert it leaves behind is as fresh as
\* one that returned.
LEMMA RestartKeeps ==
  ASSUME IInv, NEW r \in Replicas, Restart(r)
  PROVE  IInv'
<1> USE Windows
<1>1. TypeOK
  BY DEF IInv
<1>2. /\ cur' = [cur EXCEPT ![r] = "memory"] /\ mem' = [mem EXCEPT ![r] = NoRecord]
      /\ swapping' = [swapping EXCEPT ![r] = FALSE] /\ seen' = [seen EXCEPT ![r] = NotSeen]
      /\ obs' = [o \in Observers |-> IF obs[o].rep = r THEN Idle ELSE obs[o]]
      /\ top' = top /\ shown' = shown
  BY DEF Restart
<1>3. \/ pg' = pg
      \/ \E role \in AnyRole : /\ role \in Roles => shown[role] <= RecordTimeout
                               /\ pg' = [role |-> role, age |-> 0]
  BY <1>1, Fields DEF Restart, ObsBacked, IInv
<1>4. /\ pg' \in Records /\ Backed(pg)'
      /\ \A low \in AnyRole, n \in Nat :
           (pg.role \in Roles /\ RoleRank(pg.role) > RoleRank(low)
              => shown[pg.role] <= n + RecordTimeout)
           => (pg'.role \in Roles /\ RoleRank(pg'.role) > RoleRank(low)
                 => shown[pg'.role] <= n + RecordTimeout)
  <2>1. CASE pg' = pg
    BY <2>1, <1>1, <1>2 DEF TypeOK, RecordsBacked, Backed, IInv
  <2>2. CASE pg' # pg
    <3>1. PICK role \in AnyRole : /\ role \in Roles => shown[role] <= RecordTimeout
                                  /\ pg' = [role |-> role, age |-> 0]
      BY <2>2, <1>3
    <3> QED BY <3>1, <1>1, <1>2, Fields DEF Backed, Records
  <2> QED BY <2>1, <2>2
<1>5. /\ cur'[r] = "memory" /\ mem'[r] = NoRecord /\ seen'[r] = NotSeen
      /\ \A q \in Replicas : q # r => cur'[q] = cur[q] /\ mem'[q] = mem[q] /\ seen'[q] = seen[q]
  BY <1>1, <1>2 DEF TypeOK
<1>6. \A o \in Observers : \/ obs'[o] = Idle /\ Idle.pc = "idle" /\ Idle.into = "none"
                           \/ obs'[o] = obs[o] /\ obs[o].rep # r
  BY <1>2, IdleTyped
<1>7. TypeOK'
  <2>1. obs' \in [Observers -> Calls]
    BY <1>1, <1>2, Fields
  <2> QED BY <1>1, <1>2, <1>4, <2>1, Fields DEF TypeOK, Stores
<1>8. ShownMonotone' /\ ObsBacked'
  BY <1>2, <1>6 DEF ShownMonotone, ObsBacked, IInv
<1>9. ASSUME NEW q \in Replicas PROVE Backed(mem[q])'
  <2>1. Backed(mem[q])
    BY DEF RecordsBacked, IInv
  <2> QED BY <2>1, <1>2, <1>5 DEF Backed, NoRecord
<1>10. IntoCurrent'
  BY <1>5, <1>6 DEF IntoCurrent, NotSeen, IInv
<1>11. ASSUME NEW q \in Replicas, NEW low \in AnyRole, NEW n \in Nat, q # r, Overtaken(q, low, n)
       PROVE  Overtaken(q, low, n)'
  BY <1>11, <1>2, <1>4, <1>5 DEF Overtaken, Store
<1>12. SeenOvertaken'
  BY <1>1, <1>5, <1>7, <1>11, Fields DEF SeenOvertaken, NotSeen, IInv
<1>13. MarkOvertaken'
  BY <1>1, <1>5, <1>6, <1>11, Fields DEF MarkOvertaken, IInv
<1> QED BY <1>4, <1>7, <1>8, <1>9, <1>10, <1>12, <1>13 DEF IInv, RecordsBacked

\* A step that changes nothing.
LEMMA StutterKeeps == IInv /\ UNCHANGED vars => IInv'
BY DEF IInv, vars, TypeOK, ShownMonotone, ObsBacked, RecordsBacked, Backed, IntoCurrent,
   SeenOvertaken, MarkOvertaken, Overtaken, Store

----------------------------------------------------------------------------
(* Theorems.                                                               *)

\* The invariant holds of every reachable state.
LEMMA Inductive == Spec => []IInv
<1>1. IInv /\ [Next]_vars => IInv'
  BY TokensChangeKeeps, TickKeeps, CheckKeeps, WriteKeeps, WriteFailsKeeps, MarkKeeps, SwapKeeps,
     ResetKeeps, RestartKeeps, StutterKeeps DEF Next, ObserveStep
<1> QED BY <1>1, InitInv, PTL DEF Spec

\* The types of the directory's state hold for any number of replicas and requests.
THEOREM TypeCorrect == Spec => []TypeOK
<1>1. IInv => TypeOK
  BY DEF IInv
<1> QED BY <1>1, Inductive, PTL

\* Whichever replica mints and whatever raced, a workload token's role is within
\* its ceiling and was shown by the owner within MaxOwnerAge and the time a
\* record may take.
THEOREM MintIsBacked == Spec => []MintBacked
<1>1. ASSUME IInv, NEW r \in Replicas, NEW ceiling \in Roles, MintedRole(r, ceiling) # NoRole
      PROVE  /\ RoleRank(MintedRole(r, ceiling)) <= RoleRank(ceiling)
             /\ shown[MintedRole(r, ceiling)] <= MintWindow
  <2> DEFINE rec == Store(r)
  <2>1. rec \in Records /\ Backed(rec)
    BY <1>1 DEF IInv, TypeOK, RecordsBacked, Store
  <2>2. rec.role \in AnyRole /\ rec.age \in Nat /\ ceiling \in AnyRole
    BY <2>1, Windows DEF Records, AnyRole
  <2>3. rec.age <= MaxOwnerAge /\ OwnerRole(r) = rec.role
    BY <1>1, <2>2, Windows, Ranks DEF MintedRole, OwnerRole, LesserRole
  <2>4. /\ MintedRole(r, ceiling) \in {ceiling, rec.role}
        /\ RoleRank(rec.role) > 0
        /\ RoleRank(MintedRole(r, ceiling)) <= RoleRank(ceiling)
        /\ RoleRank(MintedRole(r, ceiling)) <= RoleRank(rec.role)
    BY <1>1, <2>2, <2>3, Ranks DEF MintedRole, LesserRole
  <2>5. rec.role \in Roles /\ MintedRole(r, ceiling) \in Roles
    BY <2>2, <2>4, Ranks
  <2>6. shown[MintedRole(r, ceiling)] <= shown[rec.role]
    BY <1>1, <2>4, <2>5 DEF IInv, ShownMonotone
  <2>7. shown[rec.role] <= rec.age + RecordTimeout
    BY <2>1, <2>3, <2>5 DEF Backed
  <2>8. shown[rec.role] \in Nat /\ shown[MintedRole(r, ceiling)] \in Nat
    BY <1>1, <2>5, Fields DEF IInv
  <2> QED BY <2>2, <2>3, <2>4, <2>6, <2>7, <2>8, Windows
<1>2. IInv => MintBacked
  BY <1>1 DEF MintBacked
<1> QED BY <1>2, Inductive, PTL

\* A debounced request leaves a higher role standing only within Interval and
\* recordTimeout of the user having acted with it.
THEOREM StaleRolesHeal == Spec => []StaleRoleHeals
<1>1. ASSUME IInv, NEW r \in Replicas, NEW t \in Tokens,
             Debounced(r, RolesOf(t)), RoleRank(Store(r).role) > RoleRank(RolesOf(t)),
             seen[r].into = cur[r]
      PROVE  shown[Store(r).role] <= HealWindow
  <2>1. TypeOK
    BY <1>1 DEF IInv
  <2>2. seen[r].age \in Nat /\ seen[r].age < Interval /\ seen[r].role = RolesOf(t)
    BY <1>1, <2>1, Fields DEF Debounced
  <2>3. Store(r).role \in AnyRole /\ RolesOf(t) \in AnyRole
    BY <2>1, TokenRoles, DirectoryConstants DEF TypeOK, Store, Records
  <2>4. Store(r).role \in Roles
    BY <1>1, <2>3, Ranks
  <2>5. shown[Store(r).role] <= seen[r].age + RecordTimeout
    BY <1>1, <2>2, <2>4 DEF IInv, SeenOvertaken, Overtaken
  <2>6. shown[Store(r).role] \in Nat
    BY <2>1, <2>4, Fields
  <2> QED BY <2>2, <2>5, <2>6, Windows
<1>2. IInv => StaleRoleHeals
  BY <1>1 DEF StaleRoleHeals
<1> QED BY <1>2, Inductive, PTL
=============================================================================
