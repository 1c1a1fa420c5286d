-------------------------- MODULE ProjectStoreProofs --------------------------
(***************************************************************************)
(* For any number of projects, external names and overlapping requests: a  *)
(* name is bound once, a DELETE removes a binding of the project it named, *)
(* no parent dangles, and without overlap the hierarchy has two levels.    *)
(***************************************************************************)
EXTENDS ProjectStore, TLAPS

----------------------------------------------------------------------------
(* The inductive invariant.                                                *)

\* newBindingID never repeats an id.
IdsFresh ==
  \A b, c \in bindings : (b.id = c.id => b = c) /\ b.id <= lastId

\* A request that will bind has seen its project; projects are never removed.
BindsExisting == \A w \in Writers : req[w].pc = "bind" => parent[req[w].slug] # None

\* The id a DELETE has looked up still belongs to its project, or to nobody.
UnbindKnows ==
  \A w \in Writers : req[w].pc = "unbind" =>
    /\ req[w].id <= lastId
    /\ \A b \in bindings : b.id = req[w].id => b.project = req[w].slug

\* A request that has passed checkParent and not written yet.
Moving(w) == req[w].pc \in {"insert", "children", "update"} /\ req[w].parent \in Slugs

\* No parent_slug dangles, now or when the pending requests have written.
ParentsExist ==
  \A s \in Slugs : parent[s] \in Slugs => parent[parent[s]] # None

PendingExist == \A w \in Writers : Moving(w) => parent[req[w].parent] # None

\* While nobody has overlapped, what a request looked up still holds.
PendingFresh ==
  \A w \in Writers : Moving(w) =>
    /\ parent[req[w].parent] = Top
    /\ req[w].pc = "update" => ~HasChildren(req[w].slug)

LookupsFresh == ~overlap => TwoLevels /\ PendingFresh

IInv ==
  /\ TypeOK
  /\ BoundOnce
  /\ IdsFresh
  /\ BindsExisting
  /\ UnbindKnows
  /\ ParentsExist
  /\ PendingExist
  /\ LookupsFresh

----------------------------------------------------------------------------
(* What TypeOK says of one request.                                        *)

Requests == ProjectWrites \cup BindingWrites \cup {Idle}

\* The fields a request has at each of its stages.
LEMMA Fields ==
  ASSUME NEW r \in Requests
  PROVE  /\ r.pc \in {"idle", "insert", "children", "update", "bind", "unbind"}
         /\ r.pc # "idle" => r.slug \in Slugs
         /\ r.pc = "insert" => r.parent \in Slugs \cup {Top}
         /\ r.pc \in {"children", "update"} =>
              r.parent \in Slugs \cup {Top, Keep} /\ r.archived \in BOOLEAN \cup {Keep}
         /\ r.pc = "bind" => r.value \in Values
         /\ r.pc = "unbind" => r.id \in 1 .. MaxIds
<1>1. CASE r = Idle
  BY <1>1 DEF Idle
<1>2. CASE r \in ProjectWrites
  BY <1>2 DEF ProjectWrites
<1>3. CASE r \in BindingWrites
  BY <1>3 DEF BindingWrites
<1> QED BY <1>1, <1>2, <1>3 DEF Requests

\* Goto replaces one request.
LEMMA Moves ==
  ASSUME TypeOK, NEW w \in Writers, NEW r \in Requests, Goto(w, r)
  PROVE  /\ req' \in [Writers -> Requests]
         /\ \A v \in Writers : req'[v] = IF v = w THEN r ELSE req[v]
BY DEF TypeOK, Goto, Requests

----------------------------------------------------------------------------
(* Requests that only look rows up, or end.                                *)

\* A step that writes no row: its request must bring what it looked up.
LEMMA LookupKeeps ==
  ASSUME IInv, NEW w \in Writers, NEW r \in Requests, Goto(w, r),
         UNCHANGED <<parent, archived, bindings, lastId, overlap>>,
         r.pc = "bind" => parent[r.slug] # None,
         r.pc = "unbind" => /\ r.id <= lastId
                            /\ \A b \in bindings : b.id = r.id => b.project = r.slug,
         r.pc \in {"insert", "children", "update"} /\ r.parent \in Slugs =>
           /\ parent[r.parent] # None
           /\ ~overlap => parent[r.parent] = Top
           /\ ~overlap /\ r.pc = "update" => ~HasChildren(r.slug)
  PROVE  IInv'
<1> USE DEF IInv
<1>1. req' \in [Writers -> Requests] /\ \A v \in Writers : req'[v] = IF v = w THEN r ELSE req[v]
  BY Moves
<1>2. TypeOK'
  BY <1>1 DEF TypeOK, Requests
<1>3. BoundOnce' /\ IdsFresh' /\ ParentsExist' /\ (TwoLevels' = TwoLevels)
  BY DEF BoundOnce, IdsFresh, ParentsExist, TwoLevels
<1>4. BindsExisting'
  BY <1>1 DEF BindsExisting
<1>5. UnbindKnows'
  BY <1>1 DEF UnbindKnows
<1>6. PendingExist'
  BY <1>1 DEF PendingExist, Moving
<1>7. \A s : HasChildren(s)' = HasChildren(s)
  BY DEF HasChildren
<1>8. ASSUME ~overlap PROVE PendingFresh'
  BY <1>1, <1>7, <1>8 DEF LookupsFresh, PendingFresh, Moving
<1>9. LookupsFresh'
  BY <1>3, <1>8 DEF LookupsFresh
<1> QED BY <1>2, <1>3, <1>4, <1>5, <1>6, <1>9

\* POST of a project, up to its parent check.
LEMMA BeginCreateKeeps ==
  ASSUME IInv, NEW w \in Writers, NEW s \in Slugs, NEW p \in Slugs \cup {Top}, BeginCreate(w, s, p)
  PROVE  IInv'
<1> DEFINE r == [pc |-> "insert", slug |-> s, parent |-> p]
<1>1. r \in Requests /\ r.pc = "insert" /\ r.parent = p
  BY DEF Requests, ProjectWrites
<1>2. p \in Slugs => parent[p] = Top /\ parent[p] # None
  BY ProjectConstants DEF BeginCreate, CheckParent
<1> HIDE DEF r
<1> QED BY <1>1, <1>2, LookupKeeps DEF BeginCreate, r

\* PATCH of a project, up to its parent check.
LEMMA BeginUpdateKeeps ==
  ASSUME IInv, NEW w \in Writers, NEW s \in Slugs, NEW p \in Slugs \cup {Top, Keep},
         NEW a \in BOOLEAN \cup {Keep}, BeginUpdate(w, s, p, a)
  PROVE  IInv'
<1> DEFINE r == [pc |-> IF p \in Slugs THEN "children" ELSE "update", slug |-> s, parent |-> p,
                 archived |-> a]
<1>1. r \in Requests /\ r.pc \in {"children", "update"} /\ r.parent = p
      /\ (r.pc = "update" => p \notin Slugs)
  BY DEF Requests, ProjectWrites
<1>2. p \in Slugs => parent[p] = Top /\ parent[p] # None
  BY ProjectConstants DEF BeginUpdate, CheckParent
<1>3. Goto(w, r)
  BY DEF BeginUpdate
<1> HIDE DEF r
<1> QED BY <1>1, <1>2, <1>3, LookupKeeps DEF BeginUpdate

\* hasChildren.
LEMMA CheckChildrenKeeps ==
  ASSUME IInv, NEW w \in Writers, CheckChildren(w)
  PROVE  IInv'
<1>1. req[w] \in Requests /\ req[w].pc = "children"
  BY DEF IInv, TypeOK, Requests, CheckChildren
<1>2. CASE HasChildren(req[w].slug)
  <2>1. Goto(w, Idle) /\ Idle \in Requests /\ Idle.pc = "idle"
    BY <1>2 DEF CheckChildren, Requests, Idle
  <2> QED BY <2>1, LookupKeeps DEF CheckChildren
<1>3. CASE ~HasChildren(req[w].slug)
  <2> DEFINE r == [req[w] EXCEPT !.pc = "update"]
  <2>1. req[w] \in [pc : {"children", "update"}, slug : Slugs, parent : Slugs \cup {Top, Keep},
                    archived : BOOLEAN \cup {Keep}]
    BY <1>1 DEF Requests, ProjectWrites, BindingWrites, Idle
  <2>2. r \in Requests /\ r.pc = "update" /\ r.slug = req[w].slug /\ r.parent = req[w].parent
    BY <2>1 DEF Requests, ProjectWrites
  <2>3. Goto(w, r)
    BY <1>3 DEF CheckChildren
  <2> HIDE DEF r
  <2>4. r.parent \in Slugs => parent[r.parent] # None /\ (~overlap => parent[r.parent] = Top)
    BY <1>1, <2>2 DEF IInv, PendingExist, LookupsFresh, PendingFresh, Moving
  <2> QED BY <1>3, <2>2, <2>3, <2>4, LookupKeeps DEF CheckChildren
<1> QED BY <1>2, <1>3

\* CreateBinding's lookup, DELETE's lookup and a request that dies.
LEMMA BeginBindingKeeps ==
  ASSUME IInv, NEW w \in Writers,
         \/ \E s \in Slugs, v \in Values : BeginBind(w, s, v)
         \/ \E s \in Slugs, i \in 1 .. MaxIds : BeginUnbind(w, s, i)
         \/ Abandon(w)
  PROVE  IInv'
<1>1. ASSUME NEW s \in Slugs, NEW v \in Values, BeginBind(w, s, v) PROVE IInv'
  <2> DEFINE r == [pc |-> "bind", slug |-> s, value |-> v]
  <2>1. r \in Requests /\ r.pc = "bind" /\ r.slug = s /\ Goto(w, r)
    BY <1>1 DEF Requests, BindingWrites, BeginBind
  <2> HIDE DEF r
  <2> QED BY <1>1, <2>1, LookupKeeps DEF BeginBind
<1>2. ASSUME NEW s \in Slugs, NEW i \in 1 .. MaxIds, BeginUnbind(w, s, i) PROVE IInv'
  <2> DEFINE r == [pc |-> "unbind", slug |-> s, id |-> i]
  <2>1. r \in Requests /\ r.pc = "unbind" /\ r.slug = s /\ r.id = i /\ Goto(w, r)
    BY <1>2 DEF Requests, BindingWrites, BeginUnbind
  <2>2. i <= lastId /\ \A b \in bindings : b.id = i => b.project = s
    BY <1>2 DEF BeginUnbind, Listed, IInv, IdsFresh
  <2> HIDE DEF r
  <2> QED BY <1>2, <2>1, <2>2, LookupKeeps DEF BeginUnbind
<1>3. ASSUME Abandon(w) PROVE IInv'
  <2>1. Goto(w, Idle) /\ Idle \in Requests /\ Idle.pc = "idle"
    BY <1>3 DEF Abandon, Requests, Idle
  <2> QED BY <1>3, <2>1, LookupKeeps DEF Abandon
<1> QED BY <1>1, <1>2, <1>3

----------------------------------------------------------------------------
(* Writes of bindings.                                                     *)

\* The INSERT of a binding.
LEMMA BindKeeps ==
  ASSUME IInv, NEW w \in Writers, Bind(w)
  PROVE  IInv'
<1> USE DEF IInv
<1> DEFINE new == [id |-> lastId + 1, project |-> req[w].slug, value |-> req[w].value]
<1>1. /\ req[w] \in Requests /\ req[w].slug \in Slugs /\ req[w].value \in Values
      /\ parent[req[w].slug] # None
  BY Fields DEF Bind, BindsExisting, TypeOK, Requests
<1>2. lastId \in Nat /\ lastId + 1 \in 1 .. MaxIds /\ lastId' = lastId + 1
  BY ProjectConstants DEF Bind, TypeOK
<1>3. /\ new \in [id : 1 .. MaxIds, project : Slugs, value : Values]
      /\ new.id = lastId + 1 /\ new.project = req[w].slug /\ new.value = req[w].value
  BY <1>1, <1>2
<1>4. \/ bindings' = bindings
      \/ bindings' = bindings \cup {new} /\ \A b \in bindings : b.value # new.value
  BY DEF Bind
<1>5. \A v \in Writers : req'[v] = IF v = w THEN Idle ELSE req[v]
  BY Moves DEF Bind, Requests
<1>6. Idle.pc = "idle"
  BY DEF Idle
<1>7. \A b \in bindings : b.id \in Nat /\ b.id <= lastId
  BY DEF TypeOK, IdsFresh
<1>8. req' \in [Writers -> Requests]
  BY Moves DEF Bind, Requests
<1> HIDE DEF new
<1>9. TypeOK'
  BY <1>2, <1>3, <1>4, <1>8 DEF Bind, TypeOK, Requests
<1>10. BoundOnce'
  BY <1>1, <1>3, <1>4 DEF Bind, BoundOnce
<1>11. IdsFresh'
  BY <1>2, <1>3, <1>4, <1>7 DEF IdsFresh
<1>12. BindsExisting' /\ ParentsExist' /\ PendingExist'
  BY <1>5, <1>6 DEF Bind, BindsExisting, ParentsExist, PendingExist, Moving
<1>13. UnbindKnows'
  <2> SUFFICES ASSUME NEW v \in Writers, req'[v].pc = "unbind"
               PROVE  /\ req'[v].id <= lastId'
                      /\ \A b \in bindings' : b.id = req'[v].id => b.project = req'[v].slug
    BY DEF UnbindKnows
  <2>1. req'[v] = req[v] /\ req[v] \in Requests
    BY <1>5, <1>6 DEF TypeOK, Requests
  <2>2. req[v].id \in Nat /\ req[v].id <= lastId
        /\ \A b \in bindings : b.id = req[v].id => b.project = req[v].slug
    BY <2>1, Fields DEF UnbindKnows
  <2> QED BY <2>1, <2>2, <1>2, <1>3, <1>4
<1>14. LookupsFresh'
  BY <1>5, <1>6 DEF Bind, LookupsFresh, TwoLevels, PendingFresh, Moving, HasChildren
<1> QED BY <1>9, <1>10, <1>11, <1>12, <1>13, <1>14

\* DeleteBinding.
LEMMA UnbindKeeps ==
  ASSUME IInv, NEW w \in Writers, Unbind(w)
  PROVE  IInv'
<1> USE DEF IInv
<1>1. /\ req' \in [Writers -> Requests]
      /\ \A v \in Writers : req'[v] = IF v = w THEN Idle ELSE req[v]
  BY Moves DEF Unbind, Requests
<1>2. bindings' \subseteq bindings /\ Idle.pc = "idle"
  BY DEF Unbind, Idle
<1>3. TypeOK'
  BY <1>1, <1>2 DEF Unbind, TypeOK, Requests
<1>4. BoundOnce' /\ IdsFresh'
  BY <1>2 DEF Unbind, BoundOnce, IdsFresh
<1>5. BindsExisting' /\ ParentsExist' /\ PendingExist'
  BY <1>1, <1>2 DEF Unbind, BindsExisting, ParentsExist, PendingExist, Moving
<1>6. UnbindKnows'
  BY <1>1, <1>2 DEF Unbind, UnbindKnows
<1>7. LookupsFresh'
  BY <1>1, <1>2 DEF Unbind, LookupsFresh, TwoLevels, PendingFresh, Moving, HasChildren
<1> QED BY <1>3, <1>4, <1>5, <1>6, <1>7

----------------------------------------------------------------------------
(* Writes of projects.                                                     *)

\* Insert and Update of a row, under a request that overlaps no other or notes
\* that it does.
LEMMA WriteKeeps ==
  ASSUME IInv, NEW w \in Writers, NEW s \in Slugs, NEW p \in Slugs \cup {Top},
         parent' = [parent EXCEPT ![s] = p],
         archived' \in [Slugs -> BOOLEAN],
         NoteOverlap(w), Goto(w, Idle), UNCHANGED <<bindings, lastId>>,
         p \in Slugs => parent[p] # None,
         ~overlap => /\ p \in Slugs \ {s} => parent[p] = Top
                     /\ p # Top => \A c \in Slugs \ {s} : parent[c] # s
  PROVE  IInv'
<1> USE DEF IInv
<1>1. /\ req' \in [Writers -> Requests]
      /\ \A v \in Writers : req'[v] = IF v = w THEN Idle ELSE req[v]
  BY Moves DEF Requests
<1>2. Idle.pc = "idle"
  BY DEF Idle
<1>3. /\ parent' \in [Slugs -> Slugs \cup {Top, None}]
      /\ \A c \in Slugs : parent'[c] = IF c = s THEN p ELSE parent[c]
      /\ \A c \in Slugs : parent[c] # None => parent'[c] # None
  BY ProjectConstants DEF TypeOK
<1>4. TypeOK'
  BY <1>1, <1>3 DEF TypeOK, Requests, NoteOverlap
<1>5. BoundOnce' /\ IdsFresh' /\ UnbindKnows'
  <2>1. \A b \in bindings : b.project \in Slugs
    BY DEF TypeOK
  <2> QED BY <2>1, <1>1, <1>2, <1>3 DEF BoundOnce, IdsFresh, UnbindKnows
<1>6. BindsExisting'
  <2>1. \A v \in Writers : req[v].pc = "bind" => req[v].slug \in Slugs
    BY Fields DEF TypeOK, Requests
  <2> QED BY <2>1, <1>1, <1>2, <1>3 DEF BindsExisting
<1>7. ParentsExist'
  BY <1>3, ProjectConstants DEF ParentsExist
<1>8. PendingExist'
  BY <1>1, <1>2, <1>3 DEF PendingExist, Moving
<1>9. LookupsFresh'
  <2> SUFFICES ASSUME ~overlap' PROVE TwoLevels' /\ PendingFresh'
    BY DEF LookupsFresh
  <2>1. ~overlap /\ \A v \in Writers \ {w} : req[v].pc \notin {"insert", "children", "update"}
    BY DEF NoteOverlap, TypeOK
  <2>2. PendingFresh'
    BY <2>1, <1>1, <1>2 DEF PendingFresh, Moving
  <2>3. TwoLevels'
    <3> SUFFICES ASSUME NEW c \in Slugs, parent'[c] \in Slugs \ {c}
                 PROVE  parent'[parent'[c]] = Top
      BY DEF TwoLevels
    <3>1. CASE c = s
      BY <3>1, <2>1, <1>3
    <3>2. CASE c # s
      <4>1. parent'[c] = parent[c] /\ parent[parent[c]] = Top
        BY <3>2, <2>1, <1>3 DEF LookupsFresh, TwoLevels
      <4> QED BY <4>1, <3>2, <2>1, <1>3
    <3> QED BY <3>1, <3>2
  <2> QED BY <2>2, <2>3
<1> QED BY <1>4, <1>5, <1>6, <1>7, <1>8, <1>9

\* A step whose statement touches no row ends its request.
LEMMA NoRow ==
  ASSUME IInv, NEW w \in Writers, Goto(w, Idle),
         UNCHANGED <<parent, archived, bindings, lastId, overlap>>
  PROVE  IInv'
<1>1. Idle \in Requests /\ Idle.pc = "idle"
  BY DEF Requests, Idle
<1> QED BY <1>1, LookupKeeps

\* Create's INSERT: a slug that did not exist has no children.
LEMMA InsertKeeps ==
  ASSUME IInv, NEW w \in Writers, Insert(w)
  PROVE  IInv'
<1> DEFINE s == req[w].slug  p == req[w].parent
<1>1. s \in Slugs /\ p \in Slugs \cup {Top}
  BY Fields DEF IInv, TypeOK, Requests, Insert
<1>2. p \in Slugs => parent[p] # None /\ (~overlap => parent[p] = Top)
  BY DEF IInv, PendingExist, LookupsFresh, PendingFresh, Moving, Insert
<1>3. CASE parent[s] = None
  <2>1. \A c \in Slugs \ {s} : parent[c] # s
    BY <1>1, <1>3 DEF IInv, ParentsExist
  <2>2. /\ parent' = [parent EXCEPT ![s] = p] /\ archived' = [archived EXCEPT ![s] = FALSE]
        /\ NoteOverlap(w) /\ Goto(w, Idle) /\ UNCHANGED <<bindings, lastId>>
    BY <1>3 DEF Insert
  <2>3. archived' \in [Slugs -> BOOLEAN]
    BY <2>2 DEF IInv, TypeOK
  <2> HIDE DEF s, p
  <2> QED BY <1>1, <1>2, <2>1, <2>2, <2>3, WriteKeeps
<1>4. CASE parent[s] # None
  BY <1>4, NoRow DEF Insert
<1> QED BY <1>3, <1>4

\* Update's UPDATE: the parent is set aside, kept, or one that was looked up.
LEMMA UpdateKeeps ==
  ASSUME IInv, NEW w \in Writers, Update(w)
  PROVE  IInv'
<1> DEFINE s == req[w].slug  p == req[w].parent  q == Coalesce(p, parent[s])
<1>1. s \in Slugs /\ p \in Slugs \cup {Top, Keep} /\ req[w].archived \in BOOLEAN \cup {Keep}
  BY Fields DEF IInv, TypeOK, Requests, Update
<1>2. p \in Slugs => /\ parent[p] # None
                     /\ ~overlap => parent[p] = Top /\ ~HasChildren(s)
  BY DEF IInv, PendingExist, LookupsFresh, PendingFresh, Moving, Update
<1>3. CASE parent[s] = None
  BY <1>3, NoRow DEF Update
<1>4. CASE parent[s] # None
  <2>1. q \in Slugs \cup {Top}
    BY <1>1, <1>4 DEF Coalesce, IInv, TypeOK
  <2>2. q \in Slugs => parent[q] # None
    BY <1>1, <1>2, ProjectConstants DEF Coalesce, IInv, ParentsExist
  <2>3. ~overlap => /\ q \in Slugs \ {s} => parent[q] = Top
                    /\ q # Top => \A c \in Slugs \ {s} : parent[c] # s
    <3>1. CASE p = Keep
      BY <1>1, <3>1 DEF Coalesce, IInv, LookupsFresh, TwoLevels
    <3>2. CASE p # Keep
      BY <1>1, <1>2, <3>2 DEF Coalesce, HasChildren
    <3> QED BY <3>1, <3>2
  <2>4. /\ parent' = [parent EXCEPT ![s] = q]
        /\ archived' = [archived EXCEPT ![s] = Coalesce(req[w].archived, archived[s])]
        /\ NoteOverlap(w) /\ Goto(w, Idle) /\ UNCHANGED <<bindings, lastId>>
    BY <1>1, <1>4 DEF Update, IInv, TypeOK
  <2>5. archived' \in [Slugs -> BOOLEAN]
    BY <1>1, <2>4 DEF Coalesce, IInv, TypeOK
  <2> HIDE DEF s, q
  <2> QED BY <1>1, <2>1, <2>2, <2>3, <2>4, <2>5, WriteKeeps
<1> QED BY <1>3, <1>4

----------------------------------------------------------------------------
(* Together.                                                               *)

\* An empty store satisfies every part.
LEMMA InitInv == Init => IInv
<1> SUFFICES ASSUME Init PROVE IInv
  OBVIOUS
<1>1. TypeOK
  <2>1. parent \in [Slugs -> Slugs \cup {Top, None}] /\ archived \in [Slugs -> BOOLEAN]
    BY DEF Init
  <2>2. req \in [Writers -> ProjectWrites \cup BindingWrites \cup {Idle}]
    BY DEF Init
  <2>3. bindings = {} /\ lastId \in 0 .. MaxIds /\ overlap \in BOOLEAN
    <3>1. 0 \in 0 .. MaxIds
      BY ProjectConstants
    <3> QED BY <3>1 DEF Init
  <2> QED BY <2>1, <2>2, <2>3 DEF TypeOK
<1>2. BoundOnce /\ IdsFresh /\ ParentsExist /\ TwoLevels
  BY ProjectConstants DEF Init, BoundOnce, IdsFresh, ParentsExist, TwoLevels
<1>3. BindsExisting /\ UnbindKnows /\ PendingExist /\ PendingFresh
  BY DEF Init, Idle, BindsExisting, UnbindKnows, PendingExist, PendingFresh, Moving
<1> QED BY <1>1, <1>2, <1>3 DEF IInv, LookupsFresh

\* Every statement of every request keeps every part.
LEMMA NextInv == IInv /\ [Next]_vars => IInv'
<1> SUFFICES ASSUME IInv, [Next]_vars PROVE IInv'
  OBVIOUS
<1>1. CASE UNCHANGED vars
  BY <1>1 DEF vars, IInv, TypeOK, BoundOnce, IdsFresh, BindsExisting, UnbindKnows, ParentsExist,
       PendingExist, LookupsFresh, TwoLevels, PendingFresh, Moving, HasChildren
<1>2. CASE Next
  BY <1>2, BeginCreateKeeps, InsertKeeps, BeginUpdateKeeps, CheckChildrenKeeps, UpdateKeeps,
     BeginBindingKeeps, BindKeeps, UnbindKeeps DEF Next, ProjectStep, BindingStep
<1> QED BY <1>1, <1>2

\* The invariant above is one of the specification.
THEOREM Invariance == Spec => []IInv
BY InitInv, NextInv, PTL DEF Spec

----------------------------------------------------------------------------
(* Results.                                                                *)

\* checkParent and hasChildren keep the hierarchy at two levels for as long as
\* no project is written between another request's lookups and its write.
THEOREM TwoLevelsHold == Spec => []TwoLevelsWithoutOverlap
<1>1. IInv => TwoLevelsWithoutOverlap
  BY DEF IInv, LookupsFresh, TwoLevelsWithoutOverlap
<1> QED BY <1>1, Invariance, PTL

\* Even when requests overlap, every parent_slug names a project that exists.
THEOREM NoParentDangles == Spec => []ParentsExist
<1>1. IInv => ParentsExist
  BY DEF IInv
<1> QED BY <1>1, Invariance, PTL

\* One external name is bound to at most one project, and to one that exists.
THEOREM NamesBoundOnce == Spec => []BoundOnce
<1>1. IInv => BoundOnce
  BY DEF IInv
<1> QED BY <1>1, Invariance, PTL

\* What a DELETE removes is a binding of the project its URL named.
THEOREM UnbindsAreTrue == Spec => UnbindsItsOwn
<1> DEFINE P == \A b \in bindings \ bindings' :
                  \E w \in Writers : req[w].pc = "unbind" /\ req[w].slug = b.project
<1>1. IInv /\ [Next]_vars => [P]_vars
  <2> SUFFICES ASSUME IInv, Next, NEW b \in bindings \ bindings'
               PROVE  \E w \in Writers : req[w].pc = "unbind" /\ req[w].slug = b.project
    OBVIOUS
  <2>1. PICK w \in Writers : ProjectStep(w) \/ BindingStep(w) \/ Abandon(w)
    BY DEF Next
  <2>2. CASE Unbind(w)
    BY <2>2 DEF Unbind, IInv, UnbindKnows
  <2>3. CASE Bind(w)
    BY <2>3 DEF Bind
  <2>4. CASE ~Unbind(w) /\ ~Bind(w)
    <3>1. bindings' = bindings
      BY <2>1, <2>4 DEF ProjectStep, BindingStep, BeginCreate, Insert, BeginUpdate, CheckChildren,
           Update, BeginBind, BeginUnbind, Abandon
    <3> QED BY <3>1
  <2> QED BY <2>2, <2>3, <2>4
<1> QED BY <1>1, Invariance, PTL DEF Spec, UnbindsItsOwn
=============================================================================
