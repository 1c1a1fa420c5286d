---------------------------- MODULE ProjectStore -----------------------------
(***************************************************************************)
(* Projects and their bindings in one workspace (internal/project,         *)
(* internal/api/projects.go). Every SQL statement is one step: Create,     *)
(* Update, CreateBinding and the DELETE of a binding look rows up first    *)
(* and write afterwards, on pooled connections and outside a transaction.  *)
(* Names, descriptions, colours and icons play no part.                    *)
(***************************************************************************)
EXTENDS Naturals, FiniteSets

CONSTANTS
  Slugs,    \* project slugs
  Writers,  \* write requests in flight at once
  Values,   \* external names to bind: kind, backend and value
  Top,      \* a parent_slug of '': the project is top-level
  None,     \* there is no such project
  Keep,     \* a field the patch leaves out
  MaxIds    \* bound: bindings created in one behaviour

ASSUME ProjectConstants ==
  /\ MaxIds \in Nat
  /\ Top \notin Slugs /\ None \notin Slugs /\ Keep \notin Slugs
  /\ Top # None /\ Top # Keep /\ None # Keep

VARIABLES
  parent,    \* booth_projects: each project's parent_slug, or None
  archived,  \* booth_projects: archived
  bindings,  \* booth_project_bindings
  lastId,    \* the last id newBindingID made up
  req,       \* each write request: where it is and what it asks for
  overlap    \* history: a project was written while another write had already
             \* looked rows up

vars == <<parent, archived, bindings, lastId, req, overlap>>

Idle == [pc |-> "idle"]

ProjectWrites ==
  [pc : {"insert"}, slug : Slugs, parent : Slugs \cup {Top}]
  \cup [pc : {"children", "update"}, slug : Slugs, parent : Slugs \cup {Top, Keep},
        archived : BOOLEAN \cup {Keep}]

BindingWrites ==
  [pc : {"bind"}, slug : Slugs, value : Values]
  \cup [pc : {"unbind"}, slug : Slugs, id : 1 .. MaxIds]

TypeOK ==
  /\ parent \in [Slugs -> Slugs \cup {Top, None}]
  /\ archived \in [Slugs -> BOOLEAN]
  /\ bindings \subseteq [id : 1 .. MaxIds, project : Slugs, value : Values]
  /\ lastId \in 0 .. MaxIds
  /\ req \in [Writers -> ProjectWrites \cup BindingWrites \cup {Idle}]
  /\ overlap \in BOOLEAN

Init ==
  /\ parent = [s \in Slugs |-> None]
  /\ archived = [s \in Slugs |-> FALSE]
  /\ bindings = {}
  /\ lastId = 0
  /\ req = [w \in Writers |-> Idle]
  /\ overlap = FALSE

Goto(w, r) == req' = [req EXCEPT ![w] = r]

----------------------------------------------------------------------------
(* Projects.                                                               *)

\* The SELECT of checkParent: the parent exists, is not archived, is top-level.
CheckParent(p) == parent[p] = Top /\ ~archived[p]

HasChildren(s) == \E c \in Slugs : parent[c] = s

\* History: who else has looked at the projects and not written yet.
NoteOverlap(w) ==
  overlap' = (overlap \/ \E v \in Writers \ {w} : req[v].pc \in {"insert", "children", "update"})

\* POST /api/projects, up to its parent check; a refused one is over.
BeginCreate(w, s, p) ==
  /\ req[w].pc = "idle"
  /\ p # Top => CheckParent(p)
  /\ Goto(w, [pc |-> "insert", slug |-> s, parent |-> p])
  /\ UNCHANGED <<parent, archived, bindings, lastId, overlap>>

\* Create's INSERT; the primary key refuses a slug that exists.
Insert(w) ==
  /\ req[w].pc = "insert"
  /\ LET s == req[w].slug
     IN  IF parent[s] = None
         THEN /\ parent' = [parent EXCEPT ![s] = req[w].parent]
              /\ archived' = [archived EXCEPT ![s] = FALSE]
              /\ NoteOverlap(w)
         ELSE UNCHANGED <<parent, archived, overlap>>
  /\ Goto(w, Idle)
  /\ UNCHANGED <<bindings, lastId>>

\* Mutant: the parent is checked and the project's own children are not.
BeginUpdateOneCheck(w, s, p, a) ==
  /\ req[w].pc = "idle"
  /\ p \in Slugs => CheckParent(p)
  /\ Goto(w, [pc |-> "update", slug |-> s, parent |-> p, archived |-> a])
  /\ UNCHANGED <<parent, archived, bindings, lastId, overlap>>

\* PATCH /api/projects/{slug}, up to its parent check.
BeginUpdate(w, s, p, a) ==
  /\ req[w].pc = "idle"
  /\ p \in Slugs => CheckParent(p)
  /\ Goto(w, [pc |-> IF p \in Slugs THEN "children" ELSE "update", slug |-> s, parent |-> p,
              archived |-> a])
  /\ UNCHANGED <<parent, archived, bindings, lastId, overlap>>

\* The SELECT EXISTS of hasChildren.
CheckChildren(w) ==
  /\ req[w].pc = "children"
  /\ Goto(w, IF HasChildren(req[w].slug) THEN Idle ELSE [req[w] EXCEPT !.pc = "update"])
  /\ UNCHANGED <<parent, archived, bindings, lastId, overlap>>

Coalesce(new, old) == IF new = Keep THEN old ELSE new

\* Update's UPDATE, of the fields the patch names.
Update(w) ==
  /\ req[w].pc = "update"
  /\ LET s == req[w].slug
     IN  IF parent[s] = None
         THEN UNCHANGED <<parent, archived, overlap>>
         ELSE /\ parent' = [parent EXCEPT ![s] = Coalesce(req[w].parent, @)]
              /\ archived' = [archived EXCEPT ![s] = Coalesce(req[w].archived, @)]
              /\ NoteOverlap(w)
  /\ Goto(w, Idle)
  /\ UNCHANGED <<bindings, lastId>>

----------------------------------------------------------------------------
(* Bindings.                                                               *)

\* CreateBinding, up to its lookup of the project.
BeginBind(w, s, v) ==
  /\ req[w].pc = "idle"
  /\ parent[s] # None
  /\ Goto(w, [pc |-> "bind", slug |-> s, value |-> v])
  /\ UNCHANGED <<parent, archived, bindings, lastId, overlap>>

\* Mutant: an INSERT without the UNIQUE constraint behind it.
BindAnyway(w) ==
  /\ req[w].pc = "bind"
  /\ lastId < MaxIds
  /\ lastId' = lastId + 1
  /\ bindings' = bindings \cup {[id |-> lastId + 1, project |-> req[w].slug, value |-> req[w].value]}
  /\ Goto(w, Idle)
  /\ UNCHANGED <<parent, archived, overlap>>

\* The INSERT under a fresh id; UNIQUE (workspace, kind, backend_id, value)
\* refuses an external name that is bound already.
Bind(w) ==
  /\ req[w].pc = "bind"
  /\ lastId < MaxIds
  /\ lastId' = lastId + 1
  /\ bindings' = IF \E b \in bindings : b.value = req[w].value THEN bindings
                 ELSE bindings \cup {[id |-> lastId + 1, project |-> req[w].slug, value |-> req[w].value]}
  /\ Goto(w, Idle)
  /\ UNCHANGED <<parent, archived, overlap>>

\* Mutant: any binding of the workspace will do.
BeginUnbindAny(w, s, i) ==
  /\ req[w].pc = "idle"
  /\ \E b \in bindings : b.id = i
  /\ Goto(w, [pc |-> "unbind", slug |-> s, id |-> i])
  /\ UNCHANGED <<parent, archived, bindings, lastId, overlap>>

\* ListBindings, filtered by the project, has the id.
Listed(s, i) == \E b \in bindings : b.id = i /\ b.project = s

\* DELETE .../{slug}/bindings/{id}: the id must be listed under the slug.
BeginUnbind(w, s, i) ==
  /\ req[w].pc = "idle"
  /\ Listed(s, i)
  /\ Goto(w, [pc |-> "unbind", slug |-> s, id |-> i])
  /\ UNCHANGED <<parent, archived, bindings, lastId, overlap>>

\* DeleteBinding, by id alone.
Unbind(w) ==
  /\ req[w].pc = "unbind"
  /\ bindings' = {b \in bindings : b.id # req[w].id}
  /\ Goto(w, Idle)
  /\ UNCHANGED <<parent, archived, lastId, overlap>>

\* A statement fails, the client hangs up, or the replica dies mid-request.
Abandon(w) ==
  /\ req[w].pc # "idle"
  /\ Goto(w, Idle)
  /\ UNCHANGED <<parent, archived, bindings, lastId, overlap>>

ProjectStep(w) ==
  \/ \E s \in Slugs, p \in Slugs \cup {Top} : BeginCreate(w, s, p)
  \/ Insert(w)
  \/ \E s \in Slugs, p \in Slugs \cup {Top, Keep}, a \in BOOLEAN \cup {Keep} : BeginUpdate(w, s, p, a)
  \/ CheckChildren(w)
  \/ Update(w)

BindingStep(w) ==
  \/ \E s \in Slugs, v \in Values : BeginBind(w, s, v)
  \/ Bind(w)
  \/ \E s \in Slugs, i \in 1 .. MaxIds : BeginUnbind(w, s, i)
  \/ Unbind(w)

Next == \E w \in Writers : ProjectStep(w) \/ BindingStep(w) \/ Abandon(w)

Spec == Init /\ [][Next]_vars

----------------------------------------------------------------------------
(* Properties.                                                             *)

\* project.go, ErrHasChildren: its two checks "together keep the hierarchy at
\* exactly two levels" - the parent of another project is itself top-level.
\* It does not hold when requests overlap: README, Findings.
TwoLevels ==
  \A s \in Slugs : parent[s] \in Slugs \ {s} => parent[parent[s]] = Top

\* The checks do what they are for as long as requests do not overlap: no write
\* came between another request's lookups and its own write.
TwoLevelsWithoutOverlap == ~overlap => TwoLevels

\* project.go, Project: a parent "must name another project". It does not hold:
\* README, Findings.
ParentIsAnother == \A s \in Slugs : parent[s] # s

\* ErrBindingConflict: "one external name binds to at most one project", however
\* the requests that bind and unbind it interleave, and to one that exists.
BoundOnce ==
  \A b, c \in bindings : (b.value = c.value => b = c) /\ parent[b.project] # None

\* handleDeleteProjectBinding: "the URL's claim must be true" - what a request
\* removes is a binding of the project it named, although the list it looked at
\* may be out of date by then.
UnbindsItsOwn ==
  [][\A b \in bindings \ bindings' : \E w \in Writers : req[w].pc = "unbind" /\ req[w].slug = b.project]_vars
=============================================================================
