------------------------ MODULE DatabaseProvisioning -------------------------
(***************************************************************************)
(* The database of one module (internal/dbprov): every core replica        *)
(* reconciles the module's manifest, makes the role and the database exist *)
(* on the shared PostgreSQL server, and publishes the role's password in a *)
(* Secret of the module's namespace. core's own database and the bundled   *)
(* Keycloak's go through the same ensure, with a manifest that never       *)
(* changes. The DSN is a function of the password: the server's address is *)
(* fixed. Namespace labels play no part.                                   *)
(***************************************************************************)
EXTENDS Naturals

CONSTANTS
  Replicas,    \* core replicas; there is no leader election
  Passwords,   \* what GeneratePassword may return
  Blank,       \* no password in a Secret
  Given,       \* a password an operator put into the Secret beforehand
  Former,      \* one the role had in an earlier life, which only backups have
  None,        \* no Secret, no role, no lock holder
  MaxFaults,   \* bound: failing calls, crashes, and servers losing their data
  MaxChanges   \* bound: edits of the manifest and deletions of the Secret

ASSUME DatabaseConstants ==
  /\ MaxFaults \in Nat /\ MaxChanges \in Nat
  /\ Given \notin Passwords /\ Given # None
  /\ Former \notin Passwords \cup {Given, None}
  /\ None \notin Passwords /\ None \notin Replicas
  /\ Blank \notin Passwords \cup {Given, None}
  /\ None \notin [pw : Passwords \cup {Given, Blank}, ours : BOOLEAN]

VARIABLES
  enabled,   \* the manifest's database.enabled
  secret,    \* the credential Secret: its password, and whether core annotated it
  role,      \* the password of the role on the server
  db,        \* the database: created, and closed to PUBLIC
  lock,      \* who holds the advisory lock
  at,        \* where each replica's Reconcile is
  want,      \* the database.enabled it fetched
  pw,        \* the password it works with
  seen,      \* the Secret it read last
  verified,  \* Provisioner.verified, within recheckInterval
  faults, changes,
  overlap    \* history: two replicas' Ensure calls were under way at once

vars == <<enabled, secret, role, db, lock, at, want, pw, seen, verified,
          faults, changes, overlap>>

Secrets == [pw : Passwords \cup {Given, Blank}, ours : BOOLEAN]

OnServer == {"exists", "lock", "role", "database", "revoke"}

TypeOK ==
  /\ enabled \in BOOLEAN
  /\ secret \in Secrets \cup {None}
  /\ role \in Passwords \cup {Given, Former, None}
  /\ db \in {"none", "created", "closed"}
  /\ lock \in Replicas \cup {None}
  /\ at \in [Replicas -> OnServer \cup {"idle", "fetched", "compare", "get", "write", "remove"}]
  /\ want \in [Replicas -> BOOLEAN]
  /\ pw \in [Replicas -> Passwords \cup {Given, None}]
  /\ seen \in [Replicas -> Secrets \cup {None}]
  /\ verified \in [Replicas -> BOOLEAN]
  /\ faults \in 0 .. MaxFaults
  /\ changes \in 0 .. MaxChanges
  /\ overlap \in BOOLEAN

\* A first install; an operator may have put a Secret there, with a password or
\* without.
Init ==
  /\ enabled \in BOOLEAN
  /\ secret \in {None} \cup [pw : {Given, Blank}, ours : {FALSE}]
  /\ role = None
  /\ db = "none"
  /\ lock = None
  /\ at = [r \in Replicas |-> "idle"]
  /\ want = [r \in Replicas |-> FALSE]
  /\ pw = [r \in Replicas |-> None]
  /\ seen = [r \in Replicas |-> None]
  /\ verified = [r \in Replicas |-> FALSE]
  /\ faults = 0
  /\ changes = 0
  /\ overlap = FALSE

Server == <<role, db>>
Bounds == <<faults, changes>>

Goto(r, to) == at' = [at EXCEPT ![r] = to]

\* The end of a Reconcile, successful or not: it is queued again either way.
Done(r) ==
  /\ Goto(r, "idle")
  /\ pw' = [pw EXCEPT ![r] = None]
  /\ seen' = [seen EXCEPT ![r] = None]
  /\ want' = [want EXCEPT ![r] = FALSE]

----------------------------------------------------------------------------
(* Reconcile and Provisioner.Ensure.                                       *)

\* Reconcile reads the manifest, and checks the module's health after that.
Fetch(r) ==
  /\ at[r] = "idle"
  /\ want' = [want EXCEPT ![r] = enabled]
  /\ overlap' = (overlap \/ \E s \in Replicas \ {r} : at[s] # "idle")
  /\ Goto(r, "fetched")
  /\ UNCHANGED <<enabled, secret, Server, lock, pw, seen, verified, Bounds>>

HasPassword(s) == s # None /\ s.pw # Blank

\* Mutant: the annotation misread.
ReadToRemoveForeign(r) ==
  /\ at[r] = "fetched"
  /\ ~want[r]
  /\ IF secret # None /\ ~secret.ours
     THEN Goto(r, "remove") /\ UNCHANGED <<want, pw, seen>>
     ELSE Done(r)
  /\ UNCHANGED <<enabled, secret, Server, lock, verified, Bounds, overlap>>

\* No longer wanted: removeOurs, up to its check of the annotation.
ReadToRemove(r) ==
  /\ at[r] = "fetched"
  /\ ~want[r]
  /\ IF secret # None /\ secret.ours
     THEN Goto(r, "remove") /\ UNCHANGED <<want, pw, seen>>
     ELSE Done(r)
  /\ UNCHANGED <<enabled, secret, Server, lock, verified, Bounds, overlap>>

\* The client's Delete names no version: it takes what is there.
Remove(r) ==
  /\ at[r] = "remove"
  /\ secret' = None
  /\ Done(r)
  /\ UNCHANGED <<enabled, Server, lock, verified, Bounds, overlap>>

\* GeneratePassword: 32 random bytes, unlike any password still about.
Fresh(p) ==
  /\ p # role
  /\ \A r \in Replicas : p # pw[r] /\ (HasPassword(seen[r]) => p # seen[r].pw)

\* ensure without a usable credential: a new password, set on the server before
\* it is published.
ReadAndGenerate(r) ==
  /\ at[r] = "fetched"
  /\ want[r]
  /\ ~HasPassword(secret)
  /\ \E p \in Passwords : Fresh(p) /\ pw' = [pw EXCEPT ![r] = p]
  /\ seen' = [seen EXCEPT ![r] = secret]
  /\ Goto(r, "lock")
  /\ UNCHANGED <<enabled, secret, Server, lock, want, verified, Bounds, overlap>>

\* ensure with one: the server is asked unless it was lately.
ReadAndHonour(r) ==
  /\ at[r] = "fetched"
  /\ want[r]
  /\ HasPassword(secret)
  /\ pw' = [pw EXCEPT ![r] = secret.pw]
  /\ seen' = [seen EXCEPT ![r] = secret]
  /\ Goto(r, IF verified[r] THEN "compare" ELSE "exists")
  /\ UNCHANGED <<enabled, secret, Server, lock, want, verified, Bounds, overlap>>

\* Mutants: the role alone is looked for, and a new password for a lost server.
ExistsRole(r) ==
  /\ at[r] = "exists"
  /\ IF role # None
     THEN verified' = [verified EXCEPT ![r] = TRUE] /\ Goto(r, "compare")
     ELSE Goto(r, "lock") /\ UNCHANGED verified
  /\ UNCHANGED <<enabled, secret, Server, lock, want, pw, seen, Bounds, overlap>>

ExistsRenewing(r) ==
  /\ at[r] = "exists"
  /\ IF role # None /\ db # "none"
     THEN verified' = [verified EXCEPT ![r] = TRUE] /\ Goto(r, "compare") /\ UNCHANGED pw
     ELSE /\ \E p \in Passwords : Fresh(p) /\ pw' = [pw EXCEPT ![r] = p]
          /\ Goto(r, "lock")
          /\ UNCHANGED verified
  /\ UNCHANGED <<enabled, secret, Server, lock, want, seen, Bounds, overlap>>

\* Admin.Exists: the role and the database, whatever the role's password.
Exists(r) ==
  /\ at[r] = "exists"
  /\ IF role # None /\ db # "none"
     THEN verified' = [verified EXCEPT ![r] = TRUE] /\ Goto(r, "compare")
     ELSE Goto(r, "lock") /\ UNCHANGED verified
  /\ UNCHANGED <<enabled, secret, Server, lock, want, pw, seen, Bounds, overlap>>

----------------------------------------------------------------------------
(* Admin.Ensure, statement by statement under the advisory lock.           *)

Lock(r) ==
  /\ at[r] = "lock"
  /\ lock = None
  /\ lock' = r
  /\ Goto(r, "role")
  /\ UNCHANGED <<enabled, secret, Server, want, pw, seen, verified, Bounds, overlap>>

\* Mutant: a role that exists keeps its password.
SetNewRole(r) ==
  at[r] = "role" /\ role' = (IF role = None THEN pw[r] ELSE role) /\ UNCHANGED <<secret, db>>

\* CREATE ROLE or ALTER ROLE, with the password.
SetRole(r) == at[r] = "role" /\ role' = pw[r] /\ UNCHANGED <<secret, db>>

\* CREATE DATABASE, unless it is there.
CreateDatabase(r) ==
  /\ at[r] = "database"
  /\ db' = IF db = "none" THEN "created" ELSE db
  /\ UNCHANGED <<secret, role>>

Revoke(r) == at[r] = "revoke" /\ db' = "closed" /\ UNCHANGED <<secret, role>>

\* One statement and its success.
Statement(r) ==
  /\ \/ SetRole(r) /\ Goto(r, "database") /\ UNCHANGED <<lock, verified>>
     \/ CreateDatabase(r) /\ Goto(r, "revoke") /\ UNCHANGED <<lock, verified>>
     \/ /\ Revoke(r)
        /\ Goto(r, "compare")
        /\ lock' = None
        /\ verified' = [verified EXCEPT ![r] = TRUE]
  /\ UNCHANGED <<enabled, want, pw, seen, Bounds, overlap>>

----------------------------------------------------------------------------
(* Publishing the credential.                                              *)

\* Nothing to do when the Secret that was read has this DSN and is annotated.
Compare(r) ==
  /\ at[r] = "compare"
  /\ IF seen[r] = [pw |-> pw[r], ours |-> TRUE]
     THEN Done(r)
     ELSE Goto(r, "get") /\ UNCHANGED <<want, pw, seen>>
  /\ UNCHANGED <<enabled, secret, Server, lock, verified, Bounds, overlap>>

\* CreateOrUpdate reads the Secret again.
Get(r) ==
  /\ at[r] = "get"
  /\ seen' = [seen EXCEPT ![r] = secret]
  /\ Goto(r, "write")
  /\ UNCHANGED <<enabled, secret, Server, lock, want, pw, verified, Bounds, overlap>>

\* Its Create or Update: AlreadyExists or a conflict if the Secret changed since.
Publish(r) ==
  /\ at[r] = "write"
  /\ secret = seen[r]
  /\ secret' = [pw |-> pw[r], ours |-> TRUE]
  /\ UNCHANGED Server

Write(r) ==
  /\ Publish(r) \/ (at[r] = "write" /\ secret # seen[r] /\ UNCHANGED <<secret, Server>>)
  /\ Done(r)
  /\ UNCHANGED <<enabled, lock, verified, Bounds, overlap>>

----------------------------------------------------------------------------
(* What may go wrong, and what people do.                                  *)

Unlock(r) == lock' = IF lock = r THEN None ELSE lock

\* A call fails or the replica dies, with or without its last write applied; a
\* session that ends gives up its lock.
Fail(r) ==
  /\ at[r] # "idle"
  /\ faults < MaxFaults
  /\ faults' = faults + 1
  /\ \/ UNCHANGED <<secret, Server>>
     \/ SetRole(r) \/ CreateDatabase(r) \/ Revoke(r) \/ Publish(r)
  /\ verified' \in {verified, [verified EXCEPT ![r] = FALSE]}
  /\ Unlock(r)
  /\ Done(r)
  /\ UNCHANGED <<enabled, changes, overlap>>

\* The server is recreated empty or restored from a backup, taken before or after
\* the database was made and the role's password last changed; its sessions end.
ServerLost ==
  /\ role # None
  /\ faults < MaxFaults
  /\ faults' = faults + 1
  /\ role' \in {None, role, Former}
  /\ db' \in IF role' = None THEN {"none"} ELSE {"none", db}
  /\ lock' = None
  /\ LET cut(f, nil) == [r \in Replicas |-> IF at[r] \in OnServer THEN nil ELSE f[r]]
     IN  /\ at' = cut(at, "idle")
         /\ want' = cut(want, FALSE)
         /\ pw' = cut(pw, None)
         /\ seen' = cut(seen, None)
  /\ UNCHANGED <<enabled, secret, verified, changes, overlap>>

\* recheckInterval passes.
Expire(r) ==
  /\ verified[r]
  /\ verified' = [verified EXCEPT ![r] = FALSE]
  /\ UNCHANGED <<enabled, secret, Server, lock, at, want, pw, seen, Bounds, overlap>>

\* The manifest is edited, or the Secret is deleted (by hand, or with the module
\* that owned it).
Change ==
  /\ changes < MaxChanges
  /\ changes' = changes + 1
  /\ \/ enabled' = ~enabled /\ UNCHANGED secret
     \/ secret # None /\ secret' = None /\ UNCHANGED enabled
  /\ UNCHANGED <<Server, lock, at, want, pw, seen, verified, faults, overlap>>

EnsureStep(r) ==
  \/ Fetch(r)
  \/ ReadToRemove(r) \/ Remove(r)
  \/ ReadAndGenerate(r) \/ ReadAndHonour(r) \/ Exists(r)
  \/ Statement(r)
  \/ Compare(r) \/ Get(r) \/ Write(r)

Next ==
  \/ \E r \in Replicas : EnsureStep(r) \/ Lock(r) \/ Fail(r) \/ Expire(r)
  \/ ServerLost
  \/ Change

\* Reconcile is queued again whatever its outcome, time passes, and PostgreSQL
\* grants an advisory lock in the order it was asked for.
Spec ==
  /\ Init
  /\ [][Next]_vars
  /\ \A r \in Replicas : WF_vars(EnsureStep(r)) /\ SF_vars(Lock(r)) /\ WF_vars(Expire(r))

----------------------------------------------------------------------------
(* Properties.                                                             *)

Settled == \A r \in Replicas : at[r] = "idle"

\* ensure: "The Secret is the source of truth for the password" - between
\* reconciles the server's role, if there is one, has the Secret's password.
PasswordsAgree ==
  Settled /\ HasPassword(secret) => role \in {None, secret.pw}

\* ... as long as no two replicas provision at once and no backup has brought an
\* older password back, whatever fails half-way and whenever the Secret or the server's
\* data are lost.
PasswordsAgreeWithoutOverlap == ~overlap /\ role # Former => PasswordsAgree

\* ensure: "an existing one is honoured (so running consumers keep working), and
\* only a missing one triggers a new password". It does not hold of two replicas
\* at once: README, Findings.
PublishedIsHonoured ==
  [][HasPassword(secret) /\ HasPassword(secret') => secret'.pw = secret.pw]_vars

\* ... but it holds as long as no two replicas have provisioned at once: then no
\* fault, lost server or old backup makes core replace the password consumers have.
PublishedIsHonouredWithoutOverlap ==
  [][HasPassword(secret) /\ HasPassword(secret') /\ ~overlap' => secret'.pw = secret.pw]_vars

\* A database that the module's Secret opens.
Provided == HasPassword(secret) /\ role = secret.pw /\ db # "none"

\* ensure: "it may have been restored from an older backup or recreated - and if
\* not, rebuild them": a module that keeps asking has its database in the end. It
\* does not hold of a backup with an older password, which Exists does not look at:
\* README, Findings.
RestoredIsRepaired == [](~overlap) /\ <>[]enabled => <>[]Provided

\* ... but it holds of a server that comes back empty, without the database, or
\* with the password the Secret has, once calls stop failing, as long as no two
\* replicas provision at once.
EnabledGetsDatabase == <>[](role # Former) => RestoredIsRepaired

\* Ensure: for a module that stopped asking, "a Secret this package wrote is
\* removed", for good, although a replica may still act on the old manifest.
DisabledLosesSecret ==
  <>[](~enabled) => <>[](secret = None \/ ~secret.ours)

\* The package comment: "CONNECT is revoked from PUBLIC on every database" - once
\* a replica takes a database for provisioned, Ensure's last statement was run.
\* It does not hold with two faults: README, Findings.
VerifiedIsClosed ==
  \A r \in Replicas : Settled /\ verified[r] /\ db # "none" => db = "closed"
=============================================================================
