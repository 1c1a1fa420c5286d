------------------------- MODULE ProvisioningProofs -------------------------
(***************************************************************************)
(* What a reconcile provisions for a module, for any number of replicas,   *)
(* faults and changes. Its database: the advisory lock excludes, and as    *)
(* long as no two replicas provision at once the server's password is the  *)
(* Secret's and a published one is honoured. Its event-bus credential: it  *)
(* never lapses.                                                           *)
(***************************************************************************)
EXTENDS DatabaseProvisioning, TLAPS

----------------------------------------------------------------------------
(* The inductive invariant.                                                *)

Locked == {"role", "database", "revoke"}

\* Admin.Ensure's statements run under the advisory lock.
LockHeld == \A r \in Replicas : at[r] \in Locked => lock = r

\* Where a Reconcile has a password to work with.
Working(r) == at[r] \in OnServer \cup {"compare", "get", "write"}

PasswordKnown == \A r \in Replicas : Working(r) => pw[r] \in Passwords \cup {Given}

\* At most one Reconcile is under way.
Alone == \A r, s \in Replicas : at[r] # "idle" /\ at[s] # "idle" => r = s

\* The role's password is the Secret's, in the middle of a Reconcile too, unless a
\* backup brought another.
RoleAgrees == HasPassword(secret) => role \in {None, Former, secret.pw}

\* A Reconcile works with the password of the Secret, if that has one.
WorksOnSecret == \A r \in Replicas : Working(r) /\ HasPassword(secret) => secret.pw = pw[r]

\* Once past SetRole, or when there was no need for it, the role has the
\* password that will be published.
RoleIsSet ==
  \A r \in Replicas : Working(r) /\ at[r] \notin {"lock", "role"} => role \in {None, Former, pw[r]}

OneAtATime == Alone /\ RoleAgrees /\ WorksOnSecret /\ RoleIsSet

IInv ==
  /\ TypeOK
  /\ LockHeld
  /\ PasswordKnown
  /\ ~overlap => OneAtATime

----------------------------------------------------------------------------
(* Operators.                                                              *)

\* The Secret, when it is there.
LEMMA SecretTyped ==
  ASSUME NEW s \in Secrets \cup {None}
  PROVE  /\ s # None => s.pw \in Passwords \cup {Given, Blank} /\ s.ours \in BOOLEAN
         /\ HasPassword(s) => s.pw \in Passwords \cup {Given}
BY DEF Secrets, HasPassword

\* What core publishes is a Secret with a password.
LEMMA PublishedTyped ==
  ASSUME NEW p \in Passwords \cup {Given}
  PROVE  /\ [pw |-> p, ours |-> TRUE] \in Secrets
         /\ HasPassword([pw |-> p, ours |-> TRUE])
<1>1. [pw |-> p, ours |-> TRUE] \in Secrets
  BY DEF Secrets
<1>2. [pw |-> p, ours |-> TRUE] # None
  BY <1>1, DatabaseConstants DEF Secrets
<1>3. p # Blank
  BY DatabaseConstants
<1> QED BY <1>1, <1>2, <1>3 DEF HasPassword

\* A counter below its bound may take one more step.
LEMMA OneMore ==
  /\ \A n \in 0 .. MaxFaults : n < MaxFaults => n + 1 \in 0 .. MaxFaults
  /\ \A n \in 0 .. MaxChanges : n < MaxChanges => n + 1 \in 0 .. MaxChanges
BY DatabaseConstants

\* Done ends one Reconcile.
LEMMA DoneMeans ==
  ASSUME TypeOK, NEW r \in Replicas, Done(r)
  PROVE  /\ at' \in [Replicas -> OnServer \cup {"idle", "fetched", "compare", "get", "write", "remove"}]
         /\ \A s \in Replicas : at'[s] = IF s = r THEN "idle" ELSE at[s]
         /\ \A s \in Replicas \ {r} : pw'[s] = pw[s]
         /\ want' \in [Replicas -> BOOLEAN]
         /\ pw' \in [Replicas -> Passwords \cup {Given, None}]
         /\ seen' \in [Replicas -> Secrets \cup {None}]
BY DEF TypeOK, Done, Goto

----------------------------------------------------------------------------
(* Steps.                                                                  *)

\* A Reconcile ends and leaves the Secret and the server as they are, or without
\* a Secret, or without its role; or with the write it was about.
LEMMA DoneKeeps ==
  ASSUME IInv, NEW r \in Replicas, at[r] # "idle", Done(r), overlap' = overlap,
         enabled' \in BOOLEAN, db' \in {"none", "created", "closed"},
         lock' \in {lock, None}, \A s \in Replicas \ {r} : lock = s => lock' = s,
         verified' \in [Replicas -> BOOLEAN],
         faults' \in 0 .. MaxFaults, changes' \in 0 .. MaxChanges,
         \/ secret' \in {secret, None} /\ role' = role
         \/ secret' = secret /\ role' = pw[r] /\ Working(r)
         \/ secret' = [pw |-> pw[r], ours |-> TRUE] /\ role' = role /\ at[r] = "write"
  PROVE  IInv'
<1> USE DEF IInv
<1>1. /\ at' \in [Replicas -> OnServer \cup {"idle", "fetched", "compare", "get", "write", "remove"}]
      /\ \A s \in Replicas : at'[s] = IF s = r THEN "idle" ELSE at[s]
      /\ \A s \in Replicas \ {r} : pw'[s] = pw[s]
      /\ want' \in [Replicas -> BOOLEAN]
      /\ pw' \in [Replicas -> Passwords \cup {Given, None}]
      /\ seen' \in [Replicas -> Secrets \cup {None}]
  BY DoneMeans
<1>2. Working(r) => pw[r] \in Passwords \cup {Given}
  BY DEF PasswordKnown
<1>3. at[r] = "write" => Working(r)
  BY DEF Working
<1>4. secret' \in Secrets \cup {None} /\ role' \in Passwords \cup {Given, Former, None}
  BY <1>2, <1>3, PublishedTyped DEF TypeOK
<1>5. TypeOK'
  BY <1>1, <1>4 DEF TypeOK
<1>6. LockHeld'
  BY <1>1 DEF LockHeld, Locked
<1>7. \A s \in Replicas : Working(s)' => s # r /\ Working(s)
  BY <1>1 DEF Working, OnServer
<1>8. PasswordKnown'
  BY <1>1, <1>7 DEF PasswordKnown
<1>9. ASSUME ~overlap PROVE OneAtATime'
  <2>1. Alone /\ RoleAgrees /\ WorksOnSecret /\ RoleIsSet
    BY <1>9 DEF OneAtATime
  <2>2. Alone'
    BY <2>1, <1>1 DEF Alone
  <2>3. RoleAgrees'
    <3>1. CASE secret' \in {secret, None} /\ role' = role
      BY <3>1, <2>1 DEF RoleAgrees, HasPassword
    <3>2. CASE secret' = secret /\ role' = pw[r] /\ Working(r)
      BY <3>2, <2>1 DEF RoleAgrees, WorksOnSecret, HasPassword
    <3>3. CASE secret' = [pw |-> pw[r], ours |-> TRUE] /\ role' = role /\ at[r] = "write"
      BY <3>3, <2>1, <1>3 DEF RoleAgrees, RoleIsSet
    <3> QED BY <3>1, <3>2, <3>3
  <2>4. \A s \in Replicas : at'[s] = "idle"
    BY <2>1, <1>1 DEF Alone
  <2>5. WorksOnSecret' /\ RoleIsSet'
    BY <2>4 DEF WorksOnSecret, RoleIsSet, Working, OnServer
  <2> QED BY <2>2, <2>3, <2>5 DEF OneAtATime
<1> QED BY <1>5, <1>6, <1>8, <1>9

\* A Reconcile goes on, with a password or without, and touches nothing shared
\* but the lock.
LEMMA GoesOn ==
  ASSUME IInv, NEW r \in Replicas,
         NEW to \in OnServer \cup {"fetched", "compare", "get", "write", "remove"}, Goto(r, to),
         UNCHANGED <<enabled, secret, role, faults, changes>>,
         at[r] = "idle" => overlap' = (overlap \/ \E s \in Replicas \ {r} : at[s] # "idle"),
         at[r] # "idle" => overlap' = overlap,
         db' \in {"none", "created", "closed"},
         lock' \in {lock, r, None}, \A s \in Replicas \ {r} : lock = s => lock' = s,
         to \in Locked => lock' = r,
         verified' \in [Replicas -> BOOLEAN], want' \in [Replicas -> BOOLEAN],
         seen' \in [Replicas -> Secrets \cup {None}],
         pw' \in [Replicas -> Passwords \cup {Given, None}],
         \A s \in Replicas \ {r} : pw'[s] = pw[s],
         Working(r)' => /\ pw'[r] \in Passwords \cup {Given}
                        /\ ~overlap /\ HasPassword(secret) => secret.pw = pw'[r]
                        /\ ~overlap /\ to \notin {"lock", "role"} => role \in {None, Former, pw'[r]}
  PROVE  IInv'
<1> USE DEF IInv
<1>1. /\ at' \in [Replicas -> OnServer \cup {"idle", "fetched", "compare", "get", "write", "remove"}]
      /\ \A s \in Replicas : at'[s] = IF s = r THEN to ELSE at[s]
  BY DEF TypeOK, Goto
<1>2. lock' \in Replicas \cup {None} /\ overlap' \in BOOLEAN
  BY DEF TypeOK
<1>3. TypeOK'
  BY <1>1, <1>2 DEF TypeOK
<1>4. LockHeld'
  BY <1>1 DEF LockHeld
<1>5. \A s \in Replicas \ {r} : Working(s)' = Working(s)
  BY <1>1 DEF Working
<1>6. PasswordKnown'
  BY <1>5 DEF PasswordKnown
<1>7. ASSUME ~overlap' PROVE OneAtATime'
  <2>1. ~overlap /\ Alone /\ RoleAgrees /\ WorksOnSecret /\ RoleIsSet
    BY <1>7 DEF OneAtATime, TypeOK
  <2>2. \A s \in Replicas \ {r} : at[s] = "idle"
    BY <2>1, <1>7 DEF Alone
  <2>3. Alone'
    BY <2>2, <1>1 DEF Alone
  <2>4. RoleAgrees'
    BY <2>1 DEF RoleAgrees, HasPassword
  <2>5. WorksOnSecret'
    BY <2>1, <1>5 DEF WorksOnSecret, HasPassword
  <2>6. RoleIsSet'
    BY <2>1, <1>1, <1>5 DEF RoleIsSet
  <2> QED BY <2>3, <2>4, <2>5, <2>6 DEF OneAtATime
<1> QED BY <1>3, <1>4, <1>6, <1>7

\* Fetch, and a read of the Secret for a database no longer wanted.
LEMMA FetchKeeps ==
  ASSUME IInv, NEW r \in Replicas, Fetch(r)
  PROVE  IInv'
<1>1. want' \in [Replicas -> BOOLEAN] /\ at'[r] = "fetched" /\ ~Working(r)'
  BY DEF Fetch, Goto, IInv, TypeOK, Working, OnServer
<1> QED BY <1>1, GoesOn DEF Fetch, Goto, Locked, IInv, TypeOK, Server, Bounds

\* removeOurs.
LEMMA RemoveKeeps ==
  ASSUME IInv, NEW r \in Replicas, ReadToRemove(r) \/ Remove(r)
  PROVE  IInv'
<1>1. CASE ReadToRemove(r)
  <2>1. CASE Goto(r, "remove") /\ UNCHANGED <<want, pw, seen>>
    <3>1. ~Working(r)'
      BY <2>1 DEF Goto, IInv, TypeOK, Working, OnServer
    <3> QED BY <1>1, <2>1, <3>1, GoesOn DEF ReadToRemove, Locked, IInv, TypeOK, Server, Bounds
  <2>2. CASE Done(r)
    BY <1>1, <2>2, DoneKeeps DEF ReadToRemove, IInv, TypeOK, Server, Bounds
  <2> QED BY <1>1, <2>1, <2>2 DEF ReadToRemove
<1>2. CASE Remove(r)
  BY <1>2, DoneKeeps DEF Remove, IInv, TypeOK, Server, Bounds
<1> QED BY <1>1, <1>2

\* ensure's read of the Secret: a new password for a Secret without one, else the
\* Secret's own.
LEMMA ReadKeeps ==
  ASSUME IInv, NEW r \in Replicas, ReadAndGenerate(r) \/ ReadAndHonour(r)
  PROVE  IInv'
<1>1. secret \in Secrets \cup {None} /\ seen' \in [Replicas -> Secrets \cup {None}]
  BY DEF ReadAndGenerate, ReadAndHonour, IInv, TypeOK
<1>2. CASE ReadAndGenerate(r)
  <2>1. PICK p \in Passwords : pw' = [pw EXCEPT ![r] = p]
    BY <1>2 DEF ReadAndGenerate
  <2>2. pw' \in [Replicas -> Passwords \cup {Given, None}] /\ pw'[r] = p
        /\ \A s \in Replicas \ {r} : pw'[s] = pw[s]
    BY <2>1 DEF IInv, TypeOK
  <2> QED BY <1>1, <1>2, <2>2, GoesOn DEF ReadAndGenerate, Locked, OnServer, IInv, TypeOK, Server, Bounds
<1>3. CASE ReadAndHonour(r)
  <2>1. secret.pw \in Passwords \cup {Given}
    BY <1>1, <1>3, SecretTyped DEF ReadAndHonour
  <2>2. pw' \in [Replicas -> Passwords \cup {Given, None}] /\ pw'[r] = secret.pw
        /\ \A s \in Replicas \ {r} : pw'[s] = pw[s]
    BY <1>3, <2>1 DEF ReadAndHonour, IInv, TypeOK
  <2>3. ~overlap => role \in {None, Former, secret.pw}
    BY <1>3 DEF ReadAndHonour, IInv, OneAtATime, RoleAgrees
  <2>4. PICK to \in {"compare", "exists"} : Goto(r, to)
    BY <1>3 DEF ReadAndHonour
  <2> QED BY <1>1, <1>3, <2>1, <2>2, <2>3, <2>4, GoesOn
          DEF ReadAndHonour, Locked, OnServer, IInv, TypeOK, Server, Bounds
<1> QED BY <1>2, <1>3

\* What a Reconcile works with, wherever it has a password.
LEMMA WorkingFacts ==
  ASSUME IInv, NEW r \in Replicas, Working(r)
  PROVE  /\ pw[r] \in Passwords \cup {Given}
         /\ ~overlap /\ HasPassword(secret) => secret.pw = pw[r]
         /\ ~overlap /\ at[r] \notin {"lock", "role"} => role \in {None, Former, pw[r]}
BY DEF IInv, PasswordKnown, OneAtATime, WorksOnSecret, RoleIsSet

\* Exists, the advisory lock, and the reread of CreateOrUpdate.
LEMMA AskKeeps ==
  ASSUME IInv, NEW r \in Replicas, Exists(r) \/ Lock(r) \/ Get(r)
  PROVE  IInv'
<1>1. Working(r) /\ at[r] # "idle"
  BY DEF Exists, Lock, Get, Working, OnServer
<1>2. /\ pw[r] \in Passwords \cup {Given}
      /\ ~overlap /\ HasPassword(secret) => secret.pw = pw[r]
      /\ ~overlap /\ at[r] \notin {"lock", "role"} => role \in {None, Former, pw[r]}
  BY <1>1, WorkingFacts
<1>3. CASE Exists(r)
  <2>1. PICK to \in {"compare", "lock"} : Goto(r, to)
    BY <1>3 DEF Exists
  <2>2. verified' \in [Replicas -> BOOLEAN]
    BY <1>3 DEF Exists, IInv, TypeOK
  <2> QED BY <1>1, <1>2, <1>3, <2>1, <2>2, GoesOn
          DEF Exists, Locked, OnServer, IInv, TypeOK, Server, Bounds
<1>4. CASE Lock(r)
  <2>1. \A s \in Replicas : lock # s
    BY <1>4, DatabaseConstants DEF Lock
  <2> QED BY <1>1, <1>2, <1>4, <2>1, GoesOn
          DEF Lock, Locked, OnServer, IInv, TypeOK, Server, Bounds
<1>5. CASE Get(r)
  <2>1. seen' \in [Replicas -> Secrets \cup {None}]
    BY <1>5 DEF Get, IInv, TypeOK
  <2> QED BY <1>1, <1>2, <1>5, <2>1, GoesOn
          DEF Get, Locked, OnServer, IInv, TypeOK, Server, Bounds
<1> QED BY <1>3, <1>4, <1>5

\* CREATE ROLE or ALTER ROLE: the password is the Secret's, if that has one.
LEMMA SetRoleKeeps ==
  ASSUME IInv, NEW r \in Replicas, SetRole(r), Goto(r, "database"),
         UNCHANGED <<lock, verified, enabled, want, pw, seen, faults, changes, overlap>>
  PROVE  IInv'
<1> USE DEF IInv
<1>1. Working(r) /\ at[r] = "role"
  BY DEF SetRole, Working, OnServer
<1>2. /\ pw[r] \in Passwords \cup {Given}
      /\ ~overlap /\ HasPassword(secret) => secret.pw = pw[r]
  BY <1>1, WorkingFacts
<1>3. /\ at' \in [Replicas -> OnServer \cup {"idle", "fetched", "compare", "get", "write", "remove"}]
      /\ \A s \in Replicas : at'[s] = IF s = r THEN "database" ELSE at[s]
  BY DEF TypeOK, Goto, OnServer
<1>4. TypeOK'
  BY <1>2, <1>3 DEF TypeOK, SetRole
<1>5. LockHeld'
  BY <1>1, <1>3 DEF LockHeld, Locked
<1>6. \A s \in Replicas : Working(s)' = Working(s)
  BY <1>1, <1>3 DEF Working, OnServer
<1>7. PasswordKnown'
  BY <1>6 DEF PasswordKnown
<1>8. ASSUME ~overlap PROVE OneAtATime'
  <2>1. Alone /\ RoleAgrees /\ WorksOnSecret /\ RoleIsSet
    BY <1>8 DEF OneAtATime
  <2>2. Alone'
    BY <2>1, <1>1, <1>3 DEF Alone
  <2>3. RoleAgrees'
    BY <1>2, <1>8 DEF RoleAgrees, SetRole, HasPassword
  <2>4. WorksOnSecret'
    BY <2>1, <1>6 DEF WorksOnSecret, SetRole, HasPassword
  <2>5. RoleIsSet'
    <3>1. \A s \in Replicas : Working(s) => s = r
      BY <2>1, <1>1 DEF Alone, Working, OnServer
    <3> QED BY <3>1, <1>6 DEF RoleIsSet, SetRole
  <2> QED BY <2>2, <2>3, <2>4, <2>5 DEF OneAtATime
<1> QED BY <1>4, <1>5, <1>7, <1>8

\* The statements of Admin.Ensure.
LEMMA StatementKeeps ==
  ASSUME IInv, NEW r \in Replicas, Statement(r)
  PROVE  IInv'
<1>1. CASE SetRole(r) /\ Goto(r, "database") /\ UNCHANGED <<lock, verified>>
  BY <1>1, SetRoleKeeps DEF Statement, Bounds
<1>2. CASE CreateDatabase(r) /\ Goto(r, "revoke") /\ UNCHANGED <<lock, verified>>
  <2>1. Working(r) /\ at[r] = "database" /\ lock = r
    BY <1>2 DEF CreateDatabase, Working, OnServer, IInv, LockHeld, Locked
  <2>2. db' \in {"none", "created", "closed"}
    BY <1>2 DEF CreateDatabase, IInv, TypeOK
  <2> QED BY <1>2, <2>1, <2>2, WorkingFacts, GoesOn
          DEF Statement, CreateDatabase, Locked, OnServer, IInv, TypeOK, Bounds
<1>3. CASE /\ Revoke(r) /\ Goto(r, "compare") /\ lock' = None
           /\ verified' = [verified EXCEPT ![r] = TRUE]
  <2>1. Working(r) /\ at[r] = "revoke" /\ lock = r
    BY <1>3 DEF Revoke, Working, OnServer, IInv, LockHeld, Locked
  <2>2. db' \in {"none", "created", "closed"} /\ verified' \in [Replicas -> BOOLEAN]
    BY <1>3 DEF Revoke, IInv, TypeOK
  <2> QED BY <1>3, <2>1, <2>2, WorkingFacts, GoesOn
          DEF Statement, Revoke, Locked, OnServer, IInv, TypeOK, Bounds
<1> QED BY <1>1, <1>2, <1>3 DEF Statement

\* Compare and the write of CreateOrUpdate.
LEMMA PublishKeeps ==
  ASSUME IInv, NEW r \in Replicas, Compare(r) \/ Write(r)
  PROVE  IInv'
<1>1. CASE Compare(r)
  <2>1. Working(r) /\ at[r] = "compare"
    BY <1>1 DEF Compare, Working
  <2>2. CASE Done(r)
    BY <1>1, <2>1, <2>2, DoneKeeps DEF Compare, IInv, TypeOK, Server, Bounds
  <2>3. CASE Goto(r, "get") /\ UNCHANGED <<want, pw, seen>>
    BY <1>1, <2>1, <2>3, WorkingFacts, GoesOn DEF Compare, Locked, OnServer, IInv, TypeOK, Server, Bounds
  <2> QED BY <1>1, <2>2, <2>3 DEF Compare
<1>2. CASE Write(r)
  BY <1>2, DoneKeeps DEF Write, Publish, IInv, TypeOK, Server, Bounds
<1> QED BY <1>1, <1>2

\* A failing call, with or without its last write applied.
LEMMA FailKeeps ==
  ASSUME IInv, NEW r \in Replicas, Fail(r)
  PROVE  IInv'
<1>1. faults' \in 0 .. MaxFaults /\ verified' \in [Replicas -> BOOLEAN]
  <2>1. faults' \in 0 .. MaxFaults
    BY OneMore DEF Fail, IInv, TypeOK
  <2> QED BY <2>1 DEF Fail, IInv, TypeOK
<1>2. lock' \in {lock, None} /\ \A s \in Replicas \ {r} : lock = s => lock' = s
  BY DEF Fail, Unlock
<1>3. db' \in {"none", "created", "closed"}
  BY DEF Fail, SetRole, CreateDatabase, Revoke, Publish, Server, IInv, TypeOK
<1>4. \/ secret' \in {secret, None} /\ role' = role
      \/ secret' = secret /\ role' = pw[r] /\ Working(r)
      \/ secret' = [pw |-> pw[r], ours |-> TRUE] /\ role' = role /\ at[r] = "write"
  BY DEF Fail, SetRole, CreateDatabase, Revoke, Publish, Server, Working, OnServer
<1> QED BY <1>1, <1>2, <1>3, <1>4, DoneKeeps DEF Fail, IInv, TypeOK

\* The server is recreated empty, or restored from a backup.
LEMMA ServerLostKeeps ==
  ASSUME IInv, ServerLost
  PROVE  IInv'
<1> USE DEF IInv
<1>1. \A r \in Replicas : at[r] \in OnServer => at'[r] = "idle"
  BY DEF ServerLost
<1>2. \A r \in Replicas : at[r] \notin OnServer => at'[r] = at[r] /\ pw'[r] = pw[r]
  BY DEF ServerLost
<1>3. /\ at' \in [Replicas -> OnServer \cup {"idle", "fetched", "compare", "get", "write", "remove"}]
      /\ want' \in [Replicas -> BOOLEAN]
      /\ pw' \in [Replicas -> Passwords \cup {Given, None}]
      /\ seen' \in [Replicas -> Secrets \cup {None}]
  BY DEF ServerLost, TypeOK
<1>4. TypeOK'
  <2>1. faults' \in 0 .. MaxFaults
    BY OneMore DEF ServerLost, TypeOK
  <2>2. role' \in Passwords \cup {Given, Former, None} /\ db' \in {"none", "created", "closed"}
    BY DEF ServerLost, TypeOK
  <2> QED BY <1>3, <2>1, <2>2 DEF ServerLost, TypeOK
<1>5. \A r \in Replicas : Working(r)' => Working(r) /\ at'[r] = at[r] /\ pw'[r] = pw[r]
                                          /\ at[r] \notin OnServer
  BY <1>1, <1>2 DEF Working, OnServer
<1>6. LockHeld'
  BY <1>1, <1>2 DEF LockHeld, Locked, OnServer
<1>7. PasswordKnown'
  BY <1>5 DEF PasswordKnown
<1>8. ASSUME ~overlap PROVE OneAtATime'
  <2>1. Alone'
    BY <1>1, <1>2, <1>8 DEF OneAtATime, Alone
  <2>2. RoleAgrees' /\ RoleIsSet'
    BY <1>5, <1>8 DEF ServerLost, OneAtATime, RoleAgrees, RoleIsSet, HasPassword
  <2>3. WorksOnSecret'
    BY <1>5, <1>8 DEF ServerLost, OneAtATime, WorksOnSecret, HasPassword
  <2> QED BY <2>1, <2>2, <2>3 DEF OneAtATime
<1>9. overlap' = overlap
  BY DEF ServerLost
<1> QED BY <1>4, <1>6, <1>7, <1>8, <1>9

\* The recheck interval passes, the manifest is edited, the Secret is deleted.
LEMMA WorldKeeps ==
  ASSUME IInv, Change \/ \E r \in Replicas : Expire(r)
  PROVE  IInv'
<1> USE DEF IInv
<1>1. UNCHANGED <<role, lock, at, pw, overlap>> /\ secret' \in {secret, None}
  BY DEF Change, Expire, Server
<1>2. TypeOK'
  <2>1. changes' \in 0 .. MaxChanges
    BY OneMore DEF Change, Expire, TypeOK, Bounds
  <2> QED BY <2>1 DEF Change, Expire, TypeOK, Server, Bounds
<1>3. LockHeld' /\ PasswordKnown'
  BY <1>1 DEF LockHeld, PasswordKnown, Working
<1>4. ASSUME ~overlap PROVE OneAtATime'
  BY <1>1, <1>4 DEF OneAtATime, Alone, RoleAgrees, WorksOnSecret, RoleIsSet, Working, HasPassword
<1> QED BY <1>1, <1>2, <1>3, <1>4

----------------------------------------------------------------------------
(* Together.                                                               *)

\* A first install: no role on the server, and no Reconcile.
LEMMA InitInv == Init => IInv
<1> SUFFICES ASSUME Init PROVE IInv
  OBVIOUS
<1>1. secret \in Secrets \cup {None}
  BY DEF Init, Secrets
<1>2. 0 \in 0 .. MaxFaults /\ 0 \in 0 .. MaxChanges
  BY DatabaseConstants
<1>3. TypeOK
  BY <1>1, <1>2 DEF Init, TypeOK
<1>4. LockHeld /\ PasswordKnown /\ OneAtATime
  BY DEF Init, LockHeld, Locked, PasswordKnown, Working, OnServer, OneAtATime, Alone, RoleAgrees,
     WorksOnSecret, RoleIsSet
<1> QED BY <1>3, <1>4 DEF IInv

\* Every step of every replica and of the world around it.
LEMMA NextInv == IInv /\ [Next]_vars => IInv'
<1> SUFFICES ASSUME IInv, [Next]_vars PROVE IInv'
  OBVIOUS
<1>1. CASE UNCHANGED vars
  BY <1>1 DEF vars, IInv, TypeOK, LockHeld, PasswordKnown, OneAtATime, Alone, RoleAgrees,
     WorksOnSecret, RoleIsSet, Working, HasPassword
<1>2. CASE Next
  <2>1. ASSUME NEW r \in Replicas, EnsureStep(r) PROVE IInv'
    BY <2>1, FetchKeeps, RemoveKeeps, ReadKeeps, AskKeeps, StatementKeeps, PublishKeeps DEF EnsureStep
  <2> QED BY <1>2, <2>1, AskKeeps, FailKeeps, ServerLostKeeps, WorldKeeps DEF Next
<1> QED BY <1>1, <1>2

\* The invariant above is one of the specification.
THEOREM Invariance == Spec => []IInv
BY InitInv, NextInv, PTL DEF Spec

----------------------------------------------------------------------------
(* Results.                                                                *)

\* Two replicas never run statements of Admin.Ensure at once.
Exclusive == \A r, s \in Replicas : at[r] \in Locked /\ at[s] \in Locked => r = s

\* pg_advisory_lock serialises Admin.Ensure across replicas, also when sessions
\* fail half-way and when the server is recreated.
THEOREM LockExcludes == Spec => []Exclusive
<1>1. IInv => Exclusive
  BY DEF IInv, LockHeld, Exclusive
<1> QED BY <1>1, Invariance, PTL

\* Between reconciles the role has the Secret's password, whatever failed
\* half-way, as long as no two replicas provisioned at once and no backup brought
\* back an older password.
THEOREM PasswordsMatch == Spec => []PasswordsAgreeWithoutOverlap
<1>1. IInv => PasswordsAgreeWithoutOverlap
  BY DEF IInv, OneAtATime, RoleAgrees, PasswordsAgreeWithoutOverlap, PasswordsAgree
<1> QED BY <1>1, Invariance, PTL

\* As long as no two replicas have provisioned at once, a published password is not
\* replaced by another, whatever fails and whatever the server comes back with.
THEOREM PublishedStaysWithoutOverlap == Spec => PublishedIsHonouredWithoutOverlap
<1> DEFINE P == HasPassword(secret) /\ HasPassword(secret') /\ ~overlap' => secret'.pw = secret.pw
<1>1. IInv /\ [Next]_vars => [P]_vars
  <2> SUFFICES ASSUME IInv, Next, HasPassword(secret), HasPassword(secret'), ~overlap'
               PROVE  secret'.pw = secret.pw
    OBVIOUS
  <2>1. CASE secret' \in {secret, None}
    BY <2>1 DEF HasPassword
  <2>2. ASSUME NEW r \in Replicas, Publish(r), overlap' = overlap PROVE secret'.pw = secret.pw
    <3>1. Working(r) /\ secret'.pw = pw[r]
      BY <2>2 DEF Publish, Working
    <3> QED BY <2>2, <3>1, WorkingFacts
  <2> QED BY <2>1, <2>2 DEF Next, EnsureStep, Fetch, ReadToRemove, Remove, ReadAndGenerate, ReadAndHonour,
            Exists, Lock, Statement, SetRole, CreateDatabase, Revoke, Compare, Get, Write, Fail,
            Expire, ServerLost, Change, Server
<1> QED BY <1>1, Invariance, PTL DEF Spec, PublishedIsHonouredWithoutOverlap

----------------------------------------------------------------------------
(* The credential of a module that has its namespace to itself: the other  *)
(* thing a reconcile provisions.                                           *)

CONSTANTS Modules, Beside, Grants, Charts, Nothing, Malformed, TTL, RenewBefore, MaxEdits

VARIABLES kind, manifest, uid, credential, labelled, work, fresh, settled, minted, edits

Creds == INSTANCE ModuleCredentials WITH secret <- credential

\* A Secret core wrote, and an Ensure under way.
Written == [by : Modules, grants : Grants, left : Nat, owner : [mod : Modules, uid : Nat] \cup {None}]

Ensuring ==
  [mod : Modules, want : Creds!Manifests, uid : Nat, fresh : BOOLEAN, at : {"read", "write", "delete", "label"}]

IsWritten == credential \notin {None, Creds!Manual}

CredsTyped ==
  /\ settled \in BOOLEAN
  /\ uid \in [Modules -> Nat]
  /\ manifest \in [Modules -> Creds!Manifests \cup {None}]
  /\ IsWritten => credential \in Written
  /\ \A r \in Replicas : work[r] # None => work[r] \in Ensuring
  /\ \A r \in Replicas : work[r] # None /\ work[r].at = "write" => work[r].want \in Grants
  /\ work = [r \in Replicas |-> work[r]]

\* The credential, if there is one, is in use for a while, or for longer than a unit.
Alive == IsWritten => credential.left >= RenewBefore
Outlasts == IsWritten => credential.left > RenewBefore

\* Only the event bus's kind counts time.
OnlyBusSettles ==
  /\ settled => kind = "bus"
  /\ \A r \in Replicas : work[r] # None /\ work[r].fresh => kind = "bus"

\* An Ensure that found the credential current, or wrote it, found or wrote more than
\* RenewBefore units, and one unit at most has passed since.
LabelsLast ==
  \A r \in Replicas : work[r] # None /\ work[r].at = "label" =>
    Alive /\ (work[r].fresh => Outlasts)

\* Once a module was reconciled in this unit of time, the credential outlasts the next.
FreshLasts == fresh # {} => Outlasts

SettledLasts == settled => \A m \in Modules : Creds!Alone(m) /\ Creds!Serves(m) => Alive

CredsInv == CredsTyped /\ OnlyBusSettles /\ LabelsLast /\ FreshLasts /\ SettledLasts

\* The constants: renewal begins before the end and after the beginning.
LEMMA RenewalWindow ==
  ASSUME Creds!CredentialConstants
  PROVE  /\ RenewBefore \in Nat \ {0} /\ TTL \in Nat /\ TTL >= RenewBefore + 1
         /\ None \notin Grants /\ Malformed \notin Grants
         /\ \A m \in Modules : Charts[m] \subseteq Creds!Manifests
BY DEF Creds!CredentialConstants, Creds!Manifests

\* One unit more than enough is enough.
LEMMA OutlastsLives ==
  ASSUME CredsTyped, Outlasts, Creds!CredentialConstants
  PROVE  Alive
BY RenewalWindow DEF CredsTyped, Alive, Outlasts, Written

\* A step of one replica's Ensure: it goes on as w says, and neither shortens a
\* credential's life nor counts as a reconcile without having seen a lasting one.
LEMMA EnsureMoves ==
  ASSUME CredsInv, NEW r \in Replicas, NEW w,
         work' = [work EXCEPT ![r] = w],
         w # None => /\ w \in Ensuring
                     /\ w.fresh => kind = "bus"
                     /\ w.at = "write" => w.want \in Grants
                     /\ w.at = "label" => Alive' /\ (w.fresh => Outlasts'),
         UNCHANGED <<kind, manifest, uid>>, settled' \in BOOLEAN,
         IsWritten' => credential' \in Written,
         Alive => Alive', Outlasts => Outlasts',
         credential' = credential \/ Alive',
         fresh' = fresh \/ Outlasts',
         settled' = settled \/ (kind = "bus" /\ Alive')
  PROVE  CredsInv'
<1> USE DEF CredsInv
<1>1. /\ work' = [q \in Replicas |-> work'[q]]
      /\ \A q \in Replicas : work'[q] = IF q = r THEN w ELSE work[q]
  <2>1. work = [q \in Replicas |-> work[q]]
    BY DEF CredsTyped
  <2> QED BY <2>1
<1>2. CredsTyped'
  BY <1>1 DEF CredsTyped, Creds!Manifests
<1>3. OnlyBusSettles'
  BY <1>1 DEF OnlyBusSettles
<1>4. LabelsLast'
  BY <1>1 DEF LabelsLast
<1>5. FreshLasts'
  BY DEF FreshLasts
<1>6. SettledLasts'
  <2> SUFFICES ASSUME settled', NEW m \in Modules, Creds!Alone(m)', Creds!Serves(m)'
               PROVE  Alive'
    BY DEF SettledLasts
  <2>1. CASE settled' = settled /\ credential' = credential
    BY <2>1 DEF SettledLasts, Creds!Alone, Creds!Serves, Creds!Manual
  <2> QED BY <2>1
<1> QED BY <1>2, <1>3, <1>4, <1>5, <1>6

\* What Goto and Done make of an Ensure.
LEMMA Goes ==
  ASSUME CredsInv, NEW r \in Replicas, work[r] # None,
         NEW to \in {"read", "write", "delete", "label"}, Creds!Goto(r, to)
  PROVE  \E w \in Ensuring : /\ work' = [work EXCEPT ![r] = w]
                             /\ w.at = to /\ w.want = work[r].want /\ w.fresh = work[r].fresh
                             /\ fresh' = fresh /\ settled' = settled
<1>1. work[r] \in Ensuring
  BY DEF CredsInv, CredsTyped
<1>2. PICK w : w = [work[r] EXCEPT !.at = to]
  OBVIOUS
<1>3. w \in Ensuring /\ w.at = to /\ w.want = work[r].want /\ w.fresh = work[r].fresh
  BY <1>1, <1>2 DEF Ensuring
<1>4. work' = [work EXCEPT ![r] = w] /\ fresh' = fresh /\ settled' = settled
  BY <1>2 DEF Creds!Goto
<1> QED BY <1>3, <1>4

\* Done counts for this unit only if all of the Ensure took place in it.
LEMMA Ends ==
  ASSUME CredsInv, NEW r \in Replicas, work[r] # None, Creds!Done(r)
  PROVE  /\ work' = [work EXCEPT ![r] = None]
         /\ fresh' = fresh \/ (work[r].fresh /\ kind = "bus")
         /\ settled' \in BOOLEAN /\ (settled' = settled \/ kind = "bus")
<1>1. fresh' = fresh \/ (work[r].fresh /\ kind = "bus")
  BY DEF Creds!Done, CredsInv, OnlyBusSettles
<1>2. settled' \in BOOLEAN /\ (settled' = settled \/ kind = "bus")
  BY DEF Creds!Done, CredsInv, CredsTyped
<1> QED BY <1>1, <1>2 DEF Creds!Done

\* The Get of the Secret.
LEMMA GetKeeps ==
  ASSUME CredsInv, Creds!CredentialConstants, NEW r \in Replicas, Creds!Read(r)
  PROVE  CredsInv'
<1>1. /\ UNCHANGED <<kind, manifest, uid, credential>> /\ work[r] # None
      /\ CredsTyped /\ settled \in BOOLEAN
  BY DEF Creds!Read, Creds!envVars, CredsInv, CredsTyped
<1>2. /\ IsWritten' = IsWritten /\ Alive' = Alive /\ Outlasts' = Outlasts
      /\ IsWritten' => credential' \in Written
  BY <1>1 DEF IsWritten, Alive, Outlasts, Creds!Manual, CredsTyped
<1>3. work[r].fresh => kind = "bus"
  BY <1>1 DEF CredsInv, OnlyBusSettles
<1>4. CASE Creds!Done(r) /\ (~IsWritten \/ kind = "fixed")
  <2>1. ~IsWritten => Alive /\ Outlasts
    BY DEF Alive, Outlasts
  <2> QED BY <1>1, <1>2, <1>4, <2>1, Ends, EnsureMoves
<1>5. CASE work' = [work EXCEPT ![r] = None] /\ UNCHANGED <<fresh, settled>>
  BY <1>1, <1>2, <1>5, EnsureMoves
<1>6. CASE \E to \in {"write", "delete", "label"} :
             /\ Creds!Goto(r, to)
             /\ to # "delete" => work[r].want \in Grants
             /\ to = "label" => Outlasts
  <2>1. PICK to \in {"write", "delete", "label"} :
             /\ Creds!Goto(r, to)
             /\ to # "delete" => work[r].want \in Grants
             /\ to = "label" => Outlasts
    BY <1>6
  <2>2. PICK w \in Ensuring : /\ work' = [work EXCEPT ![r] = w]
                              /\ w.at = to /\ w.want = work[r].want /\ w.fresh = work[r].fresh
                              /\ fresh' = fresh /\ settled' = settled
    BY <1>1, <2>1, Goes
  <2>3. w.at = "label" => Alive' /\ Outlasts'
    BY <1>1, <1>2, <2>1, <2>2, OutlastsLives
  <2> QED BY <1>1, <1>2, <1>3, <2>1, <2>2, <2>3, EnsureMoves
<1>7. Creds!IsCurrent(work[r]) => Outlasts
  BY DEF Creds!IsCurrent, Outlasts
<1>8. CASE Creds!ReadUnwanted(r)
  BY <1>4, <1>6, <1>8 DEF Creds!ReadUnwanted, IsWritten
<1>9. CASE Creds!ReadBus(r)
  BY <1>5, <1>6, <1>7, <1>9 DEF Creds!ReadBus
<1>10. CASE kind = "fixed" /\ Creds!ReadFixed(r)
  BY <1>4, <1>6, <1>10 DEF Creds!ReadFixed
<1> QED BY <1>8, <1>9, <1>10 DEF Creds!Read

\* CreateOrUpdate, after which the credential is new.
LEMMA UpdateKeeps ==
  ASSUME CredsInv, Creds!CredentialConstants, NEW r \in Replicas, Creds!Write(r)
  PROVE  CredsInv'
<1>1. /\ UNCHANGED <<kind, manifest, uid>> /\ work[r] # None /\ work[r].at = "write"
      /\ CredsTyped /\ settled \in BOOLEAN
  BY DEF Creds!Write, Creds!envVars, CredsInv, CredsTyped
<1>2. PICK w \in Ensuring : w = work[r] /\ w.want \in Grants /\ (w.fresh => kind = "bus")
  BY <1>1 DEF CredsInv, CredsTyped, OnlyBusSettles
<1>3. credential' = [by |-> w.mod, grants |-> w.want, left |-> TTL, owner |-> Creds!OwnerFor(w)]
  BY <1>2 DEF Creds!Write, Creds!WriteBus, Creds!WriteFixed, Creds!ProvisionSecretWith
<1>4. Creds!OwnerFor(w) \in [mod : Modules, uid : Nat] \cup {None}
  <2>1. credential # None => credential.owner \in [mod : Modules, uid : Nat] \cup {None}
    BY <1>1 DEF CredsTyped, IsWritten, Creds!Manual, Written
  <2>2. [mod |-> w.mod, uid |-> w.uid] \in [mod : Modules, uid : Nat]
    BY DEF Ensuring
  <2> QED BY <2>1, <2>2 DEF Creds!OwnerFor
<1>5. credential' \in Written /\ credential'.left = TTL
  BY <1>2, <1>3, <1>4, RenewalWindow DEF Written, Ensuring
<1>6. Alive' /\ Outlasts'
  BY <1>5, RenewalWindow DEF Alive, Outlasts
<1>7. CASE kind = "bus" /\ Creds!Goto(r, "label")
  <2>1. PICK v \in Ensuring : /\ work' = [work EXCEPT ![r] = v]
                              /\ v.at = "label" /\ v.want = work[r].want /\ v.fresh = work[r].fresh
                              /\ fresh' = fresh /\ settled' = settled
    BY <1>1, <1>7, Goes
  <2> QED BY <1>1, <1>5, <1>6, <1>7, <2>1, EnsureMoves
<1>8. CASE Creds!Done(r)
  BY <1>1, <1>5, <1>6, <1>8, Ends, EnsureMoves
<1> QED BY <1>7, <1>8 DEF Creds!Write, Creds!WriteBus, Creds!WriteFixed

\* The other ends of an Ensure: the delete, the label, a failed call; and its beginning.
LEMMA OtherEndsKeep ==
  ASSUME CredsInv, Creds!CredentialConstants, NEW r \in Replicas,
         Creds!Delete(r) \/ Creds!Label(r) \/ Creds!Fail(r) \/ \E m \in Modules : Creds!Fetch(r, m)
  PROVE  CredsInv'
<1>1. /\ UNCHANGED <<kind, manifest, uid>> /\ credential' \in {credential, None}
      /\ CredsTyped /\ settled \in BOOLEAN
  BY DEF Creds!Delete, Creds!Label, Creds!Fail, Creds!Fetch, Creds!envVars, CredsInv, CredsTyped
<1>2. /\ IsWritten' => credential' \in Written
      /\ (Alive => Alive') /\ (Outlasts => Outlasts')
      /\ credential' = credential \/ Alive'
  BY <1>1 DEF IsWritten, Alive, Outlasts, Creds!Manual, CredsTyped
<1>3. CASE Creds!Delete(r)
  <2>1. credential' = None /\ Alive' /\ Outlasts' /\ Creds!Done(r) /\ work[r] # None
    BY <1>3 DEF Creds!Delete, Alive, Outlasts, IsWritten
  <2> QED BY <1>1, <1>2, <2>1, Ends, EnsureMoves
<1>4. CASE Creds!Label(r)
  <2>1. credential' = credential /\ Creds!Done(r) /\ work[r] # None /\ work[r].at = "label"
    BY <1>4 DEF Creds!Label
  <2>2. Alive /\ (work[r].fresh => Outlasts)
    BY <2>1 DEF CredsInv, LabelsLast
  <2> QED BY <1>1, <1>2, <2>1, <2>2, Ends, EnsureMoves
<1>5. CASE Creds!Fail(r)
  <2>1. work' = [work EXCEPT ![r] = None] /\ UNCHANGED <<fresh, settled>>
    BY <1>5 DEF Creds!Fail
  <2> QED BY <1>1, <1>2, <2>1, EnsureMoves
<1>6. CASE \E m \in Modules : Creds!Fetch(r, m)
  <2>1. PICK m \in Modules : Creds!Fetch(r, m)
    BY <1>6
  <2>2. PICK w : w = [mod |-> m, want |-> manifest[m], uid |-> uid[m], fresh |-> (kind = "bus"), at |-> "read"]
    OBVIOUS
  <2>3. manifest[m] \in Creds!Manifests /\ uid[m] \in Nat
    BY <1>1, <2>1 DEF Creds!Fetch, CredsTyped
  <2>4. w \in Ensuring /\ w.at = "read" /\ (w.fresh => kind = "bus")
    BY <2>2, <2>3 DEF Ensuring
  <2>5. work' = [work EXCEPT ![r] = w] /\ UNCHANGED <<fresh, settled>>
    BY <2>1, <2>2 DEF Creds!Fetch
  <2> QED BY <1>1, <1>2, <2>4, <2>5, EnsureMoves
<1> QED BY <1>3, <1>4, <1>5, <1>6

\* Charts change, and what belonged to a removed one is collected.
LEMMA ClusterKeeps ==
  ASSUME CredsInv, Creds!CredentialConstants,
         \/ \E m \in Modules : \E new \in Charts[m] \cup {None} : Creds!Edit(m, new)
         \/ Creds!CollectGarbage
  PROVE  CredsInv'
<1> USE DEF CredsInv
<1>1. CASE Creds!CollectGarbage
  <2>1. credential' = None /\ UNCHANGED <<kind, manifest, uid, work, fresh, settled>>
    BY <1>1 DEF Creds!CollectGarbage, Creds!envVars
  <2>2. ~IsWritten' /\ Alive' /\ Outlasts'
    BY <2>1 DEF IsWritten, Alive, Outlasts
  <2> QED BY <2>1, <2>2
          DEF CredsTyped, OnlyBusSettles, LabelsLast, FreshLasts, SettledLasts, Creds!Manifests
<1>2. CASE \E m \in Modules : \E new \in Charts[m] \cup {None} : Creds!Edit(m, new)
  <2>0. PICK m \in Modules : \E new \in Charts[m] \cup {None} : Creds!Edit(m, new)
    BY <1>2
  <2>1. PICK new \in Charts[m] \cup {None} : Creds!Edit(m, new)
    BY <2>0
  <2>2. /\ UNCHANGED <<kind, credential, work, fresh>> /\ settled' = FALSE
        /\ manifest' = [manifest EXCEPT ![m] = new]
        /\ uid' = [uid EXCEPT ![m] = IF manifest[m] = None THEN @ + 1 ELSE @]
    BY <2>1 DEF Creds!Edit
  <2>3. manifest' \in [Modules -> Creds!Manifests \cup {None}] /\ uid' \in [Modules -> Nat]
    BY <2>2, RenewalWindow DEF CredsTyped
  <2>4. IsWritten' = IsWritten /\ Alive' = Alive /\ Outlasts' = Outlasts
    BY <2>2 DEF IsWritten, Alive, Outlasts, Creds!Manual
  <2>5. CredsTyped'
    BY <2>2, <2>3, <2>4 DEF CredsTyped, Creds!Manifests
  <2> QED BY <2>2, <2>4, <2>5 DEF OnlyBusSettles, LabelsLast, FreshLasts, SettledLasts
<1> QED BY <1>1, <1>2

\* A unit of time passes once every module that can be was reconciled in the last.
LEMMA UnitKeeps ==
  ASSUME CredsInv, Creds!CredentialConstants, Creds!Tick
  PROVE  CredsInv'
<1> USE DEF CredsInv
<1>1. /\ UNCHANGED <<kind, manifest, uid, settled>> /\ kind = "bus" /\ fresh' = {}
      /\ \A r \in Replicas : work[r] # None => work[r].fresh
      /\ credential' = IF credential # None /\ credential.left > 0 THEN [credential EXCEPT !.left = @ - 1]
                       ELSE credential
      /\ work' = [r \in Replicas |-> IF work[r] = None THEN None ELSE [work[r] EXCEPT !.fresh = FALSE]]
  BY DEF Creds!Tick, Creds!envVars
<1>2. ~IsWritten => ~IsWritten' /\ credential' = credential
  BY <1>1 DEF IsWritten, Creds!Manual
<1>3. IsWritten => /\ credential' \in Written /\ credential'.grants = credential.grants
                   /\ credential.left \in Nat /\ credential'.left \in Nat
                   /\ credential'.left >= credential.left - 1
  <2> SUFFICES ASSUME IsWritten
               PROVE  /\ credential' \in Written /\ credential'.grants = credential.grants
                      /\ credential.left \in Nat /\ credential'.left \in Nat
                      /\ credential'.left >= credential.left - 1
    OBVIOUS
  <2>1. credential \in Written /\ credential # None /\ credential.left \in Nat
    BY DEF CredsTyped, IsWritten, Written
  <2>2. CASE credential.left > 0
    <3>1. credential.left - 1 \in Nat /\ credential' = [credential EXCEPT !.left = credential.left - 1]
      BY <1>1, <2>1, <2>2
    <3> QED BY <2>1, <3>1 DEF Written
  <2>3. CASE ~(credential.left > 0)
    BY <1>1, <2>1, <2>3
  <2> QED BY <2>2, <2>3
<1>4. Outlasts => Alive'
  BY <1>2, <1>3, RenewalWindow DEF Outlasts, Alive
<1>5. \A r \in Replicas : work'[r] # None =>
        /\ work[r] # None /\ work'[r] \in Ensuring /\ ~work'[r].fresh
        /\ work'[r].at = work[r].at /\ work'[r].want = work[r].want
  BY <1>1 DEF CredsTyped, Ensuring
<1>6. CredsTyped'
  BY <1>1, <1>2, <1>3, <1>5 DEF CredsTyped, Creds!Manifests
<1>7. OnlyBusSettles' /\ FreshLasts'
  BY <1>1 DEF OnlyBusSettles, FreshLasts
<1>8. LabelsLast'
  BY <1>1, <1>4, <1>5 DEF LabelsLast
<1>9. SettledLasts'
  <2> SUFFICES ASSUME settled', NEW m \in Modules, Creds!Alone(m)', Creds!Serves(m)'
               PROVE  Alive'
    BY DEF SettledLasts
  <2>1. IsWritten /\ manifest[m] \in Grants
    BY <1>1, <1>2, <1>3 DEF Creds!Serves, IsWritten, Written, Creds!Manual
  <2>2. m \in fresh
    BY <2>1, RenewalWindow DEF Creds!Tick
  <2> QED BY <1>4, <2>2 DEF FreshLasts
<1> QED BY <1>6, <1>7, <1>8, <1>9

\* Nothing has been reconciled yet.
LEMMA CredsInit == ASSUME Creds!CredentialConstants PROVE Creds!Init => CredsInv
<1> SUFFICES ASSUME Creds!Init PROVE CredsInv
  OBVIOUS
<1>1. ~IsWritten
  BY DEF Creds!Init, IsWritten
<1>2. CredsTyped
  BY <1>1 DEF Creds!Init, CredsTyped, Creds!Manifests
<1> QED BY <1>2 DEF Creds!Init, CredsInv, OnlyBusSettles, LabelsLast, FreshLasts, SettledLasts

\* Every step of the cluster and of the replicas keeps the invariant.
LEMMA CredsNext ==
  ASSUME Creds!CredentialConstants
  PROVE  CredsInv /\ [Creds!Next]_(Creds!vars) => CredsInv'
<1> SUFFICES ASSUME CredsInv, [Creds!Next]_(Creds!vars) PROVE CredsInv'
  OBVIOUS
<1>1. CASE UNCHANGED Creds!vars
  BY <1>1 DEF Creds!vars, Creds!envVars, CredsInv, CredsTyped, IsWritten, Alive, Outlasts, OnlyBusSettles,
              LabelsLast, FreshLasts, SettledLasts, Creds!Alone, Creds!Serves, Creds!Manual, Creds!Manifests
<1>2. ASSUME NEW r \in Replicas, Creds!Ensure(r) PROVE CredsInv'
  BY <1>2, GetKeeps, UpdateKeeps, OtherEndsKeep DEF Creds!Ensure
<1> QED BY <1>1, <1>2, ClusterKeeps, UnitKeeps, OtherEndsKeep DEF Creds!Next

\* Once a module that has its namespace to itself was reconciled, it never finds an
\* expired event-bus credential there: for any number of replicas that renew at
\* once, fail or go by what they read before time passed, and any renewal window.
THEOREM CredentialsNeverLapse == ASSUME Creds!CredentialConstants PROVE Creds!Spec => []Creds!NeverLapses
<1>1. CredsInv => Creds!NeverLapses
  <2> SUFFICES ASSUME CredsInv, settled, NEW m \in Modules, Creds!Alone(m), Creds!Serves(m)
               PROVE  credential.left > 0
    BY DEF Creds!NeverLapses
  <2>1. IsWritten /\ Alive
    BY DEF CredsInv, SettledLasts, Creds!Serves, IsWritten
  <2> QED BY <2>1, RenewalWindow DEF CredsInv, CredsTyped, Alive, Written
<1> QED BY <1>1, CredsInit, CredsNext, PTL DEF Creds!Spec
=============================================================================
