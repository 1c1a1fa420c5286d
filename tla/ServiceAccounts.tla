--------------------------- MODULE ServiceAccounts ---------------------------
(***************************************************************************)
(* Service accounts (internal/serviceaccount, internal/api): workspace     *)
(* owners create, patch and delete them in PostgreSQL while runs of a      *)
(* module mint tokens owned by them (workload.Service). One workspace:     *)
(* every statement is keyed by it, and a mint naming another workspace's   *)
(* account is refused before any lookup.                                   *)
(***************************************************************************)
EXTENDS Roles

CONSTANTS
  Names,     \* account names
  Deleters,  \* DELETE requests that may be in their transaction at once
  Runs,      \* runs of the module, each minting its own tokens
  None,      \* no account, no lock holder
  TTL,       \* Options.TTL
  MintLag,   \* the longest from a mint's account lookup to its signature
  MaxGen     \* bound: how often one name is created

ASSUME ServiceAccountConstants ==
  /\ TTL \in Nat \ {0}
  /\ MintLag \in Nat
  /\ MaxGen \in Nat \ {0}
  /\ None \notin Deleters
  /\ None \notin [role : {"viewer", "editor"}, disabled : BOOLEAN]

VARIABLES
  avail,     \* Switchable.cur is the PostgreSQL store, not Unavailable
  acct,      \* booth_service_accounts: role and disabled, or None
  lock,      \* the DELETE that holds the row lock of SELECT ... FOR UPDATE
  gen,       \* history: how often the name was created
  entitled,  \* the registry's module declares workloadIdentity.mint
  run,       \* each run's mint request
  tok,       \* each run's last token: owner, role, time to live
  had        \* history: the time since the account could last mint that role

vars == <<avail, acct, lock, gen, entitled, run, tok, had>>

AccountRoles == {"viewer", "editor"}

Horizon == TTL + MintLag + 1

Account == [role : AccountRoles, disabled : BOOLEAN]

NoRun == [pc |-> "idle", name |-> None, role |-> NoRole, lag |-> 0, barred |-> FALSE]
NoToken == [name |-> None, role |-> NoRole, left |-> 0]

TypeOK ==
  /\ {avail, entitled} \subseteq BOOLEAN
  /\ acct \in [Names -> Account \cup {None}]
  /\ lock \in [Names -> Deleters \cup {None}]
  /\ gen \in [Names -> 0 .. MaxGen]
  /\ run \in [Runs -> [pc : {"idle", "authenticated", "checked", "found"}, name : Names \cup {None},
                       role : AccountRoles \cup {NoRole}, lag : 0 .. MintLag, barred : BOOLEAN]]
  /\ tok \in [Runs -> [name : Names \cup {None}, role : AccountRoles \cup {NoRole}, left : 0 .. TTL]]
  /\ had \in [Names -> [AccountRoles -> 0 .. Horizon]]

\* core starts on Unavailable{}; the accounts of earlier runs are in the database.
Init ==
  /\ avail = FALSE
  /\ entitled \in BOOLEAN
  /\ acct \in [Names -> Account \cup {None}]
  /\ gen = [n \in Names |-> IF acct[n] = None THEN 0 ELSE 1]
  /\ lock = [n \in Names |-> None]
  /\ run = [m \in Runs |-> NoRun]
  /\ tok = [m \in Runs |-> NoToken]
  /\ had = [n \in Names |-> [r \in AccountRoles |-> Horizon]]

Usable(n) == acct[n] # None /\ ~acct[n].disabled

----------------------------------------------------------------------------
(* The owner's requests. Each statement is one step; one that meets a row  *)
(* locked by a DELETE waits for its transaction.                           *)

Writable(n) == avail /\ lock[n] = None

\* History of a change to n: what the account could mint until now, and that a
\* usable account bars nobody.
Record(n, new) ==
  /\ acct' = [acct EXCEPT ![n] = new]
  /\ run' = [m \in Runs |->
       IF run[m].name = n /\ new # None /\ ~new.disabled
       THEN [run[m] EXCEPT !.barred = FALSE] ELSE run[m]]
  /\ had' = [had EXCEPT ![n] =
       [r \in AccountRoles |->
          IF Usable(n) /\ RoleRank(r) <= RoleRank(acct[n].role) THEN 0 ELSE had[n][r]]]

\* POST: an INSERT that fails on the primary key.
Create(n, role) ==
  /\ Writable(n)
  /\ acct[n] = None
  /\ gen[n] < MaxGen
  /\ gen' = [gen EXCEPT ![n] = @ + 1]
  /\ Record(n, [role |-> role, disabled |-> FALSE])
  /\ UNCHANGED <<avail, lock, entitled, tok>>

\* Mutant: a DELETE's read of the row does not hold the patch up.
PatchUnlocked(n, role, disabled) ==
  /\ avail
  /\ acct[n] # None
  /\ Record(n, [role |-> role, disabled |-> disabled])
  /\ UNCHANGED <<avail, lock, gen, entitled, tok>>

\* PATCH: one UPDATE of the fields given; the others keep the row's value.
Patch(n, role, disabled) ==
  /\ Writable(n)
  /\ acct[n] # None
  /\ Record(n, [role |-> role, disabled |-> disabled])
  /\ UNCHANGED <<avail, lock, gen, entitled, tok>>

\* DELETE: SELECT disabled ... FOR UPDATE; a missing or enabled account ends the
\* transaction there.
DeleteLock(d, n) ==
  /\ Writable(n)
  /\ \A k \in Names : lock[k] # d
  /\ acct[n] # None
  /\ acct[n].disabled
  /\ lock' = [lock EXCEPT ![n] = d]
  /\ UNCHANGED <<avail, acct, gen, entitled, run, tok, had>>

DeleteCommit(n) ==
  /\ lock[n] # None
  /\ lock' = [lock EXCEPT ![n] = None]
  /\ Record(n, None)
  /\ UNCHANGED <<avail, gen, entitled, tok>>

\* The connection failed or the client hung up: the transaction is rolled back.
DeleteRollback(n) ==
  /\ lock[n] # None
  /\ lock' = [lock EXCEPT ![n] = None]
  /\ UNCHANGED <<avail, acct, gen, entitled, run, tok, had>>

----------------------------------------------------------------------------
(* A run's mint: AuthenticateModule, then Mint.                            *)

\* The request begins; one of a module that is not entitled goes no further.
Authenticate(m, n) ==
  /\ run[m].pc = "idle"
  /\ entitled
  /\ run' = [run EXCEPT ![m] = [pc |-> "authenticated", name |-> n, role |-> NoRole, lag |-> 0,
                                barred |-> ~Usable(n)]]
  /\ UNCHANGED <<avail, acct, lock, gen, entitled, tok, had>>

\* Mint's own look at the registry.
Recheck(m) ==
  /\ run[m].pc = "authenticated"
  /\ run' = [run EXCEPT ![m] = IF entitled THEN [@ EXCEPT !.pc = "checked"] ELSE NoRun]
  /\ UNCHANGED <<avail, acct, lock, gen, entitled, tok, had>>

\* Mutants: a disabled account still found, and a role remembered from the
\* run's earlier mint.
LookupDisabled(m, ceiling) ==
  /\ run[m].pc = "checked"
  /\ LET a == acct[run[m].name]
     IN  run' = [run EXCEPT ![m] =
           IF avail /\ a # None
           THEN [@ EXCEPT !.pc = "found", !.role = LesserRole(ceiling, a.role)] ELSE NoRun]
  /\ UNCHANGED <<avail, acct, lock, gen, entitled, tok, had>>

LookupRemembered(m, ceiling) ==
  /\ run[m].pc = "checked"
  /\ LET n == run[m].name
     IN  run' = [run EXCEPT ![m] =
           IF tok[m].name = n
           THEN [@ EXCEPT !.pc = "found", !.role = tok[m].role, !.barred = FALSE]
           ELSE IF avail /\ Usable(n)
           THEN [@ EXCEPT !.pc = "found", !.role = LesserRole(ceiling, acct[n].role)] ELSE NoRun]
  /\ UNCHANGED <<avail, acct, lock, gen, entitled, tok, had>>

\* serviceAccountRole: read live; missing, disabled or unavailable is a refusal.
Lookup(m, ceiling) ==
  /\ run[m].pc = "checked"
  /\ LET n == run[m].name
     IN  run' = [run EXCEPT ![m] =
           IF avail /\ Usable(n)
           THEN [@ EXCEPT !.pc = "found", !.role = LesserRole(ceiling, acct[n].role)] ELSE NoRun]
  /\ UNCHANGED <<avail, acct, lock, gen, entitled, tok, had>>

\* The token expires TTL after the clock is read, which is after the lookup.
Sign(m) ==
  /\ run[m].pc = "found"
  /\ tok' = [tok EXCEPT ![m] = [name |-> run[m].name, role |-> run[m].role, left |-> TTL]]
  /\ run' = [run EXCEPT ![m] = NoRun]
  /\ UNCHANGED <<avail, acct, lock, gen, entitled, had>>

----------------------------------------------------------------------------
(* The rest of the world.                                                  *)

\* The module's CR gains or loses workloadIdentity.mint.
EntitlementChanges ==
  /\ entitled' = ~entitled
  /\ UNCHANGED <<avail, acct, lock, gen, run, tok, had>>

\* persistCoreDatabase.
Swap ==
  /\ ~avail
  /\ avail' = TRUE
  /\ UNCHANGED <<acct, lock, gen, entitled, run, tok, had>>

\* core restarts: requests die, open transactions roll back, tokens live on.
Restart ==
  /\ avail' = FALSE
  /\ lock' = [n \in Names |-> None]
  /\ run' = [m \in Runs |-> NoRun]
  /\ UNCHANGED <<acct, gen, entitled, tok, had>>

Older(age) == IF age < Horizon THEN age + 1 ELSE age

Tick ==
  /\ \A m \in Runs : run[m].pc = "found" => run[m].lag < MintLag
  /\ run' = [m \in Runs |-> IF run[m].pc = "found" THEN [run[m] EXCEPT !.lag = @ + 1] ELSE run[m]]
  /\ tok' = [m \in Runs |->
       IF tok[m].left > 1 THEN [tok[m] EXCEPT !.left = @ - 1] ELSE NoToken]
  /\ had' = [n \in Names |-> [r \in AccountRoles |->
       IF Usable(n) /\ RoleRank(r) <= RoleRank(acct[n].role) THEN 0 ELSE Older(had[n][r])]]
  /\ UNCHANGED <<avail, acct, lock, gen, entitled>>

\* handleDeleteServiceAccount.
DeleteStep(n) == (\E d \in Deleters : DeleteLock(d, n)) \/ DeleteCommit(n) \/ DeleteRollback(n)

\* handleMintWorkloadToken.
MintStep(m) ==
  \/ \E n \in Names : Authenticate(m, n)
  \/ Recheck(m)
  \/ \E ceiling \in Roles : Lookup(m, ceiling)
  \/ Sign(m)

Next ==
  \/ \E n \in Names, role \in AccountRoles :
       \/ Create(n, role)
       \/ \E disabled \in BOOLEAN : Patch(n, role, disabled)
  \/ \E n \in Names : DeleteStep(n)
  \/ \E m \in Runs : MintStep(m)
  \/ EntitlementChanges
  \/ Swap
  \/ Restart
  \/ Tick

Spec == Init /\ [][Next]_vars

----------------------------------------------------------------------------
(* Properties.                                                             *)

\* The time since n could last mint a token of role r.
Since(n, r) ==
  IF Usable(n) /\ RoleRank(r) <= RoleRank(acct[n].role) THEN 0 ELSE had[n][r]

\* What disabling, demoting or deleting an account really guarantees: a token
\* that still lives was backed by the account no longer ago than the token's own
\* age and the lag of its mint, so TTL + MintLag later none is left.
TokenBacked ==
  \A m \in Runs : tok[m].left > 0 =>
    /\ tok[m].name \in Names
    /\ tok[m].role \in AccountRoles
    /\ Since(tok[m].name, tok[m].role) <= MintLag + TTL - tok[m].left

\* ErrMustDisableBeforeDelete: "Disabling alone already fails every future mint
\* closed" - a mint that began with the account disabled or gone finds no role
\* unless the account was made usable meanwhile.
DisabledMintsFail == \A m \in Runs : run[m].pc = "found" => ~run[m].barred

\* postgres.go Delete: whatever patches race the transaction, an account is only
\* ever removed while it is disabled.
DeletesOnlyDisabled ==
  [][\A n \in Names : acct[n] # None /\ acct'[n] = None => acct[n].disabled]_vars
=============================================================================
