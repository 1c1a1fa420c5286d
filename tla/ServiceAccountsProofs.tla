------------------------ MODULE ServiceAccountsProofs ------------------------
(***************************************************************************)
(* For any number of accounts, deletes and runs and any lifetimes: a token *)
(* is backed by its account, a disabled account bars mints, and only a     *)
(* disabled account is deleted.                                            *)
(***************************************************************************)
EXTENDS ServiceAccounts, TLAPS

----------------------------------------------------------------------------
(* The inductive invariant.                                                *)

\* A request that has begun names an account.
RunNamed == \A m \in Runs : run[m].pc # "idle" => run[m].name \in Names

\* A role that was looked up was the account's to give no longer ago than the
\* lookup, which is what lag counts from.
FoundBacked ==
  \A m \in Runs : run[m].pc = "found" =>
    /\ run[m].role \in AccountRoles
    /\ Since(run[m].name, run[m].role) <= run[m].lag

\* A request that began barred is no longer so when its account is usable.
BarredUnusable ==
  \A m \in Runs : run[m].pc # "idle" /\ run[m].barred => ~Usable(run[m].name)

\* The row a DELETE holds stays as the DELETE read it.
LockedDisabled ==
  \A n \in Names : lock[n] # None => acct[n] # None /\ acct[n].disabled

IInv ==
  /\ TypeOK
  /\ RunNamed
  /\ FoundBacked
  /\ BarredUnusable
  /\ LockedDisabled
  /\ TokenBacked
  /\ DisabledMintsFail

----------------------------------------------------------------------------
(* Constants, roles and fields.                                            *)

\* TTL, MintLag and the age at which history stops counting.
LEMMA Lifetimes ==
  /\ TTL \in Nat \ {0} /\ MintLag \in Nat /\ MaxGen \in Nat \ {0}
  /\ Horizon \in Nat /\ Horizon = TTL + MintLag + 1
  /\ None \notin Account
BY ServiceAccountConstants DEF Horizon, Account, AccountRoles

\* RoleRank of the roles an account may have, and LesserRole under any ceiling.
LEMMA AccountRanks ==
  /\ \A r \in AccountRoles : RoleRank(r) \in Nat
  /\ \A ceiling \in Roles, r \in AccountRoles :
       /\ LesserRole(ceiling, r) \in AccountRoles
       /\ RoleRank(LesserRole(ceiling, r)) <= RoleRank(r)
BY DEF RoleRank, AccountRoles, Roles, LesserRole, NoRole

RunRecords ==
  [pc : {"idle", "authenticated", "checked", "found"}, name : Names \cup {None},
   role : AccountRoles \cup {NoRole}, lag : 0 .. MintLag, barred : BOOLEAN]

TokenRecords == [name : Names \cup {None}, role : AccountRoles \cup {NoRole}, left : 0 .. TTL]

\* What TypeOK says of one request, one token and one account.
LEMMA Fields ==
  ASSUME TypeOK
  PROVE  /\ run \in [Runs -> RunRecords] /\ tok \in [Runs -> TokenRecords]
         /\ \A m \in Runs : run[m] \in RunRecords /\ tok[m] \in TokenRecords
         /\ \A n \in Names : acct[n] \in Account \cup {None}
         /\ \A n \in Names : acct[n] # None => acct[n].role \in AccountRoles /\ acct[n].disabled \in BOOLEAN
         /\ \A n \in Names, r \in AccountRoles : had[n][r] \in 0 .. Horizon
BY DEF TypeOK, RunRecords, TokenRecords, Account

\* NoRun and NoToken are of their kinds.
LEMMA NilTyped == NoRun \in RunRecords /\ NoToken \in TokenRecords
BY Lifetimes DEF NoRun, NoToken, RunRecords, TokenRecords

\* Since counts as had does.
LEMMA SinceTyped ==
  ASSUME TypeOK, NEW n \in Names, NEW r \in AccountRoles
  PROVE  Since(n, r) \in Nat
BY Fields, Lifetimes DEF Since

\* The same after a step.
LEMMA SinceTypedNext ==
  ASSUME TypeOK', NEW n \in Names, NEW r \in AccountRoles
  PROVE  Since(n, r)' \in Nat
<1>1. had'[n][r] \in Nat
  BY Lifetimes DEF TypeOK
<1> QED BY <1>1 DEF Since

----------------------------------------------------------------------------
(* Each kind of step.                                                      *)

\* The parts of the invariant that speak of accounts survive a step that leaves
\* accounts, their history and their locks alone and keeps or ends requests.
LEMMA RunsOnly ==
  ASSUME IInv, UNCHANGED <<acct, gen, had, tok>>,
         {avail', entitled'} \subseteq BOOLEAN,
         lock' \in [Names -> Deleters \cup {None}],
         \A n \in Names : lock'[n] \in {lock[n], None},
         run' \in [Runs -> RunRecords],
         \A m \in Runs : run'[m] \in {run[m], NoRun}
  PROVE  IInv'
<1> USE DEF IInv
<1>1. TypeOK'
  BY DEF TypeOK, RunRecords
<1>2. \A n \in Names : Usable(n)' = Usable(n)
  BY DEF Usable
<1>3. \A n, r : Since(n, r)' = Since(n, r)
  BY DEF Since, Usable
<1>4. RunNamed' /\ DisabledMintsFail'
  BY DEF RunNamed, DisabledMintsFail, NoRun
<1>5. FoundBacked'
  BY <1>3 DEF FoundBacked, NoRun
<1>6. BarredUnusable'
  BY <1>2 DEF BarredUnusable, NoRun, RunNamed
<1>7. LockedDisabled'
  BY DEF LockedDisabled
<1>8. TokenBacked'
  BY <1>3 DEF TokenBacked
<1> QED BY <1>1, <1>4, <1>5, <1>6, <1>7, <1>8

\* A change to one account moves no account's last backing further into the past.
LEMMA RecordShortens ==
  ASSUME TypeOK, NEW n \in Names, NEW new \in Account \cup {None}, Record(n, new),
         NEW k \in Names, NEW r \in AccountRoles
  PROVE  Since(k, r)' <= Since(k, r)
<1>1. had[k][r] \in Nat /\ Since(k, r) \in Nat
  BY Fields, SinceTyped, Lifetimes
<1>2. had'[k][r] = IF k = n THEN Since(n, r) ELSE had[k][r]
  BY DEF Record, Since, TypeOK
<1>3. acct'[k] = IF k = n THEN new ELSE acct[k]
  BY DEF Record, TypeOK
<1>4. CASE k = n
  BY <1>1, <1>2, <1>4 DEF Since
<1>5. CASE k # n
  <2>1. Since(k, r)' = Since(k, r)
    BY <1>2, <1>3, <1>5 DEF Since, Usable
  <2> QED BY <2>1, <1>1
<1> QED BY <1>4, <1>5

\* Create, Patch and DeleteCommit: a change to an account whose row no other
\* transaction holds.
LEMMA RecordKeeps ==
  ASSUME IInv, NEW n \in Names, NEW new \in Account \cup {None}, Record(n, new),
         UNCHANGED <<avail, entitled, tok>>,
         lock' \in [Names -> Deleters \cup {None}],
         gen' \in [Names -> 0 .. MaxGen],
         \A k \in Names : lock'[k] # None => k # n /\ lock'[k] = lock[k]
  PROVE  IInv'
<1> USE DEF IInv
<1>1. \A m \in Runs :
        /\ run'[m] \in RunRecords
        /\ run'[m].pc = run[m].pc /\ run'[m].name = run[m].name
        /\ run'[m].role = run[m].role /\ run'[m].lag = run[m].lag
        /\ run'[m].barred = IF run[m].name = n /\ new # None /\ ~new.disabled
                            THEN FALSE ELSE run[m].barred
  BY Fields DEF Record, RunRecords
<1>2. run' \in [Runs -> RunRecords]
  BY <1>1 DEF Record
<1>3. acct' \in [Names -> Account \cup {None}]
      /\ \A k \in Names : acct'[k] = IF k = n THEN new ELSE acct[k]
  BY DEF Record, TypeOK
<1>4. had' \in [Names -> [AccountRoles -> 0 .. Horizon]]
  BY Lifetimes DEF Record, TypeOK
<1>5. TypeOK'
  BY <1>2, <1>3, <1>4 DEF TypeOK, RunRecords
<1>6. RunNamed'
  BY <1>1 DEF RunNamed
<1>7. DisabledMintsFail'
  BY <1>1 DEF DisabledMintsFail
<1>8. LockedDisabled'
  BY <1>3 DEF LockedDisabled
<1>9. BarredUnusable'
  <2> SUFFICES ASSUME NEW m \in Runs, run'[m].pc # "idle", run'[m].barred,
                      NEW k, k = run'[m].name
               PROVE  ~Usable(k)'
    BY DEF BarredUnusable
  <2>1. run[m].pc # "idle" /\ run[m].barred /\ run[m].name = k /\ k \in Names
    BY <1>1 DEF RunNamed
  <2>2. ~Usable(k)
    BY <2>1 DEF BarredUnusable
  <2>3. CASE k = n
    BY <2>1, <2>3, <1>1, <1>3 DEF Usable
  <2>4. CASE k # n
    BY <2>1, <2>2, <2>4, <1>3 DEF Usable
  <2> QED BY <2>3, <2>4
<1>10. \A k \in Names, r \in AccountRoles :
         /\ Since(k, r)' \in Nat /\ Since(k, r) \in Nat
         /\ Since(k, r)' <= Since(k, r)
  BY <1>5, RecordShortens, SinceTyped, SinceTypedNext
<1>11. FoundBacked'
  <2> SUFFICES ASSUME NEW m \in Runs, run'[m].pc = "found",
                      NEW k, k = run'[m].name, NEW r, r = run'[m].role
               PROVE  r \in AccountRoles /\ Since(k, r)' <= run'[m].lag
    BY DEF FoundBacked
  <2>1. run[m].pc = "found" /\ k = run[m].name /\ r = run[m].role /\ run'[m].lag = run[m].lag
    BY <1>1
  <2>2. k \in Names /\ r \in AccountRoles /\ Since(k, r) <= run[m].lag
    BY <2>1 DEF RunNamed, FoundBacked
  <2>3. run[m].lag \in Nat
    BY Fields, Lifetimes DEF RunRecords
  <2> QED BY <1>10, <2>1, <2>2, <2>3
<1>12. TokenBacked'
  <2> SUFFICES ASSUME NEW m \in Runs, tok[m].left > 0,
                      NEW k, k = tok[m].name, NEW r, r = tok[m].role
               PROVE  /\ k \in Names /\ r \in AccountRoles
                      /\ Since(k, r)' <= MintLag + TTL - tok[m].left
    BY DEF TokenBacked
  <2>1. k \in Names /\ r \in AccountRoles /\ Since(k, r) <= MintLag + TTL - tok[m].left
    BY DEF TokenBacked
  <2>2. tok[m].left \in Nat
    BY Fields, Lifetimes DEF TokenRecords
  <2> QED BY <1>10, <2>1, <2>2, Lifetimes
<1> QED BY <1>5, <1>6, <1>7, <1>8, <1>9, <1>11, <1>12

\* POST.
LEMMA CreateKeeps ==
  ASSUME IInv, NEW n \in Names, NEW role \in AccountRoles, Create(n, role)
  PROVE  IInv'
<1>1. [role |-> role, disabled |-> FALSE] \in Account
  BY DEF Account
<1>2. gen' \in [Names -> 0 .. MaxGen] /\ lock' \in [Names -> Deleters \cup {None}]
  BY Lifetimes DEF Create, IInv, TypeOK
<1>3. \A k \in Names : lock'[k] # None => k # n /\ lock'[k] = lock[k]
  BY DEF Create, Writable
<1> QED BY <1>1, <1>2, <1>3, RecordKeeps DEF Create

\* PATCH.
LEMMA PatchKeeps ==
  ASSUME IInv, NEW n \in Names, NEW role \in AccountRoles, NEW disabled \in BOOLEAN,
         Patch(n, role, disabled)
  PROVE  IInv'
<1>1. [role |-> role, disabled |-> disabled] \in Account
  BY DEF Account
<1>2. gen' \in [Names -> 0 .. MaxGen] /\ lock' \in [Names -> Deleters \cup {None}]
  BY DEF Patch, IInv, TypeOK
<1>3. \A k \in Names : lock'[k] # None => k # n /\ lock'[k] = lock[k]
  BY DEF Patch, Writable
<1> QED BY <1>1, <1>2, <1>3, RecordKeeps DEF Patch

\* DELETE.
LEMMA DeleteKeeps ==
  ASSUME IInv, NEW n \in Names, DeleteStep(n)
  PROVE  IInv'
<1>1. ASSUME NEW d \in Deleters, DeleteLock(d, n) PROVE IInv'
  <2> USE <1>1 DEF IInv, DeleteLock
  <2>1. TypeOK' /\ RunNamed' /\ DisabledMintsFail' /\ LockedDisabled'
    BY DEF TypeOK, RunNamed, DisabledMintsFail, LockedDisabled
  <2>2. FoundBacked' /\ BarredUnusable' /\ TokenBacked'
    BY DEF FoundBacked, BarredUnusable, TokenBacked, Since, Usable
  <2> QED BY <2>1, <2>2
<1>2. ASSUME DeleteCommit(n) PROVE IInv'
  <2>1. gen' \in [Names -> 0 .. MaxGen] /\ lock' \in [Names -> Deleters \cup {None}]
        /\ \A k \in Names : lock'[k] # None => k # n /\ lock'[k] = lock[k]
    BY <1>2 DEF DeleteCommit, IInv, TypeOK
  <2> QED BY <1>2, <2>1, RecordKeeps DEF DeleteCommit
<1>3. ASSUME DeleteRollback(n) PROVE IInv'
  <2>1. lock' \in [Names -> Deleters \cup {None}]
        /\ \A k \in Names : lock'[k] \in {lock[k], None}
    BY <1>3 DEF DeleteRollback, IInv, TypeOK
  <2> QED BY <1>3, <2>1, Fields, RunsOnly DEF DeleteRollback, IInv, TypeOK
<1> QED BY <1>1, <1>2, <1>3 DEF DeleteStep

\* Authenticate, Recheck and Lookup: one request moves on, the rest stands.
LEMMA RunKeeps ==
  ASSUME IInv, NEW m \in Runs, NEW next \in RunRecords,
         run' = [run EXCEPT ![m] = next],
         UNCHANGED <<avail, acct, lock, gen, entitled, tok, had>>,
         next.pc # "idle" => next.name \in Names,
         next.pc = "found" => /\ next.role \in AccountRoles
                              /\ Since(next.name, next.role) <= next.lag
                              /\ ~next.barred,
         next.pc # "idle" /\ next.barred => ~Usable(next.name)
  PROVE  IInv'
<1> USE DEF IInv
<1>1. run' \in [Runs -> RunRecords] /\ \A k \in Runs : run'[k] = IF k = m THEN next ELSE run[k]
  BY Fields
<1>2. TypeOK'
  BY <1>1 DEF TypeOK, RunRecords
<1>3. RunNamed' /\ DisabledMintsFail' /\ LockedDisabled'
  BY <1>1 DEF RunNamed, DisabledMintsFail, LockedDisabled
<1>4. \A k, r : Since(k, r)' = Since(k, r) /\ Usable(k)' = Usable(k)
  BY DEF Since, Usable
<1>5. FoundBacked'
  BY <1>1, <1>4 DEF FoundBacked
<1>6. BarredUnusable'
  BY <1>1, <1>4 DEF BarredUnusable
<1>7. TokenBacked'
  BY <1>4 DEF TokenBacked
<1> QED BY <1>2, <1>3, <1>5, <1>6, <1>7

\* The lookup was at most MintLag ago, and the token's TTL starts here.
LEMMA SignKeeps ==
  ASSUME IInv, NEW m \in Runs, Sign(m)
  PROVE  IInv'
<1> DEFINE t == [name |-> run[m].name, role |-> run[m].role, left |-> TTL]
<1> USE DEF IInv
<1>1. run[m].name \in Names /\ run[m].role \in AccountRoles
      /\ Since(run[m].name, run[m].role) <= run[m].lag
  BY DEF Sign, RunNamed, FoundBacked
<1>2. run[m].lag \in 0 .. MintLag
  BY Fields DEF RunRecords
<1>3. t \in TokenRecords /\ t.name = run[m].name /\ t.role = run[m].role /\ t.left = TTL
  BY <1>1, Lifetimes DEF TokenRecords
<1>4. \A k \in Runs : tok'[k] = IF k = m THEN t ELSE tok[k]
  BY Fields DEF Sign
<1>5. \A k \in Runs : run'[k] \in {run[k], NoRun}
  BY Fields DEF Sign
<1>6. run' \in [Runs -> RunRecords] /\ tok' \in [Runs -> TokenRecords]
  BY <1>3, Fields, NilTyped DEF Sign
<1>7. TypeOK'
  BY <1>6 DEF Sign, TypeOK, RunRecords, TokenRecords
<1>8. \A n, r : Since(n, r)' = Since(n, r) /\ Usable(n)' = Usable(n)
  BY DEF Since, Usable, Sign
<1>9. RunNamed' /\ DisabledMintsFail' /\ LockedDisabled'
  BY <1>5 DEF RunNamed, DisabledMintsFail, LockedDisabled, NoRun, Sign
<1>10. FoundBacked' /\ BarredUnusable'
  BY <1>5, <1>8 DEF FoundBacked, BarredUnusable, NoRun
<1>11. TokenBacked'
  <2> HIDE DEF t
  <2> SUFFICES ASSUME NEW k \in Runs, tok'[k].left > 0
               PROVE  /\ tok'[k].name \in Names /\ tok'[k].role \in AccountRoles
                      /\ Since(tok[k].name, tok[k].role)' <= MintLag + TTL - tok'[k].left
    BY DEF TokenBacked
  <2>1. CASE k = m
    <3>1. tok'[k] = t
      BY <1>4, <2>1
    <3>2. Since(run[m].name, run[m].role) <= MintLag
      BY <1>1, <1>2, SinceTyped, Lifetimes
    <3>3. Since(tok[k].name, tok[k].role)' = Since(run[m].name, run[m].role)
      BY <3>1, <1>3, <1>8
    <3> QED BY <3>1, <3>2, <3>3, <1>1, <1>3, Lifetimes
  <2>2. CASE k # m
    <3>1. tok'[k] = tok[k]
      BY <1>4, <2>2
    <3> QED BY <3>1, <1>8 DEF TokenBacked
  <2> QED BY <2>1, <2>2
<1> QED BY <1>7, <1>9, <1>10, <1>11

\* handleMintWorkloadToken.
LEMMA MintKeeps ==
  ASSUME IInv, NEW m \in Runs, MintStep(m)
  PROVE  IInv'
<1>1. ASSUME NEW n \in Names, Authenticate(m, n) PROVE IInv'
  <2> DEFINE next == [pc |-> "authenticated", name |-> n, role |-> NoRole, lag |-> 0,
                      barred |-> ~Usable(n)]
  <2>1. next \in RunRecords
    BY Lifetimes DEF RunRecords, Usable
  <2> QED BY <1>1, <2>1, RunKeeps DEF Authenticate
<1>2. ASSUME Recheck(m) PROVE IInv'
  <2> DEFINE next == IF entitled THEN [run[m] EXCEPT !.pc = "checked"] ELSE NoRun
  <2>1. next \in RunRecords /\ run' = [run EXCEPT ![m] = next]
    BY <1>2, Fields, NilTyped DEF Recheck, IInv, RunRecords
  <2>2. next.pc # "idle" => /\ next.pc = "checked" /\ run[m].pc # "idle"
                            /\ next.name = run[m].name /\ next.barred = run[m].barred
    BY <1>2, Fields DEF Recheck, IInv, RunRecords, NoRun
  <2>3. next.pc # "found"
    BY <2>2
  <2>4. /\ next.pc # "idle" => next.name \in Names
        /\ next.pc # "idle" /\ next.barred => ~Usable(next.name)
    BY <2>2 DEF IInv, RunNamed, BarredUnusable
  <2> QED BY <1>2, <2>1, <2>3, <2>4, RunKeeps DEF Recheck
<1>3. ASSUME NEW ceiling \in Roles, Lookup(m, ceiling) PROVE IInv'
  <2> DEFINE n == run[m].name
             role == LesserRole(ceiling, acct[n].role)
             next == IF avail /\ Usable(n)
                     THEN [run[m] EXCEPT !.pc = "found", !.role = role] ELSE NoRun
  <2>1. n \in Names /\ (run[m].barred => ~Usable(n))
    BY <1>3 DEF Lookup, IInv, RunNamed, BarredUnusable
  <2>2. Usable(n) => role \in AccountRoles /\ RoleRank(role) <= RoleRank(acct[n].role)
    BY <2>1, Fields, AccountRanks DEF Usable, IInv
  <2>3. Usable(n) => Since(n, role) = 0
    BY <2>2 DEF Since
  <2>4. run' = [run EXCEPT ![m] = next]
    BY <1>3 DEF Lookup
  <2>5. CASE avail /\ Usable(n)
    <3> DEFINE found == [run[m] EXCEPT !.pc = "found", !.role = role]
    <3>1. next = found
      BY <2>5
    <3>2. found \in RunRecords /\ found.pc = "found" /\ found.name = n /\ found.role = role
          /\ found.barred = run[m].barred
      <4>1. run[m] \in RunRecords /\ role \in AccountRoles
        BY <2>2, <2>5, Fields DEF IInv
      <4> HIDE DEF n, role
      <4>2. found \in RunRecords /\ found.pc = "found" /\ found.name = run[m].name
            /\ found.role = role /\ found.barred = run[m].barred
        BY <4>1 DEF RunRecords
      <4> QED BY <4>2 DEF n
    <3>3. run' = [run EXCEPT ![m] = found]
      BY <2>4, <3>1
    <3> HIDE DEF found
    <3>4. Since(found.name, found.role) <= found.lag
      <4>1. found.lag \in Nat
        BY <3>2, Lifetimes DEF RunRecords
      <4> QED BY <4>1, <3>2, <2>3, <2>5
    <3>5. ~found.barred
      BY <3>2, <2>1, <2>5
    <3>6. found.name \in Names /\ found.role \in AccountRoles
      BY <3>2, <2>1, <2>2, <2>5
    <3> QED BY <1>3, <3>2, <3>3, <3>4, <3>5, <3>6, RunKeeps DEF Lookup
  <2>6. CASE ~(avail /\ Usable(n))
    <3>1. run' = [run EXCEPT ![m] = NoRun] /\ NoRun.pc = "idle" /\ NoRun \in RunRecords
      BY <2>4, <2>6, NilTyped DEF NoRun
    <3> QED BY <1>3, <3>1, RunKeeps DEF Lookup
  <2> QED BY <2>5, <2>6
<1>4. ASSUME Sign(m) PROVE IInv'
  <2> QED BY <1>4, SignKeeps
<1> QED BY <1>1, <1>2, <1>3, <1>4 DEF MintStep

\* Tick: no last backing moves back by more than the tick.
LEMMA TickLengthens ==
  ASSUME TypeOK, Tick, NEW n \in Names, NEW r \in AccountRoles
  PROVE  Since(n, r)' <= Since(n, r) + 1
<1>1. had'[n][r] = IF Usable(n) /\ RoleRank(r) <= RoleRank(acct[n].role) THEN 0 ELSE Older(had[n][r])
  BY DEF Tick
<1>2. Usable(n)' = Usable(n) /\ acct' = acct
  BY DEF Tick, Usable
<1>3. had[n][r] \in Nat /\ Older(had[n][r]) \in Nat /\ Older(had[n][r]) <= had[n][r] + 1
  BY Fields, Lifetimes DEF Older
<1> QED BY <1>1, <1>2, <1>3 DEF Since

\* Each token and each lookup ages with the clock.
LEMMA TickKeeps ==
  ASSUME IInv, Tick
  PROVE  IInv'
<1> USE DEF IInv
<1>1. \A m \in Runs :
        /\ run'[m] \in RunRecords
        /\ run'[m].pc = run[m].pc /\ run'[m].name = run[m].name
        /\ run'[m].role = run[m].role /\ run'[m].barred = run[m].barred
        /\ run[m].pc = "found" => run'[m].lag = run[m].lag + 1
  <2> SUFFICES ASSUME NEW m \in Runs
               PROVE  /\ run'[m] \in RunRecords
                      /\ run'[m].pc = run[m].pc /\ run'[m].name = run[m].name
                      /\ run'[m].role = run[m].role /\ run'[m].barred = run[m].barred
                      /\ run[m].pc = "found" => run'[m].lag = run[m].lag + 1
    OBVIOUS
  <2>1. run[m] \in RunRecords
    BY Fields
  <2>2. CASE run[m].pc = "found"
    <3>1. run'[m] = [run[m] EXCEPT !.lag = run[m].lag + 1] /\ run[m].lag < MintLag
      BY <2>2 DEF Tick
    <3>2. run[m].lag + 1 \in 0 .. MintLag
      BY <2>1, <3>1, Lifetimes DEF RunRecords
    <3> QED BY <2>1, <3>1, <3>2 DEF RunRecords
  <2>3. CASE run[m].pc # "found"
    BY <2>1, <2>3 DEF Tick
  <2> QED BY <2>2, <2>3
<1>2. run' \in [Runs -> RunRecords]
  BY <1>1 DEF Tick
<1>3. \A m \in Runs :
        /\ tok'[m] \in TokenRecords
        /\ tok'[m].left > 0 => /\ tok[m].left = tok'[m].left + 1
                               /\ tok'[m].name = tok[m].name /\ tok'[m].role = tok[m].role
  <2> SUFFICES ASSUME NEW m \in Runs
               PROVE  /\ tok'[m] \in TokenRecords
                      /\ tok'[m].left > 0 => /\ tok[m].left = tok'[m].left + 1
                                             /\ tok'[m].name = tok[m].name
                                             /\ tok'[m].role = tok[m].role
    OBVIOUS
  <2>1. tok[m] \in TokenRecords
    BY Fields
  <2>2. CASE tok[m].left > 1
    <3>1. tok'[m] = [tok[m] EXCEPT !.left = tok[m].left - 1]
      BY <2>2 DEF Tick
    <3>2. tok[m].left \in 0 .. TTL /\ tok[m].left - 1 \in 0 .. TTL
      BY <2>1, <2>2, Lifetimes DEF TokenRecords
    <3>3. tok'[m] \in TokenRecords /\ tok'[m].left = tok[m].left - 1
          /\ tok'[m].name = tok[m].name /\ tok'[m].role = tok[m].role
      BY <2>1, <3>1, <3>2 DEF TokenRecords
    <3> QED BY <3>2, <3>3
  <2>3. CASE ~(tok[m].left > 1)
    <3>1. tok'[m] = NoToken
      BY <2>3 DEF Tick
    <3> QED BY <3>1, NilTyped DEF NoToken
  <2> QED BY <2>2, <2>3
<1>4. tok' \in [Runs -> TokenRecords]
  BY <1>3 DEF Tick
<1>5. had' \in [Names -> [AccountRoles -> 0 .. Horizon]]
  <2>1. \A n \in Names, r \in AccountRoles : Older(had[n][r]) \in 0 .. Horizon
    BY Fields, Lifetimes DEF Older
  <2>2. 0 \in 0 .. Horizon
    BY Lifetimes
  <2> QED BY <2>1, <2>2 DEF Tick
<1>6. TypeOK'
  BY <1>2, <1>4, <1>5 DEF Tick, TypeOK, RunRecords, TokenRecords
<1>7. \A n \in Names, r \in AccountRoles :
        Since(n, r) \in Nat /\ Since(n, r)' \in Nat /\ Since(n, r)' <= Since(n, r) + 1
  BY <1>6, TickLengthens, SinceTyped, SinceTypedNext
<1>8. \A n : Usable(n)' = Usable(n)
  BY DEF Tick, Usable
<1>9. RunNamed' /\ DisabledMintsFail' /\ LockedDisabled'
  BY <1>1 DEF RunNamed, DisabledMintsFail, LockedDisabled, Tick
<1>10. BarredUnusable'
  BY <1>1, <1>8 DEF BarredUnusable
<1>11. FoundBacked'
  <2> SUFFICES ASSUME NEW m \in Runs, run'[m].pc = "found",
                      NEW n, n = run'[m].name, NEW r, r = run'[m].role
               PROVE  r \in AccountRoles /\ Since(n, r)' <= run'[m].lag
    BY DEF FoundBacked
  <2>1. run[m].pc = "found" /\ n = run[m].name /\ r = run[m].role /\ run'[m].lag = run[m].lag + 1
    BY <1>1
  <2>2. n \in Names /\ r \in AccountRoles /\ Since(n, r) <= run[m].lag
    BY <2>1 DEF RunNamed, FoundBacked
  <2>3. run[m].lag \in Nat
    BY Fields, Lifetimes DEF RunRecords
  <2> QED BY <1>7, <2>1, <2>2, <2>3
<1>12. TokenBacked'
  <2> SUFFICES ASSUME NEW m \in Runs, tok'[m].left > 0,
                      NEW n, n = tok'[m].name, NEW r, r = tok'[m].role
               PROVE  /\ n \in Names /\ r \in AccountRoles
                      /\ Since(n, r)' <= MintLag + TTL - tok'[m].left
    BY DEF TokenBacked
  <2>1. tok[m].left = tok'[m].left + 1 /\ n = tok[m].name /\ r = tok[m].role
    BY <1>3
  <2>2. tok'[m].left \in Nat
    BY <1>3, Lifetimes DEF TokenRecords
  <2>3. n \in Names /\ r \in AccountRoles /\ Since(n, r) <= MintLag + TTL - tok[m].left
    BY <2>1, <2>2 DEF TokenBacked
  <2> QED BY <1>7, <2>1, <2>2, <2>3, Lifetimes
<1> QED BY <1>6, <1>9, <1>10, <1>11, <1>12

\* The accounts of earlier runs of core are in the database, and no request,
\* transaction or token.
LEMMA InitInv == Init => IInv
<1> SUFFICES ASSUME Init PROVE IInv
  OBVIOUS
<1>1. run \in [Runs -> RunRecords] /\ tok \in [Runs -> TokenRecords]
  BY NilTyped DEF Init
<1>2. gen \in [Names -> 0 .. MaxGen]
  BY Lifetimes DEF Init
<1>3. had \in [Names -> [AccountRoles -> 0 .. Horizon]]
  BY Lifetimes DEF Init
<1>4. {avail, entitled} \subseteq BOOLEAN /\ lock \in [Names -> Deleters \cup {None}]
      /\ acct \in [Names -> Account \cup {None}]
  BY DEF Init
<1>5. TypeOK
  BY <1>1, <1>2, <1>3, <1>4 DEF TypeOK, RunRecords, TokenRecords
<1>6. RunNamed /\ FoundBacked /\ BarredUnusable /\ DisabledMintsFail
  BY DEF Init, RunNamed, FoundBacked, BarredUnusable, DisabledMintsFail, NoRun
<1>7. LockedDisabled /\ TokenBacked
  BY DEF Init, LockedDisabled, TokenBacked, NoToken
<1> QED BY <1>5, <1>6, <1>7 DEF IInv

\* Every step of the owner, of a run and of the rest of the world.
LEMMA NextInv == IInv /\ [Next]_vars => IInv'
<1> SUFFICES ASSUME IInv, [Next]_vars PROVE IInv'
  OBVIOUS
<1>1. CASE UNCHANGED vars
  BY <1>1 DEF vars, IInv, TypeOK, RunNamed, FoundBacked, BarredUnusable, LockedDisabled, TokenBacked,
       DisabledMintsFail, Since, Usable
<1>2. CASE EntitlementChanges \/ Swap \/ Restart
  <2>1. run' \in [Runs -> RunRecords] /\ \A m \in Runs : run'[m] \in {run[m], NoRun}
    BY <1>2, Fields, NilTyped DEF IInv, EntitlementChanges, Swap, Restart
  <2>2. lock' \in [Names -> Deleters \cup {None}] /\ \A n \in Names : lock'[n] \in {lock[n], None}
    BY <1>2 DEF IInv, TypeOK, EntitlementChanges, Swap, Restart
  <2>3. {avail', entitled'} \subseteq BOOLEAN /\ UNCHANGED <<acct, gen, had, tok>>
    BY <1>2 DEF IInv, TypeOK, EntitlementChanges, Swap, Restart
  <2> QED BY <2>1, <2>2, <2>3, RunsOnly
<1> QED BY <1>1, <1>2, CreateKeeps, PatchKeeps, DeleteKeeps, MintKeeps, TickKeeps DEF Next

\* The invariant above is one of the specification.
THEOREM Invariance == Spec => []IInv
BY InitInv, NextInv, PTL DEF Spec

----------------------------------------------------------------------------
(* Results.                                                                *)

\* A token that lives was backed by its account no longer ago than its own age
\* and the lag of its mint, however requests, deletes and restarts interleave.
THEOREM TokensAreBacked == Spec => []TokenBacked
<1>1. IInv => TokenBacked
  BY DEF IInv
<1> QED BY <1>1, Invariance, PTL

\* A mint that began with the account disabled or gone finds no role unless the
\* account was made usable meanwhile.
THEOREM DisabledBars == Spec => []DisabledMintsFail
<1>1. IInv => DisabledMintsFail
  BY DEF IInv
<1> QED BY <1>1, Invariance, PTL

\* Delete removes only a disabled account, whatever patches race it.
THEOREM OnlyDisabledGo == Spec => DeletesOnlyDisabled
<1> DEFINE P == \A n \in Names : acct[n] # None /\ acct'[n] = None => acct[n].disabled
<1>1. IInv /\ [Next]_vars => [P]_vars
  <2> SUFFICES ASSUME IInv, Next, NEW n \in Names, acct[n] # None, acct'[n] = None
               PROVE  acct[n].disabled
    BY DEF vars
  <2>1. CASE acct' = acct
    BY <2>1
  <2>2. ASSUME NEW k \in Names, NEW role \in AccountRoles,
               \/ Create(k, role) \/ \E disabled \in BOOLEAN : Patch(k, role, disabled)
        PROVE  FALSE
    <3>1. PICK new \in Account : acct' = [acct EXCEPT ![k] = new]
      BY <2>2 DEF Create, Patch, Record, Account
    <3> QED BY <3>1, Lifetimes DEF IInv, TypeOK
  <2>3. ASSUME NEW k \in Names, DeleteCommit(k) PROVE acct[n].disabled
    <3>1. k = n
      BY <2>3 DEF DeleteCommit, Record, IInv, TypeOK
    <3> QED BY <2>3, <3>1 DEF DeleteCommit, IInv, LockedDisabled
  <2> QED BY <2>1, <2>2, <2>3 DEF Next, DeleteStep, DeleteLock, DeleteRollback, MintStep, Authenticate,
            Recheck, Lookup, Sign, EntitlementChanges, Swap, Restart, Tick
<1> QED BY <1>1, Invariance, PTL DEF Spec, DeletesOnlyDisabled
=============================================================================
