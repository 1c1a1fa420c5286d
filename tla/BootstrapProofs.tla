--------------------------- MODULE BootstrapProofs ---------------------------
(* For any number of replicas, any keys and any number of faults: the      *)
(* bootstrap keeps one trust root and implements KeyChoice; and the admin  *)
(* passwords of the bundled servers, which start-up chooses by the same    *)
(* protocol, agree with what the servers were initialised with.            *)
EXTENDS KeyBootstrap, Sequences, TLAPS

\* The initial states satisfy the inductive invariant.
LEMMA InitIInv == Init => IInv
BY KeyBootstrapConstants
DEF Init, IInv, TypeOK, HoldsSecret, Holding, BeforeHolding, ConfigFollowsSecret, SeenConfig,
    TrustRootAgreed, Calls

\* Every action keeps the inductive invariant.
LEMMA NextIInv == IInv /\ [Next]_vars => IInv'
<1> SUFFICES ASSUME IInv, [Next]_vars
             PROVE  IInv'
  OBVIOUS
<1> USE KeyBootstrapConstants
<1> USE DEF IInv, TypeOK, HoldsSecret, Holding, BeforeHolding, ConfigFollowsSecret, SeenConfig,
            TrustRootAgreed, Calls
<1>1. ASSUME NEW r \in Replicas, Start(r)
      PROVE  IInv'
  BY <1>1 DEF Start, Goto
<1>2. ASSUME NEW r \in Replicas, Load(r)
      PROVE  IInv'
  <2>1. CASE secret = None
    <3>1. PICK k \in Keys : own' = [own EXCEPT ![r] = k] /\ Goto(r, "create")
      BY <1>2, <2>1 DEF Load
    <3>2. UNCHANGED <<secret, config, seen, faults>>
      BY <1>2 DEF Load
    <3>3. QED
      BY <1>2, <2>1, <3>1, <3>2 DEF Load, Goto
  <2>2. CASE secret \in Keys
    BY <1>2, <2>2 DEF Load, UseSecret, Goto
  <2>3. CASE secret = Bad
    BY <1>2, <2>3 DEF Load, UseSecret, Exit, Goto
  <2>4. QED
    BY <2>1, <2>2, <2>3
<1>3. ASSUME NEW r \in Replicas, Create(r)
      PROVE  IInv'
  <2>1. CASE secret = None
    BY <1>3, <2>1 DEF Create, Goto
  <2>2. CASE secret # None
    BY <1>3, <2>2 DEF Create, Goto
  <2>3. QED
    BY <2>1, <2>2
<1>4. ASSUME NEW r \in Replicas, Adopt(r)
      PROVE  IInv'
  <2>1. CASE secret \in Keys
    BY <1>4, <2>1 DEF Adopt, UseSecret, Goto
  <2>2. CASE secret \notin Keys
    BY <1>4, <2>2 DEF Adopt, UseSecret, Exit, Goto
  <2>3. QED
    BY <2>1, <2>2
<1>5. ASSUME NEW r \in Replicas, ReadConfig(r)
      PROVE  IInv'
  BY <1>5 DEF ReadConfig, Goto
<1>6. ASSUME NEW r \in Replicas, WriteConfig(r)
      PROVE  IInv'
  <2>1. CASE config = seen[r]
    BY <1>6, <2>1 DEF WriteConfig, Goto
  <2>2. CASE config # seen[r] /\ seen[r] = None
    BY <1>6, <2>2 DEF WriteConfig, Goto
  <2>3. CASE config # seen[r] /\ seen[r] # None
    BY <1>6, <2>3 DEF WriteConfig, Exit, Goto
  <2>4. QED
    BY <2>1, <2>2, <2>3
<1>7. ASSUME NEW r \in Replicas, Crash(r)
      PROVE  IInv'
  BY <1>7 DEF Crash, Fault, Exit, Goto
<1>8. ASSUME NEW r \in Replicas, LostAnswer(r)
      PROVE  IInv'
  <2>1. CASE pc[r] = "create"
    BY <1>8, <2>1 DEF LostAnswer, Fault, Exit, Goto
  <2>2. CASE pc[r] = "writeConfig"
    BY <1>8, <2>2 DEF LostAnswer, Fault, Exit, Goto
  <2>3. QED
    BY <1>8, <2>1, <2>2 DEF LostAnswer
<1>9. CASE UNCHANGED vars
  BY <1>9 DEF vars
<1>10. QED
  BY <1>1, <1>2, <1>3, <1>4, <1>5, <1>6, <1>7, <1>8, <1>9 DEF Next, Step

\* The inductive invariant holds throughout every behaviour of the bootstrap.
THEOREM Invariance == Spec => []IInv
BY InitIInv, NextIInv, PTL DEF Spec

\* natsauth.LoadOrCreate: whatever fails and however often, a replica that runs
\* uses the Secret's keys and the NATS configuration was rendered from them.
THEOREM TrustRoot == Spec => []TrustRootAgreed
<1>1. IInv => TrustRootAgreed
  BY DEF IInv
<1>2. QED
  BY <1>1, Invariance, PTL

\* The initial states are initial states of KeyChoice: nothing runs yet.
LEMMA InitChoice == Init => Choice!Init
BY DEF Init, Choice!Init

\* Every step is a step of KeyChoice: creating the Secret chooses the keys,
\* finishing the bootstrap adopts them, exiting drops them, and every other
\* step stutters.
LEMMA NextChoice == IInv /\ [Next]_vars => [Choice!Next]_(Choice!vars)
<1> SUFFICES ASSUME IInv, [Next]_vars
             PROVE  [Choice!Next]_(Choice!vars)
  OBVIOUS
<1> DEFINE A == [r \in Replicas |-> IF pc[r] = "running" THEN own[r] ELSE None]
<1> USE KeyBootstrapConstants
<1> USE DEF IInv, TypeOK, HoldsSecret, Holding, BeforeHolding, Calls
<1>1. ASSUME NEW r \in Replicas, Exit(r), UNCHANGED secret
      PROVE  Choice!Drop(r)
  BY <1>1 DEF Exit, Goto, Choice!Drop
<1>2. ASSUME NEW r \in Replicas, Goto(r, "running"), UNCHANGED <<secret, own>>, Holding(r)
      PROVE  Choice!Adopt(r)
  BY <1>2 DEF Goto, Choice!Adopt
<1>3. ASSUME NEW r \in Replicas, NEW to \in Calls, Goto(r, to), pc[r] # "running",
             \A s \in Replicas : s # r => own'[s] = own[s]
      PROVE  A' = A
  BY <1>3 DEF Goto
<1>4. ASSUME NEW r \in Replicas, Start(r)
      PROVE  UNCHANGED Choice!vars
  BY <1>4, <1>3 DEF Start, Choice!vars
<1>5. ASSUME NEW r \in Replicas, Load(r)
      PROVE  [Choice!Next]_(Choice!vars)
  <2>1. CASE secret = None \/ secret \in Keys
    BY <1>5, <1>3, <2>1 DEF Load, UseSecret, Choice!vars
  <2>2. CASE secret = Bad
    BY <1>5, <1>1, <2>2 DEF Load, UseSecret, Choice!Next
  <2>3. QED
    BY <2>1, <2>2
<1>6. ASSUME NEW r \in Replicas, Create(r)
      PROVE  [Choice!Next]_(Choice!vars)
  <2>1. A' = A
    BY <1>6, <1>3 DEF Create
  <2>2. CASE secret = None
    BY <1>6, <2>1, <2>2 DEF Create, Choice!Choose, Choice!Next
  <2>3. CASE secret # None
    BY <1>6, <2>1, <2>3 DEF Create, Choice!vars
  <2>4. QED
    BY <2>2, <2>3
<1>7. ASSUME NEW r \in Replicas, Adopt(r)
      PROVE  [Choice!Next]_(Choice!vars)
  <2>1. CASE secret \in Keys
    BY <1>7, <1>3, <2>1 DEF Adopt, UseSecret, Choice!vars
  <2>2. CASE secret \notin Keys
    BY <1>7, <1>1, <2>2 DEF Adopt, UseSecret, Choice!Next
  <2>3. QED
    BY <2>1, <2>2
<1>8. ASSUME NEW r \in Replicas, ReadConfig(r)
      PROVE  [Choice!Next]_(Choice!vars)
  <2>1. CASE config = own[r]
    BY <1>8, <1>2, <2>1 DEF ReadConfig, Choice!Next
  <2>2. CASE config # own[r]
    BY <1>8, <1>3, <2>2 DEF ReadConfig, Choice!vars
  <2>3. QED
    BY <2>1, <2>2
<1>9. ASSUME NEW r \in Replicas, WriteConfig(r)
      PROVE  [Choice!Next]_(Choice!vars)
  <2>1. CASE config = seen[r] \/ seen[r] = None
    BY <1>9, <1>2, <2>1 DEF WriteConfig, Choice!Next
  <2>2. CASE ~(config = seen[r] \/ seen[r] = None)
    BY <1>9, <1>1, <2>2 DEF WriteConfig, Choice!Next
  <2>3. QED
    BY <2>1, <2>2
<1>10. ASSUME NEW r \in Replicas, Crash(r)
       PROVE  [Choice!Next]_(Choice!vars)
  BY <1>10, <1>1 DEF Crash, Choice!Next
<1>11. ASSUME NEW r \in Replicas, LostAnswer(r)
       PROVE  [Choice!Next]_(Choice!vars)
  <2>1. CASE pc[r] = "create"
    <3>1. secret = None /\ secret' \in Keys
      BY <1>11, <2>1 DEF LostAnswer
    <3>2. A' = A
      BY <1>11, <2>1 DEF LostAnswer, Exit, Goto
    <3>3. QED
      BY <3>1, <3>2 DEF Choice!Choose, Choice!Next
  <2>2. CASE pc[r] = "writeConfig"
    BY <1>11, <1>1, <2>2 DEF LostAnswer, Choice!Next
  <2>3. QED
    BY <1>11, <2>1, <2>2 DEF LostAnswer
<1>12. CASE UNCHANGED vars
  BY <1>12 DEF vars, Choice!vars
<1>13. QED
  BY <1>4, <1>5, <1>6, <1>7, <1>8, <1>9, <1>10, <1>11, <1>12 DEF Next, Step

\* Create-then-adopt implements its abstract promise: keys are chosen once,
\* never replaced, and only the chosen ones are ever used.
THEOREM Implements == Spec => ChoiceSpec
BY InitChoice, NextChoice, Invariance, PTL DEF Spec, ChoiceSpec, Choice!Spec

----------------------------------------------------------------------------
(* Start-up.                                                               *)

VARIABLES core, nats, secrets, claim, database, pinned, up, initial

Boot == INSTANCE Startup

\* What a replica holds while it boots.
Positions ==
  [step : 1 .. 8, at : {"get", "create", "adopt"},
   made : Boot!Passwords \cup {None}, password : Boot!Passwords \cup {None},
   verifier : BOOLEAN, swapped : 0 .. 4, bus : BOOLEAN]

\* What run has seen to: a replica that is past the step has the password, one about
\* to create a Secret has made one, and one about to adopt has been told that the
\* Secret is there, as it is in given.
Fits(x, given) ==
  /\ x.step > 2 => x.password # None
  /\ x.at = "create" => x.made # None
  /\ x.at = "adopt" => Boot!BootOrder[x.step] \in Boot!Admins /\ given[Boot!BootOrder[x.step]] # None

Provided ==
  /\ \A r \in Replicas : Fits(core[r], secrets)
  /\ "postgres" \in up => initial["postgres"] # None

\* Nobody has a password but the Secret's.
OneSource ==
  /\ \A s \in Boot!Admins : initial[s] \in {None, secrets[s]}
  /\ \A r \in Replicas : core[r].password \in {None, secrets["postgres"]}

BootInv == Boot!TypeOK /\ OneSource /\ Provided

\* run has eight steps, of which serving is the last, and four stores to switch.
LEMMA Lengths ==
  /\ Len(Boot!BootOrder) = 8 /\ Len(Boot!Swaps) = 4
  /\ \A i \in 1 .. 8 : Boot!BootOrder[i] # "serving" => i + 1 \in 1 .. 8
BY DEF Boot!BootOrder, Boot!Swaps

\* The password is the second thing run sees to.
LEMMA Order ==
  \A i \in 1 .. 8 : /\ Boot!BootOrder[i] = "postgres" <=> i = 2
                    /\ Boot!BootOrder[i] = "claim" <=> i = 3
                    /\ Boot!BootOrder[i] = "eventbus" <=> i = 1
                    /\ Boot!BootOrder[i] = "keycloak" => i = 5
BY DEF Boot!BootOrder

\* What a Secret gains takes nothing from anyone.
LEMMA FitsStill ==
  ASSUME NEW x, NEW given, NEW new, Fits(x, given),
         \A s \in Boot!Admins : new[s] # given[s] => given[s] = None
  PROVE  Fits(x, new)
BY DEF Fits

\* What TypeOK says of one replica.
LEMMA CoreTyped ==
  ASSUME Boot!TypeOK
  PROVE  core \in [Replicas -> Positions] /\ faults \in 0 .. MaxFaults
BY Lengths DEF Boot!TypeOK, Positions

\* A replica that boots again.
LEMMA BootingTyped ==
  Boot!Booting \in Positions /\ Boot!Booting.password = None /\ \A given : Fits(Boot!Booting, given)
<1>1. Boot!Booting \in Positions /\ Boot!Booting.password = None
  BY DEF Boot!Booting, Positions
<1>2. Boot!Booting.step = 1 /\ Boot!Booting.at = "get"
  BY DEF Boot!Booting
<1> QED BY <1>1, <1>2 DEF Fits

\* The next step of run, with what the replica holds.
LEMMA StepDoneTyped ==
  ASSUME Boot!TypeOK, NEW r \in Replicas, Boot!Step(r) # "serving"
  PROVE  /\ Boot!StepDone(r) \in Positions /\ Boot!StepDone(r).password = core[r].password
         /\ Boot!StepDone(r).step = core[r].step + 1 /\ Boot!StepDone(r).at = "get"
<1>1. core[r] \in Positions
  BY CoreTyped
<1>2. core[r].step + 1 \in 1 .. 8
  BY <1>1, Lengths DEF Boot!Step, Positions
<1> QED BY <1>1, <1>2 DEF Boot!StepDone, Positions

\* One replica moves to position x.
Moves(r, x) ==
  /\ core' \in [Replicas -> Positions]
  /\ core'[r] = x
  /\ \A q \in Replicas \ {r} : core'[q] = core[q]

\* What the model writes as EXCEPT.
LEMMA Moved ==
  ASSUME Boot!TypeOK, NEW r \in Replicas, NEW x \in Positions, core' = [core EXCEPT ![r] = x]
  PROVE  Moves(r, x)
BY CoreTyped DEF Moves

\* What a step may do to the passwords: a Secret is set only when it was missing, a
\* server takes its Secret's, a replica keeps its own, forgets it or takes the Secret's.
LEMMA PasswordsKept ==
  ASSUME BootInv,
         \A s \in Boot!Admins : secrets'[s] # secrets[s] => secrets[s] = None,
         \A s \in Boot!Admins : initial'[s] \in {initial[s], secrets'[s]},
         \A q \in Replicas : core'[q].password \in {core[q].password, None, secrets'["postgres"]}
  PROVE  OneSource'
BY DEF BootInv, OneSource, Boot!Admins

\* A step of one replica that leaves Secrets and servers' passwords alone.
LEMMA ReplicaKeeps ==
  ASSUME BootInv, NEW r \in Replicas, NEW x \in Positions, core' = [core EXCEPT ![r] = x],
         x.password \in {core[r].password, None, secrets["postgres"]}, Fits(x, secrets),
         UNCHANGED <<secrets, initial, up>>,
         {nats', claim', database', pinned'} \subseteq BOOLEAN, faults' \in 0 .. MaxFaults
  PROVE  BootInv'
<1>1. Moves(r, x)
  BY Moved DEF BootInv
<1>2. Boot!TypeOK'
  BY <1>1, Lengths DEF BootInv, Boot!TypeOK, Moves, Positions, Boot!Passwords
<1>3. \A q \in Replicas : core'[q].password \in {core[q].password, None, secrets'["postgres"]}
  BY <1>1 DEF Moves
<1>4. OneSource'
  BY <1>3, PasswordsKept
<1>5. Provided'
  BY <1>1 DEF BootInv, Provided, Moves
<1> QED BY <1>2, <1>4, <1>5 DEF BootInv

\* Steps of run that ask nothing of a Secret, and the background loops.
LEMMA RunKeeps ==
  ASSUME BootInv, NEW r \in Replicas,
         \/ Boot!EventBus(r) \/ Boot!EnsureBackupClaim(r) \/ Boot!Ping(r) \/ Boot!EnsureKeycloak(r)
         \/ Boot!Keys(r) \/ Boot!GiveUp(r) \/ Boot!Die(r)
         \/ Boot!InitVerifier(r) \/ Boot!PersistCoreDatabase(r) \/ Boot!MaintainBus(r)
  PROVE  BootInv'
<1>1. Boot!TypeOK /\ core[r] \in Positions /\ faults \in 0 .. MaxFaults
  BY CoreTyped DEF BootInv
<1>2. {nats, claim, database, pinned} \subseteq BOOLEAN /\ Fits(core[r], secrets)
  BY <1>1 DEF Boot!TypeOK, BootInv, Provided
<1>3. CASE Boot!EventBus(r) \/ Boot!EnsureBackupClaim(r) \/ Boot!Ping(r) \/ Boot!EnsureKeycloak(r) \/ Boot!Keys(r)
  <2>1. /\ Boot!Step(r) \notin {"serving", "postgres"} /\ core' = [core EXCEPT ![r] = Boot!StepDone(r)]
        /\ UNCHANGED <<secrets, initial, up, faults, pinned>>
        /\ nats' \in {nats, TRUE} /\ claim' \in {claim, TRUE} /\ database' \in {database, TRUE}
    BY <1>3 DEF Boot!EventBus, Boot!EnsureBackupClaim, Boot!Ping, Boot!EnsureKeycloak, Boot!Keys, Boot!cluster
  <2>2. PICK x \in Positions : /\ x = Boot!StepDone(r) /\ x.password = core[r].password
                               /\ x.step = core[r].step + 1 /\ x.at = "get"
    BY <1>1, <2>1, StepDoneTyped
  <2>3. core[r].step \in 1 .. 8 /\ core[r].step # 2
    BY <1>1, <2>1, Order DEF Positions, Boot!Step
  <2>4. Fits(x, secrets)
    BY <1>2, <2>2, <2>3 DEF Fits
  <2> QED BY <1>1, <1>2, <2>1, <2>2, <2>4, ReplicaKeeps
<1>4. CASE Boot!GiveUp(r) \/ Boot!Die(r)
  <2>1. /\ core' = [core EXCEPT ![r] = Boot!Booting]
        /\ UNCHANGED <<secrets, initial, up, nats, claim, database, pinned>>
    BY <1>4 DEF Boot!GiveUp, Boot!Die, Boot!cluster
  <2>2. faults' \in 0 .. MaxFaults
    BY <1>1, <1>4, KeyBootstrapConstants DEF Boot!GiveUp, Boot!Die
  <2> QED BY <1>2, <2>1, <2>2, BootingTyped, ReplicaKeeps
<1>5. CASE Boot!InitVerifier(r) \/ Boot!PersistCoreDatabase(r) \/ Boot!MaintainBus(r)
  <2> DEFINE Same(x) == /\ x.password = core[r].password /\ x.made = core[r].made
                        /\ x.step = core[r].step /\ x.at = core[r].at
  <2>1. PICK x \in Positions : core' = [core EXCEPT ![r] = x] /\ Same(x)
    <3>1. CASE Boot!InitVerifier(r)
      <4>1. [core[r] EXCEPT !.verifier = TRUE] \in Positions /\ Same([core[r] EXCEPT !.verifier = TRUE])
        BY <1>1 DEF Positions
      <4> QED BY <3>1, <4>1 DEF Boot!InitVerifier
    <3>2. CASE Boot!MaintainBus(r)
      <4>1. [core[r] EXCEPT !.bus = TRUE] \in Positions /\ Same([core[r] EXCEPT !.bus = TRUE])
        BY <1>1 DEF Positions
      <4> QED BY <3>2, <4>1 DEF Boot!MaintainBus
    <3>3. CASE Boot!PersistCoreDatabase(r)
      <4>1. core[r].swapped + 1 \in 0 .. 4
        BY <1>1, <3>3, Lengths DEF Boot!PersistCoreDatabase, Positions
      <4>2. [core[r] EXCEPT !.swapped = @ + 1] \in Positions /\ Same([core[r] EXCEPT !.swapped = @ + 1])
        BY <1>1, <4>1 DEF Positions
      <4> QED BY <3>3, <4>2 DEF Boot!PersistCoreDatabase
    <3> QED BY <1>5, <3>1, <3>2, <3>3
  <2>2. UNCHANGED <<secrets, initial, up, faults, nats, claim, database, pinned>>
    BY <1>5 DEF Boot!InitVerifier, Boot!PersistCoreDatabase, Boot!MaintainBus, Boot!cluster
  <2>3. Fits(x, secrets)
    BY <1>2, <2>1 DEF Fits
  <2> QED BY <1>1, <1>2, <2>1, <2>2, <2>3, ReplicaKeeps
<1> QED BY <1>3, <1>4, <1>5

\* EnsureAdminPassword of one server.
LEMMA EnsureKeeps ==
  ASSUME Boot!StartupConstants, BootInv, NEW r \in Replicas, NEW s \in Boot!Admins,
         Boot!GetSecret(r, s) \/ Boot!CreateSecret(r, s) \/ Boot!AdoptSecret(r, s)
  PROVE  BootInv'
<1>1. Boot!TypeOK /\ core[r] \in Positions /\ faults \in 0 .. MaxFaults
  BY CoreTyped DEF BootInv
<1>2. /\ {nats, claim, database, pinned} \subseteq BOOLEAN
      /\ secrets \in [Boot!Admins -> Boot!Passwords \cup {None}]
      /\ "postgres" \in Boot!Admins
      /\ Fits(core[r], secrets)
  BY <1>1 DEF Boot!TypeOK, Boot!Admins, BootInv, Provided
<1>3. Boot!Step(r) = s /\ s # "serving"
  BY DEF Boot!GetSecret, Boot!CreateSecret, Boot!AdoptSecret, Boot!Admins
<1>4. ASSUME NEW p \in Boot!Passwords \cup {None}, p # None, Boot!Hold(r, s, p)
      PROVE  \E x \in Positions : /\ core' = [core EXCEPT ![r] = x]
                                  /\ x.password = IF s = "postgres" THEN p ELSE core[r].password
                                  /\ \A given : Fits(x, given)
  <2>1. PICK d \in Positions : /\ d = Boot!StepDone(r) /\ d.password = core[r].password
                               /\ d.step = core[r].step + 1 /\ d.at = "get"
    BY <1>1, <1>3, StepDoneTyped
  <2>2. PICK v : v = IF s = "postgres" THEN p ELSE d.password
    OBVIOUS
  <2>3. PICK x : x = [d EXCEPT !.password = v]
    OBVIOUS
  <2>4. x \in Positions /\ x.password = v /\ x.at = "get"
    BY <2>1, <2>2, <2>3 DEF Positions
  <2>5. core' = [core EXCEPT ![r] = x]
    BY <1>4, <2>1, <2>2, <2>3 DEF Boot!Hold
  <2>6. v # None
    <3>1. CASE s = "postgres"
      BY <1>4, <2>2, <3>1
    <3>2. CASE s = "keycloak"
      <4>1. core[r].step \in 1 .. 8 /\ core[r].step = 5
        BY <1>1, <1>3, <3>2, Order DEF Boot!Step, Positions
      <4> QED BY <1>2, <2>1, <2>2, <3>2, <4>1 DEF Fits
    <3> QED BY <3>1, <3>2 DEF Boot!Admins
  <2>7. \A given : Fits(x, given)
    BY <2>4, <2>6 DEF Fits
  <2> QED BY <2>1, <2>2, <2>4, <2>5, <2>7
<1>5. CASE Boot!GetSecret(r, s) \/ Boot!AdoptSecret(r, s)
  <2>1. UNCHANGED <<secrets, initial, up, faults, nats, claim, database, pinned>>
    BY <1>5 DEF Boot!GetSecret, Boot!AdoptSecret, Boot!cluster
  <2>2. CASE Boot!Hold(r, s, secrets[s]) /\ secrets[s] # None
    <3>1. PICK x \in Positions : /\ core' = [core EXCEPT ![r] = x]
                                 /\ x.password = IF s = "postgres" THEN secrets[s] ELSE core[r].password
                                 /\ \A given : Fits(x, given)
      BY <1>2, <1>4, <2>2
    <3> QED BY <1>1, <1>2, <2>1, <3>1, ReplicaKeeps
  <2>3. CASE core' = [core EXCEPT ![r].at = "create", ![r].made = [by |-> r, after |-> faults]]
    <3>1. [by |-> r, after |-> faults] \in Boot!Passwords /\ [by |-> r, after |-> faults] # None
      BY <1>1 DEF Boot!Passwords, Boot!StartupConstants
    <3>2. PICK x : x = [core[r] EXCEPT !.at = "create", !.made = [by |-> r, after |-> faults]]
      OBVIOUS
    <3>3. /\ x \in Positions /\ x.password = core[r].password
          /\ x.at = "create" /\ x.made # None /\ x.step = core[r].step
      BY <1>1, <3>1, <3>2 DEF Positions
    <3>4. core' = [core EXCEPT ![r] = x]
      BY <1>1, <2>3, <3>2, CoreTyped
    <3>5. Fits(x, secrets)
      BY <1>2, <3>3 DEF Fits
    <3> QED BY <1>1, <1>2, <2>1, <3>3, <3>4, <3>5, ReplicaKeeps
  <2>4. Boot!AdoptSecret(r, s) => secrets[s] # None
    BY <1>2 DEF Boot!AdoptSecret, Boot!Step, Fits
  <2> QED BY <1>5, <2>2, <2>3, <2>4 DEF Boot!GetSecret, Boot!AdoptSecret
<1>6. CASE Boot!CreateSecret(r, s) /\ secrets[s] # None
  <2>1. UNCHANGED <<secrets, initial, up, faults, nats, claim, database, pinned>>
        /\ core' = [core EXCEPT ![r].at = "adopt"]
    BY <1>6 DEF Boot!CreateSecret
  <2>2. PICK x : x = [core[r] EXCEPT !.at = "adopt"]
    OBVIOUS
  <2>3. x \in Positions /\ x.password = core[r].password /\ x.at = "adopt" /\ x.step = core[r].step
    BY <1>1, <2>2 DEF Positions
  <2>4. core' = [core EXCEPT ![r] = x]
    BY <2>1, <2>2
  <2>5. Fits(x, secrets)
    BY <1>2, <1>3, <1>6, <2>3 DEF Fits, Boot!Step
  <2> QED BY <1>1, <1>2, <2>1, <2>3, <2>4, <2>5, ReplicaKeeps
<1>7. CASE Boot!CreateSecret(r, s) /\ secrets[s] = None
  <2>1. /\ UNCHANGED <<initial, up, faults, nats, claim, database, pinned>>
        /\ secrets' = [secrets EXCEPT ![s] = core[r].made] /\ Boot!Hold(r, s, core[r].made)
    BY <1>7 DEF Boot!CreateSecret
  <2>2. core[r].made \in Boot!Passwords \cup {None} /\ core[r].made # None
    BY <1>1, <1>2, <1>7 DEF Positions, Fits, Boot!CreateSecret
  <2>3. PICK x \in Positions : /\ core' = [core EXCEPT ![r] = x]
                               /\ x.password = IF s = "postgres" THEN core[r].made ELSE core[r].password
                               /\ \A given : Fits(x, given)
    BY <1>4, <2>1, <2>2
  <2>4. Moves(r, x)
    BY <1>1, <2>3, Moved
  <2>5. secrets' \in [Boot!Admins -> Boot!Passwords \cup {None}] /\ secrets'[s] = core[r].made
        /\ \A t \in Boot!Admins \ {s} : secrets'[t] = secrets[t]
    BY <1>2, <2>1, <2>2
  <2>6. Boot!TypeOK'
    BY <1>1, <2>1, <2>4, <2>5, Lengths DEF Boot!TypeOK, Moves, Positions, Boot!Passwords
  <2>7. \A q \in Replicas : core'[q].password \in {core[q].password, None, secrets'["postgres"]}
    BY <2>3, <2>4, <2>5 DEF Moves
  <2>8. \A t \in Boot!Admins : secrets'[t] # secrets[t] => secrets[t] = None
    BY <1>7, <2>5
  <2>9. OneSource'
    <3>1. \A t \in Boot!Admins : initial'[t] \in {initial[t], secrets'[t]}
      BY <2>1
    <3> QED BY <2>7, <2>8, <3>1, PasswordsKept
  <2>10. \A q \in Replicas : Fits(core'[q], secrets')
    <3>1. \A q \in Replicas : Fits(core[q], secrets)
      BY DEF BootInv, Provided
    <3>2. \A q \in Replicas : Fits(core[q], secrets')
      BY <2>8, <3>1, FitsStill
    <3> QED BY <2>3, <2>4, <3>2 DEF Moves
  <2>11. Provided'
    BY <2>1, <2>10 DEF BootInv, Provided
  <2> QED BY <2>6, <2>9, <2>11 DEF BootInv
<1> QED BY <1>5, <1>6, <1>7

\* The servers start, stop and are moved to another node.
LEMMA ServersKeep ==
  ASSUME BootInv,
         \/ \E r \in Replicas : Boot!Pin(r)
         \/ \E s \in Boot!Servers : Boot!Start(s) \/ Boot!Stop(s)
  PROVE  BootInv'
<1>1. Boot!TypeOK /\ UNCHANGED <<core, nats, secrets, claim, database>>
  BY DEF BootInv, Boot!Pin, Boot!Start, Boot!Stop, Boot!cluster
<1>2. pinned' \in BOOLEAN /\ up' \subseteq Boot!Servers /\ faults' \in 0 .. MaxFaults
  <2>1. pinned' \in {pinned, TRUE}
    BY DEF Boot!Pin, Boot!Start, Boot!Stop, Boot!cluster
  <2>2. up' \subseteq Boot!Servers
    BY <1>1 DEF Boot!Pin, Boot!Start, Boot!Stop, Boot!TypeOK
  <2>3. faults' \in 0 .. MaxFaults
    BY <1>1, KeyBootstrapConstants DEF Boot!Pin, Boot!Start, Boot!Stop, Boot!TypeOK
  <2> QED BY <1>1, <2>1, <2>2, <2>3 DEF Boot!TypeOK
<1>3. /\ initial' \in [Boot!Admins -> Boot!Passwords \cup {None}]
      /\ \A s \in Boot!Admins : initial'[s] \in {initial[s], secrets[s]}
  <2>1. CASE UNCHANGED initial
    BY <1>1, <2>1 DEF Boot!TypeOK
  <2>2. CASE \E s \in Boot!Admins : initial' = [initial EXCEPT ![s] = secrets[s]]
    BY <1>1, <2>2 DEF Boot!TypeOK
  <2>3. UNCHANGED initial \/ \E s \in Boot!Admins : initial' = [initial EXCEPT ![s] = secrets[s]]
    BY DEF Boot!Pin, Boot!Start, Boot!Stop
  <2> QED BY <2>1, <2>2, <2>3
<1>4. Boot!TypeOK'
  BY <1>1, <1>2, <1>3 DEF Boot!TypeOK, Boot!Passwords
<1>5. OneSource'
  BY <1>1, <1>3, PasswordsKept
<1>6. "postgres" \in up' => initial'["postgres"] # None
  <2>1. initial \in [Boot!Admins -> Boot!Passwords \cup {None}] /\ "postgres" \in Boot!Admins
    BY <1>1 DEF Boot!TypeOK, Boot!Admins
  <2>2. "postgres" \in up => initial["postgres"] # None
    BY DEF BootInv, Provided
  <2>3. CASE \/ \E r \in Replicas : Boot!Pin(r)
             \/ \E s \in Boot!Servers : Boot!Stop(s)
    BY <2>2, <2>3 DEF Boot!Pin, Boot!Stop
  <2>4. CASE \E s \in Boot!Servers \ {"postgres"} : Boot!Start(s)
    BY <2>1, <2>2, <2>4 DEF Boot!Start
  <2>5. CASE Boot!Start("postgres")
    BY <2>1, <2>5 DEF Boot!Start, Boot!CanStart, Boot!Mountable
  <2> QED BY <2>3, <2>4, <2>5
<1>7. Provided'
  BY <1>1, <1>6 DEF BootInv, Provided
<1> QED BY <1>4, <1>5, <1>7 DEF BootInv

\* A fresh installation.
LEMMA BootInit == Boot!Init => BootInv
<1> SUFFICES ASSUME Boot!Init PROVE BootInv
  OBVIOUS
<1>1. core \in [Replicas -> Positions] /\ faults \in 0 .. MaxFaults
  BY BootingTyped, KeyBootstrapConstants DEF Boot!Init
<1>2. Boot!TypeOK
  BY <1>1, Lengths DEF Boot!Init, Boot!TypeOK, Positions
<1>3. OneSource /\ Provided
  BY BootingTyped DEF Boot!Init, OneSource, Provided
<1> QED BY <1>2, <1>3 DEF BootInv

\* Every step of a replica and of a server keeps the agreement.
LEMMA BootNext ==
  ASSUME Boot!StartupConstants
  PROVE  BootInv /\ [Boot!Next]_(Boot!vars) => BootInv'
<1> SUFFICES ASSUME BootInv, [Boot!Next]_(Boot!vars) PROVE BootInv'
  OBVIOUS
<1>1. ASSUME NEW r \in Replicas, Boot!Boot(r) PROVE BootInv'
  BY <1>1, RunKeeps, EnsureKeeps DEF Boot!Boot
<1>2. ASSUME NEW r \in Replicas,
             Boot!InitVerifier(r) \/ Boot!PersistCoreDatabase(r) \/ Boot!MaintainBus(r) \/ Boot!Die(r)
      PROVE  BootInv'
  BY <1>2, RunKeeps
<1>3. CASE UNCHANGED Boot!vars
  BY <1>3 DEF Boot!vars, Boot!cluster, BootInv, Boot!TypeOK, OneSource, Provided, Boot!Passwords
<1> QED BY <1>1, <1>2, <1>3, ServersKeep DEF Boot!Next

\* EnsureAdminPassword of any number of replicas, whichever die and however late a
\* server starts: a server was initialised with its Secret's password, a replica
\* that has one has that one, and none that needs the server is locked out of it.
THEOREM AdminPasswords ==
  ASSUME Boot!StartupConstants
  PROVE  Boot!Spec => []Boot!AdminPasswordsAgree
<1>1. BootInv => Boot!AdminPasswordsAgree
  <2> SUFFICES ASSUME BootInv PROVE Boot!AdminPasswordsAgree
    OBVIOUS
  <2>1. ASSUME NEW r \in Replicas, Boot!Step(r) \in {"ping", "database", "serving"}, "postgres" \in up
        PROVE  Boot!Reachable(r)
    <3>1. core[r] \in Positions /\ Fits(core[r], secrets)
      BY CoreTyped DEF BootInv, Provided
    <3>2. core[r].step \in 1 .. 8 /\ core[r].step # 1 /\ core[r].step # 2
      BY <2>1, <3>1, Order DEF Positions, Boot!Step
    <3>3. core[r].password = secrets["postgres"]
      BY <3>1, <3>2 DEF Fits, BootInv, OneSource
    <3>4. initial["postgres"] = secrets["postgres"]
      BY <2>1 DEF BootInv, OneSource, Provided, Boot!Admins
    <3> QED BY <2>1, <3>3, <3>4 DEF Boot!Reachable
  <2> QED BY <2>1 DEF BootInv, OneSource, Boot!AdminPasswordsAgree
<1> QED BY <1>1, BootInit, BootNext, PTL DEF Boot!Spec

\* What run has written by the time it is past the step that writes it, for
\* whichever replica wrote it.
WrittenBy(x, bus, given, stored) ==
  /\ x.step > 1 => bus = TRUE
  /\ x.step > 5 => given["keycloak"] # None
  /\ x.step > 6 => stored = TRUE

Prepared == \A r \in Replicas : WrittenBy(core[r], nats, secrets, database)

\* A replica stays where it is, starts again, or goes on by a step that leaves
\* what it is to write.
Proceeds(q) ==
  \/ core'[q].step = core[q].step
  \/ core'[q].step = 1
  \/ /\ core'[q].step = core[q].step + 1
     /\ core[q].step = 1 => nats' = TRUE
     /\ core[q].step = 5 => secrets'["keycloak"] # None
     /\ core[q].step = 6 => database' = TRUE

\* run's steps, by their number.
LEMMA Numbered ==
  \A i \in 1 .. 8 : /\ i = 1 <=> Boot!BootOrder[i] = "eventbus"
                    /\ i = 5 <=> Boot!BootOrder[i] = "keycloak"
                    /\ i = 6 <=> Boot!BootOrder[i] = "database"
                    /\ Boot!BootOrder[i] = "serving" => i = 8
                    /\ Boot!BootOrder[i] = "ping" => i = 4
BY DEF Boot!BootOrder

\* EnsureAdminPassword goes on only when the Secret is there.
LEMMA EnsureProceeds ==
  ASSUME BootInv, NEW r \in Replicas, NEW s \in Boot!Admins,
         Boot!GetSecret(r, s) \/ Boot!CreateSecret(r, s) \/ Boot!AdoptSecret(r, s)
  PROVE  Proceeds(r)
<1>1. Boot!TypeOK /\ core \in [Replicas -> Positions] /\ core[r] \in Positions /\ Fits(core[r], secrets)
      /\ secrets \in [Boot!Admins -> Boot!Passwords \cup {None}]
  BY CoreTyped DEF BootInv, Provided, Boot!TypeOK
<1>2. Boot!Step(r) = s /\ s \notin {"serving", "eventbus", "database"} /\ core[r].step \in 1 .. 8
  BY <1>1 DEF Boot!GetSecret, Boot!CreateSecret, Boot!AdoptSecret, Boot!Admins, Positions
<1>3. core[r].step # 1 /\ core[r].step # 6 /\ (core[r].step = 5 => s = "keycloak")
  BY <1>2, Numbered DEF Boot!Step
<1>4. ASSUME NEW p, Boot!Hold(r, s, p), secrets'[s] # None PROVE Proceeds(r)
  <2>1. PICK d \in Positions : d = Boot!StepDone(r) /\ d.step = core[r].step + 1
    BY <1>1, <1>2, StepDoneTyped
  <2>2. PICK x : x = [d EXCEPT !.password = IF s = "postgres" THEN p ELSE d.password]
    OBVIOUS
  <2>3. core' = [core EXCEPT ![r] = x]
    BY <1>4, <2>1, <2>2 DEF Boot!Hold
  <2>4. core'[r].step = core[r].step + 1
    BY <1>1, <2>1, <2>2, <2>3 DEF Positions
  <2> QED BY <1>3, <1>4, <2>4 DEF Proceeds
<1>5. ASSUME NEW x, core' = [core EXCEPT ![r] = x], x.step = core[r].step PROVE Proceeds(r)
  BY <1>1, <1>5 DEF Proceeds
<1>6. CASE Boot!GetSecret(r, s)
  <2>1. CASE secrets[s] # None
    BY <1>4, <1>6, <2>1 DEF Boot!GetSecret, Boot!cluster
  <2>2. CASE secrets[s] = None
    <3>1. PICK x : x = [core[r] EXCEPT !.at = "create", !.made = [by |-> r, after |-> faults]]
      OBVIOUS
    <3>2. core' = [core EXCEPT ![r] = x] /\ x.step = core[r].step
      BY <1>1, <1>6, <2>2, <3>1 DEF Boot!GetSecret, Positions
    <3> QED BY <1>5, <3>2
  <2> QED BY <2>1, <2>2
<1>7. CASE Boot!CreateSecret(r, s)
  <2>1. CASE secrets[s] = None
    <3>1. core[r].made # None /\ secrets' = [secrets EXCEPT ![s] = core[r].made]
          /\ Boot!Hold(r, s, core[r].made)
      BY <1>1, <1>7, <2>1 DEF Boot!CreateSecret, Fits
    <3> QED BY <1>1, <1>4, <3>1
  <2>2. CASE secrets[s] # None
    <3>1. PICK x : x = [core[r] EXCEPT !.at = "adopt"]
      OBVIOUS
    <3>2. core' = [core EXCEPT ![r] = x] /\ x.step = core[r].step
      BY <1>1, <1>7, <2>2, <3>1 DEF Boot!CreateSecret, Positions
    <3> QED BY <1>5, <3>2
  <2> QED BY <2>1, <2>2
<1>8. CASE Boot!AdoptSecret(r, s)
  <2>1. secrets[s] # None
    BY <1>1, <1>2, <1>8 DEF Boot!AdoptSecret, Fits, Boot!Step
  <2> QED BY <1>4, <1>8, <2>1 DEF Boot!AdoptSecret, Boot!cluster
<1> QED BY <1>6, <1>7, <1>8

\* The other steps of a replica.
LEMMA RunProceeds ==
  ASSUME BootInv, NEW r \in Replicas,
         \/ Boot!EventBus(r) \/ Boot!EnsureBackupClaim(r) \/ Boot!Ping(r) \/ Boot!EnsureKeycloak(r)
         \/ Boot!Keys(r) \/ Boot!GiveUp(r) \/ Boot!Die(r)
         \/ Boot!InitVerifier(r) \/ Boot!PersistCoreDatabase(r) \/ Boot!MaintainBus(r)
  PROVE  Proceeds(r)
<1>1. Boot!TypeOK /\ core \in [Replicas -> Positions] /\ core[r] \in Positions /\ core[r].step \in 1 .. 8
  BY CoreTyped DEF BootInv, Positions
<1>2. CASE Boot!EventBus(r) \/ Boot!EnsureBackupClaim(r) \/ Boot!Ping(r) \/ Boot!EnsureKeycloak(r) \/ Boot!Keys(r)
  <2>1. Boot!Step(r) \notin {"serving", "keycloak"} /\ core' = [core EXCEPT ![r] = Boot!StepDone(r)]
    BY <1>2 DEF Boot!EventBus, Boot!EnsureBackupClaim, Boot!Ping, Boot!EnsureKeycloak, Boot!Keys
  <2>2. core'[r].step = core[r].step + 1
    BY <1>1, <2>1, StepDoneTyped
  <2>3. core[r].step # 5
    BY <1>1, <2>1, Numbered DEF Boot!Step
  <2>4. (core[r].step = 1 => nats' = TRUE) /\ (core[r].step = 6 => database' = TRUE)
    BY <1>1, <1>2, Numbered DEF Boot!Step, Boot!EventBus, Boot!EnsureBackupClaim, Boot!Ping, Boot!EnsureKeycloak, Boot!Keys
  <2> QED BY <2>2, <2>3, <2>4 DEF Proceeds
<1>3. CASE Boot!GiveUp(r) \/ Boot!Die(r)
  <2>1. core' = [core EXCEPT ![r] = Boot!Booting] /\ Boot!Booting.step = 1
    BY <1>3 DEF Boot!GiveUp, Boot!Die, Boot!Booting
  <2> QED BY <1>1, <2>1 DEF Proceeds
<1>4. CASE Boot!InitVerifier(r) \/ Boot!PersistCoreDatabase(r) \/ Boot!MaintainBus(r)
  <2>1. core'[r].step = core[r].step
    BY <1>1, <1>4 DEF Boot!InitVerifier, Boot!PersistCoreDatabase, Boot!MaintainBus, Positions
  <2> QED BY <2>1 DEF Proceeds
<1> QED BY <1>2, <1>3, <1>4

\* Nothing that was written is taken away, and no replica skips its part.
LEMMA NextProceeds ==
  ASSUME BootInv, Boot!Next
  PROVE  /\ nats = TRUE => nats' = TRUE
         /\ database = TRUE => database' = TRUE
         /\ secrets["keycloak"] # None => secrets'["keycloak"] # None
         /\ \A q \in Replicas : Proceeds(q)
<1>1. core \in [Replicas -> Positions] /\ secrets \in [Boot!Admins -> Boot!Passwords \cup {None}]
  BY CoreTyped DEF BootInv, Boot!TypeOK
<1>2. nats' \in {nats, TRUE} /\ database' \in {database, TRUE}
  BY DEF Boot!Next, Boot!Boot, Boot!EventBus, Boot!GetSecret, Boot!CreateSecret, Boot!AdoptSecret,
      Boot!EnsureBackupClaim, Boot!Ping, Boot!EnsureKeycloak, Boot!GiveUp, Boot!Keys, Boot!cluster,
      Boot!InitVerifier, Boot!PersistCoreDatabase, Boot!MaintainBus, Boot!Die, Boot!Pin, Boot!Start, Boot!Stop
<1>3. secrets' = secrets \/ \E r \in Replicas : \E s \in Boot!Admins : Boot!CreateSecret(r, s)
  BY DEF Boot!Next, Boot!Boot, Boot!EventBus, Boot!GetSecret, Boot!AdoptSecret,
      Boot!EnsureBackupClaim, Boot!Ping, Boot!EnsureKeycloak, Boot!GiveUp, Boot!Keys, Boot!cluster,
      Boot!InitVerifier, Boot!PersistCoreDatabase, Boot!MaintainBus, Boot!Die, Boot!Pin, Boot!Start, Boot!Stop
<1>4. secrets["keycloak"] # None => secrets'["keycloak"] # None
  <2>1. CASE secrets' = secrets
    BY <2>1
  <2>2. ASSUME NEW r \in Replicas, NEW s \in Boot!Admins, Boot!CreateSecret(r, s)
        PROVE  secrets["keycloak"] # None => secrets'["keycloak"] # None
    <3>1. secrets' = secrets \/ (secrets[s] = None /\ secrets' = [secrets EXCEPT ![s] = core[r].made])
      BY <2>2 DEF Boot!CreateSecret
    <3> QED BY <1>1, <3>1 DEF Boot!Admins
  <2> QED BY <1>3, <2>1, <2>2
<1>5. ASSUME NEW q \in Replicas PROVE Proceeds(q)
  <2>1. CASE core' = core
    BY <2>1 DEF Proceeds
  <2>2. ASSUME NEW r \in Replicas,
               \/ Boot!Boot(r) \/ Boot!InitVerifier(r) \/ Boot!PersistCoreDatabase(r)
               \/ Boot!MaintainBus(r) \/ Boot!Die(r)
        PROVE  Proceeds(q)
    <3>1. Proceeds(r)
      BY <2>2, EnsureProceeds, RunProceeds DEF Boot!Boot
    <3>2. q # r => core'[q] = core[q]
      BY <1>1, <2>2
      DEF Boot!Boot, Boot!EventBus, Boot!GetSecret, Boot!CreateSecret, Boot!AdoptSecret, Boot!Hold,
          Boot!EnsureBackupClaim, Boot!Ping, Boot!EnsureKeycloak, Boot!GiveUp, Boot!Keys,
          Boot!InitVerifier, Boot!PersistCoreDatabase, Boot!MaintainBus, Boot!Die
    <3> QED BY <3>1, <3>2 DEF Proceeds
  <2>3. ASSUME \/ \E r \in Replicas : Boot!Pin(r)
               \/ \E s \in Boot!Servers : Boot!Start(s) \/ Boot!Stop(s)
        PROVE  core' = core
    BY <2>3 DEF Boot!Pin, Boot!Start, Boot!Stop
  <2> QED BY <2>1, <2>2, <2>3 DEF Boot!Next
<1> QED BY <1>2, <1>4, <1>5

\* main's "ordering rule", for any number of replicas that race, die and start again:
\* whoever waits for a server finds written what that server's pod waits for.
THEOREM NobodyWaitsInVain ==
  ASSUME Boot!StartupConstants
  PROVE  Boot!Spec => []Boot!WaitsCanEnd
<1>1. Boot!Init => Prepared
  <2> SUFFICES ASSUME Boot!Init PROVE Prepared
    OBVIOUS
  <2>1. \A r \in Replicas : core[r].step = 1
    BY DEF Boot!Init, Boot!Booting
  <2> SUFFICES ASSUME NEW r \in Replicas PROVE WrittenBy(core[r], nats, secrets, database)
    BY DEF Prepared
  <2>2. ~(core[r].step > 1) /\ ~(core[r].step > 5) /\ ~(core[r].step > 6)
    BY <2>1
  <2> QED BY <2>2 DEF WrittenBy
<1>2. ASSUME BootInv, Prepared, [Boot!Next]_(Boot!vars) PROVE Prepared'
  <2>1. CASE UNCHANGED Boot!vars
    BY <1>2, <2>1 DEF Boot!vars, Boot!cluster, Prepared, WrittenBy
  <2>2. CASE Boot!Next
    <3> SUFFICES ASSUME NEW q \in Replicas PROVE WrittenBy(core'[q], nats', secrets', database')
      BY DEF Prepared
    <3>1. /\ nats = TRUE => nats' = TRUE
          /\ database = TRUE => database' = TRUE
          /\ secrets["keycloak"] # None => secrets'["keycloak"] # None
          /\ Proceeds(q)
      BY <1>2, <2>2, NextProceeds
    <3>2. core[q].step \in 1 .. 8 /\ WrittenBy(core[q], nats, secrets, database)
      BY <1>2, CoreTyped DEF BootInv, Prepared, Positions
    <3>3. CASE core'[q].step = core[q].step
      BY <3>1, <3>2, <3>3 DEF WrittenBy
    <3>4. CASE core'[q].step = 1
      BY <3>4 DEF WrittenBy
    <3>5. CASE /\ core'[q].step = core[q].step + 1
               /\ core[q].step = 1 => nats' = TRUE
               /\ core[q].step = 5 => secrets'["keycloak"] # None
               /\ core[q].step = 6 => database' = TRUE
      <4>1. core'[q].step > 1 => nats' = TRUE
        <5>1. core[q].step = 1 \/ core[q].step > 1
          BY <3>2
        <5> QED BY <3>1, <3>2, <3>5, <5>1 DEF WrittenBy
      <4>2. core'[q].step > 5 => secrets'["keycloak"] # None
        BY <3>1, <3>2, <3>5 DEF WrittenBy
      <4>3. core'[q].step > 6 => database' = TRUE
        <5>1. core'[q].step > 6 => core[q].step = 6 \/ core[q].step > 6
          BY <3>2, <3>5
        <5> QED BY <3>1, <3>2, <3>5, <5>1 DEF WrittenBy
      <4> QED BY <4>1, <4>2, <4>3 DEF WrittenBy
    <3> QED BY <3>1, <3>3, <3>4, <3>5 DEF Proceeds
  <2> QED BY <1>2, <2>1, <2>2
<1>3. ASSUME BootInv, Prepared PROVE Boot!WaitsCanEnd
  <2> SUFFICES ASSUME NEW r \in Replicas, NEW s \in Boot!Awaits(r) PROVE Boot!Mountable(s)
    BY DEF Boot!WaitsCanEnd
  <2>1. core[r].step \in 1 .. 8 /\ Fits(core[r], secrets) /\ WrittenBy(core[r], nats, secrets, database)
    BY <1>3, CoreTyped DEF BootInv, Prepared, Provided, Positions
  <2>2. core[r].step > 2 /\ (s # "postgres" => core[r].step = 8) /\ s \in Boot!Servers
    BY <2>1, Numbered DEF Boot!Awaits, Boot!Step, Boot!Servers
  <2>3. secrets["postgres"] # None
    BY <1>3, <2>1, <2>2 DEF Fits, BootInv, OneSource
  <2>4. core[r].step = 8 => nats = TRUE /\ secrets["keycloak"] # None /\ database = TRUE
    BY <2>1 DEF WrittenBy
  <2> QED BY <2>2, <2>3, <2>4 DEF Boot!Mountable, Boot!Servers
<1> QED BY <1>1, <1>2, <1>3, BootInit, BootNext, PTL DEF Boot!Spec

----------------------------------------------------------------------------
(* The same promise, kept by another protocol: start-up chooses PostgreSQL's *)
(* admin password the way KeyChoice says keys are chosen.                  *)

\* A replica uses the password from the step behind the backup claim on.
Using == [r \in Replicas |-> IF core[r].step > 3 THEN core[r].password ELSE None]

Password == INSTANCE KeyChoice WITH
  Keys <- Boot!Passwords, Bad <- None, chosen <- secrets["postgres"], adopted <- Using

\* A step that moves one replica at most, and leaves the Secret alone, has that
\* replica adopt what the Secret has, drop it, or go on as it was.
LEMMA MovesChoose ==
  ASSUME BootInv, BootInv', NEW r \in Replicas, \A q \in Replicas \ {r} : core'[q] = core[q],
         secrets'["postgres"] = secrets["postgres"]
  PROVE  [Password!Next]_(Password!vars)
<1>1. PICK A : A = Using
  OBVIOUS
<1>2. PICK B : B = Using'
  OBVIOUS
<1>3. PICK b : b = B[r]
  OBVIOUS
<1>4. B = [A EXCEPT ![r] = b] /\ A \in [Replicas -> {A[q] : q \in Replicas}]
  BY <1>1, <1>2, <1>3 DEF Using
<1>5. b \in {None, secrets["postgres"]}
  BY <1>2, <1>3 DEF Using, BootInv, OneSource
<1>6. secrets["postgres"] \in Boot!Passwords \cup {None}
  BY DEF BootInv, Boot!TypeOK, Boot!Admins
<1>7. CASE b = None
  <2>1. Using' = [Using EXCEPT ![r] = None] /\ UNCHANGED secrets["postgres"]
    BY <1>1, <1>2, <1>4, <1>7
  <2>2. Password!Drop(r)
    BY <2>1 DEF Password!Drop
  <2> QED BY <2>2 DEF Password!Next
<1>8. CASE b # None
  <2>1. Using' = [Using EXCEPT ![r] = secrets["postgres"]] /\ UNCHANGED secrets["postgres"]
    BY <1>1, <1>2, <1>4, <1>5, <1>8
  <2>2. secrets["postgres"] \in Boot!Passwords
    BY <1>5, <1>6, <1>8
  <2>3. Password!Adopt(r)
    BY <2>1, <2>2 DEF Password!Adopt
  <2> QED BY <2>3 DEF Password!Next
<1> QED BY <1>7, <1>8

\* The Secret of PostgreSQL comes into being: that is the choice.
LEMMA CreateChooses ==
  ASSUME BootInv, NEW r \in Replicas, Boot!CreateSecret(r, "postgres"), secrets["postgres"] = None
  PROVE  Password!Choose
<1>1. core \in [Replicas -> Positions] /\ core[r] \in Positions /\ Fits(core[r], secrets)
      /\ secrets \in [Boot!Admins -> Boot!Passwords \cup {None}]
  BY CoreTyped DEF BootInv, Provided, Boot!TypeOK
<1>2. /\ Boot!Step(r) = "postgres" /\ core[r].at = "create"
      /\ secrets' = [secrets EXCEPT !["postgres"] = core[r].made]
      /\ Boot!Hold(r, "postgres", core[r].made)
  BY DEF Boot!CreateSecret
<1>3. secrets'["postgres"] \in Boot!Passwords
  BY <1>1, <1>2 DEF Positions, Fits, Boot!Admins
<1>4. core[r].step = 2
  BY <1>1, <1>2, Order DEF Positions, Boot!Step
<1>5. PICK d \in Positions : d = Boot!StepDone(r) /\ d.step = 3
  BY <1>2, <1>4, StepDoneTyped DEF BootInv
<1>6. PICK x : x = [d EXCEPT !.password = core[r].made]
  OBVIOUS
<1>7. x.step = 3
  BY <1>5, <1>6 DEF Positions
<1>8. core' = [core EXCEPT ![r] = x]
  BY <1>2, <1>5, <1>6 DEF Boot!Hold
<1>9. \A q \in Replicas : core'[q].step > 3 <=> core[q].step > 3
  BY <1>1, <1>4, <1>7, <1>8
<1>10. \A q \in Replicas : core[q].step > 3 => core'[q] = core[q]
  BY <1>1, <1>4, <1>8
<1>11. Using' = Using
  BY <1>9, <1>10 DEF Using
<1> QED BY <1>3, <1>11 DEF Password!Choose

\* Every step of start-up is a step of KeyChoice or leaves it alone.
LEMMA NextChooses ==
  ASSUME Boot!StartupConstants
  PROVE  BootInv /\ BootInv' /\ [Boot!Next]_(Boot!vars) => [Password!Next]_(Password!vars)
<1> SUFFICES ASSUME BootInv, BootInv', [Boot!Next]_(Boot!vars)
             PROVE  [Password!Next]_(Password!vars)
  OBVIOUS
<1>1. core \in [Replicas -> Positions] /\ secrets \in [Boot!Admins -> Boot!Passwords \cup {None}]
  BY CoreTyped DEF BootInv, Boot!TypeOK
<1>2. ASSUME NEW r \in Replicas,
             \/ Boot!Boot(r) \/ Boot!InitVerifier(r) \/ Boot!PersistCoreDatabase(r) \/ Boot!MaintainBus(r)
             \/ Boot!Die(r)
      PROVE  [Password!Next]_(Password!vars)
  <2>1. \A q \in Replicas \ {r} : core'[q] = core[q]
    BY <1>1, <1>2
    DEF Boot!Boot, Boot!EventBus, Boot!GetSecret, Boot!CreateSecret, Boot!AdoptSecret, Boot!Hold,
        Boot!EnsureBackupClaim, Boot!Ping, Boot!EnsureKeycloak, Boot!GiveUp, Boot!Keys,
        Boot!InitVerifier, Boot!PersistCoreDatabase, Boot!MaintainBus, Boot!Die
  <2>2. CASE Boot!CreateSecret(r, "postgres") /\ secrets["postgres"] = None
    BY <2>2, CreateChooses DEF Password!Next
  <2>3. CASE ~(Boot!CreateSecret(r, "postgres") /\ secrets["postgres"] = None)
    <3>1. ASSUME \E s \in Boot!Admins : Boot!CreateSecret(r, s)
          PROVE  secrets'["postgres"] = secrets["postgres"]
      BY <1>1, <2>3, <3>1 DEF Boot!CreateSecret, Boot!Admins
    <3>2. ASSUME ~\E s \in Boot!Admins : Boot!CreateSecret(r, s)
          PROVE  secrets'["postgres"] = secrets["postgres"]
      BY <1>2, <3>2
      DEF Boot!Boot, Boot!EventBus, Boot!GetSecret, Boot!AdoptSecret, Boot!cluster,
          Boot!EnsureBackupClaim, Boot!Ping, Boot!EnsureKeycloak, Boot!GiveUp, Boot!Keys,
          Boot!InitVerifier, Boot!PersistCoreDatabase, Boot!MaintainBus, Boot!Die
    <3>3. secrets'["postgres"] = secrets["postgres"]
      BY <3>1, <3>2
    <3> QED BY <2>1, <3>3, MovesChoose
  <2> QED BY <2>2, <2>3
<1>3. CASE UNCHANGED <<core, secrets>>
  <2>1. Using' = Using
    BY <1>3 DEF Using
  <2> QED BY <1>3, <2>1 DEF Password!vars
<1>4. ASSUME \/ \E r \in Replicas : Boot!Pin(r)
             \/ \E s \in Boot!Servers : Boot!Start(s) \/ Boot!Stop(s)
             \/ UNCHANGED Boot!vars
      PROVE  UNCHANGED <<core, secrets>>
  BY <1>4 DEF Boot!Pin, Boot!Start, Boot!Stop, Boot!vars, Boot!cluster
<1> QED BY <1>2, <1>3, <1>4 DEF Boot!Next

\* EnsureAdminPassword keeps KeyChoice's promise for PostgreSQL: the password is
\* chosen at most once, never replaced, and every replica that uses one uses that.
THEOREM PasswordIsChosenOnce ==
  ASSUME Boot!StartupConstants
  PROVE  Boot!Spec => Password!Spec
<1>1. Boot!Init => Password!Init
  <2> SUFFICES ASSUME Boot!Init PROVE Password!Init
    OBVIOUS
  <2>1. secrets["postgres"] = None
    BY DEF Boot!Init, Boot!Admins
  <2>2. \A r \in Replicas : core[r].step = 1
    BY DEF Boot!Init, Boot!Booting
  <2>3. Using = [r \in Replicas |-> None]
    BY <2>2 DEF Using
  <2> QED BY <2>1, <2>3 DEF Password!Init
<1> QED BY <1>1, BootInit, BootNext, NextChooses, PTL DEF Boot!Spec, Password!Spec
=============================================================================
