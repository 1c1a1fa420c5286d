----------------------------- MODULE SidecarProofs ----------------------------
(***************************************************************************)
(* For any poll interval, call timeout and lifetimes and any number of     *)
(* connections and deaths: half-lifetime renewal leaves the stated         *)
(* headroom, only a revocation clears a credential, and the two files of   *)
(* s3 mode belong together.                                                *)
(***************************************************************************)
EXTENDS Sidecar, TLAPS

----------------------------------------------------------------------------
(* The inductive invariant.                                                *)

\* What the timers and leases are; lifetimes need no greatest one here.
Typed ==
  /\ mode \in {"postgres", "s3"}
  /\ phase \in Phases
  /\ callLeft \in 0 .. CallTimeout
  /\ tickIn \in 0 .. Interval
  /\ {pending, healthy, torn} \subseteq BOOLEAN
  /\ lease \in [left : Nat, margin : Nat, form : {"none", "grant", "null", "garbage"}, for : Backends]
  /\ cred \in Nat \cup {Nil}
  /\ files \in [keys : Backends, config : Backends]

\* Run has no ticker before the first lease, and never stops it afterwards.
Ticking == phase \in {"idle", "call"} => tickIn >= 1

\* A proxy that has not obtained its first lease has no credential.
FirstHasNone == mode = "postgres" /\ phase \in {"firstCall", "backoff"} => cred = Nil

\* Under half-lifetime renewal a lease arrives with more than its margin to live.
Arrived ==
  HalfLifetime /\ mode = "postgres" /\ phase \in {"setCurrent", "setRevoked"} => lease.left > lease.margin

\* What the proxy holds is the current lease, as long as nothing went wrong.
Serving == mode = "postgres" /\ healthy /\ cred # Nil

HoldsLease == Serving /\ phase \in {"idle", "call", "setRevoked"} => cred = lease.left

\* How much is left of a lease, by what is left until the next poll and of the call.
LeaseLeft ==
  HalfLifetime /\ Serving =>
    /\ phase = "idle" /\ ~pending => lease.left > lease.margin - (Interval - tickIn)
    /\ phase = "idle" => lease.left > lease.margin - Interval
    /\ phase = "call" => lease.left > lease.margin - Interval - (CallTimeout - callLeft)

\* Each mode has its own way to store a lease.
OwnStores == phase \in {"writeKeys", "writeConfig"} => mode = "s3"

\* Between the two renames the credentials file is the lease's.
KeysWritten == phase = "writeConfig" => files.keys = lease.for

IInv ==
  /\ Typed
  /\ Ticking
  /\ FirstHasNone
  /\ Arrived
  /\ HoldsLease
  /\ LeaseLeft
  /\ OwnStores
  /\ KeysWritten
  /\ FilesAgree

----------------------------------------------------------------------------
(* Operators.                                                              *)

Leases == [left : Nat, margin : Nat, form : {"none", "grant", "null", "garbage"}, for : Backends]

\* The constants, without their sets.
LEMMA Timers ==
  /\ Interval \in Nat \ {0} /\ CallTimeout \in Nat
  /\ \A ttl \in TTLs : ttl \in Nat /\ ttl > CallTimeout
BY SidecarConstants

\* Down stops at 0 and leaves Nil alone.
LEMMA DownTyped ==
  /\ \A n \in Nat : Down(n) \in Nat /\ Down(n) >= n - 1 /\ Down(n) <= n
  /\ \A n \in Nat \ {0} : Down(n) = n - 1
  /\ Down(Nil) = Nil
  /\ Nil \notin Nat
BY DEF Down, Nil

\* The lease an answer of the broker brings.
LEMMA AppliedLease ==
  ASSUME Typed, Apply
  PROVE  /\ lease' \in Leases
         /\ mode = "postgres" /\ HalfLifetime => lease'.left > lease'.margin
<1>1. PICK ttl \in TTLs, spent \in 0 .. CallTimeout - callLeft,
           for \in IF mode = "s3" THEN Backends ELSE {"aws"} :
        lease' = [left |-> ttl - spent, margin |-> MarginFor(ttl - spent), form |-> broker, for |-> for]
  BY DEF Apply
<1>2. ttl - spent \in Nat \ {0}
  BY Timers DEF Typed
<1>3. MarginFor(ttl - spent) \in Nat
      /\ (mode = "postgres" /\ HalfLifetime => MarginFor(ttl - spent) < ttl - spent)
  <2>1. \A n \in Nat \ {0} : n \div 2 \in Nat /\ n \div 2 < n
    OBVIOUS
  <2>2. Margin \in Nat
    BY SidecarConstants
  <2> QED BY <1>2, <2>1, <2>2 DEF MarginFor
<1>4. for \in Backends /\ broker \in {"grant", "null", "garbage"}
  BY DEF Apply, Succeeds, Backends
<1> QED BY <1>1, <1>2, <1>3, <1>4 DEF Leases

----------------------------------------------------------------------------
(* Steps.                                                                  *)

\* Time passes, never while a poll is due or a call has timed out.
LEMMA TickKeeps ==
  ASSUME IInv, Tick
  PROVE  IInv'
<1> USE DEF IInv
<1>1. /\ lease' \in Leases /\ lease'.left = Down(lease.left) /\ lease'.margin = lease.margin
      /\ lease'.for = lease.for
  BY DownTyped DEF Tick, Typed, Leases
<1>2. cred' \in Nat \cup {Nil} /\ (cred' # Nil => cred # Nil) /\ cred' = Down(cred)
  BY DownTyped DEF Tick, Typed
<1>3. callLeft' \in 0 .. CallTimeout /\ tickIn' \in 0 .. Interval
  BY Timers, DownTyped DEF Tick, Typed, Down
<1>4. UNCHANGED <<mode, phase, healthy, files, torn>> /\ pending' \in BOOLEAN
  BY DEF Tick, Typed, fileVars
<1>5. Typed'
  BY <1>1, <1>2, <1>3, <1>4 DEF Typed, Leases
<1>6. Ticking'
  BY Timers DEF Tick, Ticking, Typed, Down
<1>7. FirstHasNone'
  BY <1>2, <1>4, DownTyped DEF FirstHasNone
<1>8. Arrived'
  BY <1>4 DEF Tick, Urgent, Arrived
<1>9. HoldsLease'
  BY <1>1, <1>2, <1>4 DEF HoldsLease, Serving
<1>10. LeaseLeft'
  <2> SUFFICES ASSUME HalfLifetime, Serving'
               PROVE  /\ phase = "idle" /\ ~pending' => lease'.left > lease'.margin - (Interval - tickIn')
                      /\ phase = "idle" => lease'.left > lease'.margin - Interval
                      /\ phase = "call" => lease'.left > lease'.margin - Interval - (CallTimeout - callLeft')
    BY <1>4 DEF LeaseLeft
  <2>1. Serving
    BY <1>2, <1>4 DEF Serving
  <2>2. /\ lease.left \in Nat /\ lease.margin \in Nat /\ callLeft \in Nat /\ tickIn \in Nat
        /\ lease'.left \in Nat /\ lease'.left >= lease.left - 1
    BY <1>1, DownTyped DEF Typed
  <2>3. CASE phase = "idle"
    <3>1. ~pending /\ tickIn >= 1
      BY <2>3 DEF Tick, Urgent, Ticking
    <3>2. lease.left > lease.margin - (Interval - tickIn)
      BY <2>1, <2>3, <3>1 DEF LeaseLeft
    <3>3. tickIn = 1 => pending'
      BY DEF Tick
    <3>4. tickIn # 1 => tickIn' = tickIn - 1
      BY <3>1, <2>2 DEF Tick, Down
    <3> QED BY <2>2, <2>3, <3>1, <3>2, <3>3, <3>4, <1>1, Timers
  <2>4. CASE phase = "call"
    <3>1. callLeft # 0
      BY <2>4 DEF Tick, Urgent
    <3>2. callLeft' = callLeft - 1
      BY <3>1, <2>2 DEF Tick, Down
    <3>3. lease.left > lease.margin - Interval - (CallTimeout - callLeft)
      BY <2>1, <2>4 DEF LeaseLeft
    <3> QED BY <2>2, <2>4, <3>2, <3>3, <1>1, Timers
  <2> QED BY <2>3, <2>4
<1>11. OwnStores' /\ KeysWritten' /\ FilesAgree'
  BY <1>1, <1>4 DEF OwnStores, KeysWritten, FilesAgree
<1> QED BY <1>5, <1>6, <1>7, <1>8, <1>9, <1>10, <1>11

\* An answer that is taken, first or later.
LEMMA ApplyKeeps ==
  ASSUME IInv, Apply, phase \in {"firstCall", "call"}
  PROVE  IInv'
<1> USE DEF IInv
<1>1. /\ lease' \in Leases
      /\ mode = "postgres" /\ HalfLifetime => lease'.left > lease'.margin
  BY AppliedLease
<1>2. /\ UNCHANGED <<mode, cred, files, torn, pending>> /\ callLeft' = 0
      /\ phase' = IF broker = "garbage" THEN "idle" ELSE IF mode = "s3" THEN "writeKeys" ELSE "setCurrent"
      /\ tickIn' = (IF broker = "garbage" /\ tickIn = 0 THEN Interval ELSE tickIn)
      /\ healthy' = (broker # "garbage")
  BY DEF Apply, proxyVars, fileVars
<1>3. Typed'
  <2>1. callLeft' \in 0 .. CallTimeout /\ tickIn' \in 0 .. Interval
    BY <1>2, Timers DEF Typed
  <2> QED BY <1>1, <1>2, <2>1 DEF Typed, Leases, Phases
<1>4. Ticking'
  BY <1>2, Timers DEF Ticking, Typed
<1>5. FirstHasNone' /\ Arrived' /\ HoldsLease' /\ LeaseLeft'
  BY <1>1, <1>2 DEF FirstHasNone, Arrived, HoldsLease, LeaseLeft, Serving
<1>6. OwnStores' /\ KeysWritten' /\ FilesAgree'
  BY <1>2 DEF OwnStores, KeysWritten, FilesAgree
<1> QED BY <1>3, <1>4, <1>5, <1>6

\* Answers that are not taken, and the wait for the next attempt.
LEMMA FailureKeeps ==
  ASSUME IInv, FirstFails \/ RetryFirst \/ RenewalFails
  PROVE  IInv'
<1> USE DEF IInv
<1>1. /\ UNCHANGED <<mode, cred, files, torn, pending, lease, tickIn>>
      /\ callLeft' \in {0, CallTimeout} /\ healthy' \in BOOLEAN
      /\ phase' \in Phases
  BY DEF FirstFails, RetryFirst, RenewalFails, proxyVars, fileVars, Typed, Phases
<1>2. callLeft' \in 0 .. CallTimeout
  BY <1>1, Timers
<1>3. Typed'
  BY <1>1, <1>2 DEF Typed
<1>4. Ticking' /\ FirstHasNone' /\ Arrived'
  BY <1>1 DEF FirstFails, RetryFirst, RenewalFails, Ticking, FirstHasNone, Arrived
<1>5. HoldsLease' /\ LeaseLeft'
  BY <1>1 DEF FirstFails, RetryFirst, RenewalFails, HoldsLease, LeaseLeft, Serving
<1>6. OwnStores' /\ KeysWritten' /\ FilesAgree'
  BY <1>1 DEF FirstFails, RetryFirst, RenewalFails, OwnStores, KeysWritten, FilesAgree
<1> QED BY <1>3, <1>4, <1>5, <1>6

\* A poll: a lease that is not due has more than its margin left.
LEMMA PollKeeps ==
  ASSUME IInv, MaybeRenew
  PROVE  IInv'
<1> USE DEF IInv
<1>1. /\ UNCHANGED <<mode, cred, files, torn, lease, tickIn, healthy>>
      /\ phase = "idle" /\ pending' = FALSE
      /\ phase' = (IF Due THEN "call" ELSE "idle") /\ callLeft' = IF Due THEN CallTimeout ELSE 0
  BY DEF MaybeRenew, proxyVars, fileVars
<1>2. callLeft' \in 0 .. CallTimeout /\ phase' \in Phases
  BY <1>1, Timers DEF Phases
<1>3. Typed'
  BY <1>1, <1>2 DEF Typed
<1>4. Ticking' /\ FirstHasNone' /\ Arrived' /\ HoldsLease'
  BY <1>1 DEF Ticking, FirstHasNone, Arrived, HoldsLease, Serving
<1>5. LeaseLeft'
  <2>1. lease.left \in Nat /\ lease.margin \in Nat /\ tickIn \in 0 .. Interval
    BY DEF Typed
  <2>2. Serving' = Serving
    BY <1>1 DEF Serving
  <2>3. CASE Due
    BY <1>1, <2>1, <2>2, <2>3, Timers DEF LeaseLeft
  <2>4. CASE ~Due
    BY <1>1, <2>1, <2>2, <2>4, Timers DEF LeaseLeft, Due
  <2> QED BY <2>3, <2>4
<1>6. OwnStores' /\ KeysWritten' /\ FilesAgree'
  BY <1>1 DEF OwnStores, KeysWritten, FilesAgree
<1> QED BY <1>3, <1>4, <1>5, <1>6

\* setCredential's two stores.
LEMMA StoreKeeps ==
  ASSUME IInv, SetCurrent \/ SetRevoked
  PROVE  IInv'
<1> USE DEF IInv
<1>1. /\ UNCHANGED <<mode, files, torn, lease, pending, healthy, callLeft>>
      /\ phase \in {"setCurrent", "setRevoked"}
  BY DEF SetCurrent, SetRevoked, fileVars
<1>2. cred' \in Nat \cup {Nil} /\ phase' \in Phases /\ tickIn' \in 0 .. Interval
  BY Timers DEF SetCurrent, SetRevoked, BackToLoop, Typed, Phases
<1>3. Typed'
  BY <1>1, <1>2 DEF Typed
<1>4. Ticking' /\ FirstHasNone' /\ OwnStores' /\ KeysWritten' /\ FilesAgree'
  BY <1>1, Timers
  DEF SetCurrent, SetRevoked, BackToLoop, Typed, Ticking, FirstHasNone, OwnStores, KeysWritten, FilesAgree
<1>5. CASE SetCurrent
  <2>1. phase = "setCurrent" /\ phase' = "setRevoked" /\ cred' = IF lease.form = "null" THEN Nil ELSE lease.left
    BY <1>5 DEF SetCurrent
  <2>2. Arrived' /\ HoldsLease' /\ LeaseLeft'
    BY <1>1, <2>1 DEF Arrived, HoldsLease, LeaseLeft, Serving
  <2> QED BY <1>3, <1>4, <2>2
<1>6. CASE SetRevoked
  <2>1. phase = "setRevoked" /\ phase' = "idle" /\ cred' = cred
    BY <1>6 DEF SetRevoked, BackToLoop
  <2>2. Arrived' /\ HoldsLease'
    BY <1>1, <2>1 DEF Arrived, HoldsLease, Serving
  <2>3. HalfLifetime /\ Serving => lease.left > lease.margin
    BY <2>1 DEF Arrived, Serving
  <2>4. LeaseLeft'
    BY <1>1, <1>2, <2>1, <2>3, Timers DEF LeaseLeft, Serving, Typed
  <2> QED BY <1>3, <1>4, <2>2, <2>4
<1> QED BY <1>5, <1>6

\* OnRenew's two renames, each of which may fail.
LEMMA WriteKeeps ==
  ASSUME IInv, NEW ok \in BOOLEAN, WriteKeys(ok) \/ WriteConfig(ok)
  PROVE  IInv'
<1> USE DEF IInv
<1>1. /\ UNCHANGED <<mode, lease, pending, healthy, callLeft>>
      /\ phase \in {"writeKeys", "writeConfig"} /\ mode = "s3"
  BY DEF WriteKeys, WriteConfig, OwnStores
<1>2. /\ cred' \in Nat \cup {Nil} /\ tickIn' \in 0 .. Interval
      /\ phase' \in {"idle", "writeConfig"} /\ torn' \in BOOLEAN
  <2>1. cred' \in Nat \cup {Nil} /\ tickIn' \in 0 .. Interval
    BY Timers DEF WriteKeys, WriteConfig, BackToLoop, Typed
  <2>2. phase' \in {"idle", "writeConfig"}
    BY DEF WriteKeys, WriteConfig, BackToLoop
  <2>3. torn' \in BOOLEAN
    BY DEF WriteKeys, WriteConfig, Typed
  <2> QED BY <2>1, <2>2, <2>3
<1>3. files' \in [keys : Backends, config : Backends]
  <2>1. lease.for \in Backends
    BY DEF Typed
  <2> QED BY <2>1 DEF WriteKeys, WriteConfig, Typed
<1>4. Typed'
  BY <1>1, <1>2, <1>3 DEF Typed, Phases
<1>5. Ticking'
  BY Timers DEF WriteKeys, WriteConfig, BackToLoop, Typed, Ticking
<1>6. FirstHasNone' /\ Arrived' /\ HoldsLease' /\ LeaseLeft' /\ OwnStores'
  BY <1>1 DEF FirstHasNone, Arrived, HoldsLease, LeaseLeft, Serving, OwnStores
<1>7. KeysWritten' /\ FilesAgree'
  <2>1. CASE WriteKeys(ok)
    BY <2>1 DEF WriteKeys, BackToLoop, Typed, KeysWritten, FilesAgree
  <2>2. CASE WriteConfig(ok)
    BY <2>2 DEF WriteConfig, BackToLoop, Typed, KeysWritten, FilesAgree
  <2> QED BY <2>1, <2>2
<1> QED BY <1>4, <1>5, <1>6, <1>7

\* The process ends, and starts again with new memory and the files it left.
LEMMA ProcessKeeps ==
  ASSUME IInv, Shutdown \/ Die \/ Restart
  PROVE  IInv'
<1> USE DEF IInv
<1>1. /\ UNCHANGED <<mode, files>>
      /\ phase' \in {"stopped", "fatal", "firstCall"}
      /\ cred' \in {cred, Nil} /\ lease' \in {lease, NoLease}
      /\ callLeft' \in {callLeft, CallTimeout} /\ tickIn' \in {tickIn, 0}
  BY DEF Shutdown, Die, Restart, proxyVars, fileVars
<1>2. {pending', healthy', torn'} \subseteq BOOLEAN
  BY DEF Shutdown, Die, Restart, proxyVars, fileVars, Typed
<1>3. lease' \in Leases /\ callLeft' \in 0 .. CallTimeout /\ tickIn' \in 0 .. Interval
  BY <1>1, Timers DEF Typed, Leases, NoLease, Backends
<1>4. Typed'
  BY <1>1, <1>2, <1>3 DEF Typed, Leases, Phases
<1>5. Ticking' /\ Arrived' /\ HoldsLease' /\ LeaseLeft' /\ OwnStores' /\ KeysWritten'
  BY <1>1 DEF Ticking, Arrived, HoldsLease, LeaseLeft, OwnStores, KeysWritten
<1>6. FirstHasNone'
  BY DEF Shutdown, Die, Restart, FirstHasNone
<1>7. FilesAgree'
  BY DEF Shutdown, Die, Restart, proxyVars, fileVars, FilesAgree, Running
<1> QED BY <1>4, <1>5, <1>6, <1>7

\* Steps of the connections and of the environment read the rest and leave it.
LEMMA OthersKeep ==
  ASSUME IInv, UNCHANGED <<renewerVars, proxyVars>>
  PROVE  IInv'
BY DEF IInv, renewerVars, proxyVars, fileVars, Typed, Ticking, FirstHasNone, Arrived, HoldsLease,
       LeaseLeft, Serving, OwnStores, KeysWritten, FilesAgree

\* A process that starts for the first time.
LEMMA InitInv == Init => IInv
<1> SUFFICES ASSUME Init PROVE IInv
  OBVIOUS
<1>1. NoLease \in Leases /\ CallTimeout \in 0 .. CallTimeout /\ 0 \in 0 .. Interval
  BY Timers DEF NoLease, Leases, Backends
<1>2. Typed
  BY <1>1 DEF Init, Typed, Leases, Phases, Backends
<1>3. Ticking /\ FirstHasNone /\ Arrived /\ HoldsLease /\ LeaseLeft /\ OwnStores /\ KeysWritten /\ FilesAgree
  BY DEF Init, Ticking, FirstHasNone, Arrived, HoldsLease, LeaseLeft, OwnStores, KeysWritten, FilesAgree
<1> QED BY <1>2, <1>3 DEF IInv

\* Every step of the sidecar keeps the invariant.
LEMMA NextInv == IInv /\ [Next]_vars => IInv'
<1> SUFFICES ASSUME IInv, [Next]_vars PROVE IInv'
  OBVIOUS
<1>1. CASE Tick
  BY <1>1, TickKeeps
<1>2. CASE RenewerStep
  <2>1. CASE FirstSucceeds \/ RenewalSucceeds
    BY <2>1, ApplyKeeps DEF FirstSucceeds, RenewalSucceeds
  <2>2. CASE FirstFails \/ RetryFirst \/ RenewalFails
    BY <2>2, FailureKeeps
  <2>3. CASE MaybeRenew
    BY <2>3, PollKeeps
  <2>4. CASE SetCurrent \/ SetRevoked
    BY <2>4, StoreKeeps
  <2>5. CASE \E ok \in BOOLEAN : WriteKeys(ok) \/ WriteConfig(ok)
    BY <2>5, WriteKeeps
  <2> QED BY <1>2, <2>1, <2>2, <2>3, <2>4, <2>5 DEF RenewerStep
<1>3. CASE Shutdown \/ Die \/ Restart
  BY <1>3, ProcessKeeps
<1>4. CASE BrokerChanges
  BY <1>4, OthersKeep DEF BrokerChanges
<1>5. CASE \E c \in Conns : ConnStep(c)
  <2>1. UNCHANGED <<renewerVars, proxyVars>>
    BY <1>5 DEF ConnStep, Accept, LoadCurrent, LoadRevoked, DialAndAuthenticate, CloseConn
  <2> QED BY <2>1, OthersKeep
<1>6. CASE UNCHANGED vars
  BY <1>6, OthersKeep DEF vars
<1> QED BY <1>1, <1>2, <1>3, <1>4, <1>5, <1>6 DEF Next

----------------------------------------------------------------------------
(* The theorems.                                                           *)

\* The invariant holds throughout, however polls, answers, stores, failed writes,
\* deaths and restarts interleave.
THEOREM Invariance == Spec => []IInv
BY InitInv, NextInv, PTL DEF Spec

\* Where leases are renewed at half their lifetime, as main.go has it in postgres
\* mode unless a fixed margin is asked for, a new connection gets a credential that
\* still has the margin to live, less one poll and one slow call, whatever the
\* intervals and lifetimes.
THEOREM HeadroomHolds == ASSUME HalfLifetime PROVE Spec => []Headroom
<1>1. IInv => Headroom
  <2> SUFFICES ASSUME IInv, mode = "postgres", healthy, cred # Nil,
                      phase \notin {"setCurrent", "fatal", "stopped"}
               PROVE  cred > lease.margin - Interval - CallTimeout
    BY DEF Headroom
  <2>1. /\ lease.left \in Nat /\ lease.margin \in Nat /\ callLeft \in 0 .. CallTimeout
        /\ phase \in {"idle", "call", "setRevoked"}
    BY DEF IInv, Typed, Phases, FirstHasNone, OwnStores
  <2>2. cred = lease.left
    BY <2>1 DEF IInv, HoldsLease, Serving
  <2>3. CASE phase = "setRevoked"
    BY <2>1, <2>2, <2>3, HalfLifetime, Timers DEF IInv, Arrived
  <2>4. CASE phase = "idle"
    BY <2>1, <2>2, <2>4, HalfLifetime, Timers DEF IInv, LeaseLeft, Serving
  <2>5. CASE phase = "call"
    BY <2>1, <2>2, <2>5, HalfLifetime, Timers DEF IInv, LeaseLeft, Serving
  <2> QED BY <2>1, <2>3, <2>4, <2>5
<1> QED BY <1>1, Invariance, PTL

\* The credentials file and the config file name the same backend, but for the
\* moment between the renames and after a config file that could not be written.
THEOREM FilesBelongTogether == Spec => []FilesAgree
<1>1. IInv => FilesAgree
  BY DEF IInv
<1> QED BY <1>1, Invariance, PTL

\* Nothing but the provider's null answer takes a credential from a running
\* process: no failed renewal, no unparseable answer, no expiry.
THEOREM OnlyNullClears == Spec => OnlyRevocationClears
<1>1. ASSUME IInv, [Next]_vars, cred # Nil, cred' = Nil
      PROVE  lease.form = "null" \/ phase = "fatal"
  <2>1. cred \in Nat /\ lease.left \in Nat /\ cred' # cred
    BY <1>1 DEF IInv, Typed
  <2>2. ~Tick
    BY <1>1, <2>1, DownTyped DEF Tick
  <2>3. ASSUME NEW ok \in BOOLEAN PROVE ~WriteKeys(ok) /\ ~WriteConfig(ok)
    BY <1>1, <2>1, DownTyped DEF WriteKeys, WriteConfig
  <2>4. SetCurrent => lease.form = "null"
    BY <1>1, <2>1, DownTyped DEF SetCurrent
  <2>5. CASE SetCurrent \/ Restart
    BY <2>4, <2>5 DEF Restart
  <2>6. CASE ~SetCurrent /\ ~Restart
    BY <1>1, <2>1, <2>2, <2>3, <2>6
    DEF Next, RenewerStep, ConnStep, BrokerChanges, FirstSucceeds, RenewalSucceeds, Apply, FirstFails,
        RetryFirst, RenewalFails, MaybeRenew, SetRevoked, Accept, LoadCurrent, LoadRevoked,
        DialAndAuthenticate, CloseConn, Shutdown, Die, vars, proxyVars
  <2> QED BY <2>5, <2>6
<1> QED BY <1>1, Invariance, PTL DEF Spec, OnlyRevocationClears
=============================================================================
