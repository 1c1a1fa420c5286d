------------------------------- MODULE Sidecar -------------------------------
(***************************************************************************)
(* The credential sidecar: the Renewer's single goroutine                  *)
(* (internal/sidecar/renewal.go), the broker calls it makes (broker.go)    *)
(* and what its callback does with a lease. In postgres mode it writes two *)
(* atomics, which the connection handlers of the wire-protocol proxy read  *)
(* without a lock (postgres.go); in s3 mode it replaces two files, which   *)
(* the engine beside it reads at any moment (s3file.go).                   *)
(*                                                                         *)
(* Time is kept as countdowns, so no clock has to be bounded: a lease or a *)
(* credential carries the time left until its expiresAt, 0 when expired.   *)
(***************************************************************************)
EXTENDS Integers

CONSTANTS
  Conns,         \* client connections the proxy handles concurrently
  TTLs,          \* lifetimes the provider behind the broker may grant
  Interval,      \* Renewer.Interval
  CallTimeout,   \* BrokerClient.HTTPClient.Timeout
  MaxBackoff,    \* the cap of obtainFirst's doubling backoff
  HalfLifetime,  \* Renewer.HalfLifetime, of postgres mode
  Margin,        \* Renewer.Margin, used otherwise
  MaxDeaths      \* bound: the process dies and is restarted

ASSUME SidecarConstants ==
  /\ Interval \in Nat \ {0}
  /\ CallTimeout \in Nat
  /\ MaxBackoff \in Nat \ {0}
  /\ HalfLifetime \in BOOLEAN
  /\ {Margin, MaxDeaths} \subseteq Nat
  /\ TTLs # {}
  /\ TTLs \subseteq {n \in Nat : n > CallTimeout}

VARIABLES
  mode,      \* --kind
  broker,    \* what the broker answers at the moment (environment)
  phase,     \* where Run's goroutine is
  callLeft,  \* time left before the outstanding call times out
  wait,      \* time left of obtainFirst's time.After(backoff)
  backoff,   \* the next backoff
  tickIn,    \* time to the ticker's next tick, 0 while there is no ticker
  pending,   \* the ticker's one-element channel holds a tick
  lease,     \* Renewer.current: time left, margin, and the credential's form
  ready,     \* Renewer.ready
  cred,      \* PostgresProxy.current, or the credentials file: time left, or Nil
  revoked,   \* PostgresProxy.revoked
  files,     \* the backends the credentials file and the config file are for
  torn,      \* history: the config file was last left as it was
  healthy,   \* history: no answer since the last usable one went wrong
  conns,     \* each connection handler: where it is and what it has read
  deaths

renewerVars == <<phase, callLeft, wait, backoff, tickIn, pending, lease, ready, healthy>>
fileVars    == <<files, torn>>
proxyVars   == <<mode, cred, revoked, fileVars>>
vars        == <<broker, renewerVars, proxyVars, conns, deaths>>

Nil == -1

Answers == {"grant", "null", "garbage", "refuse", "down"}

Phases == {"firstCall", "backoff", "idle", "call", "setCurrent", "setRevoked",
           "writeKeys", "writeConfig", "fatal", "stopped"}

\* The credential's endpoint: a self-hosted backend, or none for AWS. The config
\* file is absent for AWS.
Backends == {"own", "aws"}

ConnStates == {"none", "opened", "nilCred", "dialing", "relay",
               "toldNoLease", "toldRevoked", "toldAuthFailed"}

NoLease == [left |-> 0, margin |-> 0, form |-> "none", for |-> "aws"]

NoConn == [st |-> "none", left |-> 0]

MaxTTL == CHOOSE n \in TTLs : \A m \in TTLs : m <= n

Lives == 0 .. MaxTTL

TypeOK ==
  /\ mode \in {"postgres", "s3"}
  /\ broker \in Answers
  /\ phase \in Phases
  /\ callLeft \in 0 .. CallTimeout
  /\ wait \in 0 .. MaxBackoff
  /\ backoff \in 1 .. MaxBackoff
  /\ tickIn \in 0 .. Interval
  /\ lease \in [left : Lives, margin : Nat, form : {"none", "grant", "null", "garbage"}, for : Backends]
  /\ cred \in Lives \cup {Nil}
  /\ files \in [keys : Backends, config : Backends]
  /\ {pending, ready, revoked, healthy, torn} \subseteq BOOLEAN
  /\ conns \in [Conns -> [st : ConnStates, left : Lives]]
  /\ deaths \in 0 .. MaxDeaths

\* isRevokeRequest: the broker lets a null through in answer to a revocation of
\* tablewrite access only, which nothing but postgres mode has.
AnswersTo(kind) == IF kind = "postgres" THEN Answers ELSE Answers \ {"null"}

Init ==
  /\ mode \in {"postgres", "s3"}
  /\ broker \in AnswersTo(mode)
  /\ phase = "firstCall"
  /\ callLeft = CallTimeout
  /\ wait = 0
  /\ backoff = 1
  /\ tickIn = 0
  /\ pending = FALSE
  /\ lease = NoLease
  /\ ready = FALSE
  /\ healthy = TRUE
  /\ cred = Nil
  /\ revoked = FALSE
  /\ files = [keys |-> "aws", config |-> "aws"]
  /\ torn = FALSE
  /\ conns = [c \in Conns |-> NoConn]
  /\ deaths = 0

Running == phase \notin {"fatal", "stopped"}

----------------------------------------------------------------------------
(* The broker and the passing of time.                                     *)

\* Roles, providers and networks change under the sidecar at any moment.
BrokerChanges ==
  /\ phase # "stopped"
  /\ broker' \in AnswersTo(mode) \ {broker}
  /\ UNCHANGED <<renewerVars, proxyVars, conns, deaths>>

Down(n) == IF n > 0 THEN n - 1 ELSE n

\* The goroutine takes a tick, ends a wait and gives up a call as soon as it is
\* due; the stores of one renewal take no measurable time.
Urgent ==
  \/ phase = "idle" /\ pending
  \/ phase = "backoff" /\ wait = 0
  \/ phase \in {"firstCall", "call"} /\ callLeft = 0
  \/ phase \in {"setCurrent", "setRevoked", "writeKeys", "writeConfig"}

Tick ==
  /\ phase # "stopped"
  /\ ~Urgent
  /\ callLeft' = Down(callLeft)
  /\ wait' = Down(wait)
  /\ tickIn' = IF tickIn = 1 THEN Interval ELSE Down(tickIn)
  /\ pending' = (pending \/ tickIn = 1)
  /\ lease' = [lease EXCEPT !.left = Down(@)]
  /\ cred' = Down(cred)
  /\ conns' = [c \in Conns |-> [conns[c] EXCEPT !.left = Down(@)]]
  /\ UNCHANGED <<broker, mode, phase, backoff, ready, healthy, revoked, fileVars, deaths>>

----------------------------------------------------------------------------
(* Renewer.Run.                                                            *)

\* renewal.go marginFor: half of what was left of the lease when it arrived.
MarginFor(left) == IF mode = "postgres" /\ HalfLifetime THEN left \div 2 ELSE Margin

Succeeds == broker \in {"grant", "null", "garbage"}

\* Mutants: renewing late, and never renewing a lease that has lapsed.
DueTooLate == 2 * lease.left <= lease.margin
DueUnlessLapsed == lease.left \in 1 .. lease.margin

\* renewal.go maybeRenew: due unless Now + margin is before ExpiresAt.
Due == lease.left <= lease.margin

\* BrokerClient.Issue returned a 2xx with a leaseId and an expiresAt. The lease
\* started to run when the provider made it, at some moment of the call.
\* apply then stores the lease and ready, and calls setCredential or OnRenew,
\* which leave an unparseable credential alone.
Apply ==
  /\ Succeeds
  /\ \E ttl \in TTLs, spent \in 0 .. CallTimeout - callLeft,
        for \in IF mode = "s3" THEN Backends ELSE {"aws"} :
       lease' = [left |-> ttl - spent, margin |-> MarginFor(ttl - spent), form |-> broker, for |-> for]
  /\ ready' = TRUE
  /\ healthy' = (broker # "garbage")
  /\ phase' = IF broker = "garbage" THEN "idle" ELSE IF mode = "s3" THEN "writeKeys" ELSE "setCurrent"
  /\ tickIn' = IF broker = "garbage" /\ tickIn = 0 THEN Interval ELSE tickIn
  /\ callLeft' = 0
  /\ UNCHANGED <<broker, wait, backoff, pending, proxyVars, conns, deaths>>

\* obtainFirst: a refusal ends the process, anything else is retried.
FirstFails ==
  /\ phase = "firstCall"
  /\ ~Succeeds
  /\ phase' = IF broker = "refuse" THEN "fatal" ELSE "backoff"
  /\ wait' = IF broker = "refuse" THEN wait ELSE backoff
  /\ backoff' = IF broker = "refuse" THEN backoff
                ELSE IF 2 * backoff > MaxBackoff THEN MaxBackoff ELSE 2 * backoff
  /\ conns' = IF broker = "refuse" THEN [c \in Conns |-> NoConn] ELSE conns
  /\ callLeft' = 0
  /\ healthy' = FALSE
  /\ UNCHANGED <<broker, tickIn, pending, lease, ready, proxyVars, deaths>>

FirstSucceeds == phase = "firstCall" /\ Apply

RetryFirst ==
  /\ phase = "backoff"
  /\ wait = 0
  /\ phase' = "firstCall"
  /\ callLeft' = CallTimeout
  /\ UNCHANGED <<broker, wait, backoff, tickIn, pending, lease, ready, healthy, proxyVars, conns, deaths>>

\* maybeRenew, up to its broker call.
MaybeRenew ==
  /\ phase = "idle"
  /\ pending
  /\ pending' = FALSE
  /\ phase' = IF Due THEN "call" ELSE "idle"
  /\ callLeft' = IF Due THEN CallTimeout ELSE 0
  /\ UNCHANGED <<broker, wait, backoff, tickIn, lease, ready, healthy, proxyVars, conns, deaths>>

\* Mutant: a renewal that is refused drops the credential.
RenewalFailsDropping ==
  /\ phase = "call"
  /\ ~Succeeds
  /\ phase' = "idle"
  /\ callLeft' = 0
  /\ healthy' = FALSE
  /\ cred' = IF broker = "refuse" THEN Nil ELSE cred
  /\ UNCHANGED <<broker, wait, backoff, tickIn, pending, lease, ready, mode, revoked, fileVars, conns, deaths>>

\* maybeRenew: a refusal and an outage alike keep the lease for the next tick.
RenewalFails ==
  /\ phase = "call"
  /\ ~Succeeds
  /\ phase' = "idle"
  /\ callLeft' = 0
  /\ healthy' = FALSE
  /\ UNCHANGED <<broker, wait, backoff, tickIn, pending, lease, ready, proxyVars, conns, deaths>>

RenewalSucceeds == phase = "call" /\ Apply

\* setCredential's first store: p.current.
SetCurrent ==
  /\ phase = "setCurrent"
  /\ cred' = IF lease.form = "null" THEN Nil ELSE lease.left
  /\ phase' = "setRevoked"
  /\ UNCHANGED <<broker, callLeft, wait, backoff, tickIn, pending, lease, ready, healthy, mode, revoked, fileVars, conns, deaths>>

\* Run starts its ticker once the first lease has been applied.
BackToLoop ==
  /\ phase' = "idle"
  /\ tickIn' = IF tickIn = 0 THEN Interval ELSE tickIn

\* setCredential's second store: p.revoked.
SetRevoked ==
  /\ phase = "setRevoked"
  /\ revoked' = (lease.form = "null")
  /\ BackToLoop
  /\ UNCHANGED <<broker, callLeft, wait, backoff, pending, lease, ready, healthy, mode, cred, fileVars, conns, deaths>>

----------------------------------------------------------------------------
(* S3FileWriter.OnRenew: a write that fails is logged, and that file stays  *)
(* as it was. Each file is replaced by a rename.                           *)

\* The credentials file; without it the config file is not touched either.
WriteKeys(ok) ==
  /\ phase = "writeKeys"
  /\ IF ok THEN /\ cred' = lease.left
                /\ files' = [files EXCEPT !.keys = lease.for]
                /\ phase' = "writeConfig"
                /\ UNCHANGED tickIn
           ELSE BackToLoop /\ UNCHANGED <<cred, files>>
  /\ UNCHANGED <<broker, callLeft, wait, backoff, pending, lease, ready, healthy, mode, revoked, torn, conns, deaths>>

\* Mutant: a lease without an endpoint leaves the config file alone.
WriteConfigOrNothing(ok) ==
  /\ phase = "writeConfig"
  /\ files' = IF ok /\ lease.for = "own" THEN [files EXCEPT !.config = "own"] ELSE files
  /\ torn' = ~ok
  /\ BackToLoop
  /\ UNCHANGED <<broker, callLeft, wait, backoff, pending, lease, ready, healthy, mode, cred, revoked, conns, deaths>>

\* writeConfig: written for a self-hosted backend, removed for AWS.
WriteConfig(ok) ==
  /\ phase = "writeConfig"
  /\ files' = IF ok THEN [files EXCEPT !.config = lease.for] ELSE files
  /\ torn' = ~ok
  /\ BackToLoop
  /\ UNCHANGED <<broker, callLeft, wait, backoff, pending, lease, ready, healthy, mode, cred, revoked, conns, deaths>>

----------------------------------------------------------------------------
(* PostgresProxy.handleConn, one goroutine per connection.                 *)

\* Listen's Accept, and the client's startup message.
Accept(c) ==
  /\ Running
  /\ mode = "postgres"
  /\ conns[c].st = "none"
  /\ conns' = [conns EXCEPT ![c] = [st |-> "opened", left |-> 0]]
  /\ UNCHANGED <<broker, renewerVars, proxyVars, deaths>>

LoadCurrent(c) ==
  /\ conns[c].st = "opened"
  /\ conns' = [conns EXCEPT ![c].st = IF cred = Nil THEN "nilCred" ELSE "dialing",
                            ![c].left = IF cred = Nil THEN 0 ELSE cred]
  /\ UNCHANGED <<broker, renewerVars, proxyVars, deaths>>

LoadRevoked(c) ==
  /\ conns[c].st = "nilCred"
  /\ conns' = [conns EXCEPT ![c].st = IF revoked THEN "toldRevoked" ELSE "toldNoLease"]
  /\ UNCHANGED <<broker, renewerVars, proxyVars, deaths>>

\* dialAndAuthenticate with the credential loaded earlier, then the client's
\* own handshake. The upstream accepts only an unexpired login, and may fail.
DialAndAuthenticate(c) ==
  /\ conns[c].st = "dialing"
  /\ \E ok \in {conns[c].left > 0, FALSE} :
       conns' = [conns EXCEPT ![c].st = IF ok THEN "relay" ELSE "toldAuthFailed"]
  /\ UNCHANGED <<broker, renewerVars, proxyVars, deaths>>

\* A startup that cannot be read, an answered refusal, or a relay either side
\* of which ended (the provider's reaper ends one whose lease expired).
CloseConn(c) ==
  /\ conns[c].st \in ConnStates \ {"none", "nilCred", "dialing"}
  /\ conns' = [conns EXCEPT ![c] = NoConn]
  /\ UNCHANGED <<broker, renewerVars, proxyVars, deaths>>

----------------------------------------------------------------------------
(* The process.                                                            *)

\* SIGINT or SIGTERM: Listen returns, main exits, every connection dies. The
\* pod is being deleted, so nothing follows.
Shutdown ==
  /\ Running
  /\ phase' = "stopped"
  /\ conns' = [c \in Conns |-> NoConn]
  /\ UNCHANGED <<broker, callLeft, wait, backoff, tickIn, pending, lease, ready, healthy, proxyVars, deaths>>

\* The process is killed, between any two of its steps. Files stay.
Die ==
  /\ Running
  /\ deaths < MaxDeaths
  /\ deaths' = deaths + 1
  /\ torn' = (torn \/ phase = "writeConfig")
  /\ phase' = "fatal"
  /\ conns' = [c \in Conns |-> NoConn]
  /\ UNCHANGED <<broker, callLeft, wait, backoff, tickIn, pending, lease, ready, healthy, mode, cred, revoked, files>>

\* The kubelet restarts a container that exited; its memory is new.
Restart ==
  /\ phase = "fatal"
  /\ phase' = "firstCall"
  /\ callLeft' = CallTimeout
  /\ wait' = 0
  /\ backoff' = 1
  /\ tickIn' = 0
  /\ pending' = FALSE
  /\ lease' = NoLease
  /\ ready' = FALSE
  /\ healthy' = TRUE
  /\ cred' = IF mode = "s3" THEN cred ELSE Nil
  /\ revoked' = FALSE
  /\ UNCHANGED <<broker, mode, fileVars, conns, deaths>>

RenewerStep ==
  \/ FirstSucceeds \/ FirstFails \/ RetryFirst
  \/ MaybeRenew \/ RenewalSucceeds \/ RenewalFails
  \/ SetCurrent \/ SetRevoked
  \/ \E ok \in BOOLEAN : WriteKeys(ok) \/ WriteConfig(ok)

ConnStep(c) ==
  \/ Accept(c) \/ LoadCurrent(c) \/ LoadRevoked(c)
  \/ DialAndAuthenticate(c) \/ CloseConn(c)

Next ==
  \/ BrokerChanges
  \/ Tick
  \/ RenewerStep
  \/ \E c \in Conns : ConnStep(c)
  \/ Shutdown
  \/ Die
  \/ Restart

\* A goroutine that can run does, timers fire, the kubelet restarts, and a disk
\* does not refuse every write for ever.
Fairness ==
  /\ WF_vars(Tick) /\ WF_vars(RenewerStep) /\ WF_vars(Restart)
  /\ SF_vars(WriteKeys(TRUE)) /\ SF_vars(WriteConfig(TRUE))

Spec == Init /\ [][Next]_vars /\ Fairness

----------------------------------------------------------------------------
(* Properties.                                                             *)

\* What half-lifetime renewal is for (Renewer.HalfLifetime, docs/decisions/0015
\* section 4): as long as no answer went wrong since the current lease, a new
\* connection gets a credential that still has the margin to live, less one
\* poll interval and one slow broker call.
Headroom ==
  mode = "postgres" /\ healthy /\ cred # Nil /\ phase \notin {"setCurrent", "fatal", "stopped"}
    => cred > lease.margin - Interval - CallTimeout

\* setCredential: nothing but the provider's null answer takes a credential away
\* from a running proxy. A failed renewal or an unparseable answer keeps it.
OnlyRevocationClears ==
  [][cred # Nil /\ cred' = Nil => lease.form = "null" \/ phase = "fatal"]_vars

\* OnRenew and writeConfig ("including removing a previous self-hosted backend's
\* leftover config if this writer's backend ever changes kind across a renewal"):
\* keys and endpoint belong together, across restarts, but for the moment between
\* the two renames and after a config file that was not written, until one is.
FilesAgree == files.keys = files.config \/ phase \in {"writeConfig", "stopped"} \/ torn

CanServe == cred # Nil /\ cred > 0

\* Whatever went wrong before (refused at startup, an outage longer than the
\* lease, a revocation, garbage, a full disk), once the broker grants for good the
\* proxy ends up holding an unexpired credential and never lets it lapse again.
\* In s3 mode the fixed margin is shorter than a poll and a slow call, so keys may
\* lapse for a moment; again and again they are fresh, beside their own endpoint.
ServesOnceBrokerGrants ==
  <>[](broker = "grant") =>
    \/ <>(phase = "stopped")
    \/ mode = "postgres" /\ <>[]CanServe
    \/ mode = "s3" /\ []<>(CanServe /\ files.keys = files.config)
=============================================================================
