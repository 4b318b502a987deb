------------------------------ MODULE FailClosed ------------------------------
(***************************************************************************)
(* The gateway's fail-closed check: before a protected request is handled, *)
(* ControlPlaneHealthChecker decides whether the control plane is healthy, *)
(* from a circuit breaker, a short-lived cached verdict, or an HTTP probe. *)
(*                                                                         *)
(* One checker serves every request.  The probe is awaited, so any number  *)
(* of requests may have passed the breaker and wait for their answer while *)
(* others change the breaker's state.                                      *)
(*                                                                         *)
(* Instants are kept as the time left until them, so that the clock needs  *)
(* no bound: "openLeft" is _circuit_open_until - now, "cacheLeft" is       *)
(* _last_healthy_check + _health_cache_seconds - now.  Zero stands for     *)
(* None and for every instant that has passed, which the code treats alike.*)
(***************************************************************************)
EXTENDS Naturals, FiniteSets

CONSTANTS
  Requests,      \* requests handled concurrently
  Threshold,     \* circuit_breaker_threshold
  ResetTime,     \* circuit_breaker_reset_seconds
  CacheTime,     \* _health_cache_seconds
  ProbeTimeout   \* timeout_seconds

ASSUME ThresholdIsPositive == Threshold \in Nat \ {0}
ASSUME TimesAreNumbers == ResetTime \in Nat /\ CacheTime \in Nat /\ ProbeTimeout \in Nat

VARIABLES
  up,         \* whether the control plane answers /health with 200
  okAge,      \* history: time since it last did, up to Stale
  failures,   \* _failure_count, up to Threshold
  openLeft,
  cacheLeft,
  req         \* what each request is doing

vars == <<up, okAge, failures, openLeft, cacheLeft, req>>

----------------------------------------------------------------------------

Stale == ProbeTimeout + CacheTime + 1

\* "left" is the time left until the probe's timeout.
Probe == [phase : {"asking"}, left : 0 .. ProbeTimeout]
         \cup [phase : {"answered"}, left : 0 .. ProbeTimeout, ok : BOOLEAN]
AtRest == [phase : {"idle", "admitted", "denied"}]

Idle     == [phase |-> "idle"]
Admitted == [phase |-> "admitted"]
Denied   == [phase |-> "denied"]

InFlight == {r \in Requests : req[r].phase \in {"asking", "answered"}}

\* The code compares the count only with zero and with the threshold.
OneMoreFailure == IF failures < Threshold THEN failures + 1 ELSE failures

Less(x) == IF x = 0 THEN 0 ELSE x - 1

RecordFailure ==
  /\ failures' = OneMoreFailure
  /\ openLeft' = IF failures + 1 >= Threshold THEN ResetTime ELSE openLeft

ResetCircuit == failures' = 0 /\ openLeft' = 0

----------------------------------------------------------------------------
(* check_health, up to its await *)

\* A mistaken form: a denial by the open circuit counts as one more failure.
DenyAndRecord(r) ==
  /\ req[r] = Idle
  /\ openLeft > 0
  /\ req' = [req EXCEPT ![r] = Denied]
  /\ RecordFailure
  /\ UNCHANGED <<up, okAge, cacheLeft>>

DenyWhileOpen(r) ==
  /\ req[r] = Idle
  /\ openLeft > 0
  /\ req' = [req EXCEPT ![r] = Denied]
  /\ UNCHANGED <<up, okAge, failures, openLeft, cacheLeft>>

AdmitFromCache(r) ==
  /\ req[r] = Idle
  /\ openLeft = 0
  /\ cacheLeft > 0
  /\ req' = [req EXCEPT ![r] = Admitted]
  /\ UNCHANGED <<up, okAge, failures, openLeft, cacheLeft>>

BeginProbe(r) ==
  /\ req[r] = Idle
  /\ openLeft = 0
  /\ cacheLeft = 0
  /\ req' = [req EXCEPT ![r] = [phase |-> "asking", left |-> ProbeTimeout]]
  /\ UNCHANGED <<up, okAge, failures, openLeft, cacheLeft>>

----------------------------------------------------------------------------
(* The control plane *)

PlaneChanges ==
  /\ up' = ~up
  /\ UNCHANGED <<okAge, failures, openLeft, cacheLeft, req>>

\* It answers a probe: with 200 when it is up, with an error status otherwise.
Answer(r) ==
  /\ req[r].phase = "asking"
  /\ req' = [req EXCEPT ![r] = [phase |-> "answered", left |-> @.left, ok |-> up]]
  /\ okAge' = IF up THEN 0 ELSE okAge
  /\ UNCHANGED <<up, failures, openLeft, cacheLeft>>

----------------------------------------------------------------------------
(* _perform_health_check, after its await *)

\* A mistaken form: the verdict is cached one unit too long.
ReceiveHealthyLonger(r) ==
  /\ req[r].phase = "answered"
  /\ req[r].ok
  /\ ResetCircuit
  /\ cacheLeft' = CacheTime + 1
  /\ req' = [req EXCEPT ![r] = Admitted]
  /\ UNCHANGED <<up, okAge>>

ReceiveHealthy(r) ==
  /\ req[r].phase = "answered"
  /\ req[r].ok
  /\ ResetCircuit
  /\ cacheLeft' = CacheTime
  /\ req' = [req EXCEPT ![r] = Admitted]
  /\ UNCHANGED <<up, okAge>>

ReceiveUnhealthy(r) ==
  /\ req[r].phase = "answered"
  /\ ~req[r].ok
  /\ RecordFailure
  /\ req' = [req EXCEPT ![r] = Denied]
  /\ UNCHANGED <<up, okAge, cacheLeft>>

\* ConnectError, and any other exception, while the control plane is down.
ConnectFails(r) ==
  /\ req[r].phase = "asking"
  /\ ~up
  /\ RecordFailure
  /\ req' = [req EXCEPT ![r] = Denied]
  /\ UNCHANGED <<up, okAge, cacheLeft>>

\* A mistaken form: a probe that times out lets the request through.
TimesOutOpen(r) ==
  /\ r \in InFlight
  /\ req[r].left = 0
  /\ RecordFailure
  /\ req' = [req EXCEPT ![r] = Admitted]
  /\ UNCHANGED <<up, okAge, cacheLeft>>

TimesOut(r) ==
  /\ r \in InFlight
  /\ req[r].left = 0
  /\ RecordFailure
  /\ req' = [req EXCEPT ![r] = Denied]
  /\ UNCHANGED <<up, okAge, cacheLeft>>

\* enforce_fail_closed raises or returns; the next request takes the place.
Leave(r) ==
  /\ req[r].phase \in {"admitted", "denied"}
  /\ req' = [req EXCEPT ![r] = Idle]
  /\ UNCHANGED <<up, okAge, failures, openLeft, cacheLeft>>

\* A probe ends before its timeout has passed.
Tick ==
  /\ \A r \in InFlight : req[r].left > 0
  /\ okAge' = IF okAge < Stale THEN okAge + 1 ELSE okAge
  /\ openLeft' = Less(openLeft)
  /\ cacheLeft' = Less(cacheLeft)
  /\ req' = [r \in Requests |->
               IF r \in InFlight THEN [req[r] EXCEPT !.left = @ - 1] ELSE req[r]]
  /\ UNCHANGED <<up, failures>>

----------------------------------------------------------------------------

Init ==
  /\ up \in BOOLEAN
  /\ okAge = Stale
  /\ failures = 0
  /\ openLeft = 0
  /\ cacheLeft = 0
  /\ req = [r \in Requests |-> Idle]

Check(r) == DenyWhileOpen(r) \/ AdmitFromCache(r) \/ BeginProbe(r)
Receive(r) == ReceiveHealthy(r) \/ ReceiveUnhealthy(r)

RequestStep(r) ==
  \/ Check(r)
  \/ Answer(r)
  \/ Receive(r)
  \/ ConnectFails(r)
  \/ TimesOut(r)
  \/ Leave(r)

Next == Tick \/ PlaneChanges \/ \E r \in Requests : RequestStep(r)

Spec == Init /\ [][Next]_vars

\* Requests keep coming and are handled, timeouts fire and time passes; a control
\* plane that stays up answers in time now and then.
Fairness ==
  /\ WF_vars(Tick)
  /\ \A r \in Requests :
       /\ WF_vars(Check(r))
       /\ WF_vars(Leave(r))
       /\ WF_vars(TimesOut(r))
       /\ SF_vars(Answer(r))
       /\ SF_vars(Receive(r))

FairSpec == Spec /\ Fairness

----------------------------------------------------------------------------
(* Properties *)

\* The gateway's circuit breaker keeps its counters within the thresholds it was given.
TypeOK ==
  /\ up \in BOOLEAN
  /\ okAge \in 0 .. Stale
  /\ failures \in 0 .. Threshold
  /\ openLeft \in 0 .. ResetTime
  /\ cacheLeft \in 0 .. CacheTime
  /\ req \in [Requests -> Probe \cup AtRest]

\* The circuit is open only after as many failures as the threshold with no success
\* in between, in whatever order the answers of concurrent probes come in.
OpenOnlyAfterThreshold == openLeft > 0 => failures = Threshold

\* Fail closed: a request is admitted only if the control plane itself answered 200
\* recently, at most a probe's timeout plus the cache time ago, however the answers
\* of concurrent probes, failures and the cached verdict interleave.
AdmittedOnEvidence ==
  [][\A r \in Requests :
       (req[r].phase # "admitted" /\ req'[r].phase = "admitted")
         => okAge < Stale]_vars

\* An open circuit is no dead end: once the control plane stays up, requests are
\* admitted again and again (perhaps not those of every caller: one may always come
\* while the circuit is open).
RecoversWithControlPlane ==
  <>[]up => []<>(\E r \in Requests : req[r].phase = "admitted")
=============================================================================
