---------------------------- MODULE ModelGateway ----------------------------
(***************************************************************************)
(* The model gateway: routing to slots, retries, the circuit breaker of     *)
(* each provider and the fallback chain (model-gateway/src/index.ts,        *)
(* health/, routing/, registry/), with any number of requests in flight.    *)
(*                                                                          *)
(* An action is the synchronous code between two awaits of execute(): the   *)
(* call of executeWithRetry for a candidate, provider.execute and the sleep *)
(* before a retry.  Events and diagnostics are left out (the bus isolates   *)
(* its listeners, and nothing reads them back).                             *)
(***************************************************************************)
EXTENDS Integers, Sequences, FiniteSets

CONSTANTS
  Requests,
  Providers, NoProvider,
  Slots, NoSlot,       \* slot names; a request may name none
  SlotProvider,        \* the registry: configured slots -> providers
  DefaultSlot,         \* a configured slot, or NoSlot
  Chains,              \* fallback slots of each configured slot
  FallbackEnabled, FallbackOnNonRetryable,
  MaxRetries,
  BreakerEnabled, Threshold, Cooldown,
  MaxTime              \* bound on the clock

Configured == DOMAIN SlotProvider

\* validateModelGatewayConfig: fallback chains name configured slots.
ASSUME RegistryAssumption ==
  /\ NoSlot \notin Slots /\ NoProvider \notin Providers
  /\ Configured \subseteq Slots
  /\ SlotProvider \in [Configured -> Providers]
  /\ DefaultSlot \in Configured \cup {NoSlot}
  /\ Chains \in [Configured -> Seq(Configured)]
ASSUME SettingsAssumption ==
  /\ {FallbackEnabled, FallbackOnNonRetryable, BreakerEnabled} \subseteq BOOLEAN
  /\ MaxRetries \in Nat /\ Threshold \in Nat \ {0} /\ Cooldown \in Nat
  /\ MaxTime \in Nat

NoTime == -1

VARIABLES
  clock,
  fails, opened, probing,   \* per provider: consecutiveFailures,
                            \* circuitOpenedAt, circuitProbeInFlight
  req,      \* per request: where it is in execute()
  probes,   \* history: when probes were sent to a provider since it last answered
  visits    \* history: the <<request, candidate>> pairs that failed since then

health == <<fails, opened, probing, probes, visits>>
vars == <<clock, fails, opened, probing, req, probes, visits>>

-----------------------------------------------------------------------------
\* GatewayRouter.resolve: the slot's provider, else the default slot's.
Route(slot) ==
  IF slot \in Configured THEN SlotProvider[slot]
  ELSE IF DefaultSlot # NoSlot THEN SlotProvider[DefaultSlot]
  ELSE NoProvider

\* resolveCandidateSlots.
Candidates(slot) ==
  IF FallbackEnabled /\ slot \in Configured THEN <<slot>> \o Chains[slot] ELSE <<slot>>

Idle == [pc |-> "idle", chain |-> <<>>, index |-> 0, attempt |-> 0, recorded |-> FALSE]

\* The provider a request is at.
At(r) == Route(req[r].chain[req[r].index])

-----------------------------------------------------------------------------
(***************************************************************************)
(* ProviderHealthTracker.                                                   *)
(***************************************************************************)
RecordSuccess(p) ==
  /\ fails' = [fails EXCEPT ![p] = 0]
  /\ opened' = [opened EXCEPT ![p] = NoTime]
  /\ probing' = [probing EXCEPT ![p] = FALSE]
  /\ probes' = [probes EXCEPT ![p] = <<>>]
  /\ visits' = [visits EXCEPT ![p] = {}]

\* Mutant: a failed probe stays in flight.
RecordFailureKeepsProbe(p, visit) ==
  /\ fails' = [fails EXCEPT ![p] = @ + 1]
  /\ opened' = [opened EXCEPT ![p] =
       IF BreakerEnabled /\ fails[p] + 1 >= Threshold THEN clock ELSE @]
  /\ visits' = [visits EXCEPT ![p] = @ \cup {visit}]
  /\ UNCHANGED <<probing, probes>>

RecordFailure(p, visit) ==
  /\ fails' = [fails EXCEPT ![p] = @ + 1]
  /\ opened' = [opened EXCEPT ![p] =
       IF BreakerEnabled /\ fails[p] + 1 >= Threshold THEN clock ELSE @]
  /\ probing' = [probing EXCEPT ![p] = FALSE]
  /\ visits' = [visits EXCEPT ![p] = @ \cup {visit}]
  /\ UNCHANGED probes

\* Mutant: a probe in flight does not keep the next one back.
AvailableOnceCooled(p) ==
  ~BreakerEnabled \/ opened[p] = NoTime \/ clock - opened[p] >= Cooldown

\* isAvailable.
Available(p) ==
  ~BreakerEnabled \/ opened[p] = NoTime \/ (clock - opened[p] >= Cooldown /\ ~probing[p])

MarkProbeStarted(p) ==
  IF opened[p] = NoTime
    THEN UNCHANGED <<probing, probes>>
    ELSE /\ probing' = [probing EXCEPT ![p] = TRUE]
         /\ probes' = [probes EXCEPT ![p] = Append(@, clock)]

-----------------------------------------------------------------------------
Init ==
  /\ clock = 0
  /\ fails = [p \in Providers |-> 0]
  /\ opened = [p \in Providers |-> NoTime]
  /\ probing = [p \in Providers |-> FALSE]
  /\ req = [r \in Requests |-> Idle]
  /\ probes = [p \in Providers |-> <<>>]
  /\ visits = [p \in Providers |-> {}]

Tick ==
  /\ clock < MaxTime
  /\ clock' = clock + 1
  /\ UNCHANGED <<health, req>>

\* A request comes in.
Execute(r, slot) ==
  /\ req[r] = Idle
  /\ req' = [req EXCEPT ![r].pc = "trying", ![r].chain = Candidates(slot), ![r].index = 1]
  /\ UNCHANGED <<clock, health>>

\* The circuit is not available, or the slot has no provider.
Refused(p) == p \in Providers => ~Available(p)

\* Mutant: one candidate too many.
NextCandidateBeyondChain(r, fallback) ==
  IF fallback /\ req[r].index <= Len(req[r].chain)
    THEN [req[r] EXCEPT !.pc = "trying", !.index = @ + 1, !.attempt = 0, !.recorded = FALSE]
    ELSE [req[r] EXCEPT !.pc = "failed"]

\* The rest of the chain is tried, or the request fails.
NextCandidate(r, fallback) ==
  IF fallback /\ req[r].index < Len(req[r].chain)
    THEN [req[r] EXCEPT !.pc = "trying", !.index = @ + 1, !.attempt = 0, !.recorded = FALSE]
    ELSE [req[r] EXCEPT !.pc = "failed"]

\* A candidate is passed over: a missing route and an open circuit always fall back.
Skip(r) ==
  /\ req[r].pc = "trying"
  /\ Refused(At(r))
  /\ req' = [req EXCEPT ![r] = NextCandidate(r, FallbackEnabled)]
  /\ UNCHANGED <<clock, health>>

\* The candidate's provider is called; on an open circuit the call is its probe.
Call(r) ==
  /\ req[r].pc = "trying"
  /\ ~Refused(At(r))
  /\ req' = [req EXCEPT ![r].pc = "calling"]
  /\ MarkProbeStarted(At(r))
  /\ UNCHANGED <<clock, fails, opened, visits>>

\* provider.execute answers.
Answer(r) ==
  /\ req[r].pc = "calling"
  /\ RecordSuccess(At(r))
  /\ req' = [req EXCEPT ![r].pc = "answered"]
  /\ UNCHANGED clock

\* Mutant: every failed attempt is recorded.
FailCountingAttempts(r, retryable) ==
  /\ req[r].pc = "calling"
  /\ RecordFailure(At(r), <<r, req[r].index>>)
  /\ req' = [req EXCEPT ![r] =
       IF retryable /\ req[r].attempt < MaxRetries
         THEN [req[r] EXCEPT !.pc = "sleeping", !.recorded = TRUE]
         ELSE NextCandidate(r, FallbackEnabled /\ (retryable \/ FallbackOnNonRetryable))]
  /\ UNCHANGED clock

\* provider.execute fails.  The first failed attempt of a visit is recorded; a
\* retryable error is retried after a delay; then shouldFallback decides.
Fail(r, retryable) ==
  /\ req[r].pc = "calling"
  /\ IF req[r].recorded THEN UNCHANGED health ELSE RecordFailure(At(r), <<r, req[r].index>>)
  /\ req' = [req EXCEPT ![r] =
       IF retryable /\ req[r].attempt < MaxRetries
         THEN [req[r] EXCEPT !.pc = "sleeping", !.recorded = TRUE]
         ELSE NextCandidate(r, FallbackEnabled /\ (retryable \/ FallbackOnNonRetryable))]
  /\ UNCHANGED clock

\* The sleep before a retry ends.  The circuit is not looked at again.
Retry(r) ==
  /\ req[r].pc = "sleeping"
  /\ req' = [req EXCEPT ![r].pc = "calling", ![r].attempt = @ + 1]
  /\ UNCHANGED <<clock, health>>

Step(r) ==
  \/ Skip(r) \/ Call(r) \/ Answer(r) \/ Retry(r)
  \/ \E retryable \in BOOLEAN : Fail(r, retryable)

Next ==
  \/ Tick
  \/ \E r \in Requests : Step(r) \/ \E slot \in Slots \cup {NoSlot} : Execute(r, slot)

Spec == Init /\ [][Next]_vars

-----------------------------------------------------------------------------
Pcs == {"idle", "trying", "calling", "sleeping", "answered", "failed"}

RequestRecords ==
  [pc : Pcs, chain : Seq(Slots \cup {NoSlot}), index : Nat,
   attempt : 0..MaxRetries, recorded : BOOLEAN]

\* Every variable has its type, and a request under way is at a provider.
TypeOK ==
  /\ clock \in Nat
  /\ fails \in [Providers -> Nat]
  /\ opened \in [Providers -> Nat \cup {NoTime}]
  /\ probing \in [Providers -> BOOLEAN]
  /\ req \in [Requests -> RequestRecords]
  /\ probes \in [Providers -> Seq(Nat)]
  /\ visits \in [Providers -> SUBSET (Requests \X Nat)]
  /\ \A r \in Requests :
       /\ req[r].pc # "idle" => req[r].index \in DOMAIN req[r].chain
       /\ req[r].pc \in {"calling", "sleeping"} => At(r) \in Providers

\* The breaker counts visits, not attempts: a circuit is open exactly when
\* Threshold visits began to fail since the provider last answered, however
\* often each of them was retried (healthFailureRecorded in executeWithRetry).
OpensOnThresholdVisits ==
  \A p \in Providers :
    (opened[p] # NoTime) <=> (BreakerEnabled /\ Cardinality(visits[p]) >= Threshold)

\* A failing provider gets at most one probe per cooldown, although late
\* failures of older requests clear circuitProbeInFlight while a probe is out.
ProbesSpaced ==
  \A p \in Providers : \A i, j \in DOMAIN probes[p] :
    i < j => probes[p][j] - probes[p][i] >= Cooldown

\* The probe flag never outlives its probe: a circuit whose flag is set has a
\* call under way whose outcome will clear it, so no circuit stays open for good.
ProbeHasOwner ==
  \A p \in Providers :
    probing[p] => \E r \in Requests : /\ req[r].pc = "calling" /\ ~req[r].recorded
                                      /\ At(r) = p
=============================================================================
