------------------------- MODULE ModelGatewayProofs -------------------------
(***************************************************************************)
(* Proofs about ModelGateway, for any requests, slots and chains: its types, *)
(* what opens a circuit, how probes are spaced and who owns one.            *)
(***************************************************************************)
EXTENDS ModelGateway, FiniteSetTheorems, TLAPS

SlotNames == Slots \cup {NoSlot}

-----------------------------------------------------------------------------
(***************************************************************************)
(* Routing.                                                                 *)
(***************************************************************************)
LEMMA RouteType ==
  ASSUME NEW slot \in SlotNames
  PROVE  Route(slot) \in Providers \cup {NoProvider}
BY RegistryAssumption DEF Route, Configured

LEMMA CandidatesType ==
  ASSUME NEW slot \in SlotNames
  PROVE  Candidates(slot) \in Seq(SlotNames) /\ 1 \in DOMAIN Candidates(slot)
<1>1. CASE FallbackEnabled /\ slot \in Configured
  <2>1. Chains[slot] \in Seq(Configured) /\ slot \in SlotNames
    BY <1>1, RegistryAssumption
  <2>2. Chains[slot] \in Seq(SlotNames)
    BY <2>1, RegistryAssumption DEF SlotNames
  <2>3. Candidates(slot) = <<slot>> \o Chains[slot]
    BY <1>1 DEF Candidates
  <2>4. QED
    BY <2>1, <2>2, <2>3
<1>2. CASE ~(FallbackEnabled /\ slot \in Configured)
  BY <1>2 DEF Candidates
<1>3. QED
  BY <1>1, <1>2

-----------------------------------------------------------------------------
(***************************************************************************)
(* What a step does to the requests: one of them moves within its chain.    *)
(***************************************************************************)
Positioned(q) ==
  /\ q \in RequestRecords
  /\ q.pc # "idle" => q.index \in DOMAIN q.chain
  /\ q.pc \in {"calling", "sleeping"} => Route(q.chain[q.index]) \in Providers
  /\ q.pc \in {"idle", "trying"} => ~q.recorded
  /\ q.pc = "sleeping" => q.attempt < MaxRetries /\ q.recorded

RequestsPositioned == req \in [Requests -> RequestRecords] /\ \A r \in Requests : Positioned(req[r])

LEMMA AtType ==
  ASSUME RequestsPositioned, NEW r \in Requests, req[r].pc # "idle"
  PROVE  At(r) \in Providers \cup {NoProvider}
<1>1. req[r].chain \in Seq(SlotNames) /\ req[r].index \in DOMAIN req[r].chain
  BY DEF RequestsPositioned, Positioned, RequestRecords, SlotNames
<1>2. QED
  BY <1>1, RouteType DEF At

LEMMA NextCandidateType ==
  ASSUME RequestsPositioned, NEW r \in Requests, NEW fallback \in BOOLEAN, req[r].pc # "idle"
  PROVE  LET n == NextCandidate(r, fallback)
         IN  /\ Positioned(n)
             /\ n.chain = req[r].chain
             /\ \/ n.pc = "failed" /\ n.index = req[r].index
                \/ n.pc = "trying" /\ n.index = req[r].index + 1 /\ ~n.recorded
<1>1. Positioned(req[r]) /\ req[r] \in RequestRecords /\ MaxRetries \in Nat
  BY SettingsAssumption DEF RequestsPositioned
<1>2. CASE fallback /\ req[r].index < Len(req[r].chain)
  <2>1. NextCandidate(r, fallback) =
          [req[r] EXCEPT !.pc = "trying", !.index = @ + 1, !.attempt = 0, !.recorded = FALSE]
    BY <1>2 DEF NextCandidate
  <2> DEFINE n == NextCandidate(r, fallback)
  <2>2. /\ n.pc = "trying" /\ n.chain = req[r].chain /\ n.index = req[r].index + 1
        /\ n.attempt = 0 /\ n.recorded = FALSE
    BY <1>1, <2>1 DEF RequestRecords
  <2>3. n \in RequestRecords
    <3>1. /\ req[r].index + 1 \in Nat /\ 0 \in 0..MaxRetries /\ "trying" \in Pcs
          /\ FALSE \in BOOLEAN
      BY <1>1 DEF RequestRecords, Pcs
    <3>2. QED
      BY <1>1, <2>1, <3>1 DEF RequestRecords
  <2>4. req[r].index + 1 \in DOMAIN req[r].chain
    BY <1>1, <1>2 DEF Positioned, RequestRecords
  <2> HIDE DEF n
  <2>5. Positioned(n)
    BY <2>2, <2>3, <2>4 DEF Positioned
  <2>6. QED
    BY <2>2, <2>5 DEF n
<1>3. CASE ~(fallback /\ req[r].index < Len(req[r].chain))
  <2>1. NextCandidate(r, fallback) = [req[r] EXCEPT !.pc = "failed"]
    BY <1>3 DEF NextCandidate
  <2>2. QED
    BY <1>1, <2>1 DEF Positioned, RequestRecords, Pcs
<1>4. QED
  BY <1>2, <1>3

-----------------------------------------------------------------------------
LEMMA ExecuteMoves ==
  ASSUME RequestsPositioned, NEW r \in Requests, NEW slot \in SlotNames, Execute(r, slot)
  PROVE  /\ RequestsPositioned'
         /\ req'[r].pc = "trying" /\ req'[r].index = 1 /\ ~req'[r].recorded
         /\ \A q \in Requests \ {r} : req'[q] = req[q]
<1> DEFINE n == [req[r] EXCEPT !.pc = "trying", !.chain = Candidates(slot), !.index = 1]
<1>1. req' = [req EXCEPT ![r] = n]
  BY DEF Execute
<1>2. Candidates(slot) \in Seq(SlotNames) /\ 1 \in DOMAIN Candidates(slot)
  BY CandidatesType
<1>3. Positioned(n) /\ n.pc = "trying" /\ n.index = 1 /\ ~n.recorded
  BY <1>2, SettingsAssumption
     DEF RequestsPositioned, Positioned, RequestRecords, Pcs, SlotNames, Execute, Idle
<1> HIDE DEF n
<1>4. QED
  BY <1>1, <1>3 DEF RequestsPositioned, Positioned

LEMMA SkipMoves ==
  ASSUME RequestsPositioned, NEW r \in Requests, Skip(r)
  PROVE  /\ RequestsPositioned'
         /\ req'[r].chain = req[r].chain
         /\ \/ req'[r].pc = "failed" /\ req'[r].index = req[r].index
            \/ req'[r].pc = "trying" /\ req'[r].index = req[r].index + 1 /\ ~req'[r].recorded
         /\ \A q \in Requests \ {r} : req'[q] = req[q]
<1>1. req[r].pc = "trying" /\ FallbackEnabled \in BOOLEAN
  BY SettingsAssumption DEF Skip
<1>2. req' = [req EXCEPT ![r] = NextCandidate(r, FallbackEnabled)]
  BY DEF Skip
<1>3. req \in [Requests -> RequestRecords] /\ NextCandidate(r, FallbackEnabled) \in RequestRecords
  BY <1>1, NextCandidateType DEF RequestsPositioned, Positioned
<1>4. req'[r] = NextCandidate(r, FallbackEnabled) /\ \A q \in Requests \ {r} : req'[q] = req[q]
  BY <1>2, <1>3
<1>5. Positioned(req'[r]) /\ req' \in [Requests -> RequestRecords]
  BY <1>1, <1>2, <1>3, <1>4, NextCandidateType
<1>6. RequestsPositioned'
  BY <1>4, <1>5 DEF RequestsPositioned, Positioned
<1>7. QED
  BY <1>1, <1>4, <1>6, NextCandidateType

LEMMA CallMoves ==
  ASSUME RequestsPositioned, NEW r \in Requests, Call(r)
  PROVE  /\ RequestsPositioned'
         /\ At(r) \in Providers
         /\ req'[r].pc = "calling" /\ req'[r].chain = req[r].chain
         /\ req'[r].index = req[r].index /\ ~req'[r].recorded
         /\ \A q \in Requests \ {r} : req'[q] = req[q]
<1>1. At(r) \in Providers
  BY DEF Call, Refused
<1>2. req' = [req EXCEPT ![r] = [req[r] EXCEPT !.pc = "calling"]] /\ req[r].pc = "trying"
  BY DEF Call
<1>3. Positioned([req[r] EXCEPT !.pc = "calling"])
  BY <1>1, <1>2 DEF RequestsPositioned, Positioned, RequestRecords, Pcs, At
<1>4. QED
  BY <1>1, <1>2, <1>3 DEF RequestsPositioned, Positioned, RequestRecords

LEMMA AnswerMoves ==
  ASSUME RequestsPositioned, NEW r \in Requests, Answer(r)
  PROVE  /\ RequestsPositioned'
         /\ At(r) \in Providers
         /\ req'[r].pc = "answered" /\ req'[r].index = req[r].index
         /\ \A q \in Requests \ {r} : req'[q] = req[q]
<1>1. At(r) \in Providers
  BY DEF Answer, RequestsPositioned, Positioned, At
<1>2. req' = [req EXCEPT ![r] = [req[r] EXCEPT !.pc = "answered"]] /\ req[r].pc = "calling"
  BY DEF Answer
<1>3. Positioned([req[r] EXCEPT !.pc = "answered"])
  BY <1>1, <1>2 DEF RequestsPositioned, Positioned, RequestRecords, Pcs
<1>4. QED
  BY <1>1, <1>2, <1>3 DEF RequestsPositioned, Positioned, RequestRecords

LEMMA RetryMoves ==
  ASSUME RequestsPositioned, NEW r \in Requests, Retry(r)
  PROVE  /\ RequestsPositioned'
         /\ req'[r].pc = "calling" /\ req'[r].index = req[r].index
         /\ req[r].recorded /\ req'[r].recorded
         /\ \A q \in Requests \ {r} : req'[q] = req[q]
<1>1. req' = [req EXCEPT ![r] = [req[r] EXCEPT !.pc = "calling", !.attempt = @ + 1]]
      /\ req[r].pc = "sleeping"
  BY DEF Retry
<1> DEFINE n == [req[r] EXCEPT !.pc = "calling", !.attempt = @ + 1]
<1>2. Positioned(n)
  <2>1. req[r] \in RequestRecords /\ Positioned(req[r])
    BY DEF RequestsPositioned
  <2>2. req[r].attempt + 1 \in 0..MaxRetries /\ "calling" \in Pcs
    BY <1>1, <2>1, SettingsAssumption DEF Positioned, RequestRecords, Pcs
  <2>3. n \in RequestRecords
    BY <2>1, <2>2 DEF RequestRecords
  <2>4. n.pc = "calling" /\ n.chain = req[r].chain /\ n.index = req[r].index
    BY <2>1 DEF RequestRecords
  <2> HIDE DEF n
  <2>5. QED
    BY <1>1, <2>1, <2>3, <2>4 DEF Positioned
<1>3. QED
  BY <1>1, <1>2 DEF RequestsPositioned, Positioned, RequestRecords

LEMMA FailMoves ==
  ASSUME RequestsPositioned, NEW r \in Requests, NEW retryable \in BOOLEAN, Fail(r, retryable)
  PROVE  /\ RequestsPositioned'
         /\ At(r) \in Providers
         /\ \/ req'[r].pc = "failed" /\ req'[r].index = req[r].index
            \/ req'[r].pc = "sleeping" /\ req'[r].index = req[r].index
            \/ req'[r].pc = "trying" /\ req'[r].index = req[r].index + 1
         /\ \A q \in Requests \ {r} : req'[q] = req[q]
<1> DEFINE fallback == FallbackEnabled /\ (retryable \/ FallbackOnNonRetryable)
           sleeping == [req[r] EXCEPT !.pc = "sleeping", !.recorded = TRUE]
           n == IF retryable /\ req[r].attempt < MaxRetries THEN sleeping
                ELSE NextCandidate(r, fallback)
<1>1. req' = [req EXCEPT ![r] = n] /\ req[r].pc = "calling"
  BY DEF Fail
<1>2. At(r) \in Providers
  BY <1>1 DEF RequestsPositioned, Positioned, At
<1>3. /\ Positioned(n)
      /\ \/ n.pc = "failed" /\ n.index = req[r].index
         \/ n.pc = "sleeping" /\ n.index = req[r].index
         \/ n.pc = "trying" /\ n.index = req[r].index + 1
  <2>1. CASE retryable /\ req[r].attempt < MaxRetries
    BY <1>1, <1>2, <2>1 DEF RequestsPositioned, Positioned, RequestRecords, Pcs
  <2>2. CASE ~(retryable /\ req[r].attempt < MaxRetries)
    <3>1. n = NextCandidate(r, fallback) /\ fallback \in BOOLEAN
      BY <2>2, SettingsAssumption
    <3> HIDE DEF n, fallback
    <3>2. QED
      BY <1>1, <3>1, NextCandidateType
  <2>3. QED
    BY <2>1, <2>2
<1> HIDE DEF n
<1>4. QED
  BY <1>1, <1>2, <1>3 DEF RequestsPositioned, Positioned

-----------------------------------------------------------------------------
(***************************************************************************)
(* The circuits.  A closed circuit has no probe on record; while none is in *)
(* flight, the circuit was opened (again) no earlier than the last one.     *)
(***************************************************************************)
HealthTypeOK ==
  /\ clock \in Nat
  /\ fails \in [Providers -> Nat]
  /\ opened \in [Providers -> Nat \cup {NoTime}]
  /\ probing \in [Providers -> BOOLEAN]
  /\ probes \in [Providers -> Seq(Nat)]
  /\ visits \in [Providers -> SUBSET (Requests \X Nat)]

OpenOnFailures ==
  \A p \in Providers : opened[p] # NoTime <=> BreakerEnabled /\ fails[p] >= Threshold

ProbesPast ==
  \A p \in Providers :
    /\ opened[p] = NoTime => probes[p] = <<>>
    /\ \A i \in DOMAIN probes[p] :
         probes[p][i] <= clock /\ (~probing[p] => probes[p][i] <= opened[p])

CircuitsOK == HealthTypeOK /\ OpenOnFailures /\ ProbesPast /\ ProbesSpaced

LEMMA SuccessCircuits ==
  ASSUME CircuitsOK, NEW p \in Providers, RecordSuccess(p), UNCHANGED clock
  PROVE  CircuitsOK'
<1>1. HealthTypeOK'
  BY DEF CircuitsOK, HealthTypeOK, RecordSuccess
<1>2. /\ fails'[p] = 0 /\ opened'[p] = NoTime /\ probing'[p] = FALSE /\ probes'[p] = <<>>
      /\ \A q \in Providers \ {p} : /\ fails'[q] = fails[q] /\ opened'[q] = opened[q]
                                    /\ probing'[q] = probing[q] /\ probes'[q] = probes[q]
  BY DEF CircuitsOK, HealthTypeOK, RecordSuccess
<1>3. OpenOnFailures'
  BY <1>2, SettingsAssumption DEF CircuitsOK, OpenOnFailures
<1>4. ProbesPast'
  BY <1>2 DEF CircuitsOK, ProbesPast
<1>5. ProbesSpaced'
  BY <1>2 DEF CircuitsOK, ProbesSpaced
<1>6. QED
  BY <1>1, <1>3, <1>4, <1>5 DEF CircuitsOK

LEMMA FailureCircuits ==
  ASSUME CircuitsOK, NEW p \in Providers, NEW visit \in Requests \X Nat,
         RecordFailure(p, visit), UNCHANGED clock
  PROVE  CircuitsOK'
<1>1. HealthTypeOK'
  BY DEF CircuitsOK, HealthTypeOK, RecordFailure
<1>2. /\ fails'[p] = fails[p] + 1
      /\ opened'[p] = IF BreakerEnabled /\ fails[p] + 1 >= Threshold THEN clock ELSE opened[p]
      /\ \A q \in Providers \ {p} : /\ fails'[q] = fails[q] /\ opened'[q] = opened[q]
                                    /\ probing'[q] = probing[q]
      /\ probes' = probes
  BY DEF CircuitsOK, HealthTypeOK, RecordFailure
<1>3. OpenOnFailures'
  <2>1. fails[p] \in Nat /\ Threshold \in Nat /\ clock \in Nat
    BY SettingsAssumption DEF CircuitsOK, HealthTypeOK
  <2>2. opened[p] # NoTime <=> BreakerEnabled /\ fails[p] >= Threshold
    BY DEF CircuitsOK, OpenOnFailures
  <2>3. opened'[p] # NoTime <=> BreakerEnabled /\ fails'[p] >= Threshold
    <3>1. CASE BreakerEnabled /\ fails[p] + 1 >= Threshold
      BY <1>2, <2>1, <3>1 DEF NoTime
    <3>2. CASE ~(BreakerEnabled /\ fails[p] + 1 >= Threshold)
      <4>1. ~(BreakerEnabled /\ fails[p] >= Threshold)
        BY <2>1, <3>2
      <4>2. QED
        BY <1>2, <2>2, <3>2, <4>1
    <3>3. QED
      BY <3>1, <3>2
  <2>4. QED
    BY <1>2, <2>3 DEF CircuitsOK, OpenOnFailures
<1>4. ProbesPast'
  <2>1. CASE BreakerEnabled /\ fails[p] + 1 >= Threshold
    BY <1>2, <2>1 DEF CircuitsOK, HealthTypeOK, ProbesPast, NoTime
  <2>2. CASE ~(BreakerEnabled /\ fails[p] + 1 >= Threshold)
    <3>1. opened[p] = NoTime
      BY <2>2, SettingsAssumption DEF CircuitsOK, HealthTypeOK, OpenOnFailures
    <3>2. probes[p] = <<>>
      BY <3>1 DEF CircuitsOK, ProbesPast
    <3>3. QED
      BY <1>2, <2>2, <3>2 DEF CircuitsOK, ProbesPast
  <2>3. QED
    BY <2>1, <2>2
<1>5. ProbesSpaced'
  BY <1>2 DEF CircuitsOK, ProbesSpaced
<1>6. QED
  BY <1>1, <1>3, <1>4, <1>5 DEF CircuitsOK

\* A probe is sent only after the cooldown since the circuit was opened, and
\* with none in flight: a cooldown after every earlier one.
LEMMA ProbeCircuits ==
  ASSUME CircuitsOK, NEW p \in Providers, Available(p), MarkProbeStarted(p),
         UNCHANGED <<clock, fails, opened, visits>>
  PROVE  CircuitsOK'
<1>1. CASE opened[p] = NoTime
  BY <1>1 DEF CircuitsOK, HealthTypeOK, OpenOnFailures, ProbesPast, ProbesSpaced,
              MarkProbeStarted
<1>2. CASE opened[p] # NoTime
  <2>1. BreakerEnabled /\ clock - opened[p] >= Cooldown /\ ~probing[p]
    BY <1>2 DEF Available, CircuitsOK, OpenOnFailures
  <2>2. /\ probing' = [probing EXCEPT ![p] = TRUE]
        /\ probes' = [probes EXCEPT ![p] = Append(@, clock)]
    BY <1>2 DEF MarkProbeStarted
  <2>3. HealthTypeOK'
    BY <2>2 DEF CircuitsOK, HealthTypeOK
  <2>4. OpenOnFailures'
    BY DEF CircuitsOK, OpenOnFailures
  <2>5. /\ probes'[p] = Append(probes[p], clock) /\ probing'[p]
        /\ \A q \in Providers \ {p} : probes'[q] = probes[q] /\ probing'[q] = probing[q]
        /\ probes[p] \in Seq(Nat) /\ clock \in Nat
    BY <2>2 DEF CircuitsOK, HealthTypeOK
  <2>6. /\ DOMAIN probes'[p] = DOMAIN probes[p] \cup {Len(probes[p]) + 1}
        /\ probes'[p][Len(probes[p]) + 1] = clock
        /\ \A i \in DOMAIN probes[p] : i \in Nat /\ i <= Len(probes[p])
                                       /\ probes'[p][i] = probes[p][i]
    BY <2>5
  <2>7. \A i \in DOMAIN probes[p] :
          probes[p][i] \in Nat /\ probes[p][i] <= clock /\ probes[p][i] <= opened[p]
    BY <2>1, <2>5 DEF CircuitsOK, ProbesPast
  <2>8. ProbesPast'
    <3>1. ASSUME NEW q \in Providers
          PROVE  (/\ opened[q] = NoTime => probes[q] = <<>>
                  /\ \A i \in DOMAIN probes[q] :
                       probes[q][i] <= clock /\ (~probing[q] => probes[q][i] <= opened[q]))'
      <4>1. CASE q = p
        <5>1. opened'[p] # NoTime /\ probing'[p]
          BY <1>2, <2>5
        <5>2. \A i \in DOMAIN probes'[p] : probes'[p][i] <= clock'
          BY <2>5, <2>6, <2>7
        <5>3. QED
          BY <4>1, <5>1, <5>2
      <4>2. CASE q # p
        BY <2>5, <4>2 DEF CircuitsOK, ProbesPast
      <4>3. QED
        BY <4>1, <4>2
    <3>2. QED
      BY <3>1 DEF ProbesPast
  <2>9. ProbesSpaced'
    <3>1. ASSUME NEW q \in Providers, NEW i \in DOMAIN probes'[q], NEW j \in DOMAIN probes'[q],
                 i < j
          PROVE  probes'[q][j] - probes'[q][i] >= Cooldown
      <4>1. CASE q # p
        BY <2>5, <3>1, <4>1 DEF CircuitsOK, ProbesSpaced
      <4>2. CASE q = p /\ j = Len(probes[p]) + 1
        <5>1. i \in DOMAIN probes[p]
          BY <2>6, <3>1, <4>2
        <5>2. opened[p] \in Nat
          BY <1>2 DEF CircuitsOK, HealthTypeOK
        <5>3. QED
          BY <2>1, <2>5, <2>6, <2>7, <4>2, <5>1, <5>2, SettingsAssumption
      <4>3. CASE q = p /\ j # Len(probes[p]) + 1
        <5>1. j \in DOMAIN probes[p] /\ i \in DOMAIN probes[p]
          BY <2>5, <2>6, <3>1, <4>3
        <5>2. QED
          BY <2>6, <3>1, <4>3, <5>1 DEF CircuitsOK, ProbesSpaced
      <4>4. QED
        BY <4>1, <4>2, <4>3
    <3>2. QED
      BY <3>1 DEF ProbesSpaced
  <2>10. QED
    BY <2>3, <2>4, <2>8, <2>9 DEF CircuitsOK
<1>3. QED
  BY <1>1, <1>2

LEMMA TickCircuits ==
  ASSUME CircuitsOK, Tick
  PROVE  CircuitsOK'
BY DEF CircuitsOK, HealthTypeOK, OpenOnFailures, ProbesPast, ProbesSpaced, Tick, health

LEMMA IdleCircuits ==
  ASSUME CircuitsOK, UNCHANGED <<clock, health>>
  PROVE  CircuitsOK'
BY DEF CircuitsOK, HealthTypeOK, OpenOnFailures, ProbesPast, ProbesSpaced, health

-----------------------------------------------------------------------------
(***************************************************************************)
(* Visits.  A request goes down its chain, so the visit it is on and the    *)
(* later ones are not on record before they fail: every recorded failure is *)
(* one more visit.                                                          *)
(***************************************************************************)
Unvisited(r) ==
  \A p \in Providers : \A i \in Nat :
    (i > req[r].index \/ (i = req[r].index /\ req[r].pc \in {"trying", "calling"}
                                           /\ ~req[r].recorded))
      => <<r, i>> \notin visits[p]

VisitsCounted ==
  \A p \in Providers : IsFiniteSet(visits[p]) /\ fails[p] = Cardinality(visits[p])

VisitsOK == VisitsCounted /\ \A r \in Requests : Unvisited(r)

LEMMA IndexType ==
  ASSUME RequestsPositioned, NEW r \in Requests
  PROVE  req[r].index \in Nat
BY DEF RequestsPositioned, RequestRecords

LEMMA SuccessVisits ==
  ASSUME CircuitsOK, RequestsPositioned, VisitsOK, NEW r \in Requests, Answer(r)
  PROVE  VisitsOK'
<1>1. At(r) \in Providers /\ RecordSuccess(At(r))
  BY AnswerMoves DEF Answer
<1>2. /\ visits'[At(r)] = {} /\ fails'[At(r)] = 0
      /\ \A q \in Providers \ {At(r)} : visits'[q] = visits[q] /\ fails'[q] = fails[q]
  BY <1>1 DEF RecordSuccess, CircuitsOK, HealthTypeOK
<1>3. VisitsCounted'
  BY <1>2, FS_EmptySet DEF VisitsOK, VisitsCounted
<1>4. \A q \in Requests : Unvisited(q)'
  <2>1. ASSUME NEW q \in Requests
        PROVE  Unvisited(q)'
    <3>1. req'[q].index = req[q].index /\ (req'[q].pc = "answered" \/ req'[q] = req[q])
      BY AnswerMoves
    <3>2. \A p \in Providers : visits'[p] \subseteq visits[p]
      BY <1>2
    <3>3. Unvisited(q)
      BY DEF VisitsOK
    <3>4. QED
      BY <3>1, <3>2, <3>3 DEF Unvisited
  <2>2. QED
    BY <2>1
<1>5. QED
  BY <1>3, <1>4 DEF VisitsOK

LEMMA FailureVisits ==
  ASSUME CircuitsOK, RequestsPositioned, VisitsOK, NEW r \in Requests,
         NEW retryable \in BOOLEAN, Fail(r, retryable)
  PROVE  VisitsOK'
<1> DEFINE v == <<r, req[r].index>>
           n == req'[r]
<1>1. /\ At(r) \in Providers /\ req[r].index \in Nat /\ req[r].pc = "calling"
      /\ \A q \in Requests \ {r} : req'[q] = req[q]
  BY FailMoves, IndexType DEF Fail
<1>2. \/ n.pc = "failed" /\ n.index = req[r].index
      \/ n.pc = "sleeping" /\ n.index = req[r].index
      \/ n.pc = "trying" /\ n.index = req[r].index + 1
  BY FailMoves
<1>3. Unvisited(r) /\ \A q \in Requests \ {r} : Unvisited(q)
  BY DEF VisitsOK
<1>4. CASE req[r].recorded
  <2>1. UNCHANGED <<fails, visits>>
    BY <1>4 DEF Fail, health
  <2>2. VisitsCounted'
    BY <2>1 DEF VisitsOK, VisitsCounted
  <2>3. Unvisited(r)'
    BY <1>1, <1>2, <1>3, <2>1 DEF Unvisited
  <2>4. \A q \in Requests \ {r} : Unvisited(q)'
    BY <1>1, <1>3, <2>1 DEF Unvisited
  <2>5. QED
    BY <2>2, <2>3, <2>4 DEF VisitsOK
<1>5. CASE ~req[r].recorded
  <2>1. RecordFailure(At(r), v)
    BY <1>5 DEF Fail
  <2>2. /\ visits'[At(r)] = visits[At(r)] \cup {v} /\ fails'[At(r)] = fails[At(r)] + 1
        /\ \A q \in Providers \ {At(r)} : visits'[q] = visits[q] /\ fails'[q] = fails[q]
    BY <1>1, <2>1 DEF RecordFailure, CircuitsOK, HealthTypeOK
  <2>3. v \notin visits[At(r)]
    BY <1>1, <1>3, <1>5 DEF Unvisited
  <2>4. VisitsCounted'
    <3>1. IsFiniteSet(visits[At(r)]) /\ fails[At(r)] = Cardinality(visits[At(r)])
      BY <1>1 DEF VisitsOK, VisitsCounted
    <3>2. /\ IsFiniteSet(visits[At(r)] \cup {v})
          /\ Cardinality(visits[At(r)] \cup {v}) = Cardinality(visits[At(r)]) + 1
      BY <2>3, <3>1, FS_AddElement
    <3>3. IsFiniteSet(visits'[At(r)]) /\ fails'[At(r)] = Cardinality(visits'[At(r)])
      BY <2>2, <3>1, <3>2
    <3>4. QED
      BY <1>1, <2>2, <3>3 DEF VisitsOK, VisitsCounted
  <2>5. \A p \in Providers : visits'[p] \subseteq visits[p] \cup {v}
    BY <2>2
  <2>6. Unvisited(r)'
    BY <1>1, <1>2, <1>3, <2>5 DEF Unvisited
  <2>7. \A q \in Requests \ {r} : Unvisited(q)'
    BY <1>1, <1>3, <2>5 DEF Unvisited
  <2>8. QED
    BY <2>4, <2>6, <2>7 DEF VisitsOK
<1>6. QED
  BY <1>4, <1>5

\* The steps that record nothing.
LEMMA OtherVisits ==
  ASSUME RequestsPositioned, VisitsOK, UNCHANGED <<fails, visits>>,
         NEW r \in Requests,
         \A q \in Requests \ {r} : req'[q] = req[q],
         \/ req'[r] = req[r]
         \/ req'[r].index \in Nat /\ req'[r].index > req[r].index
         \/ req'[r].index = req[r].index /\ req'[r].pc = "failed"
         \/ req'[r].index = req[r].index /\ req'[r].recorded
         \/ req'[r].index = req[r].index /\ req[r].pc = "trying" /\ ~req[r].recorded
  PROVE  VisitsOK'
<1>1. VisitsCounted'
  BY DEF VisitsOK, VisitsCounted
<1>2. Unvisited(r)'
  BY IndexType DEF VisitsOK, Unvisited
<1>3. \A q \in Requests \ {r} : Unvisited(q)'
  BY DEF VisitsOK, Unvisited
<1>4. QED
  BY <1>1, <1>2, <1>3 DEF VisitsOK

-----------------------------------------------------------------------------
(***************************************************************************)
(* Probes in flight.                                                        *)
(***************************************************************************)
Owns(r, p) == req[r].pc = "calling" /\ ~req[r].recorded /\ At(r) = p

\* What a step must do to keep every probe flag owned: it raises a flag only
\* for the request that moves, and drops those of a request that lets go.
LEMMA OwnersKept ==
  ASSUME ProbeHasOwner, NEW r \in Requests, \A q \in Requests \ {r} : req'[q] = req[q],
         \A p \in Providers : probing'[p] => Owns(r, p)' \/ (probing[p] /\ ~Owns(r, p))
  PROVE  ProbeHasOwner'
<1>1. ASSUME NEW p \in Providers, probing'[p]
      PROVE  \E q \in Requests : Owns(q, p)'
  <2>1. CASE Owns(r, p)'
    BY <2>1
  <2>2. CASE probing[p] /\ ~Owns(r, p)
    <3>1. PICK q \in Requests : Owns(q, p)
      BY <2>2 DEF ProbeHasOwner, Owns
    <3>2. q # r
      BY <2>2, <3>1
    <3>3. req'[q] = req[q]
      BY <3>2
    <3>4. Owns(q, p)'
      BY <3>1, <3>3 DEF Owns, At
    <3>5. QED
      BY <3>4
  <2>3. QED
    BY <1>1, <2>1, <2>2
<1>2. QED
  BY <1>1 DEF ProbeHasOwner, Owns

-----------------------------------------------------------------------------
GatewayInv == CircuitsOK /\ RequestsPositioned /\ VisitsOK /\ ProbeHasOwner

LEMMA InitGateway == Init => GatewayInv
<1> SUFFICES ASSUME Init PROVE GatewayInv
  OBVIOUS
<1>1. HealthTypeOK
  BY DEF Init, HealthTypeOK, NoTime
<1>2. OpenOnFailures
  BY SettingsAssumption DEF Init, OpenOnFailures
<1>3. ProbesPast /\ ProbesSpaced
  BY DEF Init, ProbesPast, ProbesSpaced
<1>4. Positioned(Idle)
  <2>1. <<>> \in Seq(SlotNames) /\ 0 \in 0..MaxRetries
    BY SettingsAssumption
  <2>2. QED
    BY <2>1 DEF Positioned, RequestRecords, Pcs, Idle, SlotNames
<1>5. RequestsPositioned
  BY <1>4 DEF Init, RequestsPositioned, Positioned
<1>6. VisitsOK
  BY FS_EmptySet DEF Init, VisitsOK, VisitsCounted, Unvisited
<1>7. ProbeHasOwner
  BY DEF Init, ProbeHasOwner
<1>8. QED
  BY <1>1, <1>2, <1>3, <1>5, <1>6, <1>7 DEF GatewayInv, CircuitsOK

LEMMA ExecuteGateway ==
  ASSUME GatewayInv, NEW r \in Requests, NEW slot \in SlotNames, Execute(r, slot)
  PROVE  GatewayInv'
<1>1. UNCHANGED <<clock, health>> /\ req[r] = Idle
  BY DEF Execute
<1>2. CircuitsOK'
  BY <1>1, IdleCircuits DEF GatewayInv
<1>3. VisitsOK'
  BY <1>1, ExecuteMoves, OtherVisits DEF GatewayInv, health, Idle
<1>4. \A p \in Providers : probing'[p] => probing[p] /\ ~Owns(r, p)
  BY <1>1 DEF health, Owns, Idle
<1>5. ProbeHasOwner'
  BY <1>4, ExecuteMoves, OwnersKept DEF GatewayInv
<1>6. QED
  BY <1>2, <1>3, <1>5, ExecuteMoves DEF GatewayInv

LEMMA SkipGateway ==
  ASSUME GatewayInv, NEW r \in Requests, Skip(r)
  PROVE  GatewayInv'
<1>1. UNCHANGED <<clock, health>> /\ req[r].pc = "trying"
  BY DEF Skip
<1>2. CircuitsOK'
  BY <1>1, IdleCircuits DEF GatewayInv
<1>3. req[r].index \in Nat
  BY IndexType DEF GatewayInv
<1>4. \/ req'[r].index \in Nat /\ req'[r].index > req[r].index
      \/ req'[r].index = req[r].index /\ req'[r].pc = "failed"
  BY <1>3, SkipMoves DEF GatewayInv
<1>5. VisitsOK'
  BY <1>1, <1>4, SkipMoves, OtherVisits DEF GatewayInv, health
<1>6. \A p \in Providers : probing'[p] => probing[p] /\ ~Owns(r, p)
  BY <1>1 DEF health, Owns
<1>7. ProbeHasOwner'
  BY <1>6, SkipMoves, OwnersKept DEF GatewayInv
<1>8. QED
  BY <1>2, <1>5, <1>7, SkipMoves DEF GatewayInv

LEMMA CallGateway ==
  ASSUME GatewayInv, NEW r \in Requests, Call(r)
  PROVE  GatewayInv'
<1>1. /\ At(r) \in Providers /\ Available(At(r)) /\ MarkProbeStarted(At(r))
      /\ UNCHANGED <<clock, fails, opened, visits>> /\ req[r].pc = "trying"
  BY CallMoves DEF GatewayInv, Call, Refused
<1>2. CircuitsOK'
  BY <1>1, ProbeCircuits DEF GatewayInv
<1>3. ~req[r].recorded
  BY <1>1 DEF GatewayInv, RequestsPositioned, Positioned
<1>4. VisitsOK'
  BY <1>1, <1>3, CallMoves, OtherVisits DEF GatewayInv
<1>5. At(r)' = At(r) /\ req'[r].pc = "calling" /\ ~req'[r].recorded
  BY CallMoves DEF GatewayInv, At
<1>6. \A p \in Providers \ {At(r)} : probing'[p] = probing[p]
  BY <1>1 DEF MarkProbeStarted, GatewayInv, CircuitsOK, HealthTypeOK
<1>7. \A p \in Providers : ~Owns(r, p)
  BY <1>1 DEF Owns
<1>8. \A p \in Providers : probing'[p] => Owns(r, p)' \/ (probing[p] /\ ~Owns(r, p))
  <2>1. ASSUME NEW p \in Providers, probing'[p]
        PROVE  Owns(r, p)' \/ (probing[p] /\ ~Owns(r, p))
    <3>1. CASE p = At(r)
      <4>1. Owns(r, p)'
        BY <1>5, <3>1 DEF Owns
      <4>2. QED
        BY <4>1
    <3>2. CASE p # At(r)
      BY <1>6, <1>7, <2>1, <3>2
    <3>3. QED
      BY <3>1, <3>2
  <2>2. QED
    BY <2>1
<1>9. ProbeHasOwner'
  BY <1>8, CallMoves, OwnersKept DEF GatewayInv
<1>10. QED
  BY <1>2, <1>4, <1>9, CallMoves DEF GatewayInv

LEMMA AnswerGateway ==
  ASSUME GatewayInv, NEW r \in Requests, Answer(r)
  PROVE  GatewayInv'
<1>1. At(r) \in Providers /\ RecordSuccess(At(r)) /\ UNCHANGED clock
  BY AnswerMoves DEF GatewayInv, Answer
<1>2. CircuitsOK'
  BY <1>1, SuccessCircuits DEF GatewayInv
<1>3. VisitsOK'
  BY SuccessVisits DEF GatewayInv
<1>4. /\ ~probing'[At(r)]
      /\ \A p \in Providers \ {At(r)} : probing'[p] = probing[p]
  BY <1>1 DEF RecordSuccess, GatewayInv, CircuitsOK, HealthTypeOK
<1>5. \A p \in Providers : probing'[p] => probing[p] /\ ~Owns(r, p)
  BY <1>4 DEF Owns
<1>6. ProbeHasOwner'
  BY <1>5, AnswerMoves, OwnersKept DEF GatewayInv
<1>7. QED
  BY <1>2, <1>3, <1>6, AnswerMoves DEF GatewayInv

LEMMA FailGateway ==
  ASSUME GatewayInv, NEW r \in Requests, NEW retryable \in BOOLEAN, Fail(r, retryable)
  PROVE  GatewayInv'
<1>1. At(r) \in Providers /\ UNCHANGED clock /\ <<r, req[r].index>> \in Requests \X Nat
  BY FailMoves, IndexType DEF GatewayInv, Fail
<1>2. CircuitsOK' /\ \A p \in Providers : probing'[p] => probing[p] /\ ~Owns(r, p)
  <2>1. CASE req[r].recorded
    <3>1. UNCHANGED <<clock, health>>
      BY <2>1 DEF Fail
    <3>2. QED
      BY <2>1, <3>1, IdleCircuits DEF GatewayInv, Owns, health
  <2>2. CASE ~req[r].recorded
    <3>1. RecordFailure(At(r), <<r, req[r].index>>)
      BY <2>2 DEF Fail
    <3>2. CircuitsOK'
      BY <1>1, <3>1, FailureCircuits DEF GatewayInv
    <3>3. /\ ~probing'[At(r)]
          /\ \A p \in Providers \ {At(r)} : probing'[p] = probing[p]
      BY <1>1, <3>1 DEF RecordFailure, GatewayInv, CircuitsOK, HealthTypeOK
    <3>4. QED
      BY <3>2, <3>3 DEF Owns
  <2>3. QED
    BY <2>1, <2>2
<1>3. VisitsOK'
  BY FailureVisits DEF GatewayInv
<1>4. ProbeHasOwner'
  BY <1>2, FailMoves, OwnersKept DEF GatewayInv
<1>5. QED
  BY <1>2, <1>3, <1>4, FailMoves DEF GatewayInv

LEMMA RetryGateway ==
  ASSUME GatewayInv, NEW r \in Requests, Retry(r)
  PROVE  GatewayInv'
<1>1. UNCHANGED <<clock, health>> /\ req[r].pc = "sleeping"
  BY DEF Retry
<1>2. CircuitsOK'
  BY <1>1, IdleCircuits DEF GatewayInv
<1>3. VisitsOK'
  BY <1>1, RetryMoves, OtherVisits DEF GatewayInv, health
<1>4. \A p \in Providers : probing'[p] => probing[p] /\ ~Owns(r, p)
  BY <1>1 DEF health, Owns
<1>5. ProbeHasOwner'
  BY <1>4, RetryMoves, OwnersKept DEF GatewayInv
<1>6. QED
  BY <1>2, <1>3, <1>5, RetryMoves DEF GatewayInv

LEMMA QuietGateway ==
  ASSUME GatewayInv, Tick \/ UNCHANGED vars
  PROVE  GatewayInv'
<1>1. UNCHANGED <<fails, opened, probing, probes, visits, req>>
  BY DEF Tick, vars, health
<1>2. CircuitsOK'
  BY TickCircuits, IdleCircuits DEF GatewayInv, vars, health
<1>3. RequestsPositioned' /\ VisitsOK' /\ ProbeHasOwner'
  BY <1>1 DEF GatewayInv, RequestsPositioned, Positioned, VisitsOK, VisitsCounted, Unvisited,
              ProbeHasOwner, At
<1>4. QED
  BY <1>2, <1>3 DEF GatewayInv

\* GatewayInv is inductive.
LEMMA GatewayInvariant == Spec => []GatewayInv
<1>1. GatewayInv /\ [Next]_vars => GatewayInv'
  <2> SUFFICES ASSUME GatewayInv, [Next]_vars PROVE GatewayInv'
    OBVIOUS
  <2>1. CASE Tick \/ UNCHANGED vars
    BY <2>1, QuietGateway
  <2>2. ASSUME NEW r \in Requests, NEW slot \in SlotNames, Execute(r, slot)
        PROVE  GatewayInv'
    BY <2>2, ExecuteGateway
  <2>3. ASSUME NEW r \in Requests, Step(r)
        PROVE  GatewayInv'
    BY <2>3, SkipGateway, CallGateway, AnswerGateway, FailGateway, RetryGateway DEF Step
  <2>4. QED
    BY <2>1, <2>2, <2>3 DEF Next, SlotNames
<1>2. QED
  BY <1>1, InitGateway, PTL DEF Spec

\* Every variable keeps its type, and a request never leaves its chain nor is
\* sent to a slot without a provider (execute, resolveCandidateSlots).
THEOREM GatewayTypeCorrect == Spec => []TypeOK
<1>1. GatewayInv => TypeOK
  BY DEF GatewayInv, CircuitsOK, HealthTypeOK, RequestsPositioned, Positioned, TypeOK, At
<1>2. QED
  BY <1>1, GatewayInvariant, PTL

\* A circuit is open exactly when Threshold visits failed since the provider last
\* answered: neither retries nor late failures count twice (recordFailure).
THEOREM CircuitCountsVisits == Spec => []OpensOnThresholdVisits
<1>1. GatewayInv => OpensOnThresholdVisits
  BY DEF GatewayInv, CircuitsOK, OpenOnFailures, VisitsOK, VisitsCounted, OpensOnThresholdVisits
<1>2. QED
  BY <1>1, GatewayInvariant, PTL

\* Probes of an open circuit are a cooldown apart, however the failures of older
\* requests interleave with them (isAvailable, markProbeStarted).
THEOREM ProbesAreSpaced == Spec => []ProbesSpaced
<1>1. GatewayInv => ProbesSpaced
  BY DEF GatewayInv, CircuitsOK
<1>2. QED
  BY <1>1, GatewayInvariant, PTL

\* circuitProbeInFlight is set only while a call whose outcome clears it is under way.
THEOREM ProbesAreOwned == Spec => []ProbeHasOwner
<1>1. GatewayInv => ProbeHasOwner
  BY DEF GatewayInv
<1>2. QED
  BY <1>1, GatewayInvariant, PTL
=============================================================================
