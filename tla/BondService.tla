---------------------------- MODULE BondService ----------------------------
(***************************************************************************)
(* The bonds of one life (bond/src/index.ts): how much an update moves the  *)
(* metrics, the service that looks a bond up, computes its metrics and then *)
(* writes them, the two repositories, and the context provider.             *)
(*                                                                          *)
(* An action is the code between two awaits of a repository call.  The      *)
(* module has no next-state relation of its own: BehaviorExecution composes *)
(* these actions with the plans that ask for them.                          *)
(***************************************************************************)
EXTENDS Integers, FiniteSetsExt, SequencesExt, Filters

CONSTANTS
  Chats,           \* the chats in which this life is working
  None, Life,
  Backends,        \* the repositories to consider: "memory", "mongo"
  CandidateLimit, ContextLimit,
  AiSelector,      \* whether a model may select the bonds of a context
  MaxBonds         \* bound on the bonds created

BondIds == 1..MaxBonds

VARIABLES
  backend,
  bonds,       \* id -> bond
  made,        \* number of bonds created
  asking,      \* per chat: the call of the service or of the provider in progress
  answered,    \* history: target -> number of updates answered
  disturbed,   \* history: targets updated by two chats at once, or by a failing call
  stray        \* history: bonds a context held to others than it was asked for

bondvars == <<backend, bonds, made, asking, answered, disturbed, stray>>

-----------------------------------------------------------------------------
(***************************************************************************)
(* Metrics, in ten-thousandths.                                             *)
(***************************************************************************)
Metrics == {"familiarity", "intimacy", "trust", "tension", "dependence"}
Full == 10000

\* baseMetrics of a new bond.
BaseMetrics ==
  [k \in Metrics |-> CASE k \in {"familiarity", "trust"} -> 1000
                       [] k = "intimacy" -> 500
                       [] k \in {"tension", "dependence"} -> 0]

\* resolveDelta: how far an interaction moves a metric; s is 100 times the
\* scale, 50 to 150.
Delta(r) ==
  LET s == 50 + r.suggestion
      bonus == IF r.kind # None THEN s ELSE 0
      moves == CASE r.sentiment = "negative" ->
                      [familiarity |-> s, trust |-> -2 * s, tension |-> 3 * s]
                 [] r.sentiment = "positive" ->
                      [familiarity |-> 3 * s, intimacy |-> 2 * s, trust |-> 2 * s,
                       tension |-> -2 * s]
                 [] OTHER -> [familiarity |-> s + bonus, trust |-> s \div 2]
  IN  [k \in Metrics |-> IF k \in DOMAIN moves THEN moves[k] ELSE 0]

\* Mutant: a metric is not kept between 0 and 1.
Unclamped(v) == v

Clamp(v) == Max({0, Min({Full, v})})

ApplyDelta(metrics, delta) == [k \in Metrics |-> Clamp(metrics[k] + delta[k])]

\* resolveTarget, for requests that name no target of their own.
Target(r) ==
  CASE r.actor # None -> <<"actor", r.actor>>
    [] r.actor = None /\ r.habitat # None -> <<"habitat", r.habitat>>
    [] OTHER -> <<"life", Life>>

NoBond == [target |-> None]
Bonds == {i \in BondIds : bonds[i] # NoBond}

NewBond(r) ==
  [target |-> Target(r), actor |-> r.actor, count |-> 1,
   metrics |-> ApplyDelta(BaseMetrics, Delta(r))]

-----------------------------------------------------------------------------
(***************************************************************************)
(* DefaultBondService.update.                                               *)
(***************************************************************************)
Idle == [pc |-> "idle"]

BondInit ==
  /\ backend \in Backends
  /\ bonds = [i \in BondIds |-> NoBond] /\ made = 0
  /\ asking = [c \in Chats |-> Idle]
  /\ answered = <<>> /\ disturbed = {} /\ stray = {}

Updating(c) == asking[c] # Idle /\ asking[c].pc # "collect"

\* An update is asked for.
AskBond(c, r) ==
  /\ asking[c] = Idle
  /\ asking' = [asking EXCEPT ![c] = [pc |-> "find", req |-> r]]
  /\ disturbed' = disturbed \cup
       {t \in {Target(r)} : \E d \in Chats : Updating(d) /\ Target(asking[d].req) = t}
  /\ UNCHANGED <<backend, bonds, made, answered, stray>>

\* Mutant: the bond is looked up by the actor alone.
FoundByActor(r) == {i \in Bonds : r.actor # None /\ bonds[i].actor = r.actor}

\* getByLifeAndTarget: the bonds there are to find.
Found(r) == {i \in Bonds : bonds[i].target = Target(r)}

\* The metrics and the count that will be written are computed from what was
\* found.
FindBond(c) ==
  /\ asking[c].pc = "find"
  /\ LET r == asking[c].req IN
     \/ \E i \in Found(r) :
          asking' = [asking EXCEPT ![c] =
            [pc |-> "update", id |-> i, req |-> r, count |-> bonds[i].count + 1,
             metrics |-> ApplyDelta(bonds[i].metrics, Delta(r))]]
     \/ /\ Found(r) = {}
        /\ asking' = [asking EXCEPT ![c] = [pc |-> "save", req |-> r]]
  /\ UNCHANGED <<backend, bonds, made, answered, disturbed, stray>>

Answer(c) ==
  /\ asking' = [asking EXCEPT ![c] = Idle]
  /\ answered' = LET t == Target(asking[c].req) IN
       [x \in DOMAIN answered \cup {t} |->
          (IF x \in DOMAIN answered THEN answered[x] ELSE 0) + (IF x = t THEN 1 ELSE 0)]

\* repository.update: the Map at once, the collection in a second call.
UpdateBond(c) ==
  /\ asking[c].pc \in {"update", "upsert"}
  /\ LET w == asking[c] IN
     \/ /\ backend = "memory" \/ w.pc = "upsert"
        /\ bonds' = [bonds EXCEPT ![w.id].metrics = w.metrics, ![w.id].count = w.count]
        /\ Answer(c)
     \/ /\ backend = "mongo" /\ w.pc = "update"
        /\ asking' = [asking EXCEPT ![c].pc = "upsert"]
        /\ UNCHANGED <<bonds, answered>>
  /\ UNCHANGED <<backend, made, disturbed, stray>>

SaveBond(c) ==
  /\ asking[c].pc = "save" /\ made < MaxBonds
  /\ made' = made + 1
  /\ bonds' = [bonds EXCEPT ![made'] = NewBond(asking[c].req)]
  /\ Answer(c)
  /\ UNCHANGED <<backend, disturbed, stray>>

\* A repository call throws: the service answers with bond.update.failed, the
\* provider with bond.context.failed.
BondThrows(c) ==
  /\ asking[c] # Idle
  /\ asking' = [asking EXCEPT ![c] = Idle]
  /\ disturbed' = IF Updating(c) THEN disturbed \cup {Target(asking[c].req)} ELSE disturbed
  /\ UNCHANGED <<backend, bonds, made, answered, stray>>

-----------------------------------------------------------------------------
(***************************************************************************)
(* The context of a request: the bonds to whom and what it names.           *)
(***************************************************************************)
NamedFields(q) == {f \in {"actor", "thread", "habitat"} : q[f] # None}
Named(q) == {<<f, q[f]>> : f \in NamedFields(q)}

TargetQueries(q) ==
  LET fields == Only(<<"actor", "thread", "habitat">>, NamedFields(q))
  IN  [i \in DOMAIN fields |-> <<fields[i], q[fields[i]]>>]

\* Mutant: the bonds to everyone are the fallback for finding none.
QueriesWithFallback(q) == Append(TargetQueries(q), None)

\* One query for each, and one for all bonds when the request names nobody.
BondQueries(q) == IF NamedFields(q) = {} THEN <<None>> ELSE TargetQueries(q)

AskContext(c, q) ==
  /\ asking[c] = Idle
  /\ asking' = [asking EXCEPT ![c] =
       [pc |-> "collect", ctx |-> q, left |-> BondQueries(q), got |-> {}]]
  /\ UNCHANGED <<backend, bonds, made, answered, disturbed, stray>>

\* interactionCount desc, and of two alike the later one.
Busier(i, j) == bonds[i].count > bonds[j].count \/ (bonds[i].count = bonds[j].count /\ i > j)

CollectBonds(c) ==
  /\ asking[c].pc = "collect" /\ asking[c].left # <<>>
  /\ LET w == asking[c]
         match == {i \in Bonds : Head(w.left) \in {None, bonds[i].target}}
         read == {i \in match : Cardinality({j \in match : Busier(j, i)}) < CandidateLimit}
     IN  asking' = [asking EXCEPT
           ![c].left = Tail(@),
           ![c].got = {p \in @ : p[1] \notin read} \cup {<<i, bonds[i]>> : i \in read}]
  /\ UNCHANGED <<backend, bonds, made, answered, disturbed, stray>>

\* scoreBond, without the interaction history and recency, worth at most 1800.
\* (The score of every bond is above minScore.)
BondScore(b, q) ==
  (CASE b.target = <<"actor", q.actor>> -> 3500
     [] b.target = <<"thread", q.thread>> -> 2000
     [] b.target = <<"habitat", q.habitat>> -> 1500
     [] OTHER -> 0)
  + Min({2500, (2 * (b.metrics["familiarity"] + b.metrics["intimacy"] + b.metrics["trust"])
                  + b.metrics["dependence"]) \div 28})
  + (IF b.metrics["tension"] >= 3000 THEN Min({1200, (12 * b.metrics["tension"]) \div 100}) ELSE 0)

\* RuleBasedBondRelevanceSelector, and the ids a model answers with.
BondSelections(items, q) ==
  {S \in SUBSET items :
     \/ /\ Cardinality(S) = Min({ContextLimit, Cardinality(items)})
        /\ \A e \in S, f \in items \ S : BondScore(f[2], q) <= BondScore(e[2], q) + 1800
     \/ AiSelector /\ Cardinality(S) \in 1..ContextLimit}

SelectBonds(c) ==
  /\ asking[c].pc = "collect" /\ asking[c].left = <<>>
  /\ LET w == asking[c] IN
     \E items \in BondSelections(w.got, w.ctx) :
       stray' = stray \cup {p[2].target : p \in {p \in items :
                              Named(w.ctx) # {} /\ p[2].target \notin Named(w.ctx)}}
  /\ asking' = [asking EXCEPT ![c] = Idle]
  /\ UNCHANGED <<backend, bonds, made, answered, disturbed>>

BondStep(c) ==
  FindBond(c) \/ UpdateBond(c) \/ SaveBond(c) \/ CollectBonds(c) \/ SelectBonds(c)

-----------------------------------------------------------------------------
BondTypeOK ==
  /\ backend \in Backends /\ made \in 0..MaxBonds
  /\ \A i \in BondIds :
       bonds[i] = NoBond \/ (i <= made /\ bonds[i].metrics \in [Metrics -> 0..Full])

\* A target that chats update one after the other, without failures, has one
\* bond, and every answered update is one of its interactions: nothing but an
\* overlap or a failing call makes a second bond or loses an interaction.
BondsExact ==
  \A t \in DOMAIN answered \ disturbed :
    \E i \in Bonds : /\ \A j \in Bonds : bonds[j].target = t <=> i = j
                     /\ bonds[i].count = answered[t]

\* A context that was asked about somebody holds no bond to anybody else,
\* whoever selected it and whatever was written while it was collected.
ContextNamesAsked == stray = {}
=============================================================================
