------------------------- MODULE LifeServicesProofs -------------------------
(***************************************************************************)
(* Proofs about LifeServices: that reports tell what was stored and bonds  *)
(* are exact (BehaviorExecution, BondService); and that requests are well  *)
(* formed, histories tell what was said, and outputs are sent once and in  *)
(* order (ToolLoop, WakeTurn).                                             *)
(***************************************************************************)
EXTENDS LifeServices, FilterProofs, FiniteSetTheorems, TLAPS

(***************************************************************************)
(* Bonds: types.                                                           *)
(***************************************************************************)
BondIds == 1..MaxBonds
PlanBonds == {p.bond : p \in UNION {PlansOf[c] : c \in Chats}}
Targets == {Plans!Target(r) : r \in PlanBonds}
MetricsSet == [Plans!Metrics -> 0..Plans!Full]
BondSet ==
  [target : Targets, actor : {r.actor : r \in PlanBonds}, count : Nat, metrics : MetricsSet]
Queried == {None} \cup UNION {Plans!Named(q) : q \in Asked}

Askings ==
  {Plans!Idle} \cup [pc : {"find", "save"}, req : PlanBonds]
    \cup [pc : {"update", "upsert"}, id : BondIds, req : PlanBonds, count : Nat,
          metrics : MetricsSet]
    \cup [pc : {"collect"}, ctx : Asked, left : Seq(Queried), got : SUBSET (BondIds \X BondSet)]

BondsTyped ==
  /\ made \in 0..MaxBonds
  /\ bonds \in [BondIds -> BondSet \cup {Plans!NoBond}]
  /\ \A i \in BondIds : bonds[i] # Plans!NoBond => i <= made
  /\ asking \in [Chats -> Askings]
  /\ \A c \in Chats :
       asking[c].pc \in {"update", "upsert"} =>
         /\ bonds[asking[c].id] # Plans!NoBond
         /\ bonds[asking[c].id].target = Plans!Target(asking[c].req)
  /\ DOMAIN answered \subseteq Targets /\ answered \in [DOMAIN answered -> Nat]

(***************************************************************************)
(* Bonds: what an undisturbed target can rely on.  At most one chat has an *)
(* update of it in progress; there is a bond exactly if an update was      *)
(* answered, and it counts them; a chat about to save found none, and one  *)
(* about to write holds the count that comes next.                         *)
(***************************************************************************)
Working == {"find", "save", "update", "upsert"}
Holding(t) == {i \in BondIds : bonds[i] # Plans!NoBond /\ bonds[i].target = t}
UpdatesOf(t) ==
  {c \in Chats : asking[c].pc \in Working /\ Plans!Target(asking[c].req) = t}

Exact(t) ==
  /\ \A c, d \in UpdatesOf(t) : c = d
  /\ t \notin DOMAIN answered => Holding(t) = {}
  /\ t \in DOMAIN answered =>
       \E i \in BondIds : Holding(t) = {i} /\ bonds[i].count = answered[t]
  /\ \A c \in UpdatesOf(t) :
       /\ asking[c].pc = "save" => Holding(t) = {}
       /\ asking[c].pc \in {"update", "upsert"} =>
            asking[c].count = bonds[asking[c].id].count + 1

BondsKept == \A t \in Targets \ disturbed : Exact(t)

(***************************************************************************)
(* Contexts of bonds: what is collected about somebody is about them.      *)
(***************************************************************************)
AskedOnly ==
  /\ stray = {}
  /\ \A c \in Chats :
       asking[c].pc = "collect" /\ Plans!Named(asking[c].ctx) # {} =>
         /\ \A i \in DOMAIN asking[c].left : asking[c].left[i] \in Plans!Named(asking[c].ctx)
         /\ \A p \in asking[c].got : p[2].target \in Plans!Named(asking[c].ctx)

BondsInv == BondsTyped /\ BondsKept /\ AskedOnly

LEMMA RecordsApart ==
  /\ Plans!NoBond \notin BondSet
  /\ \A w \in Askings : w.pc # "idle" => w # Plans!Idle
  /\ \A w \in Askings : w.pc = "idle" => w = Plans!Idle
  /\ Plans!Idle.pc = "idle"
<1>1. Plans!NoBond \notin BondSet
  <2>1. SUFFICES ASSUME Plans!NoBond \in BondSet PROVE FALSE
    OBVIOUS
  <2>2. DOMAIN Plans!NoBond = {"target"}
    BY DEF Plans!NoBond
  <2>3. "count" \in DOMAIN Plans!NoBond
    BY <2>1 DEF BondSet
  <2>4. QED
    BY <2>2, <2>3
<1>2. QED
  BY <1>1 DEF Askings, Plans!Idle

\* The kinds of a call in progress.
LEMMA AskingKinds ==
  ASSUME NEW w \in Askings
  PROVE  /\ w.pc \in {"find", "save"} => w \in [pc : {"find", "save"}, req : PlanBonds]
         /\ w.pc \in {"update", "upsert"} =>
              w \in [pc : {"update", "upsert"}, id : BondIds, req : PlanBonds, count : Nat,
                     metrics : MetricsSet]
         /\ w.pc = "collect" =>
              w \in [pc : {"collect"}, ctx : Asked, left : Seq(Queried),
                     got : SUBSET (BondIds \X BondSet)]
         /\ w.pc \in {"idle", "find", "save", "update", "upsert", "collect"}
BY DEF Askings, Plans!Idle

LEMMA MinMax ==
  ASSUME NEW a \in Int, NEW b \in Int
  PROVE  /\ Plans!Min({a, b}) \in {a, b} /\ Plans!Min({a, b}) <= a /\ Plans!Min({a, b}) <= b
         /\ Plans!Max({a, b}) \in {a, b} /\ Plans!Max({a, b}) >= a /\ Plans!Max({a, b}) >= b
<1>1. \E x \in {a, b} : \A y \in {a, b} : x <= y
  <2>1. CASE a <= b
    BY <2>1
  <2>2. CASE b <= a
    BY <2>2
  <2>3. QED
    BY <2>1, <2>2
<1>2. \E x \in {a, b} : \A y \in {a, b} : x >= y
  <2>1. CASE a >= b
    BY <2>1
  <2>2. CASE b >= a
    BY <2>2
  <2>3. QED
    BY <2>1, <2>2
<1>3. QED
  BY <1>1, <1>2 DEF Plans!Min, Plans!Max

LEMMA ClampIn ==
  ASSUME NEW v \in Int
  PROVE  Plans!Clamp(v) \in 0..Plans!Full
<1>1. PICK m : m = Plans!Min({Plans!Full, v})
  OBVIOUS
<1>2. m \in Int /\ m <= Plans!Full /\ Plans!Full = 10000
  BY <1>1, MinMax DEF Plans!Full
<1>3. PICK x : x = Plans!Max({0, m})
  OBVIOUS
<1>4. x \in {0, m} /\ x >= 0
  BY <1>2, <1>3, MinMax
<1>5. x \in 0..Plans!Full
  BY <1>2, <1>4
<1>6. QED
  BY <1>1, <1>3, <1>5 DEF Plans!Clamp

LEMMA DeltaIn ==
  ASSUME NEW r \in PlanBonds
  PROVE  Plans!Delta(r) \in [Plans!Metrics -> Int]
<1>1. r.suggestion \in Int
  BY PlansAssumption DEF PlanBonds
<1> DEFINE s == 50 + r.suggestion
           bonus == IF r.kind # None THEN s ELSE 0
           moves == CASE r.sentiment = "negative" ->
                           [familiarity |-> s, trust |-> -2 * s, tension |-> 3 * s]
                      [] r.sentiment = "positive" ->
                           [familiarity |-> 3 * s, intimacy |-> 2 * s, trust |-> 2 * s,
                            tension |-> -2 * s]
                      [] OTHER -> [familiarity |-> s + bonus, trust |-> s \div 2]
<1>2. s \in Int /\ bonus \in Int /\ s \div 2 \in Int
  BY <1>1
<1>3. \A k \in DOMAIN moves : moves[k] \in Int
  <2> HIDE DEF s, bonus
  <2>1. CASE r.sentiment = "negative"
    BY <1>2, <2>1
  <2>2. CASE r.sentiment = "positive"
    BY <1>2, <2>2
  <2>3. CASE r.sentiment \notin {"negative", "positive"}
    BY <1>2, <2>3
  <2>4. QED
    BY <2>1, <2>2, <2>3
<1>4. Plans!Delta(r) = [k \in Plans!Metrics |-> IF k \in DOMAIN moves THEN moves[k] ELSE 0]
  BY DEF Plans!Delta
<1> HIDE DEF moves
<1>5. QED
  BY <1>3, <1>4

LEMMA ApplyIn ==
  ASSUME NEW m, NEW r \in PlanBonds, \A k \in Plans!Metrics : m[k] \in Int
  PROVE  Plans!ApplyDelta(m, Plans!Delta(r)) \in MetricsSet
<1>1. \A k \in Plans!Metrics : m[k] + Plans!Delta(r)[k] \in Int
  BY DeltaIn
<1>2. \A k \in Plans!Metrics : Plans!Clamp(m[k] + Plans!Delta(r)[k]) \in 0..Plans!Full
  BY <1>1, ClampIn
<1>3. QED
  BY <1>2 DEF Plans!ApplyDelta, MetricsSet

LEMMA NewBondIn ==
  ASSUME NEW r \in PlanBonds
  PROVE  Plans!NewBond(r) \in BondSet /\ Plans!NewBond(r).target = Plans!Target(r)
           /\ Plans!NewBond(r).count = 1
<1>1. \A k \in Plans!Metrics : Plans!BaseMetrics[k] \in Int
  BY DEF Plans!Metrics, Plans!BaseMetrics
<1>2. Plans!ApplyDelta(Plans!BaseMetrics, Plans!Delta(r)) \in MetricsSet
  BY <1>1, ApplyIn
<1>3. Plans!Target(r) \in Targets
  BY DEF Targets
<1>4. QED
  BY <1>2, <1>3 DEF Plans!NewBond, BondSet

\* The queries of a context name only whom its request names.
LEMMA QueriesIn ==
  ASSUME NEW q \in Asked
  PROVE  /\ Plans!BondQueries(q) \in Seq(Queried)
         /\ Plans!Named(q) # {} =>
              \A i \in DOMAIN Plans!BondQueries(q) : Plans!BondQueries(q)[i] \in Plans!Named(q)
<1> DEFINE names == << "actor", "thread", "habitat" >>
           fields == Plans!Only(names, Plans!NamedFields(q))
<1>1. /\ fields \in Seq({"actor", "thread", "habitat"})
      /\ \A i \in DOMAIN fields : fields[i] \in Plans!NamedFields(q)
  <2>1. names \in Seq({"actor", "thread", "habitat"})
    OBVIOUS
  <2>2. fields = Only(names, Plans!NamedFields(q))
    BY DEF Plans!Only, Only
  <2> HIDE DEF fields, names
  <2>3. /\ fields \in Seq({"actor", "thread", "habitat"})
        /\ \A x : x \in ToSet(fields) => x \in Plans!NamedFields(q)
    BY <2>1, <2>2, OnlyFacts
  <2>4. QED
    BY <2>3 DEF ToSet
<1>2. \A i \in DOMAIN fields : << fields[i], q[fields[i]] >> \in Plans!Named(q)
  BY <1>1 DEF Plans!Named
<1>3. Plans!TargetQueries(q) = [i \in DOMAIN fields |-> << fields[i], q[fields[i]] >>]
  BY DEF Plans!TargetQueries
<1>4. DOMAIN fields = 1..Len(fields) /\ Len(fields) \in Nat
  BY <1>1
<1> HIDE DEF fields
<1>5. /\ Plans!TargetQueries(q) \in Seq(Queried)
      /\ \A i \in DOMAIN Plans!TargetQueries(q) : Plans!TargetQueries(q)[i] \in Plans!Named(q)
  <2>1. \A i \in 1..Len(fields) : << fields[i], q[fields[i]] >> \in Queried
    BY <1>2, <1>4 DEF Queried
  <2>2. QED
    BY <1>2, <1>3, <1>4, <2>1
<1>6. CASE Plans!NamedFields(q) = {}
  <2>1. Plans!Named(q) = {}
    BY <1>6 DEF Plans!Named
  <2>2. << None >> \in Seq(Queried)
    <3>1. None \in Queried
      BY DEF Queried
    <3>2. QED
      BY <3>1
  <2>3. QED
    BY <1>6, <2>1, <2>2 DEF Plans!BondQueries
<1>7. CASE Plans!NamedFields(q) # {}
  BY <1>5, <1>7 DEF Plans!BondQueries
<1>8. QED
  BY <1>6, <1>7

(***************************************************************************)
(* Bonds: the steps.                                                       *)
(***************************************************************************)
LEMMA BondFields ==
  ASSUME NEW b \in BondSet
  PROVE  /\ b.target \in Targets /\ b.count \in Nat /\ b.metrics \in MetricsSet
         /\ \A k \in Plans!Metrics : b.metrics[k] \in Int
<1>1. b.target \in Targets /\ b.count \in Nat /\ b.metrics \in MetricsSet
  BY DEF BondSet
<1>2. \A m \in MetricsSet : \A k \in Plans!Metrics : m[k] \in Int
  <2>1. SUFFICES ASSUME NEW m \in MetricsSet, NEW k \in Plans!Metrics PROVE m[k] \in Int
    OBVIOUS
  <2>2. m \in [Plans!Metrics -> 0..Plans!Full]
    BY <2>1 DEF MetricsSet
  <2>3. m[k] \in 0..Plans!Full
    BY <2>2
  <2>4. Plans!Full \in Int
    BY DEF Plans!Full
  <2>5. QED
    BY <2>3, <2>4
<1>3. QED
  BY <1>1, <1>2

LEMMA WorkingIsUpdating ==
  ASSUME NEW w \in Askings
  PROVE  w.pc \in Working <=> w # Plans!Idle /\ w.pc # "collect"
<1>1. w.pc \in {"idle", "find", "save", "update", "upsert", "collect"}
  BY AskingKinds
<1>2. QED
  BY <1>1, RecordsApart DEF Working

\* A call that moves on without having to do with an update.
LEMMA KeptBeside ==
  ASSUME BondsKept, disturbed \subseteq disturbed', UNCHANGED << bonds, answered >>,
         \A t \in Targets \ disturbed' : \A d \in Chats :
           asking'[d].pc \in Working /\ Plans!Target(asking'[d].req) = t =>
             asking'[d] = asking[d]
  PROVE  BondsKept'
<1>1. SUFFICES ASSUME NEW t \in Targets, t \notin disturbed' PROVE Exact(t)'
  BY DEF BondsKept
<1>2. Exact(t) /\ Holding(t)' = Holding(t)
  BY <1>1 DEF BondsKept, Holding
<1>3. \A d \in UpdatesOf(t)' : d \in UpdatesOf(t) /\ asking'[d] = asking[d]
  BY <1>1 DEF UpdatesOf
<1>4. QED
  BY <1>2, <1>3 DEF Exact

\* A step of one chat that moves its call on.
Moves(c, w) ==
  /\ asking'[c] = w
  /\ \A d \in Chats : d # c => asking'[d] = asking[d]

LEMMA MovedTyped ==
  ASSUME BondsTyped, NEW c \in Chats, NEW w \in Askings,
         asking' = [asking EXCEPT ![c] = w],
         UNCHANGED << bonds, made, answered >>,
         w.pc \in {"update", "upsert"} =>
           bonds[w.id] # Plans!NoBond /\ bonds[w.id].target = Plans!Target(w.req)
  PROVE  BondsTyped' /\ Moves(c, w)
<1>1. asking' \in [Chats -> Askings] /\ Moves(c, w)
  BY DEF BondsTyped, Moves
<1>2. QED
  BY <1>1 DEF BondsTyped, Moves

LEMMA AskBondKeeps ==
  ASSUME BondsInv, NEW c \in Chats, NEW r \in PlanBonds, Plans!AskBond(c, r)
  PROVE  BondsInv'
<1> DEFINE w == [pc |-> "find", req |-> r]
<1>1. /\ asking[c] = Plans!Idle /\ asking' = [asking EXCEPT ![c] = w]
      /\ UNCHANGED << bonds, made, answered, stray >>
      /\ disturbed' = disturbed \cup
           {t \in {Plans!Target(r)} :
              \E d \in Chats : Plans!Updating(d) /\ Plans!Target(asking[d].req) = t}
  BY DEF Plans!AskBond
<1>2. w \in Askings /\ w.pc = "find" /\ w.req = r
  BY DEF Askings
<1> HIDE DEF w
<1>3. BondsTyped' /\ Moves(c, w)
  BY <1>1, <1>2, MovedTyped DEF BondsInv
<1>4. BondsKept'
  <2>1. SUFFICES ASSUME NEW t \in Targets, t \notin disturbed' PROVE Exact(t)'
    BY DEF BondsKept
  <2>2. Exact(t) /\ Holding(t)' = Holding(t)
    BY <1>1, <2>1 DEF BondsInv, BondsKept, Holding
  <2>3. \A d \in Chats : asking[d].pc \in Working <=> Plans!Updating(d)
    BY WorkingIsUpdating DEF BondsInv, BondsTyped, Plans!Updating
  <2>4. CASE t = Plans!Target(r)
    <3>1. UpdatesOf(t) = {}
      BY <1>1, <2>1, <2>3, <2>4 DEF UpdatesOf
    <3>2. UpdatesOf(t)' \subseteq {c}
      BY <1>3, <3>1 DEF UpdatesOf, Moves
    <3>3. \A d \in UpdatesOf(t)' : asking'[d].pc = "find"
      BY <1>2, <1>3, <3>2 DEF Moves
    <3>4. QED
      BY <1>1, <2>2, <3>2, <3>3 DEF Exact
  <2>5. CASE t # Plans!Target(r)
    <3>1. \A d \in UpdatesOf(t)' : d \in UpdatesOf(t) /\ asking'[d] = asking[d]
      BY <1>2, <1>3, <2>5 DEF UpdatesOf, Moves
    <3>2. QED
      BY <1>1, <2>2, <3>1 DEF Exact
  <2>6. QED
    BY <2>4, <2>5
<1>5. AskedOnly'
  BY <1>1, <1>2, <1>3 DEF BondsInv, AskedOnly, Moves
<1>6. QED
  BY <1>3, <1>4, <1>5 DEF BondsInv

LEMMA FindBondKeeps ==
  ASSUME BondsInv, NEW c \in Chats, Plans!FindBond(c)
  PROVE  BondsInv'
<1> DEFINE r == asking[c].req
<1>1. asking[c].pc = "find" /\ asking[c] \in Askings /\ r \in PlanBonds
  BY AskingKinds DEF Plans!FindBond, BondsInv, BondsTyped
<1>2. UNCHANGED << bonds, made, answered, disturbed, stray >>
  BY DEF Plans!FindBond
<1>3. Plans!Found(r) = Holding(Plans!Target(r))
  BY DEF Plans!Found, Plans!Bonds, Plans!BondIds, BondIds, Holding
<1>4. SUFFICES ASSUME NEW w \in Askings, asking' = [asking EXCEPT ![c] = w], w.req = r,
                      \/ w.pc = "save" /\ Plans!Found(r) = {}
                      \/ /\ w.pc = "update" /\ w.id \in Plans!Found(r)
                         /\ w.count = bonds[w.id].count + 1
               PROVE  BondsInv'
  <2>1. CASE Plans!Found(r) = {}
    <3>1. asking' = [asking EXCEPT ![c] = [pc |-> "save", req |-> r]]
      BY <2>1 DEF Plans!FindBond
    <3>2. [pc |-> "save", req |-> r] \in Askings
      BY <1>1 DEF Askings
    <3>3. QED
      BY <1>4, <2>1, <3>1, <3>2
  <2>2. CASE Plans!Found(r) # {}
    <3>1. PICK i \in Plans!Found(r) :
            asking' = [asking EXCEPT ![c] =
              [pc |-> "update", id |-> i, req |-> r, count |-> bonds[i].count + 1,
               metrics |-> Plans!ApplyDelta(bonds[i].metrics, Plans!Delta(r))]]
      BY <2>2 DEF Plans!FindBond
    <3>2. i \in BondIds /\ bonds[i] \in BondSet
      BY <1>3 DEF Holding, BondsInv, BondsTyped
    <3>3. bonds[i].count + 1 \in Nat
          /\ Plans!ApplyDelta(bonds[i].metrics, Plans!Delta(r)) \in MetricsSet
      BY <1>1, <3>2, BondFields, ApplyIn
    <3>4. [pc |-> "update", id |-> i, req |-> r, count |-> bonds[i].count + 1,
           metrics |-> Plans!ApplyDelta(bonds[i].metrics, Plans!Delta(r))] \in Askings
      BY <1>1, <3>2, <3>3 DEF Askings
    <3>5. QED
      BY <1>4, <3>1, <3>4
  <2>3. QED
    BY <2>1, <2>2
<1>5. w.pc \in {"update", "upsert"} =>
        bonds[w.id] # Plans!NoBond /\ bonds[w.id].target = Plans!Target(w.req)
  BY <1>3, <1>4 DEF Holding
<1>6. BondsTyped' /\ Moves(c, w)
  BY <1>2, <1>4, <1>5, MovedTyped DEF BondsInv
<1>7. BondsKept'
  <2>1. SUFFICES ASSUME NEW t \in Targets, t \notin disturbed' PROVE Exact(t)'
    BY DEF BondsKept
  <2>2. Exact(t) /\ Holding(t)' = Holding(t)
    BY <1>2, <2>1 DEF BondsInv, BondsKept, Holding
  <2>3. UpdatesOf(t)' = UpdatesOf(t)
    BY <1>1, <1>4, <1>6 DEF UpdatesOf, Moves, Working
  <2>4. \A d \in UpdatesOf(t) : d # c => asking'[d] = asking[d]
    BY <1>6 DEF Moves, UpdatesOf
  <2>5. c \in UpdatesOf(t) =>
          /\ asking'[c].pc = "save" => Holding(t) = {}
          /\ asking'[c].pc \in {"update", "upsert"} =>
               asking'[c].count = bonds[asking'[c].id].count + 1
    BY <1>3, <1>4, <1>6 DEF Moves, UpdatesOf
  <2>6. QED
    BY <1>2, <2>2, <2>3, <2>4, <2>5 DEF Exact
<1>8. AskedOnly'
  BY <1>2, <1>4, <1>6 DEF BondsInv, AskedOnly, Moves
<1>9. QED
  BY <1>6, <1>7, <1>8 DEF BondsInv

\* The history of answers after one more about t.
OneMore(t) ==
  answered' = [x \in DOMAIN answered \cup {t} |->
                 (IF x \in DOMAIN answered THEN answered[x] ELSE 0) + (IF x = t THEN 1 ELSE 0)]

LEMMA OneMoreFacts ==
  ASSUME BondsTyped, NEW t \in Targets, OneMore(t)
  PROVE  /\ DOMAIN answered' = DOMAIN answered \cup {t}
         /\ DOMAIN answered' \subseteq Targets /\ answered' \in [DOMAIN answered' -> Nat]
         /\ \A x \in DOMAIN answered : x # t => answered'[x] = answered[x]
         /\ t \in DOMAIN answered => answered'[t] = answered[t] + 1
         /\ t \notin DOMAIN answered => answered'[t] = 1
<1>1. DOMAIN answered \subseteq Targets /\ \A x \in DOMAIN answered : answered[x] \in Nat
  BY DEF BondsTyped
<1>2. DOMAIN answered' = DOMAIN answered \cup {t}
  BY DEF OneMore
<1>3. \A x \in DOMAIN answered : x # t => answered'[x] = answered[x]
  BY <1>1 DEF OneMore
<1>4. t \in DOMAIN answered => answered'[t] = answered[t] + 1
  BY DEF OneMore
<1>5. t \notin DOMAIN answered => answered'[t] = 1
  BY DEF OneMore
<1>6. \A x \in DOMAIN answered' : answered'[x] \in Nat
  BY <1>1, <1>2, <1>3, <1>4, <1>5
<1>7. answered' = [x \in DOMAIN answered' |-> answered'[x]]
  BY DEF OneMore
<1>8. QED
  BY <1>1, <1>2, <1>3, <1>4, <1>5, <1>6, <1>7

LEMMA WriteBondKeeps ==
  ASSUME BondsInv, NEW c \in Chats, asking[c].pc \in {"update", "upsert"},
         bonds' = [bonds EXCEPT ![asking[c].id].metrics = asking[c].metrics,
                                ![asking[c].id].count = asking[c].count],
         Plans!Answer(c), UNCHANGED << made, disturbed, stray >>
  PROVE  BondsInv'
<1>1. /\ asking[c] \in Askings /\ asking[c].req \in PlanBonds /\ asking[c].id \in BondIds
      /\ asking[c].count \in Nat /\ asking[c].metrics \in MetricsSet
  BY AskingKinds DEF BondsInv, BondsTyped
<1>2. PICK id \in BondIds, n \in Nat, m \in MetricsSet, t \in Targets :
        /\ id = asking[c].id /\ n = asking[c].count /\ m = asking[c].metrics
        /\ t = Plans!Target(asking[c].req)
  BY <1>1 DEF Targets
<1>3. bonds[id] \in BondSet /\ bonds[id].target = t
  BY <1>2 DEF BondsInv, BondsTyped
<1>4. PICK b \in BondSet : bonds' = [bonds EXCEPT ![id] = b] /\ b.target = t /\ b.count = n
  <2>1. [[bonds[id] EXCEPT !.metrics = m] EXCEPT !.count = n] \in BondSet
    BY <1>3 DEF BondSet
  <2>2. /\ [[bonds[id] EXCEPT !.metrics = m] EXCEPT !.count = n].target = t
        /\ [[bonds[id] EXCEPT !.metrics = m] EXCEPT !.count = n].count = n
    BY <1>3 DEF BondSet
  <2>3. bonds' = [bonds EXCEPT ![id] = [[bonds[id] EXCEPT !.metrics = m] EXCEPT !.count = n]]
    BY <1>2 DEF BondsInv, BondsTyped
  <2>4. QED
    BY <2>1, <2>2, <2>3
<1>5. /\ bonds' \in [BondIds -> BondSet \cup {Plans!NoBond}] /\ bonds'[id] = b
      /\ \A i \in BondIds : i # id => bonds'[i] = bonds[i]
  BY <1>4 DEF BondsInv, BondsTyped
<1>6. b # Plans!NoBond /\ bonds[id] # Plans!NoBond
  BY <1>3, RecordsApart
<1>7. \A s : Holding(s)' = Holding(s)
  BY <1>3, <1>4, <1>5, <1>6 DEF Holding
<1>8. asking' = [asking EXCEPT ![c] = Plans!Idle] /\ OneMore(t)
  BY <1>2 DEF Plans!Answer, OneMore
<1>9. /\ asking' \in [Chats -> Askings] /\ asking'[c] = Plans!Idle
      /\ \A d \in Chats : d # c => asking'[d] = asking[d]
  BY <1>8 DEF BondsInv, BondsTyped, Askings
<1>10. asking'[c].pc = "idle"
  BY <1>9, RecordsApart
<1>11. BondsTyped'
  <2>1. \A i \in BondIds : bonds'[i] # Plans!NoBond => i <= made'
    BY <1>3, <1>5, <1>6 DEF BondsInv, BondsTyped
  <2>2. \A d \in Chats : asking'[d].pc \in {"update", "upsert"} =>
           /\ bonds'[asking'[d].id] # Plans!NoBond
           /\ bonds'[asking'[d].id].target = Plans!Target(asking'[d].req)
    <3>1. TAKE d \in Chats
    <3>2. HAVE asking'[d].pc \in {"update", "upsert"}
    <3>3. d # c /\ asking'[d] = asking[d]
      BY <1>9, <1>10, <3>2
    <3>4. asking[d].id \in BondIds
      BY <3>2, <3>3, AskingKinds DEF BondsInv, BondsTyped
    <3>5. /\ bonds[asking[d].id] # Plans!NoBond
          /\ bonds[asking[d].id].target = Plans!Target(asking[d].req)
      BY <3>2, <3>3 DEF BondsInv, BondsTyped
    <3>6. QED
      BY <1>3, <1>4, <1>5, <1>6, <3>3, <3>4, <3>5
  <2>3. DOMAIN answered' \subseteq Targets /\ answered' \in [DOMAIN answered' -> Nat]
    BY <1>8, OneMoreFacts DEF BondsInv
  <2>4. QED
    BY <1>5, <1>9, <2>1, <2>2, <2>3 DEF BondsInv, BondsTyped
<1>12. BondsKept'
  <2>1. SUFFICES ASSUME NEW s \in Targets, s \notin disturbed' PROVE Exact(s)'
    BY DEF BondsKept
  <2>2. Exact(s)
    BY <2>1 DEF BondsInv, BondsKept
  <2>3. UpdatesOf(s)' = UpdatesOf(s) \ {c}
    BY <1>9, <1>10 DEF UpdatesOf, Working
  <2>4. CASE s = t
    <3>1. c \in UpdatesOf(s) /\ n = bonds[id].count + 1
      BY <1>2, <2>2, <2>4 DEF UpdatesOf, Working, Exact
    <3>2. UpdatesOf(s)' = {}
      BY <2>2, <2>3, <3>1 DEF Exact
    <3>3. id \in Holding(s)
      BY <1>3, <1>6, <2>4 DEF Holding
    <3>4. s \in DOMAIN answered /\ Holding(s) = {id} /\ bonds[id].count = answered[s]
      BY <2>2, <3>3 DEF Exact
    <3>5. answered'[s] = n /\ s \in DOMAIN answered'
      BY <1>8, <2>4, <3>1, <3>4, OneMoreFacts DEF BondsInv
    <3>6. QED
      BY <1>4, <1>5, <1>7, <3>2, <3>4, <3>5 DEF Exact
  <2>5. CASE s # t
    <3>1. /\ s \in DOMAIN answered' <=> s \in DOMAIN answered
          /\ s \in DOMAIN answered => answered'[s] = answered[s]
      <4>1. /\ DOMAIN answered' = DOMAIN answered \cup {t}
            /\ \A x \in DOMAIN answered : x # t => answered'[x] = answered[x]
        BY <1>8, OneMoreFacts DEF BondsInv
      <4>2. QED
        BY <2>5, <4>1
    <3>2. \A i \in Holding(s) : i # id /\ bonds'[i] = bonds[i]
      BY <1>3, <1>5, <2>5 DEF Holding
    <3>3. \A d \in UpdatesOf(s)' : d \in UpdatesOf(s) /\ asking'[d] = asking[d]
      BY <1>9, <2>3 DEF UpdatesOf
    <3>4. \A d \in UpdatesOf(s)' : asking[d].pc \in {"update", "upsert"} =>
            asking[d].id \in Holding(s)
      <4>1. TAKE d \in UpdatesOf(s)'
      <4>2. HAVE asking[d].pc \in {"update", "upsert"}
      <4>3. d \in Chats /\ Plans!Target(asking[d].req) = s
        BY <3>3 DEF UpdatesOf
      <4>4. asking[d].id \in BondIds
        BY <4>2, <4>3, AskingKinds DEF BondsInv, BondsTyped
      <4>5. QED
        BY <4>2, <4>3, <4>4 DEF Holding, BondsInv, BondsTyped
    <3>5. Holding(s)' = Holding(s)
      BY <1>7
    <3>6. \A d, e \in UpdatesOf(s)' : d = e
      BY <2>2, <3>3 DEF Exact
    <3>7. s \in DOMAIN answered' =>
            \E i \in BondIds : Holding(s)' = {i} /\ bonds'[i].count = answered'[s]
      BY <2>2, <3>1, <3>2, <3>5 DEF Exact
    <3>8. \A d \in UpdatesOf(s)' :
            /\ asking'[d].pc = "save" => Holding(s)' = {}
            /\ asking'[d].pc \in {"update", "upsert"} =>
                 asking'[d].count = bonds'[asking'[d].id].count + 1
      <4>1. TAKE d \in UpdatesOf(s)'
      <4>2. d \in UpdatesOf(s) /\ asking'[d] = asking[d]
        BY <3>3
      <4>3. /\ asking[d].pc = "save" => Holding(s) = {}
            /\ asking[d].pc \in {"update", "upsert"} =>
                 asking[d].count = bonds[asking[d].id].count + 1
        BY <2>2, <4>2 DEF Exact
      <4>4. asking[d].pc \in {"update", "upsert"} => bonds'[asking[d].id] = bonds[asking[d].id]
        BY <3>2, <3>4
      <4>5. QED
        BY <3>5, <4>2, <4>3, <4>4
    <3>9. QED
      BY <2>2, <3>1, <3>5, <3>6, <3>7, <3>8 DEF Exact
  <2>6. QED
    BY <2>4, <2>5
<1>13. AskedOnly'
  BY <1>9, <1>10 DEF BondsInv, AskedOnly
<1>14. QED
  BY <1>11, <1>12, <1>13 DEF BondsInv

LEMMA UpdateBondKeeps ==
  ASSUME BondsInv, NEW c \in Chats, Plans!UpdateBond(c)
  PROVE  BondsInv'
<1>1. asking[c].pc \in {"update", "upsert"} /\ UNCHANGED << made, disturbed, stray >>
  BY DEF Plans!UpdateBond
<1>2. CASE /\ bonds' = [bonds EXCEPT ![asking[c].id].metrics = asking[c].metrics,
                                     ![asking[c].id].count = asking[c].count]
           /\ Plans!Answer(c)
  BY <1>1, <1>2, WriteBondKeeps
<1>3. CASE /\ asking' = [asking EXCEPT ![c].pc = "upsert"]
           /\ UNCHANGED << bonds, answered >>
  <2>1. PICK w : w = [asking[c] EXCEPT !.pc = "upsert"]
    OBVIOUS
  <2>2. asking[c] \in [pc : {"update", "upsert"}, id : BondIds, req : PlanBonds, count : Nat,
                       metrics : MetricsSet]
    BY <1>1, AskingKinds DEF BondsInv, BondsTyped
  <2>3. /\ w \in Askings /\ w.pc = "upsert" /\ w.req = asking[c].req /\ w.id = asking[c].id
        /\ w.count = asking[c].count
    BY <2>1, <2>2 DEF Askings
  <2>4. asking' = [asking EXCEPT ![c] = w]
    BY <1>3, <2>1
  <2>5. bonds[w.id] # Plans!NoBond /\ bonds[w.id].target = Plans!Target(w.req)
    BY <1>1, <2>3 DEF BondsInv, BondsTyped
  <2>6. BondsTyped' /\ Moves(c, w)
    BY <1>1, <1>3, <2>3, <2>4, <2>5, MovedTyped DEF BondsInv
  <2>7. BondsKept'
    <3>1. SUFFICES ASSUME NEW t \in Targets, t \notin disturbed' PROVE Exact(t)'
      BY DEF BondsKept
    <3>2. Exact(t) /\ Holding(t)' = Holding(t)
      BY <1>1, <1>3, <3>1 DEF BondsInv, BondsKept, Holding
    <3>3. UpdatesOf(t)' = UpdatesOf(t)
      BY <1>1, <2>3, <2>6 DEF UpdatesOf, Moves, Working
    <3>4. \A d \in UpdatesOf(t) : d # c => asking'[d] = asking[d]
      BY <2>6 DEF Moves, UpdatesOf
    <3>5. QED
      BY <1>1, <1>3, <2>3, <2>6, <3>2, <3>3, <3>4 DEF Exact, Moves
  <2>8. AskedOnly'
    BY <1>1, <2>3, <2>6 DEF BondsInv, AskedOnly, Moves
  <2>9. QED
    BY <2>6, <2>7, <2>8 DEF BondsInv
<1>4. QED
  BY <1>2, <1>3 DEF Plans!UpdateBond

LEMMA SaveBondKeeps ==
  ASSUME BondsInv, NEW c \in Chats, Plans!SaveBond(c)
  PROVE  BondsInv'
<1>1. /\ asking[c].pc = "save" /\ made < MaxBonds /\ made' = made + 1
      /\ bonds' = [bonds EXCEPT ![made'] = Plans!NewBond(asking[c].req)]
      /\ UNCHANGED << disturbed, stray >>
  BY DEF Plans!SaveBond
<1>2. asking[c].req \in PlanBonds
  BY <1>1, AskingKinds DEF BondsInv, BondsTyped
<1>3. PICK id \in Int, b \in BondSet, t \in Targets :
        /\ id = made + 1 /\ b = Plans!NewBond(asking[c].req) /\ b.target = t /\ b.count = 1
        /\ t = Plans!Target(asking[c].req)
  BY <1>2, NewBondIn DEF Targets, BondsInv, BondsTyped
<1>4. id \in BondIds /\ made' \in 0..MaxBonds /\ MaxBonds \in Nat
  <2>1. MaxBonds \in Nat
    BY LimitsAssumption
  <2>2. made \in 0..MaxBonds
    BY DEF BondsInv, BondsTyped
  <2>3. QED
    BY <1>1, <1>3, <2>1, <2>2 DEF BondIds
<1>5. /\ bonds' \in [BondIds -> BondSet \cup {Plans!NoBond}] /\ bonds'[id] = b
      /\ \A i \in BondIds : i # id => bonds'[i] = bonds[i]
  BY <1>1, <1>3, <1>4 DEF BondsInv, BondsTyped
<1>6. b # Plans!NoBond /\ bonds[id] = Plans!NoBond
  <2>1. ~(id <= made)
    BY <1>3, <1>4 DEF BondsInv, BondsTyped
  <2>2. QED
    BY <1>3, <1>4, <2>1, RecordsApart DEF BondsInv, BondsTyped
<1>7. /\ Holding(t)' = Holding(t) \cup {id}
      /\ \A s : s # t => Holding(s)' = Holding(s)
  BY <1>3, <1>4, <1>5, <1>6 DEF Holding
<1>8. asking' = [asking EXCEPT ![c] = Plans!Idle] /\ OneMore(t)
  BY <1>3 DEF Plans!SaveBond, Plans!Answer, OneMore
<1>9. /\ asking' \in [Chats -> Askings] /\ asking'[c] = Plans!Idle
      /\ \A d \in Chats : d # c => asking'[d] = asking[d]
  BY <1>8 DEF BondsInv, BondsTyped, Askings
<1>10. asking'[c].pc = "idle"
  BY <1>9, RecordsApart
<1>11. \A d \in Chats : asking'[d].pc \in {"update", "upsert"} =>
         /\ asking'[d] = asking[d] /\ asking[d].id \in BondIds /\ asking[d].id # id
         /\ bonds[asking[d].id] # Plans!NoBond
         /\ bonds[asking[d].id].target = Plans!Target(asking[d].req)
  <2>1. TAKE d \in Chats
  <2>2. HAVE asking'[d].pc \in {"update", "upsert"}
  <2>3. d # c /\ asking'[d] = asking[d]
    BY <1>9, <1>10, <2>2
  <2>4. asking[d].id \in BondIds
    BY <2>2, <2>3, AskingKinds DEF BondsInv, BondsTyped
  <2>5. /\ bonds[asking[d].id] # Plans!NoBond
        /\ bonds[asking[d].id].target = Plans!Target(asking[d].req)
    BY <2>2, <2>3 DEF BondsInv, BondsTyped
  <2>6. QED
    BY <1>6, <2>3, <2>4, <2>5
<1>12. BondsTyped'
  <2>1. \A i \in BondIds : bonds'[i] # Plans!NoBond => i <= made'
    BY <1>1, <1>3, <1>5 DEF BondsInv, BondsTyped, BondIds
  <2>2. \A d \in Chats : asking'[d].pc \in {"update", "upsert"} =>
           /\ bonds'[asking'[d].id] # Plans!NoBond
           /\ bonds'[asking'[d].id].target = Plans!Target(asking'[d].req)
    BY <1>5, <1>11
  <2>3. DOMAIN answered' \subseteq Targets /\ answered' \in [DOMAIN answered' -> Nat]
    BY <1>8, OneMoreFacts DEF BondsInv
  <2>4. QED
    BY <1>4, <1>5, <1>9, <2>1, <2>2, <2>3 DEF BondsTyped
<1>13. BondsKept'
  <2>1. SUFFICES ASSUME NEW s \in Targets, s \notin disturbed' PROVE Exact(s)'
    BY DEF BondsKept
  <2>2. Exact(s)
    BY <1>1, <2>1 DEF BondsInv, BondsKept
  <2>3. UpdatesOf(s)' = UpdatesOf(s) \ {c}
    BY <1>9, <1>10 DEF UpdatesOf, Working
  <2>4. CASE s = t
    <3>1. c \in UpdatesOf(s)
      BY <1>1, <1>3, <2>4 DEF UpdatesOf, Working
    <3>2. UpdatesOf(s)' = {} /\ Holding(s) = {}
      BY <1>1, <2>2, <2>3, <3>1 DEF Exact
    <3>3. s \notin DOMAIN answered
      BY <2>2, <3>2 DEF Exact
    <3>4. answered'[s] = 1 /\ s \in DOMAIN answered'
      BY <1>8, <2>4, <3>3, OneMoreFacts DEF BondsInv
    <3>5. Holding(s)' = {id} /\ bonds'[id].count = 1
      BY <1>3, <1>5, <1>7, <2>4, <3>2
    <3>6. QED
      BY <1>4, <3>2, <3>4, <3>5 DEF Exact
  <2>5. CASE s # t
    <3>1. /\ s \in DOMAIN answered' <=> s \in DOMAIN answered
          /\ s \in DOMAIN answered => answered'[s] = answered[s]
      <4>1. /\ DOMAIN answered' = DOMAIN answered \cup {t}
            /\ \A x \in DOMAIN answered : x # t => answered'[x] = answered[x]
        BY <1>8, OneMoreFacts DEF BondsInv
      <4>2. QED
        BY <2>5, <4>1
    <3>2. Holding(s)' = Holding(s) /\ \A i \in Holding(s) : bonds'[i] = bonds[i]
      BY <1>5, <1>6, <1>7, <2>5 DEF Holding
    <3>3. \A d \in UpdatesOf(s)' : d \in UpdatesOf(s) /\ d \in Chats /\ asking'[d] = asking[d]
      BY <1>9, <2>3 DEF UpdatesOf
    <3>4. \A d \in UpdatesOf(s)' : asking[d].pc \in {"update", "upsert"} =>
            bonds'[asking[d].id] = bonds[asking[d].id]
      BY <1>5, <1>11, <3>3
    <3>5. QED
      BY <2>2, <3>1, <3>2, <3>3, <3>4 DEF Exact
  <2>6. QED
    BY <2>4, <2>5
<1>14. AskedOnly'
  BY <1>1, <1>9, <1>10 DEF BondsInv, AskedOnly
<1>15. QED
  BY <1>12, <1>13, <1>14 DEF BondsInv

LEMMA BondThrowsKeeps ==
  ASSUME BondsInv, NEW c \in Chats, Plans!BondThrows(c)
  PROVE  BondsInv'
<1>1. /\ asking' = [asking EXCEPT ![c] = Plans!Idle] /\ disturbed \subseteq disturbed'
      /\ UNCHANGED << bonds, made, answered, stray >>
  BY DEF Plans!BondThrows
<1>2. Plans!Idle \in Askings /\ Plans!Idle.pc = "idle"
  BY RecordsApart DEF Askings
<1>3. BondsTyped' /\ Moves(c, Plans!Idle)
  BY <1>1, <1>2, MovedTyped DEF BondsInv
<1>4. BondsKept'
  BY <1>1, <1>2, <1>3, KeptBeside DEF BondsInv, Moves, Working
<1>5. AskedOnly'
  BY <1>1, <1>2, <1>3 DEF BondsInv, AskedOnly, Moves
<1>6. QED
  BY <1>3, <1>4, <1>5 DEF BondsInv

\* A step of a context: what is collected of it is about whom it asked.
LEMMA ContextKeeps ==
  ASSUME BondsInv, NEW c \in Chats, NEW w \in Askings, w.pc \in {"idle", "collect"},
         asking' = [asking EXCEPT ![c] = w],
         UNCHANGED << bonds, made, answered, disturbed, stray >>,
         w.pc = "collect" /\ Plans!Named(w.ctx) # {} =>
           /\ \A i \in DOMAIN w.left : w.left[i] \in Plans!Named(w.ctx)
           /\ \A p \in w.got : p[2].target \in Plans!Named(w.ctx)
  PROVE  BondsInv'
<1>1. BondsTyped' /\ Moves(c, w)
  BY MovedTyped DEF BondsInv
<1>2. BondsKept'
  BY <1>1, KeptBeside DEF BondsInv, Moves, Working
<1>3. AskedOnly'
  BY <1>1 DEF BondsInv, AskedOnly, Moves
<1>4. QED
  BY <1>1, <1>2, <1>3 DEF BondsInv

LEMMA AskContextKeeps ==
  ASSUME BondsInv, NEW c \in Chats, NEW q \in Asked, Plans!AskContext(c, q)
  PROVE  BondsInv'
<1> DEFINE w == [pc |-> "collect", ctx |-> q, left |-> Plans!BondQueries(q), got |-> {}]
<1>1. w \in Askings /\ w.pc = "collect" /\ w.ctx = q /\ w.left = Plans!BondQueries(q) /\ w.got = {}
  BY QueriesIn DEF Askings
<1>2. /\ asking' = [asking EXCEPT ![c] = w]
      /\ UNCHANGED << bonds, made, answered, disturbed, stray >>
  BY DEF Plans!AskContext
<1> HIDE DEF w
<1>3. QED
  BY <1>1, <1>2, QueriesIn, ContextKeeps

LEMMA CollectBondsKeeps ==
  ASSUME BondsInv, NEW c \in Chats, Plans!CollectBonds(c)
  PROVE  BondsInv'
<1>1. asking[c].pc = "collect" /\ asking[c].left # << >>
  BY DEF Plans!CollectBonds
<1>2. asking[c] \in [pc : {"collect"}, ctx : Asked, left : Seq(Queried),
                   got : SUBSET (BondIds \X BondSet)]
  BY <1>1, AskingKinds DEF BondsInv, BondsTyped
<1>0. PICK q \in Asked, left \in Seq(Queried), got \in SUBSET (BondIds \X BondSet) :
        asking[c].ctx = q /\ asking[c].left = left /\ asking[c].got = got
  BY <1>2
<1> DEFINE match == {i \in Plans!Bonds : Head(asking[c].left) \in {None, bonds[i].target}}
           read == {i \in match :
                      Plans!Cardinality({j \in match : Plans!Busier(j, i)}) < CandidateLimit}
<1>3. /\ asking' = [asking EXCEPT
            ![c].left = Tail(@),
            ![c].got = {p \in @ : p[1] \notin read} \cup {<< i, bonds[i] >> : i \in read}]
      /\ \A i \in read : i \in Plans!Bonds /\ Head(left) \in {None, bonds[i].target}
  BY <1>0 DEF Plans!CollectBonds
<1> HIDE DEF read
<1> DEFINE more == {p \in got : p[1] \notin read} \cup {<< i, bonds[i] >> : i \in read}
<1>4. left # << >> /\ Tail(left) \in Seq(Queried)
  BY <1>0, <1>1
<1>5. more \in SUBSET (BondIds \X BondSet)
  BY <1>3 DEF Plans!Bonds, Plans!BondIds, BondIds, BondsInv, BondsTyped
<1>7. asking' = [asking EXCEPT ![c] = [asking[c] EXCEPT !.left = Tail(left), !.got = more]]
  BY <1>0, <1>3 DEF BondsInv, BondsTyped
<1>8. PICK w \in Askings : /\ asking' = [asking EXCEPT ![c] = w]
                          /\ w.pc = "collect" /\ w.ctx = q /\ w.left = Tail(left) /\ w.got = more
  <2> HIDE DEF more
  <2>1. PICK w : w = [asking[c] EXCEPT !.left = Tail(left), !.got = more]
    OBVIOUS
  <2>2. /\ w \in [pc : {"collect"}, ctx : Asked, left : Seq(Queried),
                  got : SUBSET (BondIds \X BondSet)]
        /\ w.ctx = q /\ w.left = Tail(left) /\ w.got = more
    BY <1>0, <1>2, <1>4, <1>5, <2>1
  <2>3. QED
    BY <1>7, <2>1, <2>2 DEF Askings
<1>9. Plans!Named(q) # {} =>
        /\ \A i \in DOMAIN Tail(left) : Tail(left)[i] \in Plans!Named(q)
        /\ \A p \in more : p[2].target \in Plans!Named(q)
  <2>1. HAVE Plans!Named(q) # {}
  <2>2. /\ \A i \in DOMAIN left : left[i] \in Plans!Named(q)
        /\ \A p \in got : p[2].target \in Plans!Named(q)
    BY <1>0, <1>1, <2>1 DEF BondsInv, AskedOnly
  <2>3. Head(left) \in Plans!Named(q) /\ Head(left) # None
    BY <1>4, <2>2, PlansAssumption
  <2>4. \A i \in read : bonds[i].target \in Plans!Named(q)
    BY <1>3, <2>3
  <2>5. \A i \in DOMAIN Tail(left) : Tail(left)[i] \in Plans!Named(q)
    BY <1>4, <2>2
  <2>6. QED
    BY <2>2, <2>4, <2>5
<1>10. UNCHANGED << bonds, made, answered, disturbed, stray >>
  BY DEF Plans!CollectBonds
<1> HIDE DEF more
<1>11. QED
  BY <1>8, <1>9, <1>10, ContextKeeps

LEMMA SelectBondsKeeps ==
  ASSUME BondsInv, NEW c \in Chats, Plans!SelectBonds(c)
  PROVE  BondsInv'
<1>1. asking[c].pc = "collect"
  BY DEF Plans!SelectBonds
<1>2. PICK items \in SUBSET asking[c].got :
        stray' = stray \cup {p[2].target : p \in {p \in items :
                   Plans!Named(asking[c].ctx) # {} /\ p[2].target \notin Plans!Named(asking[c].ctx)}}
  BY DEF Plans!SelectBonds, Plans!BondSelections
<1>3. stray' = stray
  BY <1>1, <1>2 DEF BondsInv, AskedOnly
<1>4. /\ asking' = [asking EXCEPT ![c] = Plans!Idle]
      /\ UNCHANGED << bonds, made, answered, disturbed >>
  BY DEF Plans!SelectBonds
<1>5. Plans!Idle \in Askings /\ Plans!Idle.pc = "idle"
  BY RecordsApart DEF Askings
<1>6. QED
  BY <1>3, <1>4, <1>5, ContextKeeps

LEMMA BondStepKeeps ==
  ASSUME BondsInv, NEW c \in Chats, Plans!BondStep(c)
  PROVE  BondsInv'
BY FindBondKeeps, UpdateBondKeeps, SaveBondKeeps, CollectBondsKeeps, SelectBondsKeeps
   DEF Plans!BondStep

\* Steps that have nothing to do with bonds.
LEMMA BondsBeside ==
  ASSUME BondsInv, UNCHANGED << bonds, made, asking, answered, disturbed, stray >>
  PROVE  BondsInv'
<1>1. BondsTyped'
  BY DEF BondsInv, BondsTyped
<1>2. BondsKept'
  BY DEF BondsInv, BondsKept, Exact, Holding, UpdatesOf
<1>3. AskedOnly'
  BY DEF BondsInv, AskedOnly
<1>4. QED
  BY <1>1, <1>2, <1>3 DEF BondsInv

(***************************************************************************)
(* Plans in execution.  An action has its result or is still to come, and  *)
(* only a memory update can fail, with the memory plugin loaded exactly if *)
(* the service failed it, and is stored unless it failed; its listener has *)
(* the plan's id, which no other plan has, and is there as long as the     *)
(* update lasts.                                                           *)
(***************************************************************************)
Types == {"dialogue", "memory-update", "bond-update", "homeostasis-update", "noop"}
AllPlans == UNION {PlansOf[c] : c \in Chats}
ExecSet ==
  [pc : {"next", "memory", "told", "bond"}, id : Nat, plan : AllPlans, left : SUBSET Types,
   results : Seq([type : Types, completed : BOOLEAN]), stored : BOOLEAN,
   failed : BOOLEAN]

TypesOf(results) == {results[i].type : i \in DOMAIN results}
Once(results) == \A i, j \in DOMAIN results : results[i].type = results[j].type => i = j

\* A plan with what has become of it.
WellUnderway(e, up) ==
  /\ TypesOf(e.results) \cup e.left = Plans!Actions(e.plan) /\ Once(e.results)
  /\ \A i \in DOMAIN e.results :
       /\ e.results[i].type \notin e.left
       /\ ~e.results[i].completed => e.results[i].type = "memory-update"
       /\ up /\ e.results[i].type = "memory-update" =>
            (e.results[i].completed <=> ~e.failed) /\ (e.failed \/ e.stored)
  /\ e.pc # "told" /\ "memory-update" \in e.left => ~e.stored /\ ~e.failed
  /\ e.pc \in {"memory", "told"} => "memory-update" \in e.left
  /\ e.pc = "bond" => "bond-update" \in e.left

Heard(e, up, heard) ==
  /\ e.pc \in {"memory", "told"} => e.id \in DOMAIN heard
  /\ e.pc = "memory" => up /\ ~heard[e.id]
  /\ e.pc = "told" /\ up => (heard[e.id] <=> e.failed) /\ (e.failed \/ e.stored)

ReportTrue(r, up, stop) ==
  r # Plans!NoReport =>
    /\ up /\ "memory-update" \in r.plan.does =>
         (r.status = "completed") = ~r.failed /\ (r.failed \/ r.stored)
    /\ r.status # "failed" => TypesOf(r.results) = Plans!Actions(r.plan)
    /\ Once(r.results)
    /\ r.status = "failed" => stop = "stop-on-critical" /\ ~Plans!Last(r.results).completed

ExecTyped ==
  /\ exec \in [Chats -> ExecSet \cup {Plans!NoPlan}]
  /\ listening \in [DOMAIN listening -> BOOLEAN]
  /\ DOMAIN report = Chats /\ calls \in Nat

ExecInv ==
  /\ ExecTyped
  /\ \A c \in Chats : exec[c] # Plans!NoPlan =>
       exec[c].id <= calls /\ WellUnderway(exec[c], memoryUp) /\ Heard(exec[c], memoryUp, listening)
  /\ \A c, d \in Chats :
       exec[c] # Plans!NoPlan /\ exec[d] # Plans!NoPlan /\ exec[c].id = exec[d].id => c = d
  /\ \A l \in DOMAIN listening :
       \E c \in Chats : exec[c] # Plans!NoPlan /\ exec[c].pc \in {"memory", "told"} /\ exec[c].id = l
  /\ \A c \in Chats : ReportTrue(report[c], memoryUp, policy)

LEMMA PlanKinds ==
  ASSUME ExecInv, NEW c \in Chats
  PROVE  /\ Plans!NoPlan \notin ExecSet /\ Plans!NoPlan.pc = "none"
         /\ exec[c] # Plans!NoPlan => exec[c] \in ExecSet
         /\ exec[c].pc # "none" => exec[c] # Plans!NoPlan
<1>1. Plans!NoPlan.pc = "none"
  BY DEF Plans!NoPlan
<1>2. \A e \in ExecSet : e.pc # "none"
  BY DEF ExecSet
<1>3. QED
  BY <1>1, <1>2 DEF ExecInv, ExecTyped

\* The plans of other chats when one of them moves on: their listeners are left
\* as they are.
LEMMA OthersUndisturbed ==
  ASSUME ExecInv, NEW c \in Chats, NEW e \in ExecSet \cup {Plans!NoPlan},
         exec' = [exec EXCEPT ![c] = e], UNCHANGED << policy, memoryUp >>,
         calls' \in Nat, calls <= calls',
         listening' \in [DOMAIN listening' -> BOOLEAN],
         \A d \in Chats : d # c /\ exec[d] # Plans!NoPlan =>
           /\ exec[d].id \in DOMAIN listening <=> exec[d].id \in DOMAIN listening'
           /\ exec[d].id \in DOMAIN listening => listening'[exec[d].id] = listening[exec[d].id],
         e # Plans!NoPlan =>
           /\ e.id <= calls' /\ WellUnderway(e, memoryUp) /\ Heard(e, memoryUp, listening')
           /\ \A d \in Chats : d # c /\ exec[d] # Plans!NoPlan => exec[d].id # e.id,
         \A l \in DOMAIN listening' :
           \/ e # Plans!NoPlan /\ e.pc \in {"memory", "told"} /\ e.id = l
           \/ l \in DOMAIN listening /\ (exec[c] # Plans!NoPlan => exec[c].id # l),
         DOMAIN report' = Chats, ReportTrue(report'[c], memoryUp, policy),
         \A d \in Chats : d # c => report'[d] = report[d]
  PROVE  ExecInv'
<1>1. /\ exec' \in [Chats -> ExecSet \cup {Plans!NoPlan}] /\ exec'[c] = e
      /\ \A d \in Chats : d # c => exec'[d] = exec[d]
  BY DEF ExecInv, ExecTyped
<1>2. ExecTyped'
  BY <1>1 DEF ExecTyped
<1>3. \A d \in Chats : exec'[d] # Plans!NoPlan =>
        /\ exec'[d].id <= calls' /\ WellUnderway(exec'[d], memoryUp)
        /\ Heard(exec'[d], memoryUp, listening')
  <2>1. TAKE d \in Chats
  <2>2. HAVE exec'[d] # Plans!NoPlan
  <2>3. CASE d = c
    BY <1>1, <2>2, <2>3
  <2>4. CASE d # c
    <3>1. PICK f \in ExecSet : f = exec[d] /\ exec'[d] = f /\ f # Plans!NoPlan
      BY <1>1, <2>2, <2>4 DEF ExecInv, ExecTyped
    <3>2. f.id <= calls /\ WellUnderway(f, memoryUp) /\ Heard(f, memoryUp, listening)
      BY <3>1 DEF ExecInv
    <3>3. /\ f.id \in DOMAIN listening <=> f.id \in DOMAIN listening'
          /\ f.id \in DOMAIN listening => listening'[f.id] = listening[f.id]
      BY <2>4, <3>1
    <3>4. Heard(f, memoryUp, listening')
      BY <3>2, <3>3 DEF Heard
    <3>5. f.id \in Nat /\ calls \in Nat
      BY DEF ExecSet, ExecInv, ExecTyped
    <3>6. f.id <= calls'
      BY <3>2, <3>5
    <3>7. QED
      BY <3>1, <3>2, <3>4, <3>6
  <2>5. QED
    BY <2>3, <2>4
<1>4. \A d, x \in Chats :
        exec'[d] # Plans!NoPlan /\ exec'[x] # Plans!NoPlan /\ exec'[d].id = exec'[x].id => d = x
  BY <1>1 DEF ExecInv
<1>5. \A l \in DOMAIN listening' :
        \E d \in Chats : exec'[d] # Plans!NoPlan /\ exec'[d].pc \in {"memory", "told"}
                           /\ exec'[d].id = l
  BY <1>1 DEF ExecInv
<1>6. \A d \in Chats : ReportTrue(report'[d], memoryUp, policy)
  BY DEF ExecInv
<1>7. QED
  BY <1>2, <1>3, <1>4, <1>5, <1>6 DEF ExecInv

LEMMA ActionsIn ==
  ASSUME NEW p \in AllPlans
  PROVE  /\ Plans!Actions(p) \in SUBSET Types
         /\ "memory-update" \in p.does <=> "memory-update" \in Plans!Actions(p)
BY PlansAssumption DEF AllPlans, Plans!Actions, Types

LEMMA ExecuteKeeps ==
  ASSUME ExecInv, NEW c \in Chats, NEW p \in PlansOf[c], Plans!Execute(c, p)
  PROVE  ExecInv'
<1>1. PICK e : e = [pc |-> "next", id |-> calls + 1, plan |-> p, left |-> Plans!Actions(p),
                    results |-> << >>, stored |-> FALSE, failed |-> FALSE]
  OBVIOUS
<1>2. /\ exec[c] = Plans!NoPlan /\ calls' = calls + 1 /\ exec' = [exec EXCEPT ![c] = e]
      /\ UNCHANGED << policy, memoryUp, listening, report >>
  BY <1>1 DEF Plans!Execute, Plans!Enter
<1>3. calls \in Nat
  BY DEF ExecInv, ExecTyped
<1>4. p \in AllPlans
  BY DEF AllPlans
<1>5. /\ e \in ExecSet /\ e.pc = "next" /\ e.id = calls + 1 /\ e.plan = p
      /\ e.left = Plans!Actions(p) /\ e.results = << >> /\ e.stored = FALSE
      /\ e.failed = FALSE
  BY <1>1, <1>3, <1>4, ActionsIn DEF ExecSet
<1>6. WellUnderway(e, memoryUp)
  <2>1. TypesOf(e.results) = {} /\ Once(e.results)
    BY <1>5 DEF TypesOf, Once
  <2>2. QED
    BY <1>5, <2>1 DEF WellUnderway
<1>7. Heard(e, memoryUp, listening')
  BY <1>5 DEF Heard
<1>8. \A d \in Chats : exec[d] # Plans!NoPlan => exec[d].id \in Nat /\ exec[d].id <= calls
  <2>1. \A f \in ExecSet : f.id \in Nat
    BY DEF ExecSet
  <2>2. QED
    BY <2>1 DEF ExecInv, ExecTyped
<1>9. \A d \in Chats : d # c /\ exec[d] # Plans!NoPlan => exec[d].id # e.id
  BY <1>3, <1>5, <1>8
<1>10. DOMAIN report' = Chats /\ ReportTrue(report'[c], memoryUp, policy)
  BY <1>2 DEF ExecInv, ExecTyped
<1>11. listening' \in [DOMAIN listening' -> BOOLEAN]
  BY <1>2 DEF ExecInv, ExecTyped
<1>12. \A d \in Chats : d # c /\ exec[d] # Plans!NoPlan =>
         /\ exec[d].id \in DOMAIN listening <=> exec[d].id \in DOMAIN listening'
         /\ exec[d].id \in DOMAIN listening => listening'[exec[d].id] = listening[exec[d].id]
  BY <1>2
<1>13. \A l \in DOMAIN listening' :
         \/ e # Plans!NoPlan /\ e.pc \in {"memory", "told"} /\ e.id = l
         \/ l \in DOMAIN listening /\ (exec[c] # Plans!NoPlan => exec[c].id # l)
  BY <1>2
<1>14. calls' \in Nat /\ calls <= calls' /\ e.id <= calls' /\ e \in ExecSet \cup {Plans!NoPlan}
  BY <1>2, <1>3, <1>5
<1>15. \A d \in Chats : d # c => report'[d] = report[d]
  BY <1>2
<1>16. QED
  BY <1>2, <1>6, <1>7, <1>9, <1>10, <1>11, <1>12, <1>13, <1>14, <1>15, OthersUndisturbed

\* Nothing of a plan changes.
LEMMA ExecBeside ==
  ASSUME ExecInv, UNCHANGED << policy, memoryUp, exec, listening, report >>,
         calls' \in Nat, calls <= calls'
  PROVE  ExecInv'
<1>1. ExecTyped'
  BY DEF ExecInv, ExecTyped
<1>2. \A c \in Chats : exec[c] # Plans!NoPlan => exec[c].id <= calls'
  <2>1. \A f \in ExecSet : f.id \in Nat
    BY DEF ExecSet
  <2>2. QED
    BY <2>1 DEF ExecInv, ExecTyped
<1>3. QED
  BY <1>1, <1>2 DEF ExecInv

\* An action has its result.
LEMMA ConcludeKeeps ==
  ASSUME ExecInv, NEW c \in Chats, exec[c] # Plans!NoPlan,
         NEW a \in exec[c].left, NEW completed \in BOOLEAN, Plans!Conclude(c, a, completed),
         ~completed => a = "memory-update",
         memoryUp /\ a = "memory-update" =>
           (completed <=> ~exec[c].failed) /\ (exec[c].failed \/ exec[c].stored),
         exec[c].pc = "told" => a = "memory-update",
         UNCHANGED << policy, memoryUp, calls >>,
         listening' \in [DOMAIN listening' -> BOOLEAN],
         DOMAIN listening' = DOMAIN listening \ {exec[c].id},
         \A l \in DOMAIN listening' : listening'[l] = listening[l]
  PROVE  ExecInv'
<1>1. PICK e \in ExecSet : e = exec[c] /\ a \in e.left
  BY PlanKinds
<1>2. WellUnderway(e, memoryUp) /\ e.id <= calls
  BY <1>1 DEF ExecInv
<1>3. PICK results : results = Append(e.results, [type |-> a, completed |-> completed])
  OBVIOUS
<1>4. /\ e.results \in Seq([type : Types, completed : BOOLEAN]) /\ e.left \in SUBSET Types
      /\ a \in Types /\ e.stored \in BOOLEAN /\ e.failed \in BOOLEAN
  BY <1>1 DEF ExecSet
<1>5. /\ results \in Seq([type : Types, completed : BOOLEAN])
      /\ Len(results) = Len(e.results) + 1 /\ Len(e.results) \in Nat
      /\ \A i \in 1..Len(e.results) : results[i] = e.results[i]
      /\ results[Len(results)] = [type |-> a, completed |-> completed]
      /\ DOMAIN e.results = 1..Len(e.results) /\ DOMAIN results = 1..Len(results)
  BY <1>3, <1>4
<1>6. \A i \in DOMAIN results :
        \/ i \in DOMAIN e.results /\ results[i] = e.results[i]
        \/ results[i].type = a /\ results[i].completed = completed
  BY <1>5
<1>7. TypesOf(results) = TypesOf(e.results) \cup {a}
  <2>1. \A i \in DOMAIN e.results : i \in DOMAIN results /\ results[i] = e.results[i]
    BY <1>5
  <2>2. Len(results) \in DOMAIN results /\ results[Len(results)].type = a
    BY <1>5
  <2>3. QED
    BY <1>6, <2>1, <2>2 DEF TypesOf
<1>8. \A i \in DOMAIN results :
        /\ results[i].type \notin e.left \ {a}
        /\ ~results[i].completed => results[i].type = "memory-update"
        /\ memoryUp /\ results[i].type = "memory-update" =>
             (results[i].completed <=> ~e.failed) /\ (e.failed \/ e.stored)
  BY <1>1, <1>2, <1>6 DEF WellUnderway
<1>9. Once(results)
  <2>1. \A i \in DOMAIN e.results : e.results[i].type # a
    BY <1>1, <1>2 DEF WellUnderway
  <2>2. \A i \in DOMAIN results : i \notin DOMAIN e.results => i = Len(results)
    BY <1>5
  <2>3. \A i \in DOMAIN e.results : results[i].type = e.results[i].type
    BY <1>5
  <2>4. results[Len(results)].type = a
    BY <1>5
  <2>5. Once(e.results)
    BY <1>2 DEF WellUnderway
  <2>6. QED
    BY <2>1, <2>2, <2>3, <2>4, <2>5 DEF Once
<1>10. /\ \A d \in Chats : d # c /\ exec[d] # Plans!NoPlan => exec[d].id # e.id
      /\ DOMAIN report = Chats /\ calls \in Nat
      /\ exec \in [Chats -> ExecSet \cup {Plans!NoPlan}]
  BY <1>1 DEF ExecInv, ExecTyped
<1>11. \A d \in Chats : d # c /\ exec[d] # Plans!NoPlan =>
         /\ exec[d].id \in DOMAIN listening <=> exec[d].id \in DOMAIN listening'
         /\ exec[d].id \in DOMAIN listening => listening'[exec[d].id] = listening[exec[d].id]
  BY <1>1, <1>10
<1>12. \A l \in DOMAIN listening' :
         l \in DOMAIN listening /\ (exec[c] # Plans!NoPlan => exec[c].id # l)
  OBVIOUS
<1>13. calls' \in Nat /\ calls <= calls' /\ e.id <= calls'
  BY <1>2, <1>10
<1>14. CASE ~completed /\ policy = "stop-on-critical"
  <2>1. PICK r : r = [status |-> "failed", plan |-> e.plan, results |-> results,
                      stored |-> e.stored, failed |-> e.failed]
    OBVIOUS
  <2>2. exec' = [exec EXCEPT ![c] = Plans!NoPlan] /\ report' = [report EXCEPT ![c] = r]
    BY <1>1, <1>3, <1>14, <2>1 DEF Plans!Conclude, Plans!Enter
  <2>3. /\ DOMAIN report' = Chats /\ report'[c] = r
        /\ \A d \in Chats : d # c => report'[d] = report[d]
    BY <1>10, <2>2
  <2>4. /\ r.status = "failed" /\ r.results = results /\ r.stored = e.stored
        /\ r.failed = e.failed
    BY <2>1
  <2>5. memoryUp => r.failed
    BY <1>1, <1>14, <2>4
  <2>6. ~Plans!Last(r.results).completed
    BY <1>5, <1>14, <2>4 DEF Plans!Last
  <2>7. ReportTrue(r, memoryUp, policy)
    <3>1. memoryUp => (r.status = "completed") = ~r.failed
      BY <1>4, <2>4, <2>5
    <3>2. QED
      BY <1>14, <1>9, <2>4, <2>5, <2>6, <3>1 DEF ReportTrue
  <2>8. QED
    BY <1>11, <1>12, <1>13, <2>2, <2>3, <2>7, OthersUndisturbed
<1>15. CASE completed \/ policy # "stop-on-critical"
  <2>1. PICK n : n = [e EXCEPT !.pc = "next", !.left = @ \ {a}, !.results = results]
    OBVIOUS
  <2>2. exec' = [exec EXCEPT ![c] = n] /\ UNCHANGED report
    BY <1>1, <1>3, <1>15, <2>1 DEF Plans!Conclude, Plans!Enter
  <2>3. /\ n \in ExecSet /\ n.pc = "next" /\ n.left = e.left \ {a} /\ n.results = results
        /\ n.id = e.id /\ n.plan = e.plan /\ n.stored = e.stored /\ n.failed = e.failed
    BY <1>4, <1>5, <2>1 DEF ExecSet
  <2>4. TypesOf(n.results) \cup n.left = Plans!Actions(n.plan)
    BY <1>1, <1>2, <1>7, <2>3 DEF WellUnderway
  <2>5. "memory-update" \in n.left => ~n.stored /\ ~n.failed
    BY <1>1, <1>2, <2>3 DEF WellUnderway
  <2>6. WellUnderway(n, memoryUp)
    BY <1>8, <1>9, <2>3, <2>4, <2>5 DEF WellUnderway
  <2>7. Heard(n, memoryUp, listening')
    BY <2>3 DEF Heard
  <2>8. DOMAIN report' = Chats /\ ReportTrue(report'[c], memoryUp, policy)
    BY <1>10, <2>2 DEF ExecInv
  <2>9. \A d \in Chats : d # c => report'[d] = report[d]
    BY <2>2
  <2>10. QED
    <3>1. \A d \in Chats : d # c /\ exec[d] # Plans!NoPlan => exec[d].id # n.id
      BY <1>10, <2>3
    <3>2. n.id <= calls'
      BY <1>13, <2>3
    <3>3. exec' = [exec EXCEPT ![c] = n] /\ n \in ExecSet \cup {Plans!NoPlan}
      BY <2>2, <2>3
    <3>4. QED
      BY <1>11, <1>12, <1>13, <2>6, <2>7, <2>8, <2>9, <3>1, <3>2, <3>3, OthersUndisturbed
<1>16. QED
  BY <1>14, <1>15

\* Only a memory update in progress has a listener.
LEMMA NotListening ==
  ASSUME ExecInv, NEW c \in Chats, exec[c] # Plans!NoPlan, exec[c].pc \notin {"memory", "told"}
  PROVE  exec[c].id \notin DOMAIN listening
BY DEF ExecInv

\* A step of a plan that ends no action and leaves the reports alone.
LEMMA MovedOn ==
  ASSUME ExecInv, NEW c \in Chats, exec[c] # Plans!NoPlan, NEW n \in ExecSet,
         exec' = [exec EXCEPT ![c] = n], UNCHANGED << policy, memoryUp, calls, report >>,
         n.id = exec[c].id, WellUnderway(n, memoryUp), Heard(n, memoryUp, listening'),
         listening' \in [DOMAIN listening' -> BOOLEAN],
         \A d \in Chats : d # c /\ exec[d] # Plans!NoPlan =>
           /\ exec[d].id \in DOMAIN listening <=> exec[d].id \in DOMAIN listening'
           /\ exec[d].id \in DOMAIN listening => listening'[exec[d].id] = listening[exec[d].id],
         \A l \in DOMAIN listening' :
           \/ n.pc \in {"memory", "told"} /\ n.id = l
           \/ l \in DOMAIN listening /\ exec[c].id # l
  PROVE  ExecInv'
<1>1. /\ calls' \in Nat /\ calls <= calls' /\ n.id <= calls' /\ n # Plans!NoPlan
      /\ DOMAIN report' = Chats /\ ReportTrue(report'[c], memoryUp, policy)
      /\ \A d \in Chats : d # c /\ exec[d] # Plans!NoPlan => exec[d].id # n.id
  BY PlanKinds DEF ExecInv, ExecTyped
<1>2. n \in ExecSet \cup {Plans!NoPlan}
  OBVIOUS
<1>3. \A l \in DOMAIN listening' :
        \/ n # Plans!NoPlan /\ n.pc \in {"memory", "told"} /\ n.id = l
        \/ l \in DOMAIN listening /\ (exec[c] # Plans!NoPlan => exec[c].id # l)
  BY <1>1
<1>4. \A d \in Chats : d # c => report'[d] = report[d]
  OBVIOUS
<1>5. n # Plans!NoPlan =>
        /\ n.id <= calls' /\ WellUnderway(n, memoryUp) /\ Heard(n, memoryUp, listening')
        /\ \A d \in Chats : d # c /\ exec[d] # Plans!NoPlan => exec[d].id # n.id
  BY <1>1
<1>6. /\ calls' \in Nat /\ calls <= calls' /\ DOMAIN report' = Chats
      /\ ReportTrue(report'[c], memoryUp, policy)
  BY <1>1
<1>7. UNCHANGED << policy, memoryUp >>
  OBVIOUS
<1>8. QED
  BY <1>2, <1>3, <1>4, <1>5, <1>6, <1>7, OthersUndisturbed

LEMMA FinishKeeps ==
  ASSUME ExecInv, NEW c \in Chats, Plans!Finish(c)
  PROVE  ExecInv'
<1>1. exec[c].pc = "next" /\ exec[c].left = {} /\ UNCHANGED << policy, memoryUp, listening, calls >>
  BY DEF Plans!Finish
<1>2. exec[c] # Plans!NoPlan
  BY <1>1, PlanKinds
<1>3. PICK e \in ExecSet : e = exec[c]
  BY <1>2, PlanKinds
<1>4. WellUnderway(e, memoryUp) /\ TypesOf(e.results) = Plans!Actions(e.plan) /\ Once(e.results)
  <2>1. WellUnderway(e, memoryUp)
    BY <1>2, <1>3 DEF ExecInv
  <2>2. QED
    BY <1>1, <1>3, <2>1 DEF WellUnderway
<1>5. e.plan \in AllPlans
  BY <1>3 DEF ExecSet
<1>6. PICK status : status = IF \A i \in DOMAIN e.results : e.results[i].completed
                                  THEN "completed" ELSE "partial"
  OBVIOUS
<1>7. PICK r : r = [status |-> status, plan |-> e.plan, results |-> e.results,
                    stored |-> e.stored, failed |-> e.failed]
  OBVIOUS
<1>8. exec' = [exec EXCEPT ![c] = Plans!NoPlan] /\ report' = [report EXCEPT ![c] = r]
  BY <1>3, <1>6, <1>7 DEF Plans!Finish, Plans!Enter
<1>9. /\ r.status = status /\ r.plan = e.plan /\ r.results = e.results
      /\ r.stored = e.stored /\ r.failed = e.failed
  BY <1>7
<1>10. memoryUp /\ "memory-update" \in r.plan.does =>
         (r.status = "completed") = ~r.failed /\ (r.failed \/ r.stored)
  <2>1. HAVE memoryUp /\ "memory-update" \in r.plan.does
  <2>2. PICK i \in DOMAIN e.results : e.results[i].type = "memory-update"
    BY <1>4, <1>5, <1>9, <2>1, ActionsIn DEF TypesOf
  <2>3. (e.results[i].completed <=> ~e.failed) /\ (e.failed \/ e.stored)
    BY <1>4, <2>1, <2>2 DEF WellUnderway
  <2>4. (\A j \in DOMAIN e.results : e.results[j].completed) <=> ~e.failed
    <3>1. \A j \in DOMAIN e.results : ~e.results[j].completed => e.failed
      BY <1>4, <2>1 DEF WellUnderway
    <3>2. QED
      BY <2>2, <2>3, <3>1
  <2>5. status = "completed" <=> ~e.failed
    BY <1>6, <2>4
  <2>6. e.failed \in BOOLEAN
    BY <1>3 DEF ExecSet
  <2>7. QED
    BY <1>9, <2>3, <2>5, <2>6
<1>11. ReportTrue(r, memoryUp, policy)
  BY <1>4, <1>6, <1>9, <1>10 DEF ReportTrue
<1>12. /\ DOMAIN report' = Chats /\ report'[c] = r
       /\ \A d \in Chats : d # c => report'[d] = report[d]
       /\ listening' \in [DOMAIN listening' -> BOOLEAN] /\ calls' \in Nat /\ calls <= calls'
  BY <1>1, <1>8 DEF ExecInv, ExecTyped
<1>13. \A l \in DOMAIN listening' :
         l \in DOMAIN listening /\ (exec[c] # Plans!NoPlan => exec[c].id # l)
  BY <1>1, <1>2, NotListening
<1>14. \A d \in Chats : d # c /\ exec[d] # Plans!NoPlan =>
         /\ exec[d].id \in DOMAIN listening <=> exec[d].id \in DOMAIN listening'
         /\ exec[d].id \in DOMAIN listening => listening'[exec[d].id] = listening[exec[d].id]
  BY <1>1
<1>15. QED
  <2>1. ReportTrue(report'[c], memoryUp, policy) /\ UNCHANGED << policy, memoryUp >>
    BY <1>1, <1>11, <1>12
  <2>2. exec' = [exec EXCEPT ![c] = Plans!NoPlan]
          /\ Plans!NoPlan \in ExecSet \cup {Plans!NoPlan}
    BY <1>8
  <2>3. QED
    BY <1>12, <1>13, <1>14, <2>1, <2>2, OthersUndisturbed

LEMMA DispatchEventKeeps ==
  ASSUME ExecInv, NEW c \in Chats, Plans!DispatchEvent(c)
  PROVE  ExecInv'
<1>1. PICK a \in {"dialogue", "homeostasis-update", "noop"} :
        Plans!Turn(c, a) /\ Plans!Conclude(c, a, TRUE)
  BY DEF Plans!DispatchEvent
<1>2. exec[c].pc = "next" /\ a \in exec[c].left /\ exec[c] # Plans!NoPlan
  BY <1>1, PlanKinds DEF Plans!Turn
<1>3. UNCHANGED << policy, memoryUp, listening, calls >>
  BY DEF Plans!DispatchEvent
<1>4. DOMAIN listening = DOMAIN listening \ {exec[c].id}
  BY <1>2, NotListening
<1>5. listening' \in [DOMAIN listening' -> BOOLEAN]
  BY <1>3 DEF ExecInv, ExecTyped
<1>6. QED
  BY <1>1, <1>2, <1>3, <1>4, <1>5, ConcludeKeeps

LEMMA DispatchMemoryKeeps ==
  ASSUME ExecInv, NEW c \in Chats, Plans!DispatchMemory(c)
  PROVE  ExecInv'
<1>1. exec[c].pc = "next" /\ "memory-update" \in exec[c].left /\ exec[c] # Plans!NoPlan
  BY PlanKinds DEF Plans!DispatchMemory, Plans!Turn
<1>2. PICK e \in ExecSet : e = exec[c]
  BY <1>1, PlanKinds
<1>3. WellUnderway(e, memoryUp)
  BY <1>1, <1>2 DEF ExecInv
<1>4. PICK n : n = [e EXCEPT !.pc = IF memoryUp THEN "memory" ELSE "told"]
  OBVIOUS
<1>5. /\ n \in ExecSet /\ n.id = e.id /\ n.plan = e.plan /\ n.left = e.left
      /\ n.results = e.results /\ n.stored = e.stored /\ n.failed = e.failed
      /\ n.pc = (IF memoryUp THEN "memory" ELSE "told")
  BY <1>4 DEF ExecSet
<1>6. /\ exec' = [exec EXCEPT ![c] = n]
      /\ listening' = [l \in DOMAIN listening \cup {e.id} |->
                         IF l \in DOMAIN listening THEN listening[l] ELSE FALSE]
      /\ UNCHANGED << policy, memoryUp, calls, report >>
  BY <1>2, <1>4 DEF Plans!DispatchMemory, Plans!Enter
<1>7. e.id \notin DOMAIN listening
  BY <1>1, <1>2, NotListening
<1>8. /\ DOMAIN listening' = DOMAIN listening \cup {e.id} /\ listening'[e.id] = FALSE
      /\ \A l \in DOMAIN listening : listening'[l] = listening[l]
  BY <1>6, <1>7
<1>9. listening' \in [DOMAIN listening' -> BOOLEAN]
  <2>1. \A l \in DOMAIN listening' : listening'[l] \in BOOLEAN
    <3>1. \A l \in DOMAIN listening : listening[l] \in BOOLEAN
      BY DEF ExecInv, ExecTyped
    <3>2. \A l \in DOMAIN listening : listening'[l] \in BOOLEAN
      BY <1>8, <3>1
    <3>3. listening'[e.id] \in BOOLEAN
      BY <1>8
    <3>4. QED
      BY <1>8, <3>2, <3>3
  <2>2. listening' = [l \in DOMAIN listening' |-> listening'[l]]
    BY <1>6
  <2>3. QED
    BY <2>1, <2>2
<1>10. ~e.stored /\ ~e.failed
  BY <1>1, <1>2, <1>3 DEF WellUnderway
<1>11. WellUnderway(n, memoryUp)
  BY <1>1, <1>2, <1>3, <1>5, <1>10 DEF WellUnderway
<1>12. Heard(n, memoryUp, listening')
  BY <1>5, <1>8 DEF Heard
<1>13. \A d \in Chats : d # c /\ exec[d] # Plans!NoPlan => exec[d].id # e.id
  BY <1>1, <1>2 DEF ExecInv
<1>14. \A d \in Chats : d # c /\ exec[d] # Plans!NoPlan =>
         /\ exec[d].id \in DOMAIN listening <=> exec[d].id \in DOMAIN listening'
         /\ exec[d].id \in DOMAIN listening => listening'[exec[d].id] = listening[exec[d].id]
  BY <1>8, <1>13
<1>15. \A l \in DOMAIN listening' :
         \/ n.pc \in {"memory", "told"} /\ n.id = l
         \/ l \in DOMAIN listening /\ exec[c].id # l
  BY <1>2, <1>5, <1>7, <1>8
<1>16. QED
  BY <1>1, <1>2, <1>5, <1>6, <1>9, <1>11, <1>12, <1>14, <1>15, MovedOn

\* The memory service has answered, with a memory stored or a failure heard, or both.
LEMMA ToldKeeps ==
  ASSUME ExecInv, NEW c \in Chats, NEW stored \in BOOLEAN, NEW failed \in BOOLEAN, NEW n,
         exec[c].pc = "memory", UNCHANGED << policy, memoryUp, calls, report >>,
         n = [exec[c] EXCEPT !.pc = "told", !.stored = stored, !.failed = failed],
         failed \/ stored,
         exec' = [exec EXCEPT ![c] = n],
         DOMAIN listening' = DOMAIN listening,
         listening' \in [DOMAIN listening' -> BOOLEAN],
         listening'[exec[c].id] <=> failed,
         \A l \in DOMAIN listening : l # exec[c].id => listening'[l] = listening[l]
  PROVE  ExecInv'
<1>1. exec[c] # Plans!NoPlan
  BY PlanKinds
<1>2. PICK e \in ExecSet : e = exec[c]
  BY <1>1, PlanKinds
<1>3. WellUnderway(e, memoryUp) /\ Heard(e, memoryUp, listening)
  BY <1>1, <1>2 DEF ExecInv
<1>4. "memory-update" \in e.left /\ e.id \in DOMAIN listening
  BY <1>2, <1>3 DEF WellUnderway, Heard
<1>5. \A i \in DOMAIN e.results : e.results[i].type # "memory-update"
  BY <1>3, <1>4 DEF WellUnderway
<1>6. \A d \in Chats : d # c /\ exec[d] # Plans!NoPlan => exec[d].id # e.id
  BY <1>1, <1>2 DEF ExecInv
<1>7. /\ n \in ExecSet /\ n.id = e.id /\ n.plan = e.plan /\ n.left = e.left
      /\ n.results = e.results /\ n.stored = stored /\ n.failed = failed
      /\ n.pc = "told"
  BY <1>2 DEF ExecSet
<1>8. WellUnderway(n, memoryUp)
  BY <1>3, <1>4, <1>5, <1>7 DEF WellUnderway
<1>9. Heard(n, memoryUp, listening')
  <2>1. (listening'[n.id] <=> n.failed) /\ (n.failed \/ n.stored)
    BY <1>2, <1>7
  <2>2. QED
    BY <1>4, <1>7, <2>1 DEF Heard
<1>10. \A d \in Chats : d # c /\ exec[d] # Plans!NoPlan =>
         /\ exec[d].id \in DOMAIN listening <=> exec[d].id \in DOMAIN listening'
         /\ exec[d].id \in DOMAIN listening => listening'[exec[d].id] = listening[exec[d].id]
  BY <1>2, <1>6
<1>11. \A l \in DOMAIN listening' :
         \/ n.pc \in {"memory", "told"} /\ n.id = l
         \/ l \in DOMAIN listening /\ exec[c].id # l
  BY <1>2, <1>7
<1>12. n.id = exec[c].id
  BY <1>2, <1>7
<1>13. QED
  BY <1>1, <1>7, <1>8, <1>9, <1>10, <1>11, <1>12, MovedOn

LEMMA MemoryAnswersKeeps ==
  ASSUME ExecInv, NEW c \in Chats, Plans!MemoryAnswers(c)
  PROVE  ExecInv'
<1>1. /\ exec[c].pc = "memory" /\ exec[c] # Plans!NoPlan
      /\ UNCHANGED << policy, memoryUp, calls, report >>
  BY PlanKinds DEF Plans!MemoryAnswers
<1>2. PICK id : id = exec[c].id
  OBVIOUS
<1>3. id \in DOMAIN listening /\ ~listening[id] /\ exec[c] \in ExecSet /\ exec[c].failed = FALSE
  <2>1. PICK e \in ExecSet : e = exec[c]
    BY <1>1, PlanKinds
  <2>2. WellUnderway(e, memoryUp) /\ Heard(e, memoryUp, listening) /\ e.failed \in BOOLEAN
    BY <1>1, <2>1 DEF ExecInv, ExecSet
  <2>3. QED
    BY <1>1, <1>2, <2>1, <2>2 DEF WellUnderway, Heard
<1>4. \A l \in DOMAIN listening : listening[l] \in BOOLEAN
  BY DEF ExecInv, ExecTyped
<1>5. CASE /\ Plans!Enter(c, [exec[c] EXCEPT !.pc = "told", !.stored = TRUE])
           /\ UNCHANGED listening
  <2>1. PICK n : n = [exec[c] EXCEPT !.pc = "told", !.stored = TRUE, !.failed = FALSE]
    OBVIOUS
  <2>2. n = [exec[c] EXCEPT !.pc = "told", !.stored = TRUE]
    BY <1>3, <2>1 DEF ExecSet
  <2>3. exec' = [exec EXCEPT ![c] = n]
    BY <1>5, <2>2 DEF Plans!Enter
  <2>4. listening' \in [DOMAIN listening' -> BOOLEAN] /\ DOMAIN listening' = DOMAIN listening
    BY <1>5 DEF ExecInv, ExecTyped
  <2>5. listening'[exec[c].id] <=> FALSE
    BY <1>2, <1>3, <1>5
  <2>6. \A l \in DOMAIN listening : l # exec[c].id => listening'[l] = listening[l]
    BY <1>5
  <2>7. TRUE \in BOOLEAN /\ FALSE \in BOOLEAN
    OBVIOUS
  <2>8. QED
    BY <1>1, <2>1, <2>3, <2>4, <2>5, <2>6, <2>7, ToldKeeps
<1>6. CASE /\ \E stored \in BOOLEAN :
                Plans!Enter(c, [exec[c] EXCEPT !.pc = "told", !.stored = stored, !.failed = TRUE])
           /\ listening' = [l \in DOMAIN listening |->
                              listening[l] \/ Plans!Concerns(l, exec[c].id)]
  <2>1. PICK stored \in BOOLEAN :
          Plans!Enter(c, [exec[c] EXCEPT !.pc = "told", !.stored = stored, !.failed = TRUE])
    BY <1>6
  <2>2. PICK n : n = [exec[c] EXCEPT !.pc = "told", !.stored = stored, !.failed = TRUE]
    OBVIOUS
  <2>3. exec' = [exec EXCEPT ![c] = n]
    BY <2>1, <2>2 DEF Plans!Enter
  <2>4. DOMAIN listening' = DOMAIN listening
    BY <1>6
  <2>5. \A l \in DOMAIN listening : listening'[l] = (listening[l] \/ l = id)
    BY <1>2, <1>6 DEF Plans!Concerns
  <2>6. listening'[exec[c].id] <=> TRUE
    BY <1>2, <1>3, <2>5
  <2>7. \A l \in DOMAIN listening : l # exec[c].id => listening'[l] = listening[l]
    BY <1>2, <1>4, <2>5, Zenon
  <2>8. listening' \in [DOMAIN listening' -> BOOLEAN]
    <3>1. \A l \in DOMAIN listening' : listening'[l] \in BOOLEAN
      BY <2>4, <2>5, Zenon
    <3>2. listening' = [l \in DOMAIN listening' |-> listening'[l]]
      BY <1>6
    <3>3. QED
      BY <3>1, <3>2
  <2>9. TRUE \in BOOLEAN
    OBVIOUS
  <2>10. QED
    BY <1>1, <2>2, <2>3, <2>4, <2>6, <2>7, <2>8, <2>9, ToldKeeps
<1>7. QED
  BY <1>5, <1>6 DEF Plans!MemoryAnswers

LEMMA MemoryReturnsKeeps ==
  ASSUME ExecInv, NEW c \in Chats, Plans!MemoryReturns(c)
  PROVE  ExecInv'
<1>1. exec[c].pc = "told" /\ exec[c] # Plans!NoPlan /\ UNCHANGED << policy, memoryUp, calls >>
  BY PlanKinds DEF Plans!MemoryReturns
<1>2. "memory-update" \in exec[c].left /\ exec[c].id \in DOMAIN listening
      /\ (memoryUp => (listening[exec[c].id] <=> exec[c].failed)
                        /\ (exec[c].failed \/ exec[c].stored))
  BY <1>1 DEF ExecInv, WellUnderway, Heard
<1>3. listening' = [l \in DOMAIN listening \ {exec[c].id} |-> listening[l]]
  BY DEF Plans!MemoryReturns, Plans!Disposed
<1>4. PICK completed : completed = ~listening[exec[c].id]
  OBVIOUS
<1>5. /\ completed \in BOOLEAN
      /\ memoryUp => (completed <=> ~exec[c].failed) /\ (exec[c].failed \/ exec[c].stored)
  BY <1>2, <1>4
<1>6. Plans!Conclude(c, "memory-update", completed)
  BY <1>4 DEF Plans!MemoryReturns
<1>7. /\ DOMAIN listening' = DOMAIN listening \ {exec[c].id}
      /\ \A l \in DOMAIN listening' : listening'[l] = listening[l]
  BY <1>3
<1>8. listening' \in [DOMAIN listening' -> BOOLEAN]
  BY <1>3, <1>7 DEF ExecInv, ExecTyped
<1>9. QED
  BY <1>1, <1>2, <1>5, <1>6, <1>7, <1>8, ConcludeKeeps

LEMMA DispatchBondKeeps ==
  ASSUME ExecInv, NEW c \in Chats, Plans!DispatchBond(c)
  PROVE  ExecInv' /\ exec[c].plan.bond \in PlanBonds /\ Plans!AskBond(c, exec[c].plan.bond)
<1>1. exec[c].pc = "next" /\ "bond-update" \in exec[c].left /\ exec[c] # Plans!NoPlan
  BY PlanKinds DEF Plans!DispatchBond, Plans!Turn
<1>2. PICK e \in ExecSet : e = exec[c]
  BY <1>1, PlanKinds
<1>3. WellUnderway(e, memoryUp)
  BY <1>1, <1>2 DEF ExecInv
<1>4. PICK n : n = [e EXCEPT !.pc = "bond"]
  OBVIOUS
<1>5. /\ n \in ExecSet /\ n.id = e.id /\ n.plan = e.plan /\ n.left = e.left
      /\ n.results = e.results /\ n.stored = e.stored /\ n.failed = e.failed /\ n.pc = "bond"
  BY <1>4 DEF ExecSet
<1>6. /\ exec' = [exec EXCEPT ![c] = n] /\ UNCHANGED << policy, memoryUp, listening, calls, report >>
  BY <1>2, <1>4 DEF Plans!DispatchBond, Plans!Enter
<1>7. WellUnderway(n, memoryUp)
  BY <1>1, <1>2, <1>3, <1>5 DEF WellUnderway
<1>8. Heard(n, memoryUp, listening')
  BY <1>5 DEF Heard
<1>9. listening' \in [DOMAIN listening' -> BOOLEAN]
  BY <1>6 DEF ExecInv, ExecTyped
<1>10. \A l \in DOMAIN listening' : l \in DOMAIN listening /\ exec[c].id # l
  BY <1>1, <1>6, NotListening
<1>11. ExecInv'
  BY <1>1, <1>2, <1>5, <1>6, <1>7, <1>8, <1>9, <1>10, MovedOn
<1>12. e.plan \in AllPlans
  BY <1>2 DEF ExecSet
<1>13. exec[c].plan.bond \in PlanBonds
  BY <1>2, <1>12 DEF AllPlans, PlanBonds
<1>14. QED
  BY <1>11, <1>13 DEF Plans!DispatchBond

LEMMA BondReturnsKeeps ==
  ASSUME ExecInv, NEW c \in Chats, Plans!BondReturns(c)
  PROVE  ExecInv'
<1>1. exec[c].pc = "bond" /\ exec[c] # Plans!NoPlan /\ Plans!Conclude(c, "bond-update", TRUE)
      /\ UNCHANGED << policy, memoryUp, listening, calls >>
  BY PlanKinds DEF Plans!BondReturns
<1>2. "bond-update" \in exec[c].left
  BY <1>1 DEF ExecInv, WellUnderway
<1>3. DOMAIN listening = DOMAIN listening \ {exec[c].id}
  BY <1>1, NotListening
<1>4. listening' \in [DOMAIN listening' -> BOOLEAN]
  BY <1>1 DEF ExecInv, ExecTyped
<1>5. QED
  BY <1>1, <1>2, <1>3, <1>4, ConcludeKeeps

(***************************************************************************)
(* Every step of the plans, and of the other services.                     *)
(***************************************************************************)
LEMMA PlansStepKeeps ==
  ASSUME BondsInv, ExecInv, Plans!Next
  PROVE  BondsInv' /\ ExecInv'
<1>1. PICK c \in Chats :
        \/ Plans!Step(c)
        \/ \E p \in PlansOf[c] : Plans!Execute(c, p)
        \/ \E q \in Asked : Plans!BuildContext(c, q)
  BY DEF Plans!Next
<1>2. calls \in Nat
  BY DEF ExecInv, ExecTyped
<1>3. ASSUME UNCHANGED << backend, bonds, made, asking, answered, disturbed, stray >>
      PROVE  BondsInv'
  BY <1>3, BondsBeside
<1>4. ASSUME UNCHANGED << policy, memoryUp, exec, listening, report >>,
             calls' = calls \/ calls' = calls + 1
      PROVE  ExecInv'
  BY <1>2, <1>4, ExecBeside
<1>5. CASE \E p \in PlansOf[c] : Plans!Execute(c, p)
  BY <1>3, <1>5, ExecuteKeeps DEF Plans!Execute, Plans!bondvars
<1>6. CASE \E q \in Asked : Plans!BuildContext(c, q)
  BY <1>4, <1>6, AskContextKeeps DEF Plans!BuildContext, Plans!planvars
<1>7. CASE Plans!Finish(c)
  BY <1>3, <1>7, FinishKeeps DEF Plans!Finish, Plans!bondvars
<1>8. CASE Plans!DispatchEvent(c)
  BY <1>3, <1>8, DispatchEventKeeps DEF Plans!DispatchEvent, Plans!bondvars
<1>9. CASE Plans!DispatchMemory(c)
  BY <1>3, <1>9, DispatchMemoryKeeps DEF Plans!DispatchMemory, Plans!bondvars
<1>10. CASE Plans!MemoryAnswers(c)
  BY <1>3, <1>10, MemoryAnswersKeeps DEF Plans!MemoryAnswers, Plans!bondvars
<1>11. CASE Plans!MemoryReturns(c)
  BY <1>3, <1>11, MemoryReturnsKeeps DEF Plans!MemoryReturns, Plans!bondvars
<1>12. CASE Plans!DispatchBond(c)
  BY <1>12, DispatchBondKeeps, AskBondKeeps
<1>13. CASE Plans!BondReturns(c)
  BY <1>3, <1>13, BondReturnsKeeps DEF Plans!BondReturns, Plans!bondvars
<1>14. CASE Plans!ServiceStep(c)
  <2>1. BondsInv'
    BY <1>14, BondStepKeeps, BondThrowsKeeps DEF Plans!ServiceStep
  <2>2. ExecInv'
    BY <1>4, <1>14 DEF Plans!ServiceStep, Plans!planvars
  <2>3. QED
    BY <2>1, <2>2
<1>15. QED
  BY <1>1, <1>5, <1>6, <1>7, <1>8, <1>9, <1>10, <1>11, <1>12, <1>13, <1>14 DEF Plans!Step

\* The memory service counts its calls up.
LEMMA MemoryCalls ==
  ASSUME Memory!Next
  PROVE  calls' = calls \/ calls' = calls + 1
<1>1. PICK c \in Chats : Memory!Call(c) \/ Memory!Step(c)
  BY DEF Memory!Next
<1>2. CASE Memory!Call(c)
  BY <1>2 DEF Memory!Call, Memory!Request, Memory!Consolidate, Memory!BuildContext, Memory!Begin
<1>3. CASE Memory!Step(c)
  BY <1>3 DEF Memory!Step, Memory!Find, Memory!Update, Memory!Upsert, Memory!Save, Memory!Count,
     Memory!ListOverflow, Memory!QueryActive, Memory!SaveConsolidated, Memory!Collect,
     Memory!Select, Memory!Throw, Memory!bounds
<1>4. QED
  BY <1>1, <1>2, <1>3

LEMMA PlansBeside ==
  ASSUME BondsInv, ExecInv, UNCHANGED planVars, calls' = calls \/ calls' = calls + 1
  PROVE  BondsInv' /\ ExecInv'
<1>1. UNCHANGED << bonds, made, asking, answered, disturbed, stray >>
  BY DEF planVars
<1>2. UNCHANGED << policy, memoryUp, exec, listening, report >>
  BY DEF planVars
<1>3. calls' \in Nat /\ calls <= calls'
  BY DEF ExecInv, ExecTyped
<1>4. QED
  BY <1>1, <1>2, <1>3, BondsBeside, ExecBeside

LEMMA PlansInitially ==
  ASSUME Init
  PROVE  BondsInv /\ ExecInv
<1>1. /\ bonds = [i \in BondIds |-> Plans!NoBond] /\ made = 0
      /\ asking = [c \in Chats |-> Plans!Idle]
      /\ answered = << >> /\ disturbed = {} /\ stray = {}
      /\ exec = [c \in Chats |-> Plans!NoPlan]
      /\ listening = << >> /\ report = [c \in Chats |-> Plans!NoReport] /\ calls = 0
  BY DEF Init, Plans!Init, Plans!BondInit, BondIds, Plans!BondIds
<1>2. DOMAIN answered = {} /\ DOMAIN listening = {}
  BY <1>1
<1>3. \A c \in Chats : asking[c] = Plans!Idle /\ asking[c].pc = "idle"
  BY <1>1, RecordsApart
<1>4. BondsTyped
  <2>1. made \in 0..MaxBonds
    <3>1. MaxBonds \in Nat
      BY LimitsAssumption
    <3>2. QED
      BY <1>1, <3>1
  <2>2. answered \in [DOMAIN answered -> Nat]
    <3>1. answered \in [{} -> Nat]
      BY <1>1
    <3>2. QED
      BY <1>2, <3>1
  <2>3. asking \in [Chats -> Askings]
    BY <1>1 DEF Askings
  <2>4. QED
    BY <1>1, <1>2, <1>3, <2>1, <2>2, <2>3 DEF BondsTyped
<1>5. BondsKept
  <2>1. SUFFICES ASSUME NEW t \in Targets PROVE Exact(t)
    BY DEF BondsKept
  <2>2. Holding(t) = {} /\ UpdatesOf(t) = {}
    BY <1>1, <1>3 DEF Holding, UpdatesOf, Working
  <2>3. QED
    BY <1>2, <2>2 DEF Exact
<1>6. AskedOnly
  BY <1>1, <1>3 DEF AskedOnly
<1>7. ExecTyped
  <2>1. listening \in [DOMAIN listening -> BOOLEAN]
    <3>1. listening \in [{} -> BOOLEAN]
      BY <1>1
    <3>2. QED
      BY <1>2, <3>1
  <2>2. QED
    BY <1>1, <2>1 DEF ExecTyped
<1>8. ExecInv
  BY <1>1, <1>2, <1>7 DEF ExecInv, ReportTrue
<1>9. QED
  BY <1>4, <1>5, <1>6, <1>8 DEF BondsInv

\* The bonds, the contexts made of them and the plans in execution are as their
\* invariants say, whatever a life does.
THEOREM PlansInvariant ==
  Spec => [](BondsInv /\ ExecInv)
<1>1. Init => BondsInv /\ ExecInv
  BY PlansInitially
<1>2. BondsInv /\ ExecInv /\ [Next]_vars => (BondsInv /\ ExecInv)'
  <2>1. SUFFICES ASSUME BondsInv, ExecInv, [Next]_vars PROVE BondsInv' /\ ExecInv'
    OBVIOUS
  <2>2. CASE Plans!Next
    BY <2>1, <2>2, PlansStepKeeps
  <2>3. CASE Memory!Next /\ UNCHANGED planVars
    BY <2>1, <2>3, MemoryCalls, PlansBeside
  <2>4. CASE UNCHANGED planVars /\ UNCHANGED calls
    BY <2>1, <2>4, PlansBeside
  <2>5. CASE UNCHANGED vars
    BY <2>4, <2>5 DEF vars
  <2>6. QED
    BY <2>1, <2>2, <2>3, <2>4, <2>5 DEF Next
<1>3. QED
  BY <1>1, <1>2, PTL DEF Spec

LEMMA InvGivesBonds ==
  ASSUME BondsInv
  PROVE  BondsExact
<1>1. SUFFICES ASSUME NEW t \in DOMAIN answered, t \notin disturbed
               PROVE  \E i \in Plans!Bonds :
                        /\ \A j \in Plans!Bonds : bonds[j].target = t <=> i = j
                        /\ bonds[i].count = answered[t]
  BY DEF BondsExact, Plans!BondsExact
<1>2. t \in Targets /\ Exact(t)
  BY <1>1 DEF BondsInv, BondsTyped, BondsKept
<1>3. PICK i \in BondIds : Holding(t) = {i} /\ bonds[i].count = answered[t]
  BY <1>1, <1>2 DEF Exact
<1>4. QED
  BY <1>3 DEF Holding, Plans!Bonds, Plans!BondIds, BondIds

\* A target updated one at a time and without failures has one bond that counts
\* every answered update of it.
THEOREM BondsCorrect ==
  Spec => []BondsExact
<1>1. BondsInv /\ ExecInv => BondsExact
  BY InvGivesBonds
<1>2. QED
  BY <1>1, PlansInvariant, PTL

\* A context of bonds that was asked about somebody holds no bond to anybody else.
THEOREM BondContextsCorrect ==
  Spec => []Plans!ContextNamesAsked
<1>1. BondsInv /\ ExecInv => Plans!ContextNamesAsked
  BY DEF BondsInv, AskedOnly, Plans!ContextNamesAsked
<1>2. QED
  BY <1>1, PlansInvariant, PTL

LEMMA InvGivesReports ==
  ASSUME ExecInv
  PROVE  ReportedAsItWent
<1>1. ASSUME NEW l \in DOMAIN listening
      PROVE  l \in {exec[c].id : c \in {c \in Chats : exec[c].pc \in {"memory", "told"}}}
  BY <1>1 DEF ExecInv
<1>2. ASSUME NEW c \in Chats, report[c] # Plans!NoReport
      PROVE  LET r == report[c] IN
             /\ memoryUp /\ "memory-update" \in r.plan.does =>
                  (r.status = "completed") = ~r.failed /\ (r.failed \/ r.stored)
             /\ r.status # "failed" =>
                  {r.results[i].type : i \in DOMAIN r.results} = Plans!Actions(r.plan)
             /\ \A i, j \in DOMAIN r.results : r.results[i].type = r.results[j].type => i = j
             /\ r.status = "failed" =>
                  policy = "stop-on-critical" /\ ~Plans!Last(r.results).completed
  BY <1>2 DEF ExecInv, ReportTrue, TypesOf, Once
<1>3. QED
  BY <1>1, <1>2 DEF ReportedAsItWent, Plans!ReportedAsItWent

\* The report of a plan tells what became of it, and the listeners of memory
\* failures end with the action they belong to.
THEOREM ReportsCorrect ==
  Spec => []ReportedAsItWent
<1>1. BondsInv /\ ExecInv => ReportedAsItWent
  BY InvGivesReports
<1>2. QED
  BY <1>1, PlansInvariant, PTL
-----------------------------------------------------------------------------
(***************************************************************************)
(* Wake-ups: types.  A wake-up has its number for good; the messages of a  *)
(* loop hold no system message, and every tool call with its results.      *)
(***************************************************************************)
Messages ==
  {Turns!User} \cup [role : {"assistant"}, calls : Nat] \cup [role : {"tool"}, call : Nat]
Stops == {"none", "completed", "max-rounds"}
Loops ==
  [messages : Seq(Messages), round : Nat, segments : Seq(Nat), silent : BOOLEAN, stop : Stops]
TurnLives == UNION {LivesOf[c] : c \in TurnChats}
Models == [pc : {"model"}, wake : Nat, life : TurnLives, routed : BOOLEAN, loop : Loops]
Sends == [pc : {"send"}, wake : Nat, routed : BOOLEAN, outputs : Seq(Nat)]
Remembered ==
  [role : {"user"}, wake : Nat] \cup [role : {"assistant"}, wake : Nat, content : Seq(Nat)]

TurnsTyped ==
  /\ turn \in [TurnChats -> {Turns!NoTurn} \cup Models \cup Sends]
  /\ \A c \in TurnChats : turn[c].pc = "model" => turn[c].life \in LivesOf[c]
  /\ wakes \in Nat /\ bot \in BOOLEAN

HistoryTyped ==
  /\ history \in [Turns!Keys -> Seq(Remembered)]
  /\ \A k \in Turns!Keys : Len(history[k]) <= MaxHistory

CreatedTyped ==
  /\ created \in [DOMAIN created -> Seq(Nat)]
  /\ DOMAIN created \subseteq 1..wakes
  /\ \A w \in DOMAIN created : Len(created[w]) <= MaxSegments

Numbered ==
  /\ \A c \in TurnChats : turn[c] # Turns!NoTurn => turn[c].wake \in 1..wakes
  /\ \A c, d \in TurnChats :
       turn[c] # Turns!NoTurn /\ turn[d] # Turns!NoTurn /\ turn[c].wake = turn[d].wake => c = d
  /\ \A c \in TurnChats : turn[c].pc = "model" => turn[c].wake \notin DOMAIN created
  /\ \A c \in TurnChats : turn[c].pc = "send" => turn[c].wake \in DOMAIN created

\* Every assistant message is followed by the results of its calls.
Conversation(messages) ==
  \A i \in 1..Len(messages) :
    /\ messages[i].role = "assistant" =>
         \A k \in 1..messages[i].calls :
           i + k <= Len(messages) /\ messages[i + k] = Turns!Result(k)
    /\ messages[i].role = "tool" =>
         LET a == i - messages[i].call
         IN  a >= 1 /\ messages[a].role = "assistant" /\ messages[a].calls >= messages[i].call

Looping(loop) ==
  /\ loop.stop = "none" /\ loop.round < MaxRounds /\ Len(loop.segments) <= MaxSegments
  /\ Conversation(loop.messages)

HistoryKept ==
  \A k \in Turns!Keys : \A i \in DOMAIN history[k] :
    history[k][i].role = "assistant" =>
      /\ history[k][i].wake \in DOMAIN created
      /\ history[k][i].content = created[history[k][i].wake]

LoopsKept == \A c \in TurnChats : turn[c].pc = "model" => Looping(turn[c].loop)

TurnInv ==
  /\ TurnsTyped /\ HistoryTyped /\ CreatedTyped
  /\ Numbered /\ LoopsKept /\ HistoryKept

(***************************************************************************)
(* Sending: of what was created for a wake-up, its attempts to send hold   *)
(* the beginning, and its turn holds the rest.                             *)
(***************************************************************************)
Attempts ==
  [wake : Nat, text : Nat, outcome : {"sent", "unrouted", "refused"}, routed : BOOLEAN,
   known : BOOLEAN]
TextsOf(attempts) == [i \in DOMAIN attempts |-> attempts[i].text]

SendInv ==
  /\ sending \in Seq(Attempts)
  /\ \A i \in DOMAIN sending : sending[i].wake \in DOMAIN created
  /\ \A c \in TurnChats : turn[c].pc = "send" =>
       TextsOf(Turns!AttemptsOf(turn[c].wake)) \o turn[c].outputs = created[turn[c].wake]
  /\ \A w \in DOMAIN created :
       \/ TextsOf(Turns!AttemptsOf(w)) = created[w]
       \/ \E c \in TurnChats : turn[c].pc = "send" /\ turn[c].wake = w

(***************************************************************************)
(* The registry: the chats a message was seen in last, as many as it has   *)
(* room for, in the order of their last messages.                          *)
(***************************************************************************)
SinceIn(said, i) == {said[j] : j \in i..Len(said)}

\* Of two in the registry, the later one was seen after each time the earlier was.
LastOrdered(kept, said) ==
  \A j, k \in 1..Len(kept) : j <= k =>
    \A i \in 1..Len(said) : said[i] = kept[j] => kept[k] \in SinceIn(said, i)

\* Each was seen when since then only those after it were.
Covered(kept, said) ==
  \A k \in 1..Len(kept) : \E i \in 1..Len(said) :
    said[i] = kept[k] /\ \A x \in SinceIn(said, i) : \E j \in k..Len(kept) : kept[j] = x

\* Who is no longer in it has been followed by n others.
Outlived(kept, said, n) ==
  \A i \in 1..Len(said) :
    (\A k \in 1..Len(kept) : kept[k] # said[i]) =>
      Len(kept) >= n /\ \A k \in 1..Len(kept) : kept[k] \in SinceIn(said, i)

RegistryInv ==
  /\ channels \in Seq(TurnChats) /\ seen \in Seq(TurnChats)
  /\ Len(channels) <= MaxChannels /\ Distinct(channels)
  /\ LastOrdered(channels, seen) /\ Covered(channels, seen)
  /\ Outlived(channels, seen, MaxChannels)

RoutesTold ==
  \A i \in DOMAIN sending :
    sending[i].outcome = "unrouted" <=> ~(sending[i].routed /\ sending[i].known)

WakeInv == TurnInv /\ SendInv /\ RegistryInv /\ RoutesTold

LEMMA TurnKinds ==
  /\ Turns!NoTurn.pc = "none"
  /\ \A t \in Models : t.pc = "model" /\ t # Turns!NoTurn /\ t.wake \in Nat /\ t.loop \in Loops
                         /\ t.routed \in BOOLEAN /\ t.life \in TurnLives
  /\ \A t \in Sends : t.pc = "send" /\ t # Turns!NoTurn /\ t.wake \in Nat
                        /\ t.routed \in BOOLEAN /\ t.outputs \in Seq(Nat)
  /\ Turns!NoTurn \notin Models /\ Turns!NoTurn \notin Sends
<1>1. Turns!NoTurn.pc = "none"
  BY DEF Turns!NoTurn
<1>2. \A t \in Models : t.pc = "model" /\ t.wake \in Nat /\ t.loop \in Loops
                         /\ t.routed \in BOOLEAN /\ t.life \in TurnLives
  BY DEF Models
<1>3. \A t \in Sends : t.pc = "send" /\ t.wake \in Nat /\ t.routed \in BOOLEAN
                        /\ t.outputs \in Seq(Nat)
  BY DEF Sends
<1>4. QED
  BY <1>1, <1>2, <1>3

LEMMA TurnKind ==
  ASSUME TurnsTyped, NEW c \in TurnChats
  PROVE  /\ turn[c].pc \in {"none", "model", "send"}
         /\ turn[c].pc = "none" <=> turn[c] = Turns!NoTurn
         /\ turn[c].pc = "model" <=> turn[c] \in Models
         /\ turn[c].pc = "send" <=> turn[c] \in Sends
<1>1. turn[c] \in {Turns!NoTurn} \cup Models \cup Sends
  BY DEF TurnsTyped
<1>2. QED
  BY <1>1, TurnKinds

(***************************************************************************)
(* The last elements of a sequence.                                        *)
(***************************************************************************)
LEMMA LastFacts ==
  ASSUME NEW T, NEW s \in Seq(T), NEW n \in Nat
  PROVE  LET r == Turns!LastOf(s, n)
         IN  /\ r \in Seq(T) /\ Len(r) <= n
             /\ Len(s) <= n => r = s
             /\ Len(s) = n + 1 => Len(r) = n /\ \A i \in 1..n : r[i] = s[i + 1]
             /\ \A i \in DOMAIN r : \E j \in DOMAIN s : r[i] = s[j]
<1>1. PICK m : m = IF Len(s) > n THEN Len(s) - n + 1 ELSE 1
  OBVIOUS
<1>2. PICK r : r = SubSeq(s, m, Len(s))
  OBVIOUS
<1>3. PICK l \in Nat : l = Len(s)
  OBVIOUS
<1>4. Turns!LastOf(s, n) = r
  BY <1>1, <1>2 DEF Turns!LastOf
<1>5. m \in 1..(l + 1) /\ l - m + 1 \in Nat /\ l - m + 1 <= n
  BY <1>1, <1>3
<1>6. r = [i \in 1..(l - m + 1) |-> s[i + m - 1]]
  BY <1>2, <1>3, <1>5
<1>7. \A i \in 1..(l - m + 1) : i + m - 1 \in 1..l
  BY <1>3, <1>5
<1>8. \A i \in 1..(l - m + 1) : i + m - 1 \in DOMAIN s /\ r[i] = s[i + m - 1] /\ r[i] \in T
  BY <1>3, <1>6, <1>7
<1>9. DOMAIN r = 1..(l - m + 1) /\ r \in Seq(T) /\ Len(r) = l - m + 1
  <2>1. PICK k \in Nat : k = l - m + 1
    BY <1>5
  <2>2. r \in [1..k -> T]
    BY <1>6, <1>8, <2>1
  <2>3. QED
    BY <2>1, <2>2
<1>10. ASSUME l <= n PROVE r = s
  <2>1. m = 1
    BY <1>1, <1>3, <1>10
  <2>2. r = [i \in 1..l |-> s[i]]
    <3>1. l - m + 1 = l
      BY <2>1
    <3>2. \A i \in 1..l : r[i] = s[i]
      BY <1>8, <2>1
    <3>3. QED
      BY <1>9, <3>1, <3>2
  <2>3. QED
    BY <1>3, <2>2
<1>11. ASSUME l = n + 1 PROVE Len(r) = n /\ \A i \in 1..n : r[i] = s[i + 1]
  <2>1. m = 2
    BY <1>1, <1>3, <1>11
  <2>2. l - m + 1 = n
    BY <1>11, <2>1
  <2>3. ASSUME NEW i \in 1..n PROVE r[i] = s[i + 1]
    <3>1. i \in 1..(l - m + 1) /\ i + m - 1 = i + 1
      BY <2>1, <2>2
    <3>2. QED
      BY <1>8, <3>1
  <2>4. QED
    BY <1>9, <2>2, <2>3
<1>12. \A i \in DOMAIN r : \E j \in DOMAIN s : r[i] = s[j]
  BY <1>8, <1>9
<1>13. Len(r) <= n
  BY <1>5, <1>9
<1>14. QED
  BY <1>3, <1>4, <1>9, <1>10, <1>11, <1>12, <1>13

(***************************************************************************)
(* A round of the tool loop.                                               *)
(***************************************************************************)
LEMMA SameElements ==
  ASSUME NEW T, NEW p \in Seq(T), NEW q \in Seq(T), Len(p) = Len(q),
         \A i \in 1..Len(p) : p[i] = q[i]
  PROVE  p = q
OBVIOUS

LEMMA AppendAt ==
  ASSUME NEW T, NEW s \in Seq(T), NEW e \in T
  PROVE  /\ Append(s, e) \in Seq(T) /\ Len(Append(s, e)) = Len(s) + 1
         /\ Len(s) \in Nat /\ Append(s, e)[Len(s) + 1] = e
         /\ \A i \in 1..Len(s) : Append(s, e)[i] = s[i]
OBVIOUS

LEMMA TailAt ==
  ASSUME NEW T, NEW s \in Seq(T), Len(s) # 0
  PROVE  /\ Tail(s) \in Seq(T) /\ Len(Tail(s)) = Len(s) - 1
         /\ \A i \in 1..(Len(s) - 1) : Tail(s)[i] = s[i + 1]
         /\ Head(s) \in T /\ Head(s) = s[1]
OBVIOUS

LEMMA TailOfEcho ==
  ASSUME NEW T, NEW s \in Seq(T), NEW x \in T, NEW y \in T
  PROVE  Tail(Append(<< x >> \o s, y)) = Append(s, y)
<1> DEFINE r == << x >> \o s
           q == Append(r, y)
           p == Append(s, y)
<1>1. PICK n \in Nat : n = Len(s)
  OBVIOUS
<1>2. r \in Seq(T) /\ Len(r) = n + 1 /\ \A i \in 1..n : r[i + 1] = s[i]
  BY <1>1
<1> HIDE DEF r
<1>3. /\ q \in Seq(T) /\ Len(q) = n + 2 /\ q[n + 2] = y
      /\ \A i \in 1..(n + 1) : q[i] = r[i]
  <2>1. Len(q) = (n + 1) + 1 /\ q[(n + 1) + 1] = y /\ q \in Seq(T)
        /\ \A i \in 1..(n + 1) : q[i] = r[i]
    BY <1>2, AppendAt
  <2>2. (n + 1) + 1 = n + 2
    OBVIOUS
  <2>3. QED
    BY <2>1, <2>2
<1>4. p \in Seq(T) /\ Len(p) = n + 1 /\ p[n + 1] = y /\ \A i \in 1..n : p[i] = s[i]
  BY <1>1, AppendAt
<1> HIDE DEF q, p
<1>5. /\ Tail(q) \in Seq(T) /\ Len(Tail(q)) = n + 1
      /\ \A i \in 1..(n + 1) : Tail(q)[i] = q[i + 1]
  <2>1. Len(q) # 0 /\ Len(q) - 1 = n + 1
    BY <1>3
  <2>2. QED
    BY <1>3, <2>1, TailAt
<1>6. ASSUME NEW i \in 1..(n + 1) PROVE Tail(q)[i] = p[i]
  <2>1. CASE i = n + 1
    <3>1. i + 1 = n + 2
      BY <2>1
    <3>2. QED
      BY <1>3, <1>4, <1>5, <2>1, <3>1
  <2>2. CASE i # n + 1
    <3>1. i \in 1..n /\ i + 1 \in 1..(n + 1)
      BY <2>2
    <3>2. Tail(q)[i] = q[i + 1] /\ q[i + 1] = r[i + 1] /\ r[i + 1] = s[i] /\ p[i] = s[i]
      BY <1>2, <1>3, <1>4, <1>5, <3>1
    <3>3. QED
      BY <3>2
  <2>3. QED
    BY <2>1, <2>2
<1>7. Tail(q) = p
  BY <1>4, <1>5, <1>6, SameElements
<1>8. QED
  BY <1>7 DEF q, p, r

\* What the provider echoes is the messages and its answer.
LEMMA EchoFacts ==
  ASSUME NEW messages \in Seq(Messages), NEW said \in Seq(Turns!Calls)
  PROVE  /\ Turns!Echo(messages, said) = Append(messages, Turns!Assistant(Len(said)))
         /\ Turns!Assistant(Len(said)) \in Messages
<1> DEFINE a == Turns!Assistant(Len(said))
           T == Messages \cup {Turns!System}
<1>1. a \in Messages
  <2>1. PICK n \in Nat : n = Len(said)
    OBVIOUS
  <2>2. QED
    BY <2>1 DEF Turns!Assistant, Messages
<1>2. messages \in Seq(T) /\ a \in T /\ Turns!System \in T
  BY <1>1
<1>3. Turns!Echo(messages, said) = Tail(Append(<< Turns!System >> \o messages, a))
  BY DEF Turns!Echo, Turns!Request, Turns!SystemPrompt, Turns!InWindow
<1> HIDE DEF T, a
<1>4. Tail(Append(<< Turns!System >> \o messages, a)) = Append(messages, a)
  BY <1>2, TailOfEcho
<1>5. QED
  BY <1>1, <1>3, <1>4 DEF a

Within == {l \in Loops : Len(l.segments) <= MaxSegments}

LEMMA WithinFacts ==
  ASSUME NEW l \in Within
  PROVE  /\ l \in Loops /\ l.messages \in Seq(Messages) /\ l.round \in Nat
         /\ l.segments \in Seq(Nat) /\ l.silent \in BOOLEAN /\ l.stop \in Stops
         /\ Len(l.segments) <= MaxSegments /\ MaxSegments \in Nat /\ Len(l.segments) \in Nat
BY LimitsAssumption DEF Within, Loops

LEMMA WithMessages ==
  ASSUME NEW l \in Within, NEW m \in Seq(Messages)
  PROVE  LET d == [l EXCEPT !.messages = m]
         IN  /\ d \in Within /\ d.messages = m /\ d.round = l.round
<1> DEFINE d == [l EXCEPT !.messages = m]
<1>1. l \in Loops
  BY WithinFacts
<1>2. d \in Loops /\ d.segments = l.segments /\ d.messages = m /\ d.round = l.round
  BY <1>1, Zenon DEF Loops
<1>3. QED
  BY <1>2, WithinFacts DEF Within

LEMMA DecideFacts ==
  ASSUME NEW l \in Within, NEW call \in Turns!Calls
  PROVE  LET d == Turns!Decide(l, call)
         IN  d \in Within /\ d.messages = l.messages /\ d.round = l.round
<1>1. l \in Loops
  BY WithinFacts
<1>2. CASE call = "send_reply" /\ Len(l.segments) < MaxSegments
  <2>1. PICK n \in Nat : n = Len(l.segments)
    BY WithinFacts
  <2>2. PICK s : s = Append(l.segments, n + 1)
    OBVIOUS
  <2>3. s \in Seq(Nat) /\ Len(s) = n + 1
    BY <2>1, <2>2, WithinFacts, AppendAt
  <2>4. n + 1 <= MaxSegments
    BY <1>2, <2>1, WithinFacts
  <2>5. PICK d : d = [l EXCEPT !.silent = FALSE, !.segments = s]
    OBVIOUS
  <2>6. Turns!Decide(l, call) = d
    BY <1>2, <2>1, <2>2, <2>5 DEF Turns!Decide
  <2>7. d \in Loops /\ d.segments = s /\ d.messages = l.messages /\ d.round = l.round
    BY <1>1, <2>5, <2>3 DEF Loops
  <2>8. QED
    BY <2>4, <2>6, <2>7, <2>3 DEF Within
<1>3. CASE call = "stay_silent"
  <2>1. PICK d : d = [l EXCEPT !.silent = TRUE]
    OBVIOUS
  <2>2. Turns!Decide(l, call) = d
    BY <1>3, <2>1 DEF Turns!Decide
  <2>3. d \in Loops /\ d.segments = l.segments /\ d.messages = l.messages /\ d.round = l.round
    BY <1>1, <2>1 DEF Loops
  <2>4. QED
    BY <2>2, <2>3, WithinFacts DEF Within
<1>4. CASE ~(call = "send_reply" /\ Len(l.segments) < MaxSegments) /\ call # "stay_silent"
  <2>1. Turns!Decide(l, call) = l
    BY <1>4 DEF Turns!Decide
  <2>2. QED
    BY <2>1
<1>5. QED
  BY <1>2, <1>3, <1>4

\* A call served, and its result told.
Served(l, call, i) == [Turns!Decide(l, call) EXCEPT !.messages = Append(@, Turns!Result(i))]

LEMMA ServedFacts ==
  ASSUME NEW l \in Within, NEW call \in Turns!Calls, NEW i \in Nat
  PROVE  /\ Served(l, call, i) \in Within
         /\ Served(l, call, i).messages = Append(l.messages, Turns!Result(i))
         /\ Served(l, call, i).round = l.round /\ Turns!Result(i) \in Messages
<1>1. PICK e : e = Turns!Decide(l, call)
  OBVIOUS
<1>2. e \in Within /\ e.messages = l.messages /\ e.round = l.round
  BY <1>1, DecideFacts
<1>3. Turns!Result(i) \in Messages
  BY DEF Turns!Result, Messages
<1>4. PICK m : m = Append(e.messages, Turns!Result(i))
  OBVIOUS
<1>5. e.messages \in Seq(Messages) /\ m \in Seq(Messages)
  BY <1>2, <1>3, <1>4, WithinFacts, AppendAt
<1>6. Served(l, call, i) = [e EXCEPT !.messages = m]
  BY <1>1, <1>4 DEF Served
<1>7. [e EXCEPT !.messages = m] \in Within /\ [e EXCEPT !.messages = m].messages = m
      /\ [e EXCEPT !.messages = m].round = e.round
  BY <1>2, <1>5, WithMessages
<1>8. QED
  BY <1>1, <1>2, <1>3, <1>4, <1>6, <1>7

\* The calls of an answer, one after the other.
Called(f, said, n) == \A i \in 1..n : f[i] = Served(f[i - 1], said[i], i)

LEMMA CalledExists ==
  ASSUME NEW l \in Within, NEW said \in Seq(Turns!Calls)
  PROVE  \E f \in [0..Len(said) -> Within] : f[0] = l /\ Called(f, said, Len(said))
<1>1. PICK n \in Nat : n = Len(said)
  OBVIOUS
<1> DEFINE step == [p \in Within \X (1..n) |-> Served(p[1], said[p[2]], p[2])]
<1>2. ASSUME NEW d \in Within, NEW i \in 1..n
      PROVE  Served(d, said[i], i) \in Within
  <2>1. said[i] \in Turns!Calls /\ i \in Nat
    BY <1>1
  <2>2. QED
    BY <2>1, ServedFacts
<1>3. \A d \in Within, i \in 1..n : step[<< d, i >>] = Served(d, said[i], i)
  OBVIOUS
<1> HIDE DEF step
<1>4. StaysIn(step, Within, n)
  BY <1>2, <1>3 DEF StaysIn
<1>5. PICK f \in [0..n -> Within] : Taken(f, l, step, n)
  BY <1>4, StepsExist
<1>6. ASSUME NEW i \in 1..n PROVE f[i] = Served(f[i - 1], said[i], i)
  <2>1. f[i - 1] \in Within
    OBVIOUS
  <2>2. QED
    BY <1>3, <1>5, <2>1 DEF Taken
<1>7. Called(f, said, n) /\ f[0] = l
  BY <1>5, <1>6 DEF Called, Taken
<1>8. QED
  BY <1>1, <1>7

\* The beginning of a round, and its end.
Begun(l, said) == [l EXCEPT !.round = @ + 1, !.messages = Turns!Echo(@, said)]
Ended(d, l, said) ==
  [d EXCEPT !.stop = IF said = << >> THEN "completed"
                     ELSE IF Begun(l, said).round = MaxRounds THEN "max-rounds"
                     ELSE "none"]

LEMMA RoundIs ==
  ASSUME NEW l, NEW said \in Seq(Turns!Calls), Begun(l, said) \in Within
  PROVE  \E f \in [0..Len(said) -> Within] :
           /\ f[0] = Begun(l, said) /\ Called(f, said, Len(said))
           /\ Turns!Round(l, said) = Ended(f[Len(said)], l, said)
<1>1. PICK g \in [0..Len(said) -> Within] : g[0] = Begun(l, said) /\ Called(g, said, Len(said))
  BY CalledExists
<1> DEFINE Body(f) ==
             [i \in 0..Len(said) |-> IF i = 0 THEN Begun(l, said) ELSE Served(f[i - 1], said[i], i)]
           after == CHOOSE f : f = Body(f)
<1>2. \A i \in 1..Len(said) : g[i] = Served(g[i - 1], said[i], i)
  BY <1>1 DEF Called
<1>3. Turns!Round(l, said) = Ended(after[Len(said)], l, said)
  BY DEF Turns!Round, Ended, Begun, Served
<1>4. g = Body(g)
  <2>1. ASSUME NEW i \in 0..Len(said)
        PROVE  g[i] = Body(g)[i]
    <3>1. CASE i = 0
      BY <1>1, <3>1
    <3>2. CASE i # 0
      <4>1. i \in 1..Len(said)
        BY <3>2
      <4>2. QED
        BY <1>2, <3>2, <4>1
    <3>3. QED
      BY <3>1, <3>2
  <2>2. DOMAIN g = 0..Len(said) /\ DOMAIN Body(g) = 0..Len(said)
    OBVIOUS
  <2> HIDE DEF Body
  <2>3. g = [i \in 0..Len(said) |-> g[i]]
    BY <2>2
  <2>4. Body(g) = [i \in 0..Len(said) |-> Body(g)[i]]
    BY DEF Body
  <2>5. QED
    BY <2>1, <2>3, <2>4
<1>5. after = Body(after)
  BY <1>4
<1> DEFINE P == {n \in Nat : n <= Len(said) => after[n] = g[n]}
<1>6. after[0] = Begun(l, said)
  <2> HIDE DEF after
  <2>1. 0 \in 0..Len(said)
    OBVIOUS
  <2>2. Body(after)[0] = Begun(l, said)
    BY <2>1
  <2> HIDE DEF Body
  <2>3. QED
    BY <1>5, <2>2
<1>7. ASSUME NEW n \in Nat, n \in P
      PROVE  n + 1 \in P
  <2> HIDE DEF after
  <2> SUFFICES ASSUME n + 1 <= Len(said)
               PROVE  after[n + 1] = g[n + 1]
    OBVIOUS
  <2>1. n + 1 \in 1..Len(said) /\ after[n] = g[n] /\ (n + 1) - 1 = n
    BY <1>7
  <2>2. after[n + 1] = Served(after[n], said[n + 1], n + 1)
    <3>1. Body(after)[n + 1] = Served(after[n], said[n + 1], n + 1)
      BY <2>1
    <3> HIDE DEF Body
    <3>2. QED
      BY <1>5, <3>1
  <2>3. g[n + 1] = Served(g[n], said[n + 1], n + 1)
    BY <1>2, <2>1
  <2>4. QED
    BY <2>1, <2>2, <2>3
<1>8. Len(said) \in P
  <2>1. 0 \in P
    BY <1>1, <1>6
  <2> HIDE DEF P
  <2>2. QED
    BY <1>7, <2>1, SetInduction
<1>9. after[Len(said)] = g[Len(said)]
  <2> HIDE DEF after
  <2>1. QED
    BY <1>8
<1>10. QED
  <2> HIDE DEF after
  <2>1. QED
    BY <1>1, <1>9, <1>3

\* m is the messages of old, an assistant's with n calls, and the results of k.
Answers(m, old, n, k) ==
  /\ m \in Seq(Messages) /\ Len(m) = Len(old) + 1 + k
  /\ \A i \in 1..Len(old) : m[i] = old[i]
  /\ m[Len(old) + 1] = Turns!Assistant(n)
  /\ \A j \in 1..k : m[Len(old) + 1 + j] = Turns!Result(j)

LEMMA AnswerGrows ==
  ASSUME NEW m, NEW old \in Seq(Messages), NEW n \in Nat, NEW k \in Nat, Answers(m, old, n, k),
         Turns!Result(k + 1) \in Messages
  PROVE  Answers(Append(m, Turns!Result(k + 1)), old, n, k + 1)
<1>1. PICK h \in Nat : h = Len(old)
  OBVIOUS
<1>2. PICK e \in Messages : e = Turns!Result(k + 1)
  OBVIOUS
<1>3. /\ m \in Seq(Messages) /\ Len(m) = h + 1 + k /\ \A i \in 1..h : m[i] = old[i]
      /\ m[h + 1] = Turns!Assistant(n) /\ \A j \in 1..k : m[h + 1 + j] = Turns!Result(j)
  BY <1>1 DEF Answers
<1>4. m \in Seq(Messages)
  BY <1>3
<1> DEFINE r == Append(m, e)
<1>5. /\ r \in Seq(Messages) /\ Len(r) = Len(m) + 1 /\ r[Len(m) + 1] = e
      /\ \A i \in 1..Len(m) : r[i] = m[i]
  BY <1>4, AppendAt
<1> HIDE DEF r
<1>6. /\ r \in Seq(Messages) /\ Len(r) = h + 1 + (k + 1) /\ r[h + 1 + (k + 1)] = e
      /\ \A i \in 1..(h + 1 + k) : r[i] = m[i]
  <2>1. Len(m) + 1 = h + 1 + (k + 1)
    BY <1>3
  <2>2. QED
    BY <1>3, <1>5, <2>1
<1>7. ASSUME NEW i \in 1..h PROVE r[i] = old[i]
  <2>1. i \in 1..(h + 1 + k)
    OBVIOUS
  <2>2. QED
    BY <1>3, <1>6, <2>1
<1>8. r[h + 1] = Turns!Assistant(n)
  <2>1. h + 1 \in 1..(h + 1 + k)
    OBVIOUS
  <2>2. QED
    BY <1>3, <1>6, <2>1
<1>9. ASSUME NEW j \in 1..(k + 1) PROVE r[h + 1 + j] = Turns!Result(j)
  <2>1. CASE j = k + 1
    BY <1>2, <1>6, <2>1
  <2>2. CASE j # k + 1
    <3>1. j \in 1..k /\ h + 1 + j \in 1..(h + 1 + k)
      BY <2>2
    <3>2. QED
      BY <1>3, <1>6, <3>1
  <2>3. QED
    BY <2>1, <2>2
<1>10. QED
  BY <1>1, <1>2, <1>6, <1>7, <1>8, <1>9 DEF Answers, r

LEMMA BegunFacts ==
  ASSUME NEW l \in Within, NEW said \in Seq(Turns!Calls)
  PROVE  /\ Begun(l, said) \in Within /\ Begun(l, said).round = l.round + 1
         /\ Answers(Begun(l, said).messages, l.messages, Len(said), 0)
<1>1. PICK m : m = Turns!Echo(l.messages, said)
  OBVIOUS
<1>2. PICK a : a = Turns!Assistant(Len(said))
  OBVIOUS
<1>3. m = Append(l.messages, a) /\ a \in Messages /\ l.messages \in Seq(Messages)
  BY <1>1, <1>2, EchoFacts, WithinFacts
<1>4. /\ m \in Seq(Messages) /\ Len(m) = Len(l.messages) + 1 /\ m[Len(l.messages) + 1] = a
      /\ Len(l.messages) \in Nat /\ \A i \in 1..Len(l.messages) : m[i] = l.messages[i]
  BY <1>3, AppendAt
<1>5. Answers(m, l.messages, Len(said), 0)
  <2>1. Len(m) = Len(l.messages) + 1 + 0
    BY <1>4
  <2>2. \A j \in 1..0 : m[Len(l.messages) + 1 + j] = Turns!Result(j)
    OBVIOUS
  <2>3. QED
    BY <1>2, <1>4, <2>1, <2>2 DEF Answers
<1>6. PICK d : d = [l EXCEPT !.round = @ + 1, !.messages = m]
  OBVIOUS
<1>7. PICK n \in Nat : n = l.round + 1
  BY WithinFacts
<1>8. d \in Loops /\ d.segments = l.segments /\ d.messages = m /\ d.round = n
  <2>1. d = [l EXCEPT !.round = n, !.messages = m] /\ l \in Loops
    BY <1>6, <1>7, WithinFacts
  <2>2. QED
    BY <1>4, <2>1 DEF Loops
<1>9. d \in Within
  BY <1>8, WithinFacts DEF Within
<1>10. Begun(l, said) = d
  BY <1>1, <1>6 DEF Begun
<1>11. QED
  BY <1>5, <1>7, <1>8, <1>9, <1>10

LEMMA RoundFacts ==
  ASSUME NEW l \in Within, NEW said \in Seq(Turns!Calls)
  PROVE  LET d == Turns!Round(l, said)
         IN  /\ d \in Within /\ d.round = l.round + 1
             /\ Answers(d.messages, l.messages, Len(said), Len(said))
             /\ d.stop = "none" => d.round # MaxRounds
<1>1. /\ Begun(l, said) \in Within /\ Begun(l, said).round = l.round + 1
      /\ Answers(Begun(l, said).messages, l.messages, Len(said), 0)
  BY BegunFacts
<1>2. PICK f \in [0..Len(said) -> Within] :
        /\ f[0] = Begun(l, said) /\ Called(f, said, Len(said))
        /\ Turns!Round(l, said) = Ended(f[Len(said)], l, said)
  BY <1>1, RoundIs
<1>3. PICK n \in Nat : n = Len(said)
  OBVIOUS
<1>4. l.messages \in Seq(Messages) /\ f[n] \in Within
  BY <1>3, WithinFacts
<1> DEFINE P == {k \in Nat : k <= n => /\ Answers(f[k].messages, l.messages, n, k)
                                       /\ f[k].round = l.round + 1}
<1>5. 0 \in P
  BY <1>1, <1>2, <1>3
<1>6. ASSUME NEW k \in Nat, k \in P PROVE k + 1 \in P
  <2> SUFFICES ASSUME k + 1 <= n
               PROVE  /\ Answers(f[k + 1].messages, l.messages, n, k + 1)
                      /\ f[k + 1].round = l.round + 1
    OBVIOUS
  <2>1. /\ k + 1 \in 1..n /\ k \in 0..n /\ (k + 1) - 1 = k /\ f[k] \in Within
        /\ Answers(f[k].messages, l.messages, n, k) /\ f[k].round = l.round + 1
        /\ said[k + 1] \in Turns!Calls /\ k + 1 \in Nat
    BY <1>3, <1>6
  <2>2. f[k + 1] = Served(f[k], said[k + 1], k + 1)
    BY <1>2, <1>3, <2>1 DEF Called
  <2>3. /\ f[k + 1].messages = Append(f[k].messages, Turns!Result(k + 1))
        /\ f[k + 1].round = f[k].round /\ Turns!Result(k + 1) \in Messages
    <3>1. PICK d \in Within : d = f[k]
      BY <2>1
    <3>2. PICK call \in Turns!Calls : call = said[k + 1]
      BY <2>1
    <3>3. PICK i \in Nat : i = k + 1
      BY <2>1
    <3>4. /\ Served(d, call, i).messages = Append(d.messages, Turns!Result(i))
          /\ Served(d, call, i).round = d.round /\ Turns!Result(i) \in Messages
      BY ServedFacts
    <3>5. QED
      BY <2>2, <3>1, <3>2, <3>3, <3>4
  <2>4. Answers(f[k + 1].messages, l.messages, n, k + 1)
    BY <1>4, <2>1, <2>3, AnswerGrows
  <2>5. QED
    BY <2>1, <2>3, <2>4
<1>7. Answers(f[n].messages, l.messages, n, n) /\ f[n].round = l.round + 1
  <2> HIDE DEF P
  <2>1. n \in P
    BY <1>5, <1>6, SetInduction
  <2>2. QED
    BY <2>1 DEF P
<1>8. PICK s \in Stops :
        s = IF said = << >> THEN "completed"
            ELSE IF Begun(l, said).round = MaxRounds THEN "max-rounds" ELSE "none"
  BY DEF Stops
<1>9. PICK e : e = f[n]
  OBVIOUS
<1>10. PICK d : d = [e EXCEPT !.stop = s]
  OBVIOUS
<1>11. /\ d \in Loops /\ d.segments = e.segments /\ d.messages = e.messages
       /\ d.round = e.round /\ d.stop = s
  <2>1. e \in Loops
    BY <1>4, <1>9, WithinFacts
  <2>2. QED
    BY <1>10, <2>1 DEF Loops
<1>12. d \in Within
  BY <1>4, <1>9, <1>11, WithinFacts DEF Within
<1>13. Turns!Round(l, said) = d
  BY <1>2, <1>3, <1>8, <1>9, <1>10 DEF Ended
<1>14. s = "none" => Begun(l, said).round # MaxRounds
  BY <1>8
<1>15. QED
  BY <1>1, <1>3, <1>7, <1>9, <1>11, <1>12, <1>13, <1>14

\* A conversation with a complete answer more is a conversation.
LEMMA ConversationGrows ==
  ASSUME NEW m, NEW old \in Seq(Messages), NEW n \in Nat, Answers(m, old, n, n),
         Conversation(old)
  PROVE  Conversation(m)
<1>1. PICK h \in Nat : h = Len(old)
  OBVIOUS
<1>2. /\ m \in Seq(Messages) /\ Len(m) = h + 1 + n /\ \A i \in 1..h : m[i] = old[i]
      /\ m[h + 1] = Turns!Assistant(n) /\ \A j \in 1..n : m[h + 1 + j] = Turns!Result(j)
  BY <1>1 DEF Answers
<1>3. m[h + 1].role = "assistant" /\ m[h + 1].calls = n
  BY <1>2 DEF Turns!Assistant
<1>4. \A j \in 1..n : m[h + 1 + j].role = "tool" /\ m[h + 1 + j].call = j
  <2> TAKE j \in 1..n
  <2>1. m[h + 1 + j] = Turns!Result(j)
    BY <1>2
  <2>2. Turns!Result(j).role = "tool" /\ Turns!Result(j).call = j
    BY DEF Turns!Result
  <2>3. QED
    BY <2>1, <2>2
<1>5. ASSUME NEW i \in 1..Len(m), m[i].role = "assistant", NEW k \in 1..m[i].calls
      PROVE  i + k <= Len(m) /\ m[i + k] = Turns!Result(k)
  <2>1. CASE i \in 1..h
    <3>1. m[i] = old[i] /\ old[i] \in Messages
      BY <1>1, <1>2, <2>1
    <3>2. i + k <= h /\ old[i + k] = Turns!Result(k)
      BY <1>1, <1>5, <2>1, <3>1 DEF Conversation
    <3>3. old[i].calls \in Nat
      BY <1>5, <3>1 DEF Messages, Turns!User
    <3>4. k \in Nat /\ i + k \in 1..h
      BY <2>1, <3>1, <3>2, <3>3
    <3>5. QED
      BY <1>2, <3>2, <3>4
  <2>2. CASE i = h + 1
    BY <1>2, <1>3, <2>2
  <2>3. CASE i \notin 1..h /\ i # h + 1
    <3>1. i - (h + 1) \in 1..n /\ i = h + 1 + (i - (h + 1))
      BY <1>2, <2>3
    <3>2. QED
      BY <1>4, <1>5, <3>1
  <2>4. QED
    BY <2>1, <2>2, <2>3
<1>6. ASSUME NEW i \in 1..Len(m), m[i].role = "tool"
      PROVE  LET a == i - m[i].call
             IN  a >= 1 /\ m[a].role = "assistant" /\ m[a].calls >= m[i].call
  <2>1. CASE i \in 1..h
    <3>1. m[i] = old[i] /\ old[i] \in Messages
      BY <1>1, <1>2, <2>1
    <3>2. PICK c \in Nat : c = old[i].call
      BY <1>6, <3>1 DEF Messages, Turns!User
    <3>3. i - c >= 1 /\ old[i - c].role = "assistant" /\ old[i - c].calls >= c
      BY <1>1, <1>6, <2>1, <3>1, <3>2 DEF Conversation
    <3>4. i - c \in 1..h
      BY <2>1, <3>3
    <3>5. QED
      BY <1>2, <3>1, <3>2, <3>3, <3>4
  <2>2. CASE i = h + 1
    BY <1>3, <1>6, <2>2
  <2>3. CASE i \notin 1..h /\ i # h + 1
    <3>1. PICK j \in 1..n : i = h + 1 + j
      <4>1. i - (h + 1) \in 1..n /\ i = h + 1 + (i - (h + 1))
        BY <1>2, <2>3
      <4>2. QED
        BY <4>1
    <3>2. m[i].call = j /\ i - j = h + 1
      BY <1>4, <3>1
    <3>3. QED
      BY <1>3, <3>2
  <2>4. QED
    BY <2>1, <2>2, <2>3
<1>7. QED
  BY <1>5, <1>6 DEF Conversation

(***************************************************************************)
(* Requests, prompts and histories.                                        *)
(***************************************************************************)
LEMMA RequestIsWellFormed ==
  ASSUME NEW m \in Seq(Messages), Conversation(m)
  PROVE  Turns!WellFormed(Turns!Request(m))
<1> DEFINE T == Messages \cup {Turns!System}
           r == << Turns!System >> \o m
<1>1. PICK h \in Nat : h = Len(m)
  OBVIOUS
<1>2. m \in Seq(T) /\ << Turns!System >> \in Seq(T)
  OBVIOUS
<1>3. Turns!Request(m) = r
  BY DEF Turns!Request, Turns!SystemPrompt, Turns!InWindow
<1>4. Turns!System.role = "system" /\ \A x \in Messages : x # Turns!System /\ x.role # "system"
  BY DEF Turns!System, Messages, Turns!User
<1>5. /\ Len(r) = h + 1 /\ r[1] = Turns!System
      /\ \A i \in 1..h : r[i + 1] = m[i] /\ m[i] \in Messages
  <2> HIDE DEF T
  <2>1. QED
    BY <1>1, <1>2
<1> HIDE DEF r
<1>6. \A i \in 1..(h + 1) : i # 1 => i - 1 \in 1..h /\ r[i] = m[i - 1] /\ m[i - 1] \in Messages
  <2> TAKE i \in 1..(h + 1)
  <2> HAVE i # 1
  <2>1. i - 1 \in 1..h /\ (i - 1) + 1 = i
    OBVIOUS
  <2>2. QED
    BY <1>5, <2>1
<1>7. \A i \in 1..Len(r) : r[i] = Turns!System <=> i = 1
  BY <1>4, <1>5, <1>6
<1>8. ASSUME NEW i \in 1..Len(r), r[i].role = "assistant", NEW k \in 1..r[i].calls
      PROVE  i + k <= Len(r) /\ r[i + k] = Turns!Result(k)
  <2>1. i # 1 /\ i \in 1..(h + 1)
    BY <1>4, <1>5, <1>8
  <2>2. i - 1 \in 1..h /\ r[i] = m[i - 1] /\ m[i - 1] \in Messages
    BY <1>6, <2>1
  <2>3. m[i - 1].calls \in Nat
    BY <1>8, <2>2 DEF Messages, Turns!User
  <2>4. (i - 1) + k <= h /\ m[(i - 1) + k] = Turns!Result(k)
    BY <1>1, <1>8, <2>2 DEF Conversation
  <2>5. k \in Nat /\ (i - 1) + k \in 1..h /\ ((i - 1) + k) + 1 = i + k
    BY <2>2, <2>3, <2>4
  <2>6. r[i + k] = m[(i - 1) + k]
    BY <1>5, <2>5
  <2>7. i + k <= h + 1
    BY <2>4, <2>5
  <2>8. QED
    BY <1>5, <2>4, <2>6, <2>7
<1>9. ASSUME NEW i \in 1..Len(r), r[i].role = "tool"
      PROVE  LET a == i - r[i].call
             IN  a >= 1 /\ r[a].role = "assistant" /\ r[a].calls >= r[i].call
  <2>1. i # 1 /\ i \in 1..(h + 1)
    BY <1>4, <1>5, <1>9
  <2>2. i - 1 \in 1..h /\ r[i] = m[i - 1] /\ m[i - 1] \in Messages
    BY <1>6, <2>1
  <2>3. PICK c \in Nat : c = r[i].call
    BY <1>9, <2>2 DEF Messages, Turns!User
  <2>4. (i - 1) - c >= 1 /\ m[(i - 1) - c].role = "assistant" /\ m[(i - 1) - c].calls >= c
    BY <1>1, <1>9, <2>2, <2>3 DEF Conversation
  <2>5. (i - 1) - c \in 1..h /\ ((i - 1) - c) + 1 = i - c
    BY <2>2, <2>4
  <2>6. r[i - c] = m[(i - 1) - c] /\ i - c >= 1
    BY <1>5, <2>5
  <2>7. QED
    BY <2>3, <2>4, <2>6
<1>10. QED
  BY <1>3, <1>7, <1>8, <1>9 DEF Turns!WellFormed

LEMMA PromptFacts ==
  ASSUME HistoryTyped, NEW k \in Turns!Keys
  PROVE  Turns!Prompt(k) \in Seq(Messages) /\ Conversation(Turns!Prompt(k))
<1>1. history[k] \in Seq(Remembered) /\ MemoryLimit \in Nat
  BY LimitsAssumption DEF HistoryTyped
<1>2. PICK recent \in Seq(Remembered) : recent = Turns!LastOf(history[k], MemoryLimit)
  BY <1>1, LastFacts
<1>3. PICK n \in Nat : n = Len(recent) /\ DOMAIN recent = 1..n
  OBVIOUS
<1> DEFINE Plain == {Turns!User, Turns!Assistant(0)}
           p == [i \in DOMAIN recent |->
                   IF recent[i].role = "user" THEN Turns!User ELSE Turns!Assistant(0)]
<1>4. p \in Seq(Plain)
  BY <1>3
<1>5. Turns!Prompt(k) = Append(p, Turns!User)
  BY <1>2 DEF Turns!Prompt
<1> HIDE DEF p
<1>6. PICK q \in Seq(Plain) : q = Turns!Prompt(k)
  BY <1>4, <1>5
<1>7. Turns!User.role = "user" /\ Turns!Assistant(0).role = "assistant"
      /\ Turns!Assistant(0).calls = 0 /\ Plain \subseteq Messages
  BY DEF Turns!User, Turns!Assistant, Messages
<1>8. \A i \in 1..Len(q) : q[i] = Turns!User \/ q[i] = Turns!Assistant(0)
  OBVIOUS
<1>9. Conversation(q)
  BY <1>7, <1>8 DEF Conversation
<1>10. QED
  BY <1>6, <1>7, <1>9

LEMMA AppendedFacts ==
  ASSUME HistoryTyped, NEW k \in Turns!Keys, NEW w \in Nat, NEW content \in Seq(Nat)
  PROVE  /\ Turns!Appended(k, w, content) \in Seq(Remembered)
         /\ Len(Turns!Appended(k, w, content)) <= MaxHistory
         /\ \A i \in DOMAIN Turns!Appended(k, w, content) :
              LET e == Turns!Appended(k, w, content)[i]
              IN  e.role = "assistant" =>
                    \/ e.wake = w /\ e.content = content
                    \/ \E j \in DOMAIN history[k] : history[k][j] = e
<1> DEFINE u == [role |-> "user", wake |-> w]
           a == [role |-> "assistant", wake |-> w, content |-> content]
           s == history[k] \o << u, a >>
<1>1. u \in Remembered /\ a \in Remembered
  BY DEF Remembered
<1>2. u.role = "user" /\ a.wake = w /\ a.content = content
  OBVIOUS
<1>3. history[k] \in Seq(Remembered) /\ MaxHistory \in Nat
  BY LimitsAssumption DEF HistoryTyped
<1>4. Turns!Appended(k, w, content) = Turns!LastOf(s, MaxHistory)
  BY DEF Turns!Appended
<1> HIDE DEF u, a
<1>5. /\ << u, a >> \in Seq(Remembered) /\ Len(<< u, a >>) = 2
      /\ << u, a >>[1] = u /\ << u, a >>[2] = a
  BY <1>1
<1>6. PICK h \in Nat : h = Len(history[k]) /\ DOMAIN history[k] = 1..h
  BY <1>3
<1>7. /\ s \in Seq(Remembered) /\ DOMAIN s = 1..(h + 2)
      /\ \A i \in 1..h : s[i] = history[k][i]
      /\ s[h + 1] = u /\ s[h + 2] = a
  <2> DEFINE z == << u, a >>
  <2>1. z \in Seq(Remembered) /\ Len(z) = 2 /\ z[1] = u /\ z[2] = a
    BY <1>5
  <2> HIDE DEF z
  <2>2. PICK p \in Seq(Remembered) : p = history[k]
    BY <1>3
  <2>3. /\ p \o z \in Seq(Remembered) /\ DOMAIN (p \o z) = 1..(Len(p) + Len(z))
        /\ \A i \in 1..Len(p) : (p \o z)[i] = p[i]
        /\ \A i \in 1..Len(z) : (p \o z)[Len(p) + i] = z[i]
    <3>1. z \in Seq(Remembered)
      BY <2>1
    <3>2. QED
      BY <3>1
  <2>4. (p \o z)[h + 1] = u /\ (p \o z)[h + 2] = a
    BY <1>6, <2>1, <2>2, <2>3
  <2>5. QED
    BY <1>6, <2>1, <2>2, <2>3, <2>4 DEF z
<1> HIDE DEF s
<1>8. PICK r : r = Turns!LastOf(s, MaxHistory)
  OBVIOUS
<1>9. r \in Seq(Remembered) /\ Len(r) <= MaxHistory /\ \A i \in DOMAIN r : \E j \in DOMAIN s : r[i] = s[j]
  BY <1>3, <1>7, <1>8, LastFacts
<1>10. ASSUME NEW j \in DOMAIN s, s[j].role = "assistant"
       PROVE  \/ s[j].wake = w /\ s[j].content = content
              \/ \E g \in DOMAIN history[k] : history[k][g] = s[j]
  <2>1. j \in 1..h \/ j = h + 1 \/ j = h + 2
    BY <1>7
  <2>2. CASE j \in 1..h
    BY <1>6, <1>7, <2>2
  <2>3. CASE j = h + 1
    BY <1>2, <1>7, <1>10, <2>3
  <2>4. CASE j = h + 2
    BY <1>2, <1>7, <2>4
  <2>5. QED
    BY <2>1, <2>2, <2>3, <2>4
<1>11. QED
  BY <1>4, <1>8, <1>9, <1>10

(***************************************************************************)
(* A step of one turn: the number of its wake-up is its own or the next,   *)
(* and only its own outputs are created.                                   *)
(***************************************************************************)
LEMMA TurnMoves ==
  ASSUME TurnInv, NEW c \in TurnChats, NEW t \in {Turns!NoTurn} \cup Models \cup Sends,
         turn' = [turn EXCEPT ![c] = t], UNCHANGED bot,
         wakes' \in {wakes, wakes + 1},
         HistoryTyped', HistoryKept', CreatedTyped', DOMAIN created \subseteq DOMAIN created',
         \A w \in DOMAIN created' : w \in DOMAIN created \/ (turn[c] # Turns!NoTurn /\ w = turn[c].wake),
         t # Turns!NoTurn =>
           /\ t.wake \in 1..wakes'
           /\ t.wake = wakes + 1 \/ (turn[c] # Turns!NoTurn /\ t.wake = turn[c].wake),
         t.pc = "model" =>
           t.wake \notin DOMAIN created' /\ t.life \in LivesOf[c] /\ Looping(t.loop),
         t.pc = "send" => t.wake \in DOMAIN created'
  PROVE  TurnInv'
<1>1. /\ turn \in [TurnChats -> {Turns!NoTurn} \cup Models \cup Sends] /\ wakes \in Nat
      /\ \A d \in TurnChats : turn[d].pc = "model" => turn[d].life \in LivesOf[d]
      /\ bot \in BOOLEAN
  BY DEF TurnInv, TurnsTyped
<1>2. /\ turn' \in [TurnChats -> {Turns!NoTurn} \cup Models \cup Sends]
      /\ turn'[c] = t /\ \A d \in TurnChats : d # c => turn'[d] = turn[d]
  BY <1>1
<1>3. wakes' \in Nat /\ wakes <= wakes'
  BY <1>1
<1>4. \A d \in TurnChats : turn'[d].pc = "model" => turn'[d].life \in LivesOf[d]
  BY <1>1, <1>2
<1>5. TurnsTyped'
  BY <1>1, <1>2, <1>3, <1>4 DEF TurnsTyped
<1>6. ASSUME NEW d \in TurnChats, turn'[d] # Turns!NoTurn, d # c
      PROVE  /\ turn'[d] = turn[d] /\ turn[d].wake \in 1..wakes
             /\ turn[c] # Turns!NoTurn => turn[d].wake # turn[c].wake
  BY <1>2, <1>6 DEF TurnInv, Numbered
<1>7. \A d \in TurnChats : turn'[d] # Turns!NoTurn => turn'[d].wake \in 1..wakes'
  BY <1>1, <1>2, <1>3, <1>6
<1>8. \A d \in TurnChats : turn'[d] # Turns!NoTurn /\ t # Turns!NoTurn /\ turn'[d].wake = t.wake => d = c
  BY <1>1, <1>6
<1>9. \A d, e \in TurnChats :
        turn'[d] # Turns!NoTurn /\ turn'[e] # Turns!NoTurn /\ turn'[d].wake = turn'[e].wake => d = e
  <2> TAKE d, e \in TurnChats
  <2> HAVE turn'[d] # Turns!NoTurn /\ turn'[e] # Turns!NoTurn /\ turn'[d].wake = turn'[e].wake
  <2>1. CASE d = c \/ e = c
    BY <1>2, <1>8, <2>1
  <2>2. CASE d # c /\ e # c
    BY <1>2, <2>2 DEF TurnInv, Numbered
  <2>3. QED
    BY <2>1, <2>2
<1>10. \A d \in TurnChats : turn'[d].pc = "model" => turn'[d].wake \notin DOMAIN created'
  <2> TAKE d \in TurnChats
  <2> HAVE turn'[d].pc = "model"
  <2>1. CASE d = c
    BY <1>2, <2>1
  <2>2. CASE d # c
    <3>1. turn'[d] = turn[d] /\ turn'[d] # Turns!NoTurn
      BY <1>2, <2>2 DEF Turns!NoTurn
    <3>2. turn[d].wake \notin DOMAIN created
      BY <3>1 DEF TurnInv, Numbered
    <3>3. QED
      BY <1>6, <2>2, <3>1, <3>2
  <2>3. QED
    BY <2>1, <2>2
<1>11. \A d \in TurnChats : turn'[d].pc = "send" => turn'[d].wake \in DOMAIN created'
  BY <1>2 DEF TurnInv, Numbered
<1>12. Numbered'
  BY <1>7, <1>9, <1>10, <1>11 DEF Numbered
<1>13. LoopsKept'
  BY <1>2 DEF TurnInv, LoopsKept
<1>14. QED
  BY <1>5, <1>12, <1>13 DEF TurnInv

LEMMA StoresBeside ==
  ASSUME TurnInv, UNCHANGED << history, created >>, wakes' \in {wakes, wakes + 1}
  PROVE  HistoryTyped' /\ HistoryKept' /\ CreatedTyped'
<1>1. \A w \in 1..wakes : w \in 1..wakes'
  BY DEF TurnInv, TurnsTyped
<1>2. HistoryTyped' /\ HistoryKept'
  BY DEF TurnInv, HistoryTyped, HistoryKept
<1>3. CreatedTyped'
  BY <1>1 DEF TurnInv, CreatedTyped
<1>4. QED
  BY <1>2, <1>3

LEMMA TurnsBeside ==
  ASSUME TurnInv, UNCHANGED << bot, turn, history, created, wakes >>
  PROVE  TurnInv'
BY DEF TurnInv, TurnsTyped, HistoryTyped, CreatedTyped, Numbered, LoopsKept, HistoryKept

LEMMA NewLoopFacts ==
  ASSUME NEW m \in Seq(Messages), Conversation(m)
  PROVE  Turns!NewLoop(m) \in Loops /\ Looping(Turns!NewLoop(m))
<1> DEFINE l == Turns!NewLoop(m)
<1>1. /\ l \in Loops /\ l.messages = m /\ l.round = 0 /\ l.segments = << >> /\ l.stop = "none"
  BY DEF Turns!NewLoop, Loops, Stops
<1> HIDE DEF l
<1>2. MaxRounds \in Nat \ {0} /\ MaxSegments \in Nat
  BY LimitsAssumption
<1>3. Looping(l)
  BY <1>1, <1>2 DEF Looping
<1>4. QED
  BY <1>1, <1>3 DEF l

LEMMA WakeKeeps ==
  ASSUME TurnInv, NEW c \in TurnChats, NEW l \in LivesOf[c], NEW routed \in BOOLEAN,
         Turns!Wake(c, l, routed)
  PROVE  TurnInv'
<1>1. << l, c >> \in Turns!Keys
  BY DEF Turns!Keys
<1>2. HistoryTyped /\ wakes \in Nat /\ CreatedTyped
  BY DEF TurnInv, TurnsTyped
<1>3. PICK loop \in Loops : loop = Turns!NewLoop(Turns!Prompt(<< l, c >>)) /\ Looping(loop)
  BY <1>1, <1>2, PromptFacts, NewLoopFacts
<1>4. l \in TurnLives
  BY DEF TurnLives
<1>5. PICK t : t = [pc |-> "model", wake |-> wakes + 1, life |-> l, routed |-> routed, loop |-> loop]
  OBVIOUS
<1>6. t \in Models /\ t.wake = wakes + 1 /\ t.loop = loop /\ t.life = l /\ t.pc = "model"
  BY <1>2, <1>4, <1>5 DEF Models
<1>7. /\ turn' = [turn EXCEPT ![c] = t] /\ wakes' = wakes + 1
      /\ UNCHANGED << bot, history, created >>
  BY <1>3, <1>5 DEF Turns!Wake
<1>8. HistoryTyped' /\ HistoryKept' /\ CreatedTyped'
  BY <1>7, StoresBeside
<1>9. t.wake \notin DOMAIN created' /\ t.wake \in 1..wakes'
  BY <1>2, <1>6, <1>7 DEF CreatedTyped
<1>10. QED
  BY <1>3, <1>6, <1>7, <1>8, <1>9, TurnMoves

LEMMA AnswersFacts ==
  ASSUME TurnInv, NEW c \in TurnChats, NEW said \in AnswersOf[c], turn[c].pc = "model"
  PROVE  /\ turn[c] \in Models /\ turn[c].loop \in Within /\ said \in Seq(Turns!Calls)
         /\ Turns!Round(turn[c].loop, said) \in Within
         /\ turn[c].life \in LivesOf[c] /\ << turn[c].life, c >> \in Turns!Keys
         /\ turn[c].wake \in 1..wakes /\ turn[c].wake \notin DOMAIN created /\ turn[c].wake \in Nat
         /\ Turns!Round(turn[c].loop, said).stop = "none" =>
              Looping(Turns!Round(turn[c].loop, said))
<1>1. TurnsTyped /\ Numbered /\ LoopsKept
  BY DEF TurnInv
<1>2. turn[c] \in Models
  BY <1>1, TurnKind
<1>3. PICK l : l = turn[c].loop
  OBVIOUS
<1>4. l \in Loops /\ Looping(l) /\ turn[c].wake \in Nat
  BY <1>1, <1>2, <1>3, TurnKinds DEF LoopsKept
<1>5. l \in Within
  BY <1>4 DEF Looping, Within
<1>6. said \in Seq(Turns!Calls)
  BY AnswersAssumption
<1>7. PICK d : d = Turns!Round(l, said)
  OBVIOUS
<1>8. /\ d \in Within /\ d.round = l.round + 1 /\ Answers(d.messages, l.messages, Len(said), Len(said))
      /\ d.stop = "none" => d.round # MaxRounds
  BY <1>5, <1>6, <1>7, RoundFacts
<1>9. turn[c].life \in LivesOf[c] /\ << turn[c].life, c >> \in Turns!Keys
  BY <1>1 DEF TurnsTyped, Turns!Keys
<1>10. turn[c].wake \in 1..wakes /\ turn[c].wake \notin DOMAIN created
  BY <1>1, <1>2, TurnKinds DEF Numbered
<1>11. ASSUME d.stop = "none" PROVE Looping(d)
  <2>1. d.round < MaxRounds
    <3>1. l.round < MaxRounds /\ l.round \in Nat /\ MaxRounds \in Nat
      BY <1>4, <1>5, WithinFacts, LimitsAssumption DEF Looping
    <3>2. QED
      BY <1>8, <1>11, <3>1
  <2>2. l.messages \in Seq(Messages) /\ Len(said) \in Nat /\ Conversation(l.messages)
    BY <1>4, <1>5, <1>6, WithinFacts DEF Looping
  <2>3. Conversation(d.messages)
    BY <1>8, <2>2, ConversationGrows
  <2>4. QED
    BY <1>8, <1>11, <2>1, <2>3, WithinFacts DEF Looping
<1>12. QED
  BY <1>2, <1>3, <1>4, <1>5, <1>6, <1>7, <1>8, <1>9, <1>10, <1>11

LEMMA OutputFacts ==
  ASSUME NEW l \in Within
  PROVE  Turns!Output(l) \in Seq(Nat) /\ Len(Turns!Output(l)) <= MaxSegments
<1>1. l.segments \in Seq(Nat) /\ Len(l.segments) <= MaxSegments /\ MaxSegments \in Nat
  BY WithinFacts
<1>2. << >> \in Seq(Nat) /\ Len(<< >>) <= MaxSegments
  BY <1>1
<1>3. QED
  BY <1>1, <1>2 DEF Turns!Output

LEMMA RoundKeeps ==
  ASSUME TurnInv, NEW c \in TurnChats, NEW said \in AnswersOf[c], turn[c].pc = "model",
         Turns!Round(turn[c].loop, said).stop = "none",
         turn' = [turn EXCEPT ![c].loop = Turns!Round(turn[c].loop, said)],
         UNCHANGED << bot, history, created, wakes >>
  PROVE  TurnInv'
<1>1. PICK d : d = Turns!Round(turn[c].loop, said)
  OBVIOUS
<1>2. /\ turn[c] \in Models /\ d \in Within /\ Looping(d) /\ turn[c].life \in LivesOf[c]
      /\ turn[c].wake \in 1..wakes /\ turn[c].wake \notin DOMAIN created
  BY <1>1, AnswersFacts
<1>3. PICK t : t = [turn[c] EXCEPT !.loop = d]
  OBVIOUS
<1>4. /\ t \in Models /\ t.pc = "model" /\ t.loop = d /\ t.life = turn[c].life
      /\ t.wake = turn[c].wake
  <2>1. d \in Loops
    BY <1>2, WithinFacts
  <2>2. QED
    BY <1>2, <1>3, <2>1 DEF Models
<1>5. turn' = [turn EXCEPT ![c] = t] /\ wakes' \in {wakes, wakes + 1}
  BY <1>1, <1>3
<1>6. HistoryTyped' /\ HistoryKept' /\ CreatedTyped'
  BY <1>5, StoresBeside
<1>7. turn[c] # Turns!NoTurn
  BY <1>2, TurnKinds
<1>8. QED
  BY <1>2, <1>4, <1>5, <1>6, <1>7, TurnMoves

LEMMA SaidKeeps ==
  ASSUME TurnInv, NEW k \in Turns!Keys, NEW w \in 1..wakes, w \notin DOMAIN created,
         NEW content \in Seq(Nat), Len(content) <= MaxSegments,
         history' = [history EXCEPT ![k] = Turns!Appended(k, w, content)],
         created' = [v \in DOMAIN created \cup {w} |-> IF v = w THEN content ELSE created[v]],
         wakes' = wakes
  PROVE  /\ HistoryTyped' /\ HistoryKept' /\ CreatedTyped'
         /\ DOMAIN created' = DOMAIN created \cup {w}
<1>1. HistoryTyped /\ HistoryKept /\ CreatedTyped /\ w \in Nat
  BY DEF TurnInv, TurnsTyped
<1>2. PICK a : a = Turns!Appended(k, w, content)
  OBVIOUS
<1>3. /\ a \in Seq(Remembered) /\ Len(a) <= MaxHistory
      /\ \A i \in DOMAIN a : a[i].role = "assistant" =>
           \/ a[i].wake = w /\ a[i].content = content
           \/ \E j \in DOMAIN history[k] : history[k][j] = a[i]
  BY <1>1, <1>2, AppendedFacts
<1>4. /\ history \in [Turns!Keys -> Seq(Remembered)]
      /\ \A q \in Turns!Keys : Len(history[q]) <= MaxHistory
  BY <1>1 DEF HistoryTyped
<1>5. /\ history' \in [Turns!Keys -> Seq(Remembered)] /\ history'[k] = a
      /\ \A q \in Turns!Keys : q # k => history'[q] = history[q]
  BY <1>2, <1>3, <1>4
<1>6. HistoryTyped'
  BY <1>3, <1>4, <1>5 DEF HistoryTyped
<1>7. /\ created \in [DOMAIN created -> Seq(Nat)] /\ DOMAIN created \subseteq 1..wakes
      /\ \A v \in DOMAIN created : Len(created[v]) <= MaxSegments
  BY <1>1 DEF CreatedTyped
<1>8. /\ DOMAIN created' = DOMAIN created \cup {w} /\ created'[w] = content
      /\ \A v \in DOMAIN created : created'[v] = created[v]
  OBVIOUS
<1>9. CreatedTyped'
  <2>1. created' \in [DOMAIN created' -> Seq(Nat)]
    BY <1>7
  <2>2. DOMAIN created' \subseteq 1..wakes'
    BY <1>7, <1>8
  <2>3. \A v \in DOMAIN created' : Len(created'[v]) <= MaxSegments
    BY <1>7, <1>8
  <2>4. QED
    BY <2>1, <2>2, <2>3 DEF CreatedTyped
<1>10. ASSUME NEW q \in Turns!Keys, NEW i \in DOMAIN history[q], history[q][i].role = "assistant"
       PROVE  /\ history[q][i].wake \in DOMAIN created'
              /\ history[q][i].content = created'[history[q][i].wake]
  BY <1>1, <1>8, <1>10 DEF HistoryKept
<1>11. ASSUME NEW q \in Turns!Keys, NEW i \in DOMAIN history'[q], history'[q][i].role = "assistant"
       PROVE  /\ history'[q][i].wake \in DOMAIN created'
              /\ history'[q][i].content = created'[history'[q][i].wake]
  <2>1. CASE q # k
    BY <1>5, <1>10, <1>11, <2>1
  <2>2. CASE q = k
    <3>1. \/ a[i].wake = w /\ a[i].content = content
          \/ \E j \in DOMAIN history[k] : history[k][j] = a[i]
      BY <1>3, <1>5, <1>11, <2>2
    <3>2. CASE a[i].wake = w /\ a[i].content = content
      BY <1>5, <1>8, <2>2, <3>2
    <3>3. CASE \E j \in DOMAIN history[k] : history[k][j] = a[i]
      <4>1. PICK j \in DOMAIN history[k] : history[k][j] = a[i]
        BY <3>3
      <4>2. history'[q][i] = history[k][j] /\ history[k][j].role = "assistant"
        BY <1>5, <1>11, <2>2, <4>1
      <4>3. QED
        BY <1>10, <4>2
    <3>4. QED
      BY <3>1, <3>2, <3>3
  <2>3. QED
    BY <2>1, <2>2
<1>12. HistoryKept'
  BY <1>11 DEF HistoryKept
<1>13. QED
  BY <1>6, <1>8, <1>9, <1>12

\* What the last round of a turn does.
LEMMA LastRound ==
  ASSUME TurnInv, NEW c \in TurnChats, NEW said \in AnswersOf[c], Turns!ModelAnswers(c, said),
         Turns!Round(turn[c].loop, said).stop # "none"
  PROVE  \E out \in Seq(Nat) :
           LET t == [pc |-> "send", wake |-> turn[c].wake, routed |-> turn[c].routed, outputs |-> out]
               k == << turn[c].life, c >>
           IN  /\ Len(out) <= MaxSegments /\ k \in Turns!Keys /\ turn[c] \in Models
               /\ turn[c].wake \in 1..wakes /\ turn[c].wake \notin DOMAIN created
               /\ turn' = [turn EXCEPT ![c] = t] /\ t \in Sends
               /\ history' = [history EXCEPT ![k] = Turns!Appended(k, turn[c].wake, out)]
               /\ created' = [v \in DOMAIN created \cup {turn[c].wake} |->
                                IF v = turn[c].wake THEN out ELSE created[v]]
<1>1. PICK d : d = Turns!Round(turn[c].loop, said)
  OBVIOUS
<1>2. /\ turn[c] \in Models /\ d \in Within /\ << turn[c].life, c >> \in Turns!Keys
      /\ turn[c].wake \in 1..wakes /\ turn[c].wake \notin DOMAIN created /\ turn[c].wake \in Nat
  BY <1>1, AnswersFacts DEF Turns!ModelAnswers
<1>3. PICK out : out = Turns!Output(d)
  OBVIOUS
<1>4. out \in Seq(Nat) /\ Len(out) <= MaxSegments
  BY <1>2, <1>3, OutputFacts
<1>5. Turns!Remembered(d) = out /\ Turns!PassedOn(d) = out
  BY <1>3 DEF Turns!Remembered, Turns!PassedOn, Turns!Output
<1>6. PICK t : t = [pc |-> "send", wake |-> turn[c].wake, routed |-> turn[c].routed, outputs |-> out]
  OBVIOUS
<1>7. t \in Sends
  BY <1>2, <1>4, <1>6, TurnKinds DEF Sends
<1>8. /\ turn' = [turn EXCEPT ![c] = t]
      /\ history' = [history EXCEPT ![<< turn[c].life, c >>]
                       = Turns!Appended(<< turn[c].life, c >>, turn[c].wake, out)]
      /\ created' = [v \in DOMAIN created \cup {turn[c].wake} |->
                       IF v = turn[c].wake THEN out ELSE created[v]]
  BY <1>1, <1>3, <1>5, <1>6 DEF Turns!ModelAnswers
<1>9. QED
  BY <1>2, <1>4, <1>6, <1>7, <1>8

LEMMA ModelAnswersKeeps ==
  ASSUME TurnInv, NEW c \in TurnChats, NEW said \in AnswersOf[c], Turns!ModelAnswers(c, said)
  PROVE  TurnInv'
<1>1. turn[c].pc = "model" /\ UNCHANGED << bot, wakes >>
  BY DEF Turns!ModelAnswers
<1>2. CASE Turns!Round(turn[c].loop, said).stop = "none"
  <2>1. turn' = [turn EXCEPT ![c].loop = Turns!Round(turn[c].loop, said)]
        /\ UNCHANGED << history, created >>
    BY <1>2 DEF Turns!ModelAnswers
  <2>2. QED
    BY <1>1, <1>2, <2>1, RoundKeeps
<1>3. CASE Turns!Round(turn[c].loop, said).stop # "none"
  <2>1. PICK out \in Seq(Nat) :
          LET t == [pc |-> "send", wake |-> turn[c].wake, routed |-> turn[c].routed, outputs |-> out]
              k == << turn[c].life, c >>
          IN  /\ Len(out) <= MaxSegments /\ k \in Turns!Keys /\ turn[c] \in Models
              /\ turn[c].wake \in 1..wakes /\ turn[c].wake \notin DOMAIN created
              /\ turn' = [turn EXCEPT ![c] = t] /\ t \in Sends
              /\ history' = [history EXCEPT ![k] = Turns!Appended(k, turn[c].wake, out)]
              /\ created' = [v \in DOMAIN created \cup {turn[c].wake} |->
                               IF v = turn[c].wake THEN out ELSE created[v]]
    BY <1>3, LastRound
  <2>2. PICK t : t = [pc |-> "send", wake |-> turn[c].wake, routed |-> turn[c].routed, outputs |-> out]
    OBVIOUS
  <2>3. /\ HistoryTyped' /\ HistoryKept' /\ CreatedTyped'
        /\ DOMAIN created' = DOMAIN created \cup {turn[c].wake}
    BY <1>1, <2>1, SaidKeeps
  <2>4. t.pc = "send" /\ t.wake = turn[c].wake /\ t \in Sends /\ turn' = [turn EXCEPT ![c] = t]
    BY <2>1, <2>2
  <2>5. turn[c] # Turns!NoTurn /\ wakes' \in {wakes, wakes + 1}
    BY <1>1, <2>1, TurnKinds
  <2>6. turn[c].wake \in 1..wakes'
    BY <1>1, <2>1
  <2>7. QED
    BY <1>1, <2>3, <2>4, <2>5, <2>6, TurnMoves
<1>4. QED
  BY <1>2, <1>3

LEMMA EndKeeps ==
  ASSUME TurnInv, NEW c \in TurnChats, turn' = [turn EXCEPT ![c] = Turns!NoTurn],
         UNCHANGED << bot, history, created, wakes >>
  PROVE  TurnInv'
<1>1. wakes' \in {wakes, wakes + 1} /\ DOMAIN created \subseteq DOMAIN created'
  OBVIOUS
<1>2. HistoryTyped' /\ HistoryKept' /\ CreatedTyped'
  BY <1>1, StoresBeside
<1>3. Turns!NoTurn.pc = "none"
  BY TurnKinds
<1>4. PICK t \in {Turns!NoTurn} \cup Models \cup Sends : t = Turns!NoTurn
  OBVIOUS
<1>5. QED
  BY <1>1, <1>2, <1>3, <1>4, TurnMoves

LEMMA AttemptFacts ==
  ASSUME TurnsTyped, NEW c \in TurnChats, turn[c].pc = "send", turn[c].outputs # << >>,
         NEW outcome, Turns!Attempt(c, outcome)
  PROVE  \E t \in Sends :
           /\ turn[c] \in Sends /\ turn' = [turn EXCEPT ![c] = t]
           /\ t.wake = turn[c].wake /\ t.outputs = Tail(turn[c].outputs) /\ t.routed = turn[c].routed
           /\ UNCHANGED << bot, history, created, wakes, channels, seen >>
<1>1. turn[c] \in Sends
  BY TurnKind
<1>2. PICK rest \in Seq(Nat) : rest = Tail(turn[c].outputs)
  <2>1. PICK o \in Seq(Nat) : o = turn[c].outputs
    BY <1>1, TurnKinds
  <2>2. Tail(o) \in Seq(Nat)
    BY <2>1
  <2>3. QED
    BY <2>1, <2>2
<1>3. PICK t : t = [turn[c] EXCEPT !.outputs = rest]
  OBVIOUS
<1>4. t \in Sends /\ t.wake = turn[c].wake /\ t.outputs = rest /\ t.routed = turn[c].routed
  BY <1>1, <1>2, <1>3 DEF Sends
<1>5. turn' = [turn EXCEPT ![c] = t]
  BY <1>2, <1>3 DEF Turns!Attempt
<1>6. QED
  BY <1>1, <1>2, <1>4, <1>5 DEF Turns!Attempt

LEMMA AttemptKeeps ==
  ASSUME TurnInv, NEW c \in TurnChats, turn[c].pc = "send", turn[c].outputs # << >>,
         NEW outcome, Turns!Attempt(c, outcome)
  PROVE  TurnInv'
<1>1. PICK t \in Sends :
           /\ turn[c] \in Sends /\ turn' = [turn EXCEPT ![c] = t] /\ t.wake = turn[c].wake
           /\ UNCHANGED << bot, history, created, wakes >>
  BY AttemptFacts DEF TurnInv
<1>2. wakes' \in {wakes, wakes + 1} /\ DOMAIN created \subseteq DOMAIN created'
  BY <1>1
<1>3. HistoryTyped' /\ HistoryKept' /\ CreatedTyped'
  BY <1>1, <1>2, StoresBeside
<1>4. turn[c] # Turns!NoTurn /\ t.pc = "send"
  BY <1>1, TurnKinds
<1>5. turn[c].wake \in 1..wakes' /\ turn[c].wake \in DOMAIN created'
  BY <1>1, <1>4 DEF TurnInv, Numbered
<1>6. QED
  BY <1>1, <1>2, <1>3, <1>4, <1>5, TurnMoves

(***************************************************************************)
(* The registry.                                                           *)
(***************************************************************************)
LEMMA SinceGrows ==
  ASSUME NEW T, NEW s \in Seq(T), NEW c \in T
  PROVE  /\ Append(s, c) \in Seq(T) /\ Len(Append(s, c)) = Len(s) + 1 /\ Len(s) \in Nat
         /\ \A i \in 1..Len(s) : Append(s, c)[i] = s[i]
         /\ Append(s, c)[Len(s) + 1] = c
         /\ \A i \in 1..Len(s) : \A x : x \in SinceIn(Append(s, c), i) <=> x \in SinceIn(s, i) \/ x = c
         /\ \A x : x \in SinceIn(Append(s, c), Len(s) + 1) <=> x = c
         /\ \A i \in 1..(Len(s) + 1) : c \in SinceIn(Append(s, c), i)
<1>1. PICK n \in Nat : n = Len(s)
  OBVIOUS
<1> DEFINE r == Append(s, c)
<1>2. /\ r \in Seq(T) /\ Len(r) = n + 1 /\ r[n + 1] = c /\ \A i \in 1..n : r[i] = s[i]
  BY <1>1, AppendAt
<1> HIDE DEF r
<1>3. ASSUME NEW i \in 1..n, NEW x
      PROVE  x \in SinceIn(r, i) <=> x \in SinceIn(s, i) \/ x = c
  <2>1. x \in SinceIn(r, i) <=> \E j \in i..(n + 1) : r[j] = x
    BY <1>2 DEF SinceIn
  <2>2. x \in SinceIn(s, i) <=> \E j \in i..n : s[j] = x
    BY <1>1 DEF SinceIn
  <2>3. \A j \in i..(n + 1) : j \in i..n \/ j = n + 1
    OBVIOUS
  <2>4. \A j \in i..n : j \in i..(n + 1) /\ r[j] = s[j]
    BY <1>2
  <2>5. n + 1 \in i..(n + 1)
    OBVIOUS
  <2>6. QED
    BY <1>2, <2>1, <2>2, <2>3, <2>4, <2>5
<1>4. \A x : x \in SinceIn(r, n + 1) <=> x = c
  <2>1. (n + 1)..(n + 1) = {n + 1}
    OBVIOUS
  <2>2. QED
    BY <1>2, <2>1 DEF SinceIn
<1>5. \A i \in 1..(n + 1) : c \in SinceIn(r, i)
  <2> TAKE i \in 1..(n + 1)
  <2>1. n + 1 \in i..Len(r)
    BY <1>2
  <2>2. QED
    BY <1>2, <2>1 DEF SinceIn
<1>6. QED
  BY <1>1, <1>2, <1>3, <1>4, <1>5 DEF r

LEMMA SeenSince ==
  ASSUME NEW T, NEW s \in Seq(T), NEW i \in 1..Len(s)
  PROVE  s[i] \in SinceIn(s, i)
<1>1. i \in i..Len(s)
  OBVIOUS
<1>2. QED
  BY <1>1 DEF SinceIn

LEMMA DistinctCard ==
  ASSUME NEW T, NEW p \in Seq(T), Distinct(p)
  PROVE  IsFiniteSet(ToSet(p)) /\ Cardinality(ToSet(p)) = Len(p)
<1>1. PICK n \in Nat : n = Len(p)
  OBVIOUS
<1>2. \A x : x \in ToSet(p) <=> \E i \in 1..n : p[i] = x
  BY <1>1, InjectiveIsDistinct
<1>3. p \in [1..n -> ToSet(p)]
  <2>1. p \in [1..n -> T]
    BY <1>1
  <2>2. QED
    BY <1>2, <2>1
<1>4. p \in Bijection(1..n, ToSet(p))
  BY <1>1, <1>2, <1>3 DEF Distinct, Bijection, Injection, Surjection, IsInjective
<1>5. IsFiniteSet(1..n) /\ Cardinality(1..n) = n
  BY FS_Interval
<1>6. ExistsBijection(1..n, ToSet(p))
  BY <1>4 DEF ExistsBijection
<1>7. QED
  BY <1>1, <1>5, <1>6, FS_Bijection

\* What is registered is moved to the end, or added there.
LEMMA AtTheEnd ==
  ASSUME NEW T, NEW kept \in Seq(T), NEW c \in T, Distinct(kept)
  PROVE  LET p == Only(kept, T \ {c})
         IN  /\ p \in Seq(T) /\ Distinct(p) /\ Len(p) <= Len(kept)
             /\ \A x : (\E i \in 1..Len(p) : p[i] = x) <=> x # c /\ \E i \in 1..Len(kept) : kept[i] = x
             /\ InOrder(p, kept, Len(kept))
<1> DEFINE p == Only(kept, T \ {c})
<1>1. /\ p \in Seq(T) /\ Len(p) <= Len(kept)
      /\ \A x : x \in ToSet(p) <=> x \in ToSet(kept) /\ x \in T \ {c}
      /\ IsInjective(kept) => IsInjective(p)
  BY OnlyFacts
<1>2. InOrder(p, kept, Len(kept))
  BY OnlyOrdered
<1> HIDE DEF p
<1>3. Distinct(p)
  BY <1>1, InjectiveIsDistinct
<1>4. \A x : x \in ToSet(kept) => x \in T
  <2>1. \A i \in 1..Len(kept) : kept[i] \in T
    OBVIOUS
  <2>2. QED
    BY <2>1, InjectiveIsDistinct
<1>5. \A x : (\E i \in 1..Len(p) : p[i] = x) <=> x # c /\ \E i \in 1..Len(kept) : kept[i] = x
  <2> TAKE x
  <2>1. x \in ToSet(p) <=> \E i \in 1..Len(p) : p[i] = x
    BY <1>1, InjectiveIsDistinct
  <2>2. x \in ToSet(kept) <=> \E i \in 1..Len(kept) : kept[i] = x
    BY InjectiveIsDistinct
  <2>3. QED
    BY <1>1, <1>4, <2>1, <2>2
<1>6. QED
  BY <1>1, <1>2, <1>3, <1>5 DEF p

LEMMA RegisteredLast ==
  ASSUME NEW T, NEW kept \in Seq(T), NEW said \in Seq(T), NEW c \in T, NEW n \in Nat,
         Distinct(kept), Len(kept) <= n,
         LastOrdered(kept, said), Covered(kept, said), Outlived(kept, said, n)
  PROVE  LET q == Append(Only(kept, T \ {c}), c)
             r == Append(said, c)
         IN  /\ q \in Seq(T) /\ Distinct(q) /\ Len(q) <= n + 1 /\ r \in Seq(T)
             /\ LastOrdered(q, r) /\ Covered(q, r) /\ Outlived(q, r, n)
<1>1. PICK p \in Seq(T) :
        /\ p = Only(kept, T \ {c}) /\ Distinct(p) /\ Len(p) <= Len(kept)
        /\ \A x : (\E i \in 1..Len(p) : p[i] = x) <=> x # c /\ \E i \in 1..Len(kept) : kept[i] = x
        /\ InOrder(p, kept, Len(kept))
  BY AtTheEnd
<1>2. PICK m \in Nat : m = Len(p)
  OBVIOUS
<1>3. PICK s \in Nat : s = Len(said)
  OBVIOUS
<1> DEFINE q == Append(p, c)
           r == Append(said, c)
<1>4. /\ q \in Seq(T) /\ Len(q) = m + 1 /\ q[m + 1] = c /\ \A i \in 1..m : q[i] = p[i]
  BY <1>2, AppendAt
<1>5. /\ r \in Seq(T) /\ Len(r) = s + 1 /\ \A i \in 1..s : r[i] = said[i]
      /\ r[s + 1] = c
      /\ \A i \in 1..s : \A x : x \in SinceIn(r, i) <=> x \in SinceIn(said, i) \/ x = c
      /\ \A x : x \in SinceIn(r, s + 1) <=> x = c
      /\ \A i \in 1..(s + 1) : c \in SinceIn(r, i)
  BY <1>3, SinceGrows
<1> HIDE DEF q, r
<1>6. \A i \in 1..m : p[i] # c /\ \E b \in 1..Len(kept) : kept[b] = p[i]
  BY <1>1, <1>2
<1>7. \A j \in 1..Len(kept) : kept[j] # c => \E i \in 1..m : p[i] = kept[j]
  BY <1>1, <1>2
<1>8. Distinct(q)
  <2>1. \A i, j \in 1..m : p[i] = p[j] => i = j
    BY <1>1, <1>2 DEF Distinct
  <2>2. \A i \in 1..Len(q) : i \in 1..m \/ i = m + 1
    BY <1>4
  <2>3. QED
    BY <1>4, <1>6, <2>1, <2>2 DEF Distinct
<1>9. LastOrdered(q, r)
  <2> SUFFICES ASSUME NEW j \in 1..Len(q), NEW k \in 1..Len(q), j <= k,
                      NEW i \in 1..Len(r), r[i] = q[j]
               PROVE  q[k] \in SinceIn(r, i)
    BY DEF LastOrdered
  <2>1. i \in 1..(s + 1)
    BY <1>5
  <2>2. CASE k = m + 1
    BY <1>4, <1>5, <2>1, <2>2
  <2>3. CASE k # m + 1
    <3>1. k \in 1..m /\ j \in 1..m /\ q[k] = p[k] /\ q[j] = p[j]
      BY <1>4, <2>3
    <3>2. i \in 1..s /\ said[i] = p[j]
      <4>1. i # s + 1
        BY <1>5, <1>6, <3>1
      <4>2. i \in 1..s
        BY <2>1, <4>1
      <4>3. QED
        BY <1>5, <3>1, <4>2
    <3>3. p[k] \in SinceIn(said, i)
      <4>1. CASE j = k
        BY <1>3, <3>2, <4>1, SeenSince
      <4>2. CASE j # k
        <5>1. j < k
          BY <3>1, <4>2
        <5>2. PICK a, b \in 1..Len(kept) : a < b /\ kept[a] = p[j] /\ kept[b] = p[k]
          BY <1>1, <1>2, <3>1, <5>1 DEF InOrder
        <5>3. a <= b
          BY <5>2
        <5>4. QED
          BY <1>3, <3>2, <5>2, <5>3 DEF LastOrdered
      <4>3. QED
        BY <4>1, <4>2
    <3>4. QED
      BY <1>5, <3>1, <3>2, <3>3
  <2>4. QED
    BY <2>2, <2>3
<1>10. Covered(q, r)
  <2> SUFFICES ASSUME NEW k \in 1..Len(q)
               PROVE  \E i \in 1..Len(r) :
                        r[i] = q[k] /\ \A x \in SinceIn(r, i) : \E j \in k..Len(q) : q[j] = x
    BY DEF Covered
  <2>1. CASE k = m + 1
    <3>1. s + 1 \in 1..Len(r) /\ m + 1 \in k..Len(q)
      BY <1>4, <1>5, <2>1
    <3>2. QED
      BY <1>4, <1>5, <2>1, <3>1
  <2>2. CASE k # m + 1
    <3>1. k \in 1..m /\ q[k] = p[k]
      BY <1>4, <2>2
    <3>2. PICK b \in 1..Len(kept) : kept[b] = p[k]
      BY <1>6, <3>1
    <3>3. PICK i \in 1..s :
            said[i] = kept[b] /\ \A x \in SinceIn(said, i) : \E j \in b..Len(kept) : kept[j] = x
      BY <1>3 DEF Covered
    <3>4. ASSUME NEW x \in SinceIn(r, i) PROVE \E j \in k..Len(q) : q[j] = x
      <4>1. CASE x = c
        <5>1. m + 1 \in k..Len(q)
          BY <1>4, <3>1
        <5>2. QED
          BY <1>4, <4>1, <5>1
      <4>2. CASE x # c
        <5>1. x \in SinceIn(said, i)
          BY <1>5, <3>4, <4>2
        <5>2. PICK j \in b..Len(kept) : kept[j] = x
          BY <3>3, <5>1
        <5>3. j \in 1..Len(kept)
          BY <5>2
        <5>4. PICK g \in 1..m : p[g] = x
          BY <1>7, <4>2, <5>2, <5>3
        <5>5. g >= k
          <6>1. SUFFICES ASSUME g < k PROVE FALSE
            OBVIOUS
          <6>2. PICK a, d \in 1..Len(kept) : a < d /\ kept[a] = p[g] /\ kept[d] = p[k]
            BY <1>1, <1>2, <3>1, <5>4, <6>1 DEF InOrder
          <6>3. a = j /\ d = b
            BY <3>2, <5>2, <5>3, <5>4, <6>2 DEF Distinct
          <6>4. QED
            BY <5>2, <6>2, <6>3
        <5>6. g \in k..Len(q) /\ q[g] = x
          BY <1>4, <5>4, <5>5
        <5>7. QED
          BY <5>6
      <4>3. QED
        BY <4>1, <4>2
    <3>5. i \in 1..Len(r) /\ r[i] = q[k]
      BY <1>5, <3>1, <3>2, <3>3
    <3>6. QED
      BY <3>4, <3>5
  <2>3. QED
    BY <2>1, <2>2
<1>11. ASSUME \A x : (\E i \in 1..Len(kept) : kept[i] = x) => \E i \in 1..Len(q) : q[i] = x
       PROVE  Len(kept) <= Len(q)
  <2>1. ToSet(kept) \subseteq ToSet(q)
    BY <1>4, <1>11, InjectiveIsDistinct
  <2>2. /\ IsFiniteSet(ToSet(q)) /\ Cardinality(ToSet(q)) = Len(q)
        /\ Cardinality(ToSet(kept)) = Len(kept)
    BY <1>4, <1>8, DistinctCard
  <2>3. QED
    BY <2>1, <2>2, FS_Subset
<1>12. Outlived(q, r, n)
  <2> SUFFICES ASSUME NEW i \in 1..Len(r), \A k \in 1..Len(q) : q[k] # r[i]
               PROVE  Len(q) >= n /\ \A k \in 1..Len(q) : q[k] \in SinceIn(r, i)
    BY DEF Outlived
  <2>1. r[i] # c
    <3>1. m + 1 \in 1..Len(q)
      BY <1>4
    <3>2. QED
      BY <1>4, <3>1
  <2>2. i \in 1..s /\ r[i] = said[i]
    BY <1>5, <2>1
  <2>3. \A k \in 1..Len(kept) : kept[k] # said[i]
    <3>1. SUFFICES ASSUME NEW k \in 1..Len(kept), kept[k] = said[i] PROVE FALSE
      OBVIOUS
    <3>2. PICK g \in 1..m : p[g] = kept[k]
      BY <1>7, <2>1, <2>2, <3>1
    <3>3. g \in 1..Len(q) /\ q[g] = p[g]
      BY <1>4
    <3>4. QED
      BY <2>2, <3>1, <3>2, <3>3
  <2>4. Len(kept) >= n /\ \A k \in 1..Len(kept) : kept[k] \in SinceIn(said, i)
    BY <1>3, <2>2, <2>3 DEF Outlived
  <2>5. ASSUME NEW k \in 1..Len(q) PROVE q[k] \in SinceIn(r, i)
    <3>1. CASE k = m + 1
      BY <1>4, <1>5, <2>2, <3>1
    <3>2. CASE k # m + 1
      <4>1. k \in 1..m /\ q[k] = p[k]
        BY <1>4, <3>2
      <4>2. PICK b \in 1..Len(kept) : kept[b] = p[k]
        BY <1>6, <4>1
      <4>3. QED
        BY <1>5, <2>2, <2>4, <4>1, <4>2
    <3>3. QED
      BY <3>1, <3>2
  <2>6. \A x : (\E j \in 1..Len(kept) : kept[j] = x) => \E j \in 1..Len(q) : q[j] = x
    <3> SUFFICES ASSUME NEW j \in 1..Len(kept) PROVE \E g \in 1..Len(q) : q[g] = kept[j]
      OBVIOUS
    <3>1. CASE kept[j] = c
      <4>1. m + 1 \in 1..Len(q)
        BY <1>4
      <4>2. QED
        BY <1>4, <3>1, <4>1
    <3>2. CASE kept[j] # c
      <4>1. PICK g \in 1..m : p[g] = kept[j]
        BY <1>7, <3>2
      <4>2. g \in 1..Len(q) /\ q[g] = kept[j]
        BY <1>4, <4>1
      <4>3. QED
        BY <4>2
    <3>3. QED
      BY <3>1, <3>2
  <2>7. Len(kept) <= Len(q) /\ Len(kept) \in Nat /\ Len(q) \in Nat
    <3>1. Len(kept) <= Len(q)
      BY <1>11, <2>6
    <3>2. Len(kept) \in Nat /\ Len(q) \in Nat
      BY <1>4
    <3>3. QED
      BY <3>1, <3>2
  <2>8. QED
    BY <2>4, <2>5, <2>7
<1>13. Len(q) <= n + 1
  <2>1. Len(kept) \in Nat
    OBVIOUS
  <2>2. QED
    BY <1>1, <1>2, <1>4, <2>1
<1>14. QED
  BY <1>1, <1>4, <1>5, <1>8, <1>9, <1>10, <1>12, <1>13 DEF q, r

\* When the registry is full, the one used longest ago leaves it.
LEMMA CutKeeps ==
  ASSUME NEW T, NEW q \in Seq(T), NEW r \in Seq(T), NEW n \in Nat, Len(q) <= n + 1,
         Distinct(q), LastOrdered(q, r), Covered(q, r), Outlived(q, r, n)
  PROVE  LET z == Turns!LastOf(q, n)
         IN  /\ z \in Seq(T) /\ Len(z) <= n /\ Distinct(z)
             /\ LastOrdered(z, r) /\ Covered(z, r) /\ Outlived(z, r, n)
<1> DEFINE z == Turns!LastOf(q, n)
<1>1. /\ z \in Seq(T) /\ Len(z) <= n
      /\ Len(q) <= n => z = q
      /\ Len(q) = n + 1 => Len(z) = n /\ \A i \in 1..n : z[i] = q[i + 1]
  BY LastFacts
<1> HIDE DEF z
<1>2. CASE Len(q) <= n
  BY <1>1, <1>2 DEF z
<1>3. CASE Len(q) = n + 1
  <2>1. Len(z) = n /\ \A i \in 1..n : z[i] = q[i + 1] /\ i + 1 \in 1..Len(q)
    BY <1>1, <1>3
  <2>2. Distinct(z)
    <3> SUFFICES ASSUME NEW i \in 1..n, NEW j \in 1..n, z[i] = z[j] PROVE i = j
      BY <2>1 DEF Distinct
    <3>1. i + 1 = j + 1
      BY <2>1 DEF Distinct
    <3>2. QED
      BY <3>1
  <2>3. LastOrdered(z, r)
    <3> SUFFICES ASSUME NEW j \in 1..n, NEW k \in 1..n, j <= k,
                        NEW i \in 1..Len(r), r[i] = z[j]
                 PROVE  z[k] \in SinceIn(r, i)
      BY <2>1 DEF LastOrdered
    <3>1. j + 1 <= k + 1 /\ j + 1 \in 1..Len(q) /\ k + 1 \in 1..Len(q)
      BY <1>3
    <3>2. r[i] = q[j + 1]
      BY <2>1
    <3>3. q[k + 1] \in SinceIn(r, i)
      BY <3>1, <3>2 DEF LastOrdered
    <3>4. QED
      BY <2>1, <3>3
  <2>4. Covered(z, r)
    <3> SUFFICES ASSUME NEW k \in 1..n
                 PROVE  \E i \in 1..Len(r) :
                          r[i] = z[k] /\ \A x \in SinceIn(r, i) : \E j \in k..Len(z) : z[j] = x
      <4>1. Len(z) = n
        BY <2>1
      <4>2. QED
        BY <4>1 DEF Covered
    <3>1. k + 1 \in 1..Len(q) /\ z[k] = q[k + 1]
      BY <2>1
    <3>2. PICK i \in 1..Len(r) :
            r[i] = q[k + 1] /\ \A x \in SinceIn(r, i) : \E j \in (k + 1)..Len(q) : q[j] = x
      BY <3>1 DEF Covered
    <3>3. ASSUME NEW x \in SinceIn(r, i) PROVE \E j \in k..Len(z) : z[j] = x
      <4>1. PICK j \in (k + 1)..Len(q) : q[j] = x
        BY <3>2
      <4>2. j - 1 \in k..Len(z) /\ j - 1 \in 1..n /\ (j - 1) + 1 = j
        BY <1>3, <2>1
      <4>3. z[j - 1] = x
        BY <2>1, <4>1, <4>2
      <4>4. QED
        BY <4>2, <4>3
    <3>4. QED
      BY <3>1, <3>2, <3>3
  <2>5. Outlived(z, r, n)
    <3> SUFFICES ASSUME NEW i \in 1..Len(r), \A k \in 1..n : z[k] # r[i]
                 PROVE  \A k \in 1..n : z[k] \in SinceIn(r, i)
      <4>1. Len(z) = n /\ n >= n
        BY <2>1
      <4>2. QED
        BY <4>1 DEF Outlived
    <3>1. CASE r[i] = q[1]
      <4> TAKE k \in 1..n
      <4>1. 1 <= k + 1 /\ 1 \in 1..Len(q) /\ k + 1 \in 1..Len(q)
        BY <1>3
      <4>2. q[k + 1] \in SinceIn(r, i)
        BY <3>1, <4>1 DEF LastOrdered
      <4>3. QED
        BY <2>1, <4>2
    <3>2. CASE r[i] # q[1]
      <4>1. ASSUME NEW k \in 1..Len(q) PROVE q[k] # r[i]
        <5>1. CASE k = 1
          BY <3>2, <5>1
        <5>2. CASE k # 1
          <6>1. k - 1 \in 1..n /\ (k - 1) + 1 = k
            BY <1>3, <5>2
          <6>2. z[k - 1] = q[k]
            BY <2>1, <6>1
          <6>3. QED
            BY <6>1, <6>2
        <5>3. QED
          BY <5>1, <5>2
      <4>2. \A k \in 1..Len(q) : q[k] \in SinceIn(r, i)
        BY <4>1 DEF Outlived
      <4>3. QED
        BY <2>1, <4>2
    <3>3. QED
      BY <3>1, <3>2
  <2>6. QED
    BY <1>1, <2>2, <2>3, <2>4, <2>5 DEF z
<1>4. Len(q) <= n \/ Len(q) = n + 1
  <2>1. Len(q) \in Nat
    OBVIOUS
  <2>2. QED
    BY <2>1
<1>5. QED
  BY <1>2, <1>3, <1>4 DEF z

LEMMA SeqFinite ==
  ASSUME NEW T, NEW s \in Seq(T)
  PROVE  IsFiniteSet(ToSet(s))
<1>1. PICK n \in Nat : n = Len(s)
  OBVIOUS
<1>2. \A x : x \in ToSet(s) <=> \E i \in 1..n : s[i] = x
  BY <1>1, InjectiveIsDistinct
<1>3. s \in Surjection(1..n, ToSet(s))
  <2>1. s \in [1..n -> T]
    BY <1>1
  <2>2. QED
    BY <1>2, <2>1 DEF Surjection
<1>4. IsFiniteSet(1..n)
  BY FS_Interval
<1>5. QED
  BY <1>3, <1>4, FS_Surjection

LEMMA SameOnly == \A s, S : Turns!Only(s, S) = Only(s, S)
BY DEF Turns!Only, Only

LEMMA ArriveKeepsRegistry ==
  ASSUME RegistryInv, NEW c \in TurnChats, Turns!Arrive(c)
  PROVE  RegistryInv'
<1>1. /\ channels \in Seq(TurnChats) /\ seen \in Seq(TurnChats)
      /\ Len(channels) <= MaxChannels /\ Distinct(channels)
      /\ LastOrdered(channels, seen) /\ Covered(channels, seen)
      /\ Outlived(channels, seen, MaxChannels) /\ MaxChannels \in Nat
  BY LimitsAssumption DEF RegistryInv
<1> DEFINE q == Append(Only(channels, TurnChats \ {c}), c)
<1>2. channels' = Turns!LastOf(q, MaxChannels) /\ seen' = Append(seen, c)
  BY SameOnly DEF Turns!Arrive, Turns!Register
<1>3. /\ q \in Seq(TurnChats) /\ Distinct(q) /\ Len(q) <= MaxChannels + 1
      /\ seen' \in Seq(TurnChats) /\ LastOrdered(q, seen') /\ Covered(q, seen')
      /\ Outlived(q, seen', MaxChannels)
  BY <1>1, <1>2, RegisteredLast
<1> HIDE DEF q
<1>4. /\ channels' \in Seq(TurnChats) /\ Len(channels') <= MaxChannels /\ Distinct(channels')
      /\ LastOrdered(channels', seen') /\ Covered(channels', seen')
      /\ Outlived(channels', seen', MaxChannels)
  BY <1>1, <1>2, <1>3, CutKeeps
<1>5. QED
  BY <1>3, <1>4 DEF RegistryInv

\* The registry holds the chats whose last message is recent enough.
LEMMA RegistryIsRecent ==
  ASSUME RegistryInv, NEW c
  PROVE  c \in ToSet(channels) <=> c \in Turns!Recent
<1>1. /\ channels \in Seq(TurnChats) /\ seen \in Seq(TurnChats)
      /\ Len(channels) <= MaxChannels /\ Distinct(channels)
      /\ Covered(channels, seen)
      /\ Outlived(channels, seen, MaxChannels) /\ MaxChannels \in Nat
  BY LimitsAssumption DEF RegistryInv
<1>2. /\ IsFiniteSet(ToSet(channels)) /\ Cardinality(ToSet(channels)) = Len(channels)
      /\ Len(channels) \in Nat
  BY <1>1, DistinctCard
<1>3. \A x : x \in ToSet(channels) <=> \E i \in 1..Len(channels) : channels[i] = x
  BY <1>1, InjectiveIsDistinct
<1>4. \A x : x \in ToSet(seen) <=> \E i \in 1..Len(seen) : seen[i] = x
  BY <1>1, InjectiveIsDistinct
<1>5. ASSUME NEW i \in 1..Len(seen)
      PROVE  ToSet(SubSeq(seen, i, Len(seen))) = SinceIn(seen, i)
  <2>1. PICK n \in Nat : n = Len(seen)
    BY <1>1
  <2>2. PICK s : s = SubSeq(seen, i, n)
    OBVIOUS
  <2>3. /\ s \in Seq(TurnChats) /\ Len(s) = n - i + 1
        /\ \A j \in 1..(n - i + 1) : s[j] = seen[j + i - 1]
    BY <1>1, <2>1, <2>2
  <2>4. \A x : x \in ToSet(s) <=> \E j \in 1..(n - i + 1) : s[j] = x
    BY <2>3, InjectiveIsDistinct
  <2>5. \A j \in i..n : j - i + 1 \in 1..(n - i + 1) /\ (j - i + 1) + i - 1 = j
    BY <2>1
  <2>6. \A j \in 1..(n - i + 1) : j + i - 1 \in i..n
    BY <2>1
  <2>7. \A x : x \in ToSet(s) <=> \E j \in i..n : seen[j] = x
    BY <2>3, <2>4, <2>5, <2>6
  <2>8. QED
    BY <2>1, <2>2, <2>7 DEF SinceIn
<1>6. c \in Turns!Recent <=>
        \E i \in 1..Len(seen) : seen[i] = c /\ Cardinality(SinceIn(seen, i)) <= MaxChannels
  <2>1. DOMAIN seen = 1..Len(seen)
    BY <1>1
  <2>2. c \in Turns!Recent <=>
          /\ c \in ToSet(seen)
          /\ \E i \in 1..Len(seen) :
               seen[i] = c /\ Cardinality(ToSet(SubSeq(seen, i, Len(seen)))) <= MaxChannels
    BY <2>1 DEF Turns!Recent, Turns!ToSet, ToSet, Turns!Cardinality, Cardinality
  <2>3. QED
    BY <1>4, <1>5, <2>2
<1>7. ASSUME c \in ToSet(channels) PROVE c \in Turns!Recent
  <2>1. PICK k \in 1..Len(channels) : channels[k] = c
    BY <1>3, <1>7
  <2>2. PICK i \in 1..Len(seen) :
          seen[i] = c /\ \A x \in SinceIn(seen, i) : \E j \in k..Len(channels) : channels[j] = x
    BY <1>1, <2>1 DEF Covered
  <2>3. ASSUME NEW x \in SinceIn(seen, i) PROVE x \in ToSet(channels)
    <3>1. PICK j \in k..Len(channels) : channels[j] = x
      BY <2>2
    <3>2. j \in 1..Len(channels)
      BY <2>1
    <3>3. QED
      BY <1>3, <3>1, <3>2
  <2>4. SinceIn(seen, i) \in SUBSET ToSet(channels)
    BY <2>3
  <2>5. /\ IsFiniteSet(SinceIn(seen, i))
        /\ Cardinality(SinceIn(seen, i)) <= Cardinality(ToSet(channels))
    BY <1>2, <2>4, FS_Subset
  <2>6. Cardinality(SinceIn(seen, i)) \in Nat
    BY <2>5, FS_CardinalityType
  <2>7. Cardinality(SinceIn(seen, i)) <= MaxChannels
    BY <1>1, <1>2, <2>5, <2>6
  <2>8. QED
    BY <1>6, <2>2, <2>7
<1>8. ASSUME c \in Turns!Recent PROVE c \in ToSet(channels)
  <2>1. SUFFICES ASSUME c \notin ToSet(channels) PROVE FALSE
    OBVIOUS
  <2>2. PICK i \in 1..Len(seen) : seen[i] = c /\ Cardinality(SinceIn(seen, i)) <= MaxChannels
    BY <1>6, <1>8
  <2>3. \A k \in 1..Len(channels) : channels[k] # seen[i]
    BY <1>3, <2>1, <2>2
  <2>4. Len(channels) >= MaxChannels /\ \A k \in 1..Len(channels) : channels[k] \in SinceIn(seen, i)
    BY <1>1, <2>3 DEF Outlived
  <2>5. ToSet(channels) \cup {c} \subseteq SinceIn(seen, i)
    BY <1>1, <1>3, <2>2, <2>4, SeenSince
  <2>6. IsFiniteSet(SinceIn(seen, i))
    <3>1. PICK n \in Nat : n = Len(seen)
      BY <1>1
    <3>2. SinceIn(seen, i) = ToSet(SubSeq(seen, i, Len(seen)))
      BY <1>5
    <3>3. \A s \in Seq(TurnChats) : IsFiniteSet(ToSet(s))
      BY SeqFinite
    <3>4. SubSeq(seen, i, Len(seen)) \in Seq(TurnChats)
      BY <1>1, <3>1
    <3>5. QED
      BY <3>2, <3>3, <3>4
  <2>7. Cardinality(ToSet(channels) \cup {c}) = Len(channels) + 1
    BY <1>2, <2>1, FS_AddElement
  <2>8. Cardinality(ToSet(channels) \cup {c}) <= Cardinality(SinceIn(seen, i))
    BY <2>5, <2>6, FS_Subset
  <2>9. Cardinality(SinceIn(seen, i)) \in Nat
    BY <2>6, FS_CardinalityType
  <2>10. QED
    BY <1>1, <1>2, <2>2, <2>4, <2>7, <2>8, <2>9
<1>9. QED
  BY <1>7, <1>8

(***************************************************************************)
(* Sending.                                                                *)
(***************************************************************************)
OfWake(w) == {a \in Attempts : a.wake = w}

LEMMA TextsFacts ==
  ASSUME NEW p \in Seq(Attempts)
  PROVE  TextsOf(p) \in Seq(Nat) /\ Len(TextsOf(p)) = Len(p)
         /\ \A i \in 1..Len(p) : TextsOf(p)[i] = p[i].text
<1>1. PICK n \in Nat : n = Len(p) /\ DOMAIN p = 1..n
  OBVIOUS
<1>2. \A i \in 1..n : p[i] \in Attempts /\ p[i].text \in Nat
  <2>1. \A i \in 1..n : p[i] \in Attempts
    BY <1>1
  <2>2. \A a \in Attempts : a.text \in Nat
    BY DEF Attempts
  <2>3. QED
    BY <2>1, <2>2
<1>3. TextsOf(p) = [i \in 1..n |-> p[i].text]
  BY <1>1 DEF TextsOf
<1>4. QED
  BY <1>1, <1>2, <1>3

LEMMA TextsAppend ==
  ASSUME NEW p \in Seq(Attempts), NEW a \in Attempts
  PROVE  TextsOf(Append(p, a)) = Append(TextsOf(p), a.text)
<1>1. PICK n \in Nat : n = Len(p)
  OBVIOUS
<1> DEFINE q == Append(p, a)
           t == TextsOf(p)
           u == Append(t, a.text)
<1>2. q \in Seq(Attempts) /\ Len(q) = n + 1 /\ q[n + 1] = a /\ \A i \in 1..n : q[i] = p[i]
  BY <1>1, AppendAt
<1>3. t \in Seq(Nat) /\ Len(t) = n /\ \A i \in 1..n : t[i] = p[i].text
  BY <1>1, TextsFacts
<1>4. a.text \in Nat
  BY DEF Attempts
<1> HIDE DEF q, t
<1>5. u \in Seq(Nat) /\ Len(u) = n + 1 /\ u[n + 1] = a.text /\ \A i \in 1..n : u[i] = t[i]
  <2>1. PICK x \in Nat : x = a.text
    BY <1>4
  <2>2. t \in Seq(Nat)
    BY <1>3
  <2>3. /\ Append(t, x) \in Seq(Nat) /\ Len(Append(t, x)) = Len(t) + 1
        /\ Append(t, x)[Len(t) + 1] = x /\ \A i \in 1..Len(t) : Append(t, x)[i] = t[i]
    BY <2>2, AppendAt
  <2>4. QED
    BY <1>3, <2>1, <2>3
<1>6. TextsOf(q) \in Seq(Nat) /\ Len(TextsOf(q)) = n + 1
      /\ \A i \in 1..(n + 1) : TextsOf(q)[i] = q[i].text
  BY <1>2, TextsFacts
<1> HIDE DEF u
<1>7. ASSUME NEW i \in 1..(n + 1) PROVE TextsOf(q)[i] = u[i]
  <2>1. CASE i = n + 1
    BY <1>2, <1>5, <1>6, <2>1
  <2>2. CASE i # n + 1
    <3>1. i \in 1..n
      BY <2>2
    <3>2. TextsOf(q)[i] = q[i].text /\ q[i] = p[i] /\ t[i] = p[i].text /\ u[i] = t[i]
      BY <1>2, <1>3, <1>5, <1>6, <3>1
    <3>3. QED
      BY <3>2
  <2>3. QED
    BY <2>1, <2>2
<1>8. TextsOf(q) = u
  BY <1>5, <1>6, <1>7, SameElements
<1>9. QED
  BY <1>8 DEF q, u, t

LEMMA AttemptsAre ==
  ASSUME sending \in Seq(Attempts), NEW w
  PROVE  /\ Turns!AttemptsOf(w) = Only(sending, OfWake(w))
         /\ Turns!AttemptsOf(w) \in Seq(Attempts)
<1> DEFINE R == {a \in ToSet(sending) : a.wake = w}
<1>1. Turns!AttemptsOf(w) = Only(sending, R)
  BY SameOnly DEF Turns!AttemptsOf, Turns!ToSet, ToSet
<1>2. \A i \in 1..Len(sending) : sending[i] \in R <=> sending[i] \in OfWake(w)
  <2> TAKE i \in 1..Len(sending)
  <2>1. sending[i] \in Attempts /\ sending[i] \in ToSet(sending)
    BY InjectiveIsDistinct
  <2>2. QED
    BY <2>1 DEF OfWake
<1> HIDE DEF R
<1>3. Only(sending, R) = Only(sending, OfWake(w))
  BY <1>2, OnlySame
<1>4. QED
  BY <1>1, <1>3, OnlyFacts

\* No one has sent anything of a wake-up whose outputs are still to be created.
LEMMA NothingSent ==
  ASSUME sending \in Seq(Attempts), NEW w, \A i \in DOMAIN sending : sending[i].wake # w
  PROVE  TextsOf(Turns!AttemptsOf(w)) = << >>
<1> DEFINE p == Only(sending, OfWake(w))
<1>1. p \in Seq(Attempts) /\ \A x : x \in ToSet(p) => x \in ToSet(sending) /\ x \in OfWake(w)
  BY OnlyFacts
<1>2. Turns!AttemptsOf(w) = p
  BY AttemptsAre
<1> HIDE DEF p
<1>3. \A x : x \in ToSet(sending) => x.wake # w
  BY DEF ToSet
<1>4. \A i \in 1..Len(p) : p[i] \in ToSet(p)
  BY <1>1, InjectiveIsDistinct
<1>5. \A i \in 1..Len(p) : FALSE
  BY <1>1, <1>3, <1>4 DEF OfWake
<1>6. PICK n \in Nat : n = Len(p)
  BY <1>1
<1>7. n = 0
  <2>1. CASE n # 0
    <3>1. 1 \in 1..Len(p)
      BY <1>6, <2>1
    <3>2. QED
      BY <1>5, <3>1
  <2>2. QED
    BY <2>1
<1>8. TextsOf(p) \in Seq(Nat) /\ Len(TextsOf(p)) = 0
  BY <1>1, <1>6, <1>7, TextsFacts
<1>9. TextsOf(p) = << >>
  BY <1>8
<1>10. QED
  BY <1>2, <1>9

LEMMA AttemptsGrow ==
  ASSUME sending \in Seq(Attempts), NEW a \in Attempts, sending' = Append(sending, a), NEW w
  PROVE  /\ sending' \in Seq(Attempts)
         /\ (Turns!AttemptsOf(w))' = IF a.wake = w THEN Append(Turns!AttemptsOf(w), a)
                                     ELSE Turns!AttemptsOf(w)
<1>1. sending' \in Seq(Attempts)
  OBVIOUS
<1>2. (Turns!AttemptsOf(w))' = Only(sending', {b \in ToSet(sending') : b.wake = w})
  BY SameOnly DEF Turns!AttemptsOf, Turns!ToSet, ToSet
<1> DEFINE R == {b \in ToSet(sending') : b.wake = w}
<1>3. \A i \in 1..Len(sending') : sending'[i] \in R <=> sending'[i] \in OfWake(w)
  <2> TAKE i \in 1..Len(sending')
  <2>1. sending'[i] \in Attempts /\ sending'[i] \in ToSet(sending')
    <3>1. PICK s \in Seq(Attempts) : s = sending'
      BY <1>1
    <3>2. i \in 1..Len(s) /\ s[i] \in Attempts
      BY <3>1
    <3>3. s[i] \in ToSet(s)
      BY <3>2, InjectiveIsDistinct
    <3>4. QED
      BY <3>1, <3>2, <3>3
  <2>2. QED
    BY <2>1 DEF OfWake
<1> HIDE DEF R
<1>4. Only(sending', R) = Only(sending', OfWake(w))
  BY <1>1, <1>3, OnlySame
<1>5. Only(sending', OfWake(w)) = IF a \in OfWake(w) THEN Append(Only(sending, OfWake(w)), a)
                                  ELSE Only(sending, OfWake(w))
  BY OnlyAppend
<1>6. a \in OfWake(w) <=> a.wake = w
  BY DEF OfWake
<1>7. Turns!AttemptsOf(w) = Only(sending, OfWake(w))
  BY AttemptsAre
<1>8. QED
  BY <1>1, <1>2, <1>4, <1>5, <1>6, <1>7 DEF R

LEMMA ShiftHead ==
  ASSUME NEW T, NEW p \in Seq(T), NEW o \in Seq(T), o # << >>
  PROVE  Append(p, Head(o)) \o Tail(o) = p \o o
<1>1. PICK m \in Nat : m = Len(p)
  OBVIOUS
<1>2. PICK n \in Nat : n = Len(o) /\ n # 0
  OBVIOUS
<1> DEFINE q == Append(p, Head(o))
           t == Tail(o)
<1>3. t \in Seq(T) /\ Len(t) = n - 1 /\ \A i \in 1..(n - 1) : t[i] = o[i + 1]
      /\ Head(o) \in T /\ Head(o) = o[1]
  BY <1>2, TailAt
<1>4. q \in Seq(T) /\ Len(q) = m + 1 /\ q[m + 1] = o[1] /\ \A i \in 1..m : q[i] = p[i]
  BY <1>1, <1>3, AppendAt
<1> HIDE DEF q, t
<1>5. /\ q \o t \in Seq(T) /\ Len(q \o t) = m + n
      /\ \A i \in 1..(m + 1) : (q \o t)[i] = q[i]
      /\ \A i \in 1..(n - 1) : (q \o t)[m + 1 + i] = t[i]
  <2>1. Len(q) = m + 1 /\ Len(t) = n - 1 /\ Len(q) + Len(t) = m + n
    BY <1>3, <1>4
  <2>2. q \in Seq(T) /\ t \in Seq(T)
    BY <1>3, <1>4
  <2>3. /\ q \o t \in Seq(T) /\ Len(q \o t) = Len(q) + Len(t)
        /\ \A i \in 1..Len(q) : (q \o t)[i] = q[i]
        /\ \A i \in 1..Len(t) : (q \o t)[Len(q) + i] = t[i]
    BY <2>2
  <2>4. QED
    BY <2>1, <2>3
<1>6. /\ p \o o \in Seq(T) /\ Len(p \o o) = m + n
      /\ \A i \in 1..m : (p \o o)[i] = p[i]
      /\ \A i \in 1..n : (p \o o)[m + i] = o[i]
  BY <1>1, <1>2
<1>7. ASSUME NEW i \in 1..(m + n) PROVE (q \o t)[i] = (p \o o)[i]
  <2>1. CASE i \in 1..m
    BY <1>4, <1>5, <1>6, <2>1
  <2>2. CASE i = m + 1
    <3>1. 1 \in 1..n /\ m + 1 \in 1..(m + 1)
      BY <1>2
    <3>2. QED
      BY <1>4, <1>5, <1>6, <2>2, <3>1
  <2>3. CASE i \notin 1..m /\ i # m + 1
    <3>1. PICK j \in 1..(n - 1) : i = m + 1 + j
      <4>1. i - (m + 1) \in 1..(n - 1) /\ i = m + 1 + (i - (m + 1))
        BY <2>3
      <4>2. QED
        BY <4>1
    <3>2. j + 1 \in 1..n /\ i = m + (j + 1)
      BY <3>1
    <3>3. (q \o t)[i] = o[j + 1]
      BY <1>3, <1>5, <3>1
    <3>4. (p \o o)[i] = o[j + 1]
      BY <1>6, <3>2
    <3>5. QED
      BY <3>3, <3>4
  <2>4. QED
    BY <2>1, <2>2, <2>3
<1>8. q \o t = p \o o
  BY <1>5, <1>6, <1>7, SameElements
<1>9. QED
  BY <1>8 DEF q, t

LEMMA SendTyped ==
  ASSUME TurnInv, SendInv, NEW c \in TurnChats, turn[c].pc = "send"
  PROVE  /\ turn[c] \in Sends /\ turn[c].wake \in DOMAIN created
         /\ turn[c].outputs \in Seq(Nat) /\ turn[c].wake \in Nat /\ turn[c].routed \in BOOLEAN
         /\ turn[c] # Turns!NoTurn
         /\ TextsOf(Turns!AttemptsOf(turn[c].wake)) \in Seq(Nat)
         /\ TextsOf(Turns!AttemptsOf(turn[c].wake)) \o turn[c].outputs = created[turn[c].wake]
         /\ sending \in Seq(Attempts)
<1>1. turn[c] \in Sends
  BY TurnKind DEF TurnInv
<1>2. turn[c].wake \in DOMAIN created
  BY DEF TurnInv, Numbered
<1>3. sending \in Seq(Attempts)
  BY DEF SendInv
<1>4. TextsOf(Turns!AttemptsOf(turn[c].wake)) \in Seq(Nat)
  BY <1>3, AttemptsAre, TextsFacts
<1>5. TextsOf(Turns!AttemptsOf(turn[c].wake)) \o turn[c].outputs = created[turn[c].wake]
  BY DEF SendInv
<1>6. QED
  BY <1>1, <1>2, <1>3, <1>4, <1>5, TurnKinds

\* The turns that send keep sending, and no others begin to.
LEMMA SendsBeside ==
  ASSUME SendInv, UNCHANGED << created, sending >>,
         \A c \in TurnChats : turn'[c].pc = "send" <=> turn[c].pc = "send",
         \A c \in TurnChats : turn[c].pc = "send" => turn'[c] = turn[c]
  PROVE  SendInv'
<1>1. \A w : (Turns!AttemptsOf(w))' = Turns!AttemptsOf(w)
  BY DEF Turns!AttemptsOf
<1>2. sending' \in Seq(Attempts) /\ \A i \in DOMAIN sending' : sending'[i].wake \in DOMAIN created'
  BY DEF SendInv
<1>3. ASSUME NEW c \in TurnChats, turn'[c].pc = "send"
      PROVE  TextsOf((Turns!AttemptsOf(turn[c].wake))') \o turn'[c].outputs = created'[turn'[c].wake]
             /\ turn'[c].wake = turn[c].wake
  <2>1. turn[c].pc = "send" /\ turn'[c] = turn[c]
    BY <1>3
  <2>2. TextsOf(Turns!AttemptsOf(turn[c].wake)) \o turn[c].outputs = created[turn[c].wake]
    BY <2>1 DEF SendInv
  <2>3. QED
    BY <1>1, <2>1, <2>2
<1>4. ASSUME NEW w \in DOMAIN created'
      PROVE  \/ TextsOf((Turns!AttemptsOf(w))') = created'[w]
             \/ \E c \in TurnChats : turn'[c].pc = "send" /\ turn'[c].wake = w
  BY <1>1 DEF SendInv
<1>5. QED
  BY <1>2, <1>3, <1>4 DEF SendInv

LEMMA LastRoundSends ==
  ASSUME TurnInv, SendInv, NEW c \in TurnChats, NEW said \in AnswersOf[c],
         Turns!ModelAnswers(c, said), Turns!Round(turn[c].loop, said).stop # "none"
  PROVE  SendInv'
<1>1. PICK out \in Seq(Nat) :
        LET t == [pc |-> "send", wake |-> turn[c].wake, routed |-> turn[c].routed, outputs |-> out]
            k == << turn[c].life, c >>
        IN  /\ Len(out) <= MaxSegments /\ k \in Turns!Keys /\ turn[c] \in Models
            /\ turn[c].wake \in 1..wakes /\ turn[c].wake \notin DOMAIN created
            /\ turn' = [turn EXCEPT ![c] = t] /\ t \in Sends
            /\ history' = [history EXCEPT ![k] = Turns!Appended(k, turn[c].wake, out)]
            /\ created' = [v \in DOMAIN created \cup {turn[c].wake} |->
                             IF v = turn[c].wake THEN out ELSE created[v]]
  BY LastRound
<1>2. PICK w : w = turn[c].wake
  OBVIOUS
<1>3. PICK t : t = [pc |-> "send", wake |-> turn[c].wake, routed |-> turn[c].routed, outputs |-> out]
  OBVIOUS
<1>4. t.pc = "send" /\ t.wake = w /\ t.outputs = out
  BY <1>2, <1>3
<1>5. /\ turn'[c] = t /\ \A d \in TurnChats : d # c => turn'[d] = turn[d]
      /\ sending' = sending /\ turn[c].pc = "model"
  BY <1>1, <1>3 DEF TurnInv, TurnsTyped, Turns!ModelAnswers
<1>6. /\ DOMAIN created' = DOMAIN created \cup {w} /\ created'[w] = out
      /\ \A v \in DOMAIN created : created'[v] = created[v]
      /\ w \notin DOMAIN created
  BY <1>1, <1>2
<1>7. \A v : (Turns!AttemptsOf(v))' = Turns!AttemptsOf(v)
  BY <1>5 DEF Turns!AttemptsOf
<1>8. /\ sending \in Seq(Attempts) /\ \A i \in DOMAIN sending : sending[i].wake \in DOMAIN created
  BY DEF SendInv
<1>9. sending' \in Seq(Attempts) /\ \A i \in DOMAIN sending' : sending'[i].wake \in DOMAIN created'
  BY <1>5, <1>6, <1>8
<1>10. TextsOf(Turns!AttemptsOf(w)) = << >>
  BY <1>6, <1>8, NothingSent
<1>11. << >> \o out = out
  OBVIOUS
<1>12. ASSUME NEW d \in TurnChats, turn'[d].pc = "send"
       PROVE  TextsOf((Turns!AttemptsOf(turn'[d].wake))) \o turn'[d].outputs = created'[turn'[d].wake]
  <2>1. CASE d = c
    BY <1>4, <1>5, <1>6, <1>10, <1>11, <2>1
  <2>2. CASE d # c
    <3>1. turn'[d] = turn[d] /\ turn[d].pc = "send"
      BY <1>5, <1>12, <2>2
    <3>2. TextsOf(Turns!AttemptsOf(turn[d].wake)) \o turn[d].outputs = created[turn[d].wake]
      BY <3>1 DEF SendInv
    <3>3. turn[d].wake \in DOMAIN created
      BY <3>1 DEF TurnInv, Numbered
    <3>4. QED
      BY <1>6, <3>1, <3>2, <3>3
  <2>3. QED
    BY <2>1, <2>2
<1>13. ASSUME NEW v \in DOMAIN created'
       PROVE  \/ TextsOf(Turns!AttemptsOf(v)) = created'[v]
              \/ \E d \in TurnChats : turn'[d].pc = "send" /\ turn'[d].wake = v
  <2>1. CASE v = w
    BY <1>4, <1>5, <2>1
  <2>2. CASE v # w
    <3>1. v \in DOMAIN created /\ created'[v] = created[v]
      BY <1>6, <2>2
    <3>2. CASE TextsOf(Turns!AttemptsOf(v)) = created[v]
      BY <3>1, <3>2
    <3>3. CASE \E d \in TurnChats : turn[d].pc = "send" /\ turn[d].wake = v
      <4>1. PICK d \in TurnChats : turn[d].pc = "send" /\ turn[d].wake = v
        BY <3>3
      <4>2. turn'[d] = turn[d]
        BY <1>5, <4>1
      <4>3. QED
        BY <4>1, <4>2
    <3>4. QED
      BY <3>1, <3>2, <3>3 DEF SendInv
  <2>3. QED
    BY <2>1, <2>2
<1>14. QED
  BY <1>7, <1>9, <1>12, <1>13 DEF SendInv

LEMMA RestSends ==
  ASSUME TurnInv, SendInv, NEW c \in TurnChats, Turns!Rest(c)
  PROVE  SendInv'
<1>1. /\ turn[c].pc = "send" /\ turn[c].outputs = << >> /\ turn' = [turn EXCEPT ![c] = Turns!NoTurn]
      /\ UNCHANGED << created, sending >>
  BY DEF Turns!Rest
<1>2. turn'[c] = Turns!NoTurn /\ \A d \in TurnChats : d # c => turn'[d] = turn[d]
  BY <1>1 DEF TurnInv, TurnsTyped
<1>3. \A v : (Turns!AttemptsOf(v))' = Turns!AttemptsOf(v)
  BY <1>1 DEF Turns!AttemptsOf
<1>4. PICK w : w = turn[c].wake
  OBVIOUS
<1>5. TextsOf(Turns!AttemptsOf(w)) = created[w]
  <2>1. PICK s \in Seq(Nat) : s = TextsOf(Turns!AttemptsOf(w)) /\ s \o << >> = created[w]
    BY <1>1, <1>4, SendTyped
  <2>2. s \o << >> = s
    OBVIOUS
  <2>3. QED
    BY <2>1, <2>2
<1>6. \A d \in TurnChats : turn'[d].pc = "send" => turn'[d] = turn[d] /\ turn[d].pc = "send"
  BY <1>2, TurnKinds
<1>7. sending' \in Seq(Attempts) /\ \A i \in DOMAIN sending' : sending'[i].wake \in DOMAIN created'
  BY <1>1 DEF SendInv
<1>8. \A d \in TurnChats : turn'[d].pc = "send" =>
        TextsOf((Turns!AttemptsOf(turn'[d].wake))) \o turn'[d].outputs = created'[turn'[d].wake]
  BY <1>1, <1>6 DEF SendInv
<1>9. ASSUME NEW v \in DOMAIN created
      PROVE  \/ TextsOf(Turns!AttemptsOf(v)) = created[v]
             \/ \E d \in TurnChats : turn'[d].pc = "send" /\ turn'[d].wake = v
  <2>1. CASE v = w
    BY <1>5, <2>1
  <2>2. CASE v # w
    <3>1. CASE TextsOf(Turns!AttemptsOf(v)) = created[v]
      BY <3>1
    <3>2. CASE \E d \in TurnChats : turn[d].pc = "send" /\ turn[d].wake = v
      <4>1. PICK d \in TurnChats : turn[d].pc = "send" /\ turn[d].wake = v
        BY <3>2
      <4>2. turn'[d] = turn[d]
        BY <1>2, <1>4, <2>2, <4>1
      <4>3. QED
        BY <4>1, <4>2
    <3>3. QED
      BY <3>1, <3>2 DEF SendInv
  <2>3. QED
    BY <2>1, <2>2
<1>10. QED
  BY <1>1, <1>3, <1>7, <1>8, <1>9 DEF SendInv

LEMMA AttemptSends ==
  ASSUME TurnInv, SendInv, NEW c \in TurnChats, turn[c].pc = "send", turn[c].outputs # << >>,
         NEW outcome \in {"sent", "unrouted", "refused"}, Turns!Attempt(c, outcome)
  PROVE  SendInv'
<1>1. PICK t \in Sends :
        /\ turn[c] \in Sends /\ turn' = [turn EXCEPT ![c] = t] /\ t.wake = turn[c].wake
        /\ t.outputs = Tail(turn[c].outputs) /\ UNCHANGED created
  BY AttemptFacts DEF TurnInv
<1>2. PICK w \in Nat : w = turn[c].wake
  BY <1>1, TurnKinds
<1>3. PICK o \in Seq(Nat) : o = turn[c].outputs /\ o # << >>
  BY <1>1, TurnKinds
<1>4. Head(o) \in Nat
  BY <1>3
<1>5. PICK s \in Seq(Nat) : s = TextsOf(Turns!AttemptsOf(w)) /\ s \o o = created[w]
  BY <1>2, <1>3, SendTyped
<1>6. PICK known \in BOOLEAN : known = (bot \/ c \in Turns!Recent)
  OBVIOUS
<1>7. PICK a : a = [wake |-> w, text |-> Head(o), outcome |-> outcome, routed |-> turn[c].routed,
                    known |-> known]
  OBVIOUS
<1>8. a \in Attempts /\ a.wake = w /\ a.text = Head(o)
  BY <1>1, <1>2, <1>4, <1>6, <1>7, TurnKinds DEF Attempts
<1>9. sending' = Append(sending, a)
  BY <1>2, <1>3, <1>6, <1>7 DEF Turns!Attempt
<1>10. sending \in Seq(Attempts) /\ w \in DOMAIN created
  BY <1>2, SendTyped
<1>11. /\ sending' \in Seq(Attempts)
       /\ (Turns!AttemptsOf(w))' = Append(Turns!AttemptsOf(w), a)
       /\ \A v : v # w => (Turns!AttemptsOf(v))' = Turns!AttemptsOf(v)
  BY <1>8, <1>9, <1>10, AttemptsGrow
<1>12. TextsOf((Turns!AttemptsOf(w))') = Append(s, Head(o))
  <2>1. Turns!AttemptsOf(w) \in Seq(Attempts)
    BY <1>10, AttemptsAre
  <2>2. QED
    BY <1>5, <1>8, <1>11, <2>1, TextsAppend
<1>13. TextsOf((Turns!AttemptsOf(w))') \o Tail(o) = created[w]
  BY <1>3, <1>5, <1>12, ShiftHead
<1>14. turn'[c] = t /\ t.pc = "send" /\ \A d \in TurnChats : d # c => turn'[d] = turn[d]
  BY <1>1, TurnKinds DEF TurnInv, TurnsTyped
<1>15. \A i \in DOMAIN sending' : sending'[i].wake \in DOMAIN created'
  <2> TAKE i \in DOMAIN sending'
  <2>1. i \in DOMAIN sending \/ i = Len(sending) + 1
    BY <1>8, <1>9, <1>10
  <2>2. CASE i \in DOMAIN sending
    <3>1. sending'[i] = sending[i]
      BY <1>8, <1>9, <1>10, <2>2
    <3>2. QED
      BY <1>1, <2>2, <3>1 DEF SendInv
  <2>3. CASE i = Len(sending) + 1
    <3>1. sending'[i] = a
      BY <1>8, <1>9, <1>10, <2>3
    <3>2. QED
      BY <1>1, <1>8, <1>10, <3>1
  <2>4. QED
    BY <2>1, <2>2, <2>3
<1>16. ASSUME NEW d \in TurnChats, turn'[d].pc = "send"
       PROVE  TextsOf((Turns!AttemptsOf(turn[d].wake))') \o turn'[d].outputs = created[turn[d].wake]
              /\ turn'[d].wake = turn[d].wake
  <2>1. CASE d = c
    BY <1>1, <1>2, <1>3, <1>13, <1>14, <2>1
  <2>2. CASE d # c
    <3>1. turn'[d] = turn[d] /\ turn[d].pc = "send"
      BY <1>14, <1>16, <2>2
    <3>2. turn[d].wake # w
      <4>1. turn[d] # Turns!NoTurn /\ turn[c] # Turns!NoTurn
        BY <3>1, SendTyped
      <4>2. QED
        BY <1>2, <2>2, <4>1 DEF TurnInv, Numbered
    <3>3. TextsOf(Turns!AttemptsOf(turn[d].wake)) \o turn[d].outputs = created[turn[d].wake]
      BY <3>1 DEF SendInv
    <3>4. (Turns!AttemptsOf(turn[d].wake))' = Turns!AttemptsOf(turn[d].wake)'
      OBVIOUS
    <3>5. QED
      BY <1>11, <3>1, <3>2, <3>3
  <2>3. QED
    BY <2>1, <2>2
<1>17. ASSUME NEW v \in DOMAIN created
       PROVE  \/ TextsOf((Turns!AttemptsOf(v))') = created[v]
              \/ \E d \in TurnChats : turn'[d].pc = "send" /\ turn'[d].wake = v
  <2>1. CASE v = w
    BY <1>1, <1>2, <1>14, <2>1
  <2>2. CASE v # w
    <3>1. (Turns!AttemptsOf(v))' = Turns!AttemptsOf(v)
      BY <1>11, <2>2
    <3>2. CASE TextsOf(Turns!AttemptsOf(v)) = created[v]
      BY <3>1, <3>2
    <3>3. CASE \E d \in TurnChats : turn[d].pc = "send" /\ turn[d].wake = v
      <4>1. PICK d \in TurnChats : turn[d].pc = "send" /\ turn[d].wake = v
        BY <3>3
      <4>2. turn'[d] = turn[d]
        BY <1>2, <1>14, <2>2, <4>1
      <4>3. QED
        BY <4>1, <4>2
    <3>4. QED
      BY <3>2, <3>3 DEF SendInv
  <2>3. QED
    BY <2>1, <2>2
<1>18. QED
  BY <1>1, <1>11, <1>15, <1>16, <1>17 DEF SendInv

(***************************************************************************)
(* Every step of a turn keeps the invariant.                               *)
(***************************************************************************)
LEMMA RoutesBeside ==
  ASSUME RoutesTold, UNCHANGED sending
  PROVE  RoutesTold'
BY DEF RoutesTold

LEMMA RegistryBeside ==
  ASSUME RegistryInv, UNCHANGED << channels, seen >>
  PROVE  RegistryInv'
BY DEF RegistryInv, LastOrdered, Covered, Outlived, SinceIn, Distinct

\* A chat is reached where a bot is there or the chat is a recent one.
LEMMA AttemptRoutes ==
  ASSUME TurnInv, SendInv, RegistryInv, RoutesTold, NEW c \in TurnChats, turn[c].pc = "send",
         turn[c].outputs # << >>, NEW outcome \in {"sent", "unrouted", "refused"},
         outcome = "unrouted" <=> ~(turn[c].routed /\ Turns!Reaches(c)),
         Turns!Attempt(c, outcome)
  PROVE  RoutesTold'
<1> DEFINE a == [wake |-> turn[c].wake, text |-> Head(turn[c].outputs), outcome |-> outcome,
                 routed |-> turn[c].routed, known |-> bot \/ c \in Turns!Recent]
<1>1. sending' = Append(sending, a)
  BY DEF Turns!Attempt
<1>2. c \in ToSet(channels) <=> c \in Turns!Recent
  BY RegistryIsRecent
<1>3. Turns!Reaches(c) <=> (bot \/ c \in Turns!Recent)
  BY <1>2 DEF Turns!Reaches, Turns!ToSet, ToSet
<1>4. a.outcome = "unrouted" <=> ~(a.routed /\ a.known)
  BY <1>3
<1> HIDE DEF a
<1>5. sending \in Seq(Attempts)
  BY DEF SendInv
<1>6. PICK n \in Nat : n = Len(sending) /\ DOMAIN sending = 1..n
  BY <1>5
<1>7. /\ DOMAIN sending' = 1..(n + 1) /\ sending'[n + 1] = a
      /\ \A i \in 1..n : sending'[i] = sending[i]
  BY <1>1, <1>5, <1>6
<1>8. ASSUME NEW i \in DOMAIN sending'
      PROVE  sending'[i].outcome = "unrouted" <=> ~(sending'[i].routed /\ sending'[i].known)
  <2>1. CASE i = n + 1
    BY <1>4, <1>7, <2>1
  <2>2. CASE i # n + 1
    <3>1. i \in DOMAIN sending /\ sending'[i] = sending[i]
      BY <1>6, <1>7, <2>2
    <3>2. QED
      BY <3>1 DEF RoutesTold
  <2>3. QED
    BY <2>1, <2>2
<1>9. QED
  BY <1>8 DEF RoutesTold

LEMMA ArriveKeeps ==
  ASSUME WakeInv, NEW c \in TurnChats, Turns!Arrive(c)
  PROVE  WakeInv'
<1>1. UNCHANGED << bot, turn, history, created, sending, wakes >>
  BY DEF Turns!Arrive
<1>2. TurnInv' /\ SendInv' /\ RoutesTold'
  BY <1>1, TurnsBeside, SendsBeside, RoutesBeside DEF WakeInv
<1>3. RegistryInv'
  BY ArriveKeepsRegistry DEF WakeInv
<1>4. QED
  BY <1>2, <1>3 DEF WakeInv

\* A turn that did not send and does not is none of those that do.
LEMMA NotSending ==
  ASSUME WakeInv, NEW c \in TurnChats, turn[c].pc # "send", NEW t, t.pc # "send",
         turn' = [turn EXCEPT ![c] = t], UNCHANGED << created, sending, channels, seen >>
  PROVE  SendInv' /\ RoutesTold' /\ RegistryInv'
<1>1. turn \in [TurnChats -> {Turns!NoTurn} \cup Models \cup Sends]
  BY DEF WakeInv, TurnInv, TurnsTyped
<1>2. \A d \in TurnChats : turn'[d] = IF d = c THEN t ELSE turn[d]
  BY <1>1
<1>3. \A d \in TurnChats : turn'[d].pc = "send" <=> turn[d].pc = "send"
  BY <1>2
<1>4. \A d \in TurnChats : turn[d].pc = "send" => turn'[d] = turn[d]
  BY <1>2
<1>5. SendInv'
  BY <1>3, <1>4, SendsBeside DEF WakeInv
<1>6. QED
  BY <1>5, RoutesBeside, RegistryBeside DEF WakeInv

LEMMA WakeStep ==
  ASSUME WakeInv, NEW c \in TurnChats, NEW l \in LivesOf[c], NEW routed \in BOOLEAN,
         Turns!Wake(c, l, routed)
  PROVE  WakeInv'
<1> DEFINE t == [pc |-> "model", wake |-> wakes', life |-> l, routed |-> routed,
                 loop |-> Turns!NewLoop(Turns!Prompt(<< l, c >>))]
<1>1. turn' = [turn EXCEPT ![c] = t] /\ UNCHANGED << created, sending, channels, seen >>
      /\ turn[c].pc = "none"
  BY TurnKinds DEF Turns!Wake
<1>2. t.pc # "send"
  OBVIOUS
<1> HIDE DEF t
<1>3. turn[c].pc # "send"
  BY <1>1
<1>4. SendInv' /\ RoutesTold' /\ RegistryInv'
  BY <1>1, <1>2, <1>3, NotSending
<1>5. QED
  BY <1>4, WakeKeeps DEF WakeInv

LEMMA ModelAnswersStep ==
  ASSUME WakeInv, NEW c \in TurnChats, NEW said \in AnswersOf[c], Turns!ModelAnswers(c, said)
  PROVE  WakeInv'
<1>1. TurnInv'
  BY ModelAnswersKeeps DEF WakeInv
<1>2. UNCHANGED << channels, seen, sending >> /\ turn[c].pc = "model"
  BY DEF Turns!ModelAnswers
<1>3. RoutesTold' /\ RegistryInv'
  BY <1>2, RoutesBeside, RegistryBeside DEF WakeInv
<1>4. CASE Turns!Round(turn[c].loop, said).stop # "none"
  BY <1>1, <1>3, <1>4, LastRoundSends DEF WakeInv
<1>5. CASE Turns!Round(turn[c].loop, said).stop = "none"
  <2> DEFINE t == [turn[c] EXCEPT !.loop = Turns!Round(turn[c].loop, said)]
  <2>1. turn' = [turn EXCEPT ![c].loop = Turns!Round(turn[c].loop, said)] /\ UNCHANGED created
    BY <1>5 DEF Turns!ModelAnswers
  <2>2. turn[c] \in Models /\ turn[c].pc # "send"
    BY <1>2, TurnKind DEF WakeInv, TurnInv
  <2>3. turn' = [turn EXCEPT ![c] = t]
    BY <2>1
  <2>4. t.pc # "send"
    BY <1>2, <2>2 DEF Models
  <2> HIDE DEF t
  <2>5. SendInv'
    BY <1>2, <2>1, <2>2, <2>3, <2>4, NotSending
  <2>6. QED
    BY <1>1, <1>3, <2>5 DEF WakeInv
<1>6. QED
  BY <1>4, <1>5

LEMMA ModelThrowsStep ==
  ASSUME WakeInv, NEW c \in TurnChats, Turns!ModelThrows(c)
  PROVE  WakeInv'
<1>1. /\ turn' = [turn EXCEPT ![c] = Turns!NoTurn] /\ turn[c].pc # "send"
      /\ UNCHANGED << bot, history, created, wakes, sending, channels, seen >>
  BY DEF Turns!ModelThrows
<1>2. Turns!NoTurn.pc # "send"
  BY TurnKinds
<1>3. SendInv' /\ RoutesTold' /\ RegistryInv'
  BY <1>1, <1>2, NotSending
<1>4. TurnInv'
  BY <1>1, EndKeeps DEF WakeInv
<1>5. QED
  BY <1>3, <1>4 DEF WakeInv

LEMMA RestStep ==
  ASSUME WakeInv, NEW c \in TurnChats, Turns!Rest(c)
  PROVE  WakeInv'
<1>1. /\ turn' = [turn EXCEPT ![c] = Turns!NoTurn]
      /\ UNCHANGED << bot, history, created, wakes, sending, channels, seen >>
  BY DEF Turns!Rest
<1>2. TurnInv' /\ SendInv' /\ RoutesTold' /\ RegistryInv'
  BY <1>1, EndKeeps, RestSends, RoutesBeside, RegistryBeside DEF WakeInv
<1>3. QED
  BY <1>2 DEF WakeInv

LEMMA SendStep ==
  ASSUME WakeInv, NEW c \in TurnChats, Turns!Send(c) \/ Turns!SendFails(c)
  PROVE  WakeInv'
<1>1. turn[c].pc = "send" /\ turn[c].outputs # << >>
  BY DEF Turns!Send, Turns!SendFails
<1>2. PICK outcome \in {"sent", "unrouted", "refused"} :
        /\ Turns!Attempt(c, outcome)
        /\ outcome = "unrouted" <=> ~(turn[c].routed /\ Turns!Reaches(c))
  <2>1. CASE Turns!Send(c)
    <3>1. CASE turn[c].routed /\ Turns!Reaches(c)
      BY <2>1, <3>1 DEF Turns!Send
    <3>2. CASE ~(turn[c].routed /\ Turns!Reaches(c))
      BY <2>1, <3>2 DEF Turns!Send
    <3>3. QED
      BY <3>1, <3>2
  <2>2. CASE Turns!SendFails(c)
    BY <2>2 DEF Turns!SendFails
  <2>3. QED
    BY <2>1, <2>2
<1>3. UNCHANGED << channels, seen >>
  BY <1>2 DEF Turns!Attempt
<1>4. TurnInv' /\ SendInv'
  BY <1>1, <1>2, AttemptKeeps, AttemptSends DEF WakeInv
<1>5. RoutesTold'
  BY <1>1, <1>2, AttemptRoutes DEF WakeInv
<1>6. RegistryInv'
  BY <1>3, RegistryBeside DEF WakeInv
<1>7. QED
  BY <1>4, <1>5, <1>6 DEF WakeInv

LEMMA WakesStep ==
  ASSUME WakeInv, Turns!Next
  PROVE  WakeInv'
<1>1. PICK c \in TurnChats :
        \/ Turns!Arrive(c) \/ Turns!ModelThrows(c) \/ Turns!Send(c) \/ Turns!SendFails(c)
        \/ Turns!Rest(c)
        \/ \E l \in LivesOf[c], routed \in BOOLEAN : Turns!Wake(c, l, routed)
        \/ \E said \in AnswersOf[c] : Turns!ModelAnswers(c, said)
  BY DEF Turns!Next
<1>2. CASE Turns!Arrive(c)
  BY <1>2, ArriveKeeps
<1>3. CASE Turns!ModelThrows(c)
  BY <1>3, ModelThrowsStep
<1>4. CASE Turns!Send(c) \/ Turns!SendFails(c)
  BY <1>4, SendStep
<1>5. CASE Turns!Rest(c)
  BY <1>5, RestStep
<1>6. CASE \E l \in LivesOf[c], routed \in BOOLEAN : Turns!Wake(c, l, routed)
  BY <1>6, WakeStep
<1>7. CASE \E said \in AnswersOf[c] : Turns!ModelAnswers(c, said)
  BY <1>7, ModelAnswersStep
<1>8. QED
  BY <1>1, <1>2, <1>3, <1>4, <1>5, <1>6, <1>7

LEMMA WakesBeside ==
  ASSUME WakeInv, UNCHANGED wakeVars
  PROVE  WakeInv'
<1>1. UNCHANGED << bot, turn, history, created, wakes, sending, channels, seen >>
  BY DEF wakeVars
<1>2. QED
  BY <1>1, TurnsBeside, SendsBeside, RoutesBeside, RegistryBeside DEF WakeInv

LEMMA WakesInit ==
  ASSUME Turns!Init
  PROVE  WakeInv
<1>1. /\ bot \in BOOLEAN /\ turn = [c \in TurnChats |-> Turns!NoTurn]
      /\ history = [k \in Turns!Keys |-> << >>]
      /\ channels = << >> /\ seen = << >> /\ created = << >> /\ sending = << >>
      /\ wakes = 0
  BY DEF Turns!Init
<1>2. DOMAIN created = {} /\ DOMAIN sending = {} /\ \A c \in TurnChats : turn[c] = Turns!NoTurn
  BY <1>1
<1>3. \A c \in TurnChats : turn[c].pc = "none"
  BY <1>2, TurnKinds
<1>4. TurnsTyped /\ Numbered /\ LoopsKept
  <2>1. TurnsTyped
    BY <1>1, <1>3 DEF TurnsTyped
  <2>2. Numbered
    BY <1>2, <1>3 DEF Numbered
  <2>3. LoopsKept
    BY <1>3 DEF LoopsKept
  <2>4. QED
    BY <2>1, <2>2, <2>3
<1>5. HistoryTyped /\ HistoryKept
  <2>1. \A k \in Turns!Keys : history[k] = << >>
    BY <1>1
  <2>2. << >> \in Seq(Remembered) /\ Len(<< >>) = 0 /\ DOMAIN << >> = {}
    OBVIOUS
  <2>3. MaxHistory \in Nat
    BY LimitsAssumption
  <2>4. HistoryTyped
    BY <1>1, <2>1, <2>2, <2>3 DEF HistoryTyped
  <2>5. HistoryKept
    BY <2>1, <2>2 DEF HistoryKept
  <2>6. QED
    BY <2>4, <2>5
<1>6. CreatedTyped
  <2>1. created \in [DOMAIN created -> Seq(Nat)]
    BY <1>1
  <2>2. QED
    BY <1>2, <2>1 DEF CreatedTyped
<1>7. SendInv
  <2>1. sending \in Seq(Attempts)
    BY <1>1
  <2>2. QED
    BY <1>2, <1>3, <2>1 DEF SendInv
<1>8. RegistryInv
  <2>1. MaxChannels \in Nat /\ channels \in Seq(TurnChats) /\ seen \in Seq(TurnChats)
        /\ Len(channels) = 0 /\ Len(seen) = 0
    BY <1>1, LimitsAssumption
  <2>2. 1..Len(channels) = {} /\ 1..Len(seen) = {}
    BY <2>1
  <2>3. Distinct(channels) /\ LastOrdered(channels, seen) /\ Covered(channels, seen)
        /\ Outlived(channels, seen, MaxChannels)
    BY <2>2 DEF Distinct, LastOrdered, Covered, Outlived
  <2>4. QED
    BY <2>1, <2>3 DEF RegistryInv
<1>9. RoutesTold
  BY <1>2 DEF RoutesTold
<1>10. QED
  BY <1>4, <1>5, <1>6, <1>7, <1>8, <1>9 DEF WakeInv, TurnInv

\* Wake-ups keep their numbers, loops their conversations and histories what was
\* said; what was created is what was tried to be sent and what is left of it,
\* and the registry holds the chats a message was seen in last.
THEOREM WakesInvariant == Spec => []WakeInv
<1>1. Init => WakeInv
  BY WakesInit DEF Init
<1>2. WakeInv /\ [Next]_vars => WakeInv'
  <2> SUFFICES ASSUME WakeInv, [Next]_vars
               PROVE  WakeInv'
    OBVIOUS
  <2>1. CASE Turns!Next
    BY <2>1, WakesStep
  <2>2. CASE UNCHANGED wakeVars
    BY <2>2, WakesBeside
  <2>3. Turns!Next \/ UNCHANGED wakeVars
    BY DEF Next, vars
  <2>4. QED
    BY <2>1, <2>2, <2>3
<1>3. QED
  BY <1>1, <1>2, PTL DEF Spec

\* Every request of a tool loop is one any provider can take: one system message
\* in front, and every tool call followed by its result, whatever the provider
\* echoed of the rounds before and whatever the history brought along.
THEOREM RequestsCorrect == Spec => []RequestsWellFormed
<1>1. WakeInv => RequestsWellFormed
  <2> SUFFICES ASSUME WakeInv, NEW c \in TurnChats, turn[c].pc = "model"
               PROVE  Turns!WellFormed(Turns!Request(turn[c].loop.messages))
    BY DEF RequestsWellFormed, Turns!RequestsWellFormed
  <2>1. turn[c] \in Models
    BY TurnKind DEF WakeInv, TurnInv
  <2>2. turn[c].loop.messages \in Seq(Messages)
    BY <2>1 DEF Models, Loops
  <2>3. Conversation(turn[c].loop.messages)
    BY DEF WakeInv, TurnInv, LoopsKept, Looping
  <2>4. QED
    BY <2>2, <2>3, RequestIsWellFormed
<1>2. QED
  BY <1>1, WakesInvariant, PTL

\* What a life remembers to have answered is what was created for the sender, its
\* silence included, in however many chats it is woken at once.
THEOREM HistoryCorrect == Spec => []HistoryTellsWhatWasSaid
<1>1. WakeInv => HistoryTellsWhatWasSaid
  BY DEF WakeInv, TurnInv, HistoryKept, HistoryTellsWhatWasSaid, Turns!HistoryTellsWhatWasSaid
<1>2. QED
  BY <1>1, WakesInvariant, PTL

LEMMA BeginningIsPrefix ==
  ASSUME NEW T, NEW p \in Seq(T), NEW o \in Seq(T)
  PROVE  Turns!IsPrefix(p, p \o o)
<1> DEFINE q == p \o o
<1>1. PICK n \in Nat : n = Len(p)
  OBVIOUS
<1>2. q \in Seq(T) /\ Len(q) = n + Len(o) /\ Len(o) \in Nat /\ \A i \in 1..n : q[i] = p[i]
  BY <1>1
<1> HIDE DEF q
<1>3. n <= Len(q)
  BY <1>2
<1>4. SubSeq(p, 1, n) = [i \in 1..n |-> p[i]]
  BY <1>1
<1>5. SubSeq(q, 1, n) = [i \in 1..n |-> q[i]]
  BY <1>2, <1>3
<1>6. SubSeq(p, 1, n) = SubSeq(q, 1, n)
  BY <1>2, <1>4, <1>5
<1>7. QED
  BY <1>1, <1>3, <1>6 DEF q, Turns!IsPrefix

\* Every output of a wake-up is tried to be sent once and in order, whatever became
\* of the one before; and a text has nowhere to go only if its wake-up knows no
\* channel, or no bot is there and as many other chats spoke since as the
\* registry has room for.
THEOREM SendsCorrect == Spec => []SentOnceInOrder
<1>1. WakeInv => Turns!SentOnceInOrder
  <2> SUFFICES ASSUME WakeInv, NEW w \in DOMAIN created
               PROVE  IF \E c \in TurnChats : turn[c].pc = "send" /\ turn[c].wake = w
                        THEN Turns!IsPrefix(TextsOf(Turns!AttemptsOf(w)), created[w])
                        ELSE TextsOf(Turns!AttemptsOf(w)) = created[w]
    BY DEF Turns!SentOnceInOrder, TextsOf
  <2>1. CASE \E c \in TurnChats : turn[c].pc = "send" /\ turn[c].wake = w
    <3>1. PICK c \in TurnChats : turn[c].pc = "send" /\ turn[c].wake = w
      BY <2>1
    <3>2. /\ TextsOf(Turns!AttemptsOf(w)) \in Seq(Nat) /\ turn[c].outputs \in Seq(Nat)
          /\ TextsOf(Turns!AttemptsOf(w)) \o turn[c].outputs = created[w]
      BY <3>1, SendTyped DEF WakeInv
    <3>3. QED
      BY <2>1, <3>2, BeginningIsPrefix
  <2>2. CASE ~\E c \in TurnChats : turn[c].pc = "send" /\ turn[c].wake = w
    BY <2>2 DEF WakeInv, SendInv
  <2>3. QED
    BY <2>1, <2>2
<1>2. WakeInv => Turns!NowhereToGo
  BY DEF WakeInv, RoutesTold, Turns!NowhereToGo
<1>3. WakeInv => SentOnceInOrder
  BY <1>1, <1>2 DEF SentOnceInOrder
<1>4. QED
  BY <1>3, WakesInvariant, PTL
=============================================================================
