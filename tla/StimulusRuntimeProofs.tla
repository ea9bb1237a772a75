----------------------- MODULE StimulusRuntimeProofs -----------------------
(***************************************************************************)
(* Proofs about StimulusRuntime, for any number of stimuli, habitats and    *)
(* lives: type correctness, one stimulus per habitat at a time, no lost     *)
(* update of a life of one habitat, and the refinement of PriorityServer.   *)
(***************************************************************************)
EXTENDS StimulusRuntime, SequenceTheorems, WellFoundedInduction, TLAPS

-----------------------------------------------------------------------------
(***************************************************************************)
(* Insertion.                                                               *)
(***************************************************************************)
LessOnNat == {ss \in Nat \X Nat : ss[1] < ss[2]}

\* Every nonempty set of positions has a first one.
LEMMA Min0Least ==
  ASSUME NEW S \in SUBSET Nat, S # {}
  PROVE  Min0(S) \in S /\ \A j \in S : Min0(S) <= j
<1>1. IsWellFoundedOn(LessOnNat, Nat)
  BY NatLessThanWellFounded DEF OpToRel, LessOnNat
<1>2. PICK x \in S : \A y \in S : ~ (<<y, x>> \in LessOnNat)
  BY <1>1, WFMin
<1>3. ASSUME NEW y \in S, y < x PROVE FALSE
  <2>1. <<y, x>> \in Nat \X Nat /\ <<y, x>>[1] < <<y, x>>[2]
    BY <1>3
  <2>2. QED
    BY <1>2, <2>1 DEF LessOnNat
<1>4. \A y \in S : x <= y
  BY <1>3
<1>5. QED
  BY <1>4 DEF Min0


\* r is `entries` with s put at position k.
IsInsertion(r, entries, k, s) ==
  /\ r \in Seq(Stimuli) /\ Len(r) = Len(entries) + 1 /\ r[k] = s
  /\ \A i \in 1..(k - 1) : r[i] = entries[i]
  /\ \A i \in (k + 1)..(Len(entries) + 1) : r[i] = entries[i - 1]

\* What InsertAt returns.
LEMMA InsertAtShape ==
  ASSUME NEW entries \in Seq(Stimuli), NEW s \in Stimuli, NEW k \in 1..Len(entries)
  PROVE  IsInsertion(InsertAt(entries, k, s), entries, k, s)
<1> DEFINE n == Len(entries)
           front == SubSeq(entries, 1, k - 1)
           back == SubSeq(entries, k, n)
           start == front \o <<s>>
<1>0. n \in Nat /\ k \in Nat /\ 1 <= k /\ k <= n
  OBVIOUS
<1>1. /\ front \in Seq(Stimuli) /\ Len(front) = k - 1
      /\ \A i \in 1..(k - 1) : front[i] = entries[i]
  BY <1>0, SubSeqProperties
<1>2. /\ back \in Seq(Stimuli) /\ Len(back) = n - k + 1
      /\ \A i \in 1..(n - k + 1) : back[i] = entries[k + i - 1]
  BY <1>0, SubSeqProperties
<1>3. InsertAt(entries, k, s) = start \o back
  BY DEF InsertAt
<1> HIDE DEF n, front, back
<1>4. /\ start \in Seq(Stimuli) /\ Len(start) = k /\ start[k] = s
      /\ \A i \in 1..(k - 1) : start[i] = entries[i]
  BY <1>0, <1>1
<1> HIDE DEF start
<1>5. /\ start \o back \in Seq(Stimuli) /\ Len(start \o back) = n + 1
      /\ \A i \in 1..k : (start \o back)[i] = start[i]
      /\ \A i \in (k + 1)..(n + 1) : (start \o back)[i] = back[i - k]
  BY <1>0, <1>2, <1>4, ConcatProperties
<1>6. \A i \in (k + 1)..(n + 1) : back[i - k] = entries[i - 1]
  BY <1>0, <1>2
<1>7. QED
  BY <1>0, <1>3, <1>4, <1>5, <1>6 DEF n, IsInsertion

\* The loop of receiveStimulus() puts the entry before the first one of a
\* higher priority value, and moves nothing else.
LEMMA InsertedShape ==
  ASSUME NEW entries \in Seq(Stimuli), NEW s \in Stimuli
  PROVE  \E k \in 1..(Len(entries) + 1) :
           /\ IsInsertion(Inserted(entries, s), entries, k, s)
           /\ \A i \in 1..(k - 1) : Priority[entries[i]] <= Priority[s]
           /\ k <= Len(entries) => Priority[entries[k]] > Priority[s]
<1> DEFINE later == {i \in DOMAIN entries : Priority[entries[i]] > Priority[s]}
<1>0. Len(entries) \in Nat /\ DOMAIN entries = 1..Len(entries)
  OBVIOUS
<1>1. CASE later = {}
  <2>1. Inserted(entries, s) = Append(entries, s)
    BY <1>1 DEF Inserted
  <2>2. \A i \in 1..Len(entries) : Priority[entries[i]] <= Priority[s]
    BY <1>1, StimuliAssumption
  <2>3. IsInsertion(Append(entries, s), entries, Len(entries) + 1, s)
    BY <1>0 DEF IsInsertion
  <2>4. QED
    BY <1>0, <2>1, <2>2, <2>3
<1>2. CASE later # {}
  <2>1. Min0(later) \in later /\ \A j \in later : Min0(later) <= j
    <3>1. later \in SUBSET Nat
      BY <1>0
    <3> HIDE DEF later
    <3>2. QED
      BY <3>1, <1>2, Min0Least
  <2>2. Inserted(entries, s) = InsertAt(entries, Min0(later), s)
    BY <1>2 DEF Inserted
  <2>3. IsInsertion(Inserted(entries, s), entries, Min0(later), s)
    BY <1>0, <2>1, <2>2, InsertAtShape
  <2>4. PICK k \in 1..Len(entries) :
          /\ IsInsertion(Inserted(entries, s), entries, k, s)
          /\ Priority[entries[k]] > Priority[s]
          /\ \A j \in later : k <= j
    BY <1>0, <2>1, <2>3
  <2>5. ASSUME NEW i \in 1..(k - 1)
        PROVE  Priority[entries[i]] <= Priority[s]
    <3>1. i \in DOMAIN entries /\ i \notin later
      BY <2>4, <1>0
    <3>2. QED
      BY <3>1, StimuliAssumption
  <2> HIDE DEF later
  <2>6. k \in 1..(Len(entries) + 1)
    BY <1>0
  <2>7. QED
    BY <2>4, <2>5, <2>6
<1>3. QED
  BY <1>1, <1>2

-----------------------------------------------------------------------------
(***************************************************************************)
(* The kinds of step.  Calm steps touch neither the queues nor the          *)
(* assignment of drain loops to stimuli; the others begin, lengthen,        *)
(* shorten or end the service of one habitat.                               *)
(***************************************************************************)
BusyPcs == {"received", "ticking", "ticked", "living", "updating"}
BusyRecords ==
  [pc : BusyPcs, queue : Stimuli, stim : Stimuli, rest : Seq(Lives), seen : SUBSET Stimuli]

HabOf(w) == HabitatOf[worker[w].stim]

Keeps(v) ==
  /\ worker'[v].queue = worker[v].queue /\ worker'[v].stim = worker[v].stim
  /\ worker'[v].pc = "idle" <=> worker[v].pc = "idle"

Calm ==
  /\ UNCHANGED <<queueOf, queues, ticket, accepted>>
  /\ \A s \in Stimuli : status'[s] = "new" => status[s] = "new"
  /\ \A v \in Stimuli : Keeps(v)

\* Receive(s) in a habitat without a drain loop.
Begins(s) ==
  /\ queueOf[HabitatOf[s]] = None
  /\ queueOf' = [queueOf EXCEPT ![HabitatOf[s]] = s]
  /\ queues' = [queues EXCEPT ![s] = [entries |-> <<>>, draining |-> TRUE]]
  /\ worker' = [worker EXCEPT ![s] = Processing(s, s)]

\* Receive(s) in a habitat with one.
Joins(s) ==
  /\ queueOf[HabitatOf[s]] # None
  /\ queues' = [queues EXCEPT ![queueOf[HabitatOf[s]]].entries =
                  Inserted(queues[queueOf[HabitatOf[s]]].entries, s)]
  /\ UNCHANGED <<queueOf, worker>>

LEMMA ConstantTypes ==
  /\ \A s \in Stimuli : HabitatOf[s] \in Habitats /\ Priority[s] \in Nat /\ s # None
  /\ \A h \in Habitats : LivesOf[h] \in Seq(Lives)
BY StimuliAssumption, RoutingAssumption

LEMMA WorkerType ==
  ASSUME TypeOK, NEW w \in Stimuli
  PROVE  /\ worker \in [Stimuli -> WorkerRecords]
         /\ Working(w) => /\ worker[w] \in BusyRecords
                          /\ HabOf(w) \in Habitats
         /\ ~Working(w) => worker[w] = Idle
<1>1. worker[w] \in WorkerRecords /\ worker \in [Stimuli -> WorkerRecords]
  BY DEF TypeOK
<1>2. CASE worker[w] = Idle
  BY <1>1, <1>2 DEF Idle, Working
<1>3. CASE worker[w] \in BusyRecords
  BY <1>1, <1>3, ConstantTypes DEF BusyRecords, BusyPcs, Working, HabOf
<1>4. QED
  BY <1>1, <1>2, <1>3 DEF WorkerRecords, BusyRecords, BusyPcs

\* What the entries of a queue are made of.
LEMMA QueueType ==
  ASSUME TypeOK, NEW q \in Stimuli
  PROVE  /\ queues[q].entries \in Seq(Stimuli) /\ queues[q].draining \in BOOLEAN
         /\ queues[q] = [entries |-> queues[q].entries, draining |-> queues[q].draining]
         /\ \A i \in DOMAIN queues[q].entries : queues[q].entries[i] \in Stimuli
BY DEF TypeOK

LEMMA ReceiveShape ==
  ASSUME TypeOK, QueuesOK, NEW s \in Stimuli, Receive(s)
  PROVE  Begins(s) \/ Joins(s)
<1> DEFINE h == HabitatOf[s]
<1>0. h \in Habitats /\ s # None /\ queueOf[h] \in Stimuli \cup {None}
  BY ConstantTypes DEF TypeOK
<1>1. CASE queueOf[h] = None
  <2>1. QueueFor(s) = s
    BY <1>1 DEF QueueFor
  <2>2. queues[s] = NoEntries
    BY <1>0, <1>1 DEF QueuesOK
  <2>3. Inserted(<<>>, s) = <<s>>
    BY DEF Inserted
  <2>4. queues[s].entries = <<>> /\ queues[s].draining = FALSE
    BY <2>2 DEF NoEntries
  <2>5. /\ queueOf' = [queueOf EXCEPT ![h] = s]
        /\ queues' = [queues EXCEPT ![s] = [entries |-> Tail(<<s>>), draining |-> TRUE]]
        /\ worker' = [worker EXCEPT ![s] = Processing(s, Head(<<s>>))]
    BY <2>1, <2>3, <2>4 DEF Receive
  <2>6. Tail(<<s>>) = <<>> /\ Head(<<s>>) = s
    OBVIOUS
  <2>7. QED
    BY <1>1, <2>5, <2>6 DEF Begins
<1>2. CASE queueOf[h] # None
  <2>1. QueueFor(s) = queueOf[h] /\ queues[queueOf[h]].draining
    BY <1>0, <1>2 DEF QueueFor, QueuesOK
  <2>2. queueOf' = [queueOf EXCEPT ![h] = queueOf[h]]
    BY <2>1 DEF Receive
  <2>3. queueOf' = queueOf
    BY <1>0, <2>2 DEF TypeOK
  <2>4. QED
    BY <1>2, <2>1, <2>3 DEF Receive, Joins
<1>3. QED
  BY <1>1, <1>2

\* Draining is an end of service, or a turn to the first entry.
Ends(w) ==
  /\ queues[worker[w].queue].entries = <<>>
  /\ queues' = [queues EXCEPT ![worker[w].queue] = NoEntries]
  /\ queueOf' = [queueOf EXCEPT ![HabOf(w)] = None]
  /\ worker' = [worker EXCEPT ![w] = Idle]

Turns(w) ==
  /\ queues[worker[w].queue].entries # <<>>
  /\ queues' = [queues EXCEPT ![worker[w].queue].entries =
                  Tail(queues[worker[w].queue].entries)]
  /\ worker' = [worker EXCEPT ![w] =
       Processing(worker[w].queue, Head(queues[worker[w].queue].entries))]
  /\ UNCHANGED queueOf

LEMMA DrainShape ==
  ASSUME NEW w \in Stimuli, Drain(w)
  PROVE  /\ status' = [status EXCEPT ![worker[w].stim] = "resolved"]
         /\ Ends(w) \/ Turns(w)
BY DEF Drain, Ends, Turns, HabOf

\* A drain loop that goes on with its stimulus.
LEMMA GotoKeeps ==
  ASSUME TypeOK, NEW w \in Stimuli, Working(w), NEW pc \in BusyPcs, NEW rest,
         Goto(w, pc, rest)
  PROVE  /\ UNCHANGED queueVars
         /\ \A v \in Stimuli : Keeps(v)
         /\ \A v \in Stimuli \ {w} : worker'[v] = worker[v]
         /\ worker'[w] = [worker[w] EXCEPT !.pc = pc, !.rest = rest, !.seen = {}]
<1>1. worker \in [Stimuli -> WorkerRecords] /\ worker[w] \in BusyRecords
  BY WorkerType
<1>2. worker'[w] = [worker[w] EXCEPT !.pc = pc, !.rest = rest, !.seen = {}]
  BY <1>1 DEF Goto
<1>3. \A v \in Stimuli \ {w} : worker'[v] = worker[v]
  BY <1>1 DEF Goto
<1>4. Keeps(w)
  BY <1>1, <1>2 DEF Keeps, BusyRecords, BusyPcs, Working
<1>5. QED
  BY <1>2, <1>3, <1>4 DEF Keeps, Goto

\* Every step of a drain loop is calm, or ends with Drain.
LEMMA LiveShape ==
  ASSUME TypeOK, NEW w \in Stimuli, Working(w), NEW rest, Live(w, rest)
  PROVE  Drain(w) \/ (UNCHANGED queueVars /\ \A v \in Stimuli : Keeps(v))
<1>1. Drain(w) \/ Goto(w, "living", rest)
  BY DEF Live
<1>2. "living" \in BusyPcs
  BY DEF BusyPcs
<1>3. QED
  BY <1>1, <1>2, GotoKeeps

LEMMA ReadKeeps ==
  ASSUME TypeOK, NEW w \in Stimuli, Working(w), NEW pc \in BusyPcs, Read(w, pc)
  PROVE  UNCHANGED queueVars /\ \A v \in Stimuli : Keeps(v)
<1>1. worker \in [Stimuli -> WorkerRecords] /\ worker[w] \in BusyRecords
  BY WorkerType
<1>2. worker'[w] = [worker[w] EXCEPT !.pc = pc, !.seen = state[LifeAt(w)]]
  BY <1>1 DEF Read
<1>3. \A v \in Stimuli \ {w} : worker'[v] = worker[v]
  BY <1>1 DEF Read
<1>4. Keeps(w)
  BY <1>1, <1>2 DEF Keeps, BusyRecords, BusyPcs
<1>5. QED
  BY <1>3, <1>4 DEF Keeps, Read

LEMMA WorkerStepShape ==
  ASSUME TypeOK, NEW w \in Stimuli, WorkerStep(w)
  PROVE  /\ Working(w) /\ UNCHANGED <<lifecycleVars, historyVars>>
         /\ Drain(w) \/ (UNCHANGED queueVars /\ \A v \in Stimuli : Keeps(v))
<1> USE DEF Working
<1>1. CASE Route(w)
  <2>1. "ticking" \in BusyPcs
    BY DEF BusyPcs
  <2>2. QED
    BY <1>1, <2>1, GotoKeeps, LiveShape DEF Route
<1>2. CASE TickRead(w)
  <2>1. "ticked" \in BusyPcs
    BY DEF BusyPcs
  <2>2. QED
    BY <1>2, <2>1, ReadKeeps DEF TickRead, Read
<1>3. CASE TickSave(w)
  <2>1. "ticking" \in BusyPcs
    BY DEF BusyPcs
  <2>2. QED
    BY <1>3, <2>1, GotoKeeps, LiveShape DEF TickSave, Write
<1>4. CASE TickFails(w)
  BY <1>4, LiveShape DEF TickFails
<1>5. CASE UpdateRead(w)
  <2>1. "updating" \in BusyPcs
    BY DEF BusyPcs
  <2>2. QED
    BY <1>5, <2>1, ReadKeeps DEF UpdateRead, Read
<1>6. CASE UpdateSave(w)
  BY <1>6, LiveShape DEF UpdateSave, Write
<1>7. CASE UpdateFails(w)
  BY <1>7, LiveShape DEF UpdateFails
<1>8. CASE LifeEnds(w)
  BY <1>8, LiveShape DEF LifeEnds
<1>9. CASE HookThrows(w)
  BY <1>9 DEF HookThrows
<1>10. QED
  BY <1>1, <1>2, <1>3, <1>4, <1>5, <1>6, <1>7, <1>8, <1>9 DEF WorkerStep

\* The steps of the runtime, as far as the queues are concerned.
Step ==
  \/ Calm
  \/ \E s \in Stimuli : Receive(s)
  \/ \E w \in Stimuli : Working(w) /\ Drain(w) /\ UNCHANGED historyVars

LEMMA StepShape ==
  ASSUME TypeOK, [Next]_vars
  PROVE  Step
<1>1. CASE LifecycleStep
  BY <1>1 DEF LifecycleStep, Start, Run, Listen, Stop, Stopped, Lifecycle, Calm, Keeps,
              queueVars, historyVars, Step
<1>2. CASE \E s \in Stimuli : Ignore(s)
  <2>1. PICK s \in Stimuli : Ignore(s)
    BY <1>2
  <2>2. \A t \in Stimuli : status'[t] = "new" => status[t] = "new"
    BY <2>1 DEF Ignore, TypeOK
  <2>3. QED
    BY <2>1, <2>2 DEF Ignore, Calm, Keeps, historyVars, Step
<1>3. CASE \E s \in Stimuli : Receive(s)
  BY <1>3 DEF Step
<1>4. CASE \E w \in Stimuli : WorkerStep(w)
  <2>1. PICK w \in Stimuli : WorkerStep(w)
    BY <1>4
  <2>2. QED
    BY <2>1, WorkerStepShape DEF Calm, queueVars, historyVars, Step
<1>5. CASE UNCHANGED vars
  BY <1>5 DEF vars, queueVars, historyVars, Calm, Keeps, Step
<1>6. QED
  BY <1>1, <1>2, <1>3, <1>4, <1>5 DEF Next

-----------------------------------------------------------------------------
(***************************************************************************)
(* One drain loop per habitat.                                              *)
(***************************************************************************)
LEMMA CalmQueues ==
  ASSUME QueuesOK, Calm
  PROVE  QueuesOK'
<1>1. \A h \in Habitats : WorkersOf(h)' = WorkersOf(h)
  BY DEF Calm, Keeps, WorkersOf, Working
<1>2. HabitatSerial'
  BY DEF QueuesOK, HabitatSerial, Calm, Keeps, Working
<1>3. QED
  BY <1>1, <1>2 DEF QueuesOK, Calm, Keeps, Working

LEMMA BeginsQueues ==
  ASSUME TypeOK, QueuesOK, NEW s \in Stimuli, status[s] = "new", Begins(s),
         status' = [status EXCEPT ![s] = "accepted"]
  PROVE  QueuesOK'
<1> DEFINE h == HabitatOf[s]
<1>0. h \in Habitats /\ s # None
  BY ConstantTypes
<1>1. /\ queueOf'[h] = s /\ \A g \in Habitats \ {h} : queueOf'[g] = queueOf[g]
      /\ queues'[s] = [entries |-> <<>>, draining |-> TRUE]
      /\ \A q \in Stimuli \ {s} : queues'[q] = queues[q]
      /\ worker'[s] = Processing(s, s)
      /\ \A v \in Stimuli \ {s} : worker'[v] = worker[v]
  BY <1>0 DEF Begins, TypeOK
<1>2. /\ worker'[s].stim = s /\ worker'[s].queue = s /\ Working(s)'
      /\ \A v \in Stimuli \ {s} : Working(v)' <=> Working(v)
  BY <1>1 DEF Processing, Idle, Working
<1>3. \A v \in Stimuli : Working(v) => HabOf(v) # h /\ v # s
  <2>1. ASSUME NEW v \in Stimuli, Working(v)
        PROVE  HabOf(v) # h /\ v # s
    <3>1. worker[v].queue \in Stimuli
      BY <2>1, WorkerType DEF BusyRecords
    <3>2. worker[v].queue = queueOf[HabOf(v)]
      BY <2>1 DEF QueuesOK, HabOf
    <3>3. v # s
      BY <2>1 DEF QueuesOK
    <3>4. QED
      BY <3>1, <3>2, <3>3, ConstantTypes DEF Begins
  <2>2. QED
    BY <2>1
<1>4. HabitatSerial'
  BY <1>1, <1>2, <1>3 DEF HabitatSerial, QueuesOK, HabOf
<1>5. \A w \in Stimuli :
        Working(w)' => worker'[w].queue = queueOf'[HabitatOf[worker'[w].stim]]
  <2>1. ASSUME NEW w \in Stimuli, Working(w)', w # s
        PROVE  worker'[w].queue = queueOf'[HabitatOf[worker'[w].stim]]
    <3>1. Working(w) /\ worker'[w] = worker[w] /\ HabOf(w) # h /\ HabOf(w) \in Habitats
      BY <2>1, <1>1, <1>2, <1>3, WorkerType
    <3>2. QED
      BY <3>1, <1>1 DEF QueuesOK, HabOf
  <2>2. QED
    BY <2>1, <1>1, <1>2
<1>6. \A g \in Habitats : queueOf'[g] # None =>
        /\ HabitatOf[queueOf'[g]] = g
        /\ queues'[queueOf'[g]].draining
        /\ \A i \in DOMAIN queues'[queueOf'[g]].entries :
             HabitatOf[queues'[queueOf'[g]].entries[i]] = g
        /\ WorkersOf(g)' # {}
  <2>1. ASSUME NEW g \in Habitats, g # h, queueOf[g] # None
        PROVE  /\ HabitatOf[queueOf'[g]] = g
               /\ queues'[queueOf'[g]].draining
               /\ \A i \in DOMAIN queues'[queueOf'[g]].entries :
                    HabitatOf[queues'[queueOf'[g]].entries[i]] = g
               /\ WorkersOf(g)' # {}
    <3>1. HabitatOf[queueOf[g]] = g /\ queueOf[g] # s /\ queueOf'[g] = queueOf[g]
      BY <2>1, <1>1 DEF QueuesOK
    <3>2. queues'[queueOf[g]] = queues[queueOf[g]]
      BY <2>1, <3>1, <1>1 DEF TypeOK
    <3>3. PICK v \in Stimuli : Working(v) /\ HabOf(v) = g
      BY <2>1 DEF QueuesOK, WorkersOf, HabOf
    <3>4. Working(v)' /\ worker'[v] = worker[v]
      BY <3>3, <1>1, <1>2, <1>3
    <3>5. v \in WorkersOf(g)'
      BY <3>3, <3>4 DEF WorkersOf, HabOf
    <3>6. QED
      BY <2>1, <3>1, <3>2, <3>5 DEF QueuesOK
  <2>2. s \in WorkersOf(h)'
    BY <1>2 DEF WorkersOf
  <2>3. QED
    BY <2>1, <2>2, <1>1
<1>7. \A q \in Stimuli : queueOf'[HabitatOf[q]] # q => queues'[q] = NoEntries
  BY <1>1, ConstantTypes DEF QueuesOK, Begins
<1>8. \A t \in Stimuli : status'[t] = "new" => ~Working(t)'
  BY <1>2 DEF QueuesOK, TypeOK
<1>9. QED
  BY <1>4, <1>5, <1>6, <1>7, <1>8 DEF QueuesOK

\* What a longer queue consists of.
LEMMA InsertedElements ==
  ASSUME NEW entries \in Seq(Stimuli), NEW s \in Stimuli
  PROVE  /\ Inserted(entries, s) \in Seq(Stimuli)
         /\ ToSet(Inserted(entries, s)) = ToSet(entries) \cup {s}
<1> DEFINE r == Inserted(entries, s)
<1>1. PICK k \in 1..(Len(entries) + 1) : IsInsertion(r, entries, k, s)
  BY InsertedShape
<1> HIDE DEF r
<1>2. /\ r \in Seq(Stimuli) /\ DOMAIN r = 1..(Len(entries) + 1)
      /\ Len(entries) \in Nat /\ DOMAIN entries = 1..Len(entries)
  BY <1>1 DEF IsInsertion
<1>3. ASSUME NEW i \in DOMAIN r
      PROVE  r[i] \in ToSet(entries) \cup {s}
  <2>1. CASE i < k
    BY <2>1, <1>1, <1>2 DEF IsInsertion, ToSet
  <2>2. CASE i > k
    <3>1. r[i] = entries[i - 1] /\ i - 1 \in DOMAIN entries
      BY <2>2, <1>1, <1>2 DEF IsInsertion
    <3>2. QED
      BY <3>1 DEF ToSet
  <2>3. QED
    BY <2>1, <2>2, <1>1, <1>2 DEF IsInsertion
<1>4. ASSUME NEW i \in DOMAIN entries
      PROVE  entries[i] \in ToSet(r)
  <2>1. CASE i < k
    BY <2>1, <1>1, <1>2 DEF IsInsertion, ToSet
  <2>2. CASE i >= k
    <3>1. r[i + 1] = entries[(i + 1) - 1] /\ i + 1 \in DOMAIN r
      BY <2>2, <1>1, <1>2 DEF IsInsertion
    <3>2. (i + 1) - 1 = i
      BY <1>2
    <3>3. QED
      BY <3>1, <3>2 DEF ToSet
  <2>3. QED
    BY <2>1, <2>2, <1>1, <1>2
<1>5. s \in ToSet(r)
  BY <1>1, <1>2 DEF IsInsertion, ToSet
<1>6. ToSet(r) = ToSet(entries) \cup {s}
  BY <1>3, <1>4, <1>5 DEF ToSet
<1>7. QED
  BY <1>2, <1>6 DEF r

LEMMA JoinsQueues ==
  ASSUME TypeOK, QueuesOK, NEW s \in Stimuli, status[s] = "new", Joins(s),
         status' = [status EXCEPT ![s] = "accepted"]
  PROVE  QueuesOK'
<1> DEFINE h == HabitatOf[s]
           q == queueOf[h]
<1>0. h \in Habitats /\ q \in Stimuli /\ HabitatOf[q] = h
  BY ConstantTypes DEF TypeOK, QueuesOK, Joins
<1>1. /\ queueOf' = queueOf /\ worker' = worker
      /\ \A p \in Stimuli \ {q} : queues'[p] = queues[p]
      /\ queues'[q].draining = queues[q].draining
      /\ queues'[q].entries = Inserted(queues[q].entries, s)
  BY <1>0 DEF Joins, TypeOK
<1>2. \A i \in DOMAIN queues'[q].entries : HabitatOf[queues'[q].entries[i]] = h
  <2>1. ToSet(queues'[q].entries) = ToSet(queues[q].entries) \cup {s}
    BY <1>0, <1>1, QueueType, InsertedElements
  <2>2. \A x \in ToSet(queues[q].entries) : HabitatOf[x] = h
    BY <1>0 DEF QueuesOK, ToSet, Joins
  <2>3. QED
    BY <2>1, <2>2 DEF ToSet
<1>3. \A g \in Habitats : WorkersOf(g)' = WorkersOf(g)
  BY <1>1 DEF WorkersOf, Working
<1>4. HabitatSerial'
  BY <1>1 DEF QueuesOK, HabitatSerial, Working
<1>5. \A g \in Habitats : queueOf'[g] # None =>
        /\ HabitatOf[queueOf'[g]] = g
        /\ queues'[queueOf'[g]].draining
        /\ \A i \in DOMAIN queues'[queueOf'[g]].entries :
             HabitatOf[queues'[queueOf'[g]].entries[i]] = g
        /\ WorkersOf(g)' # {}
  <2>1. ASSUME NEW g \in Habitats, g # h, queueOf[g] # None
        PROVE  queues'[queueOf[g]] = queues[queueOf[g]]
    <3>1. HabitatOf[queueOf[g]] = g /\ queueOf[g] \in Stimuli
      BY <2>1 DEF QueuesOK, TypeOK
    <3>2. QED
      BY <2>1, <3>1, <1>0, <1>1
  <2>2. \A g \in Habitats \ {h} : queueOf[g] # None =>
          /\ HabitatOf[queueOf[g]] = g
          /\ queues'[queueOf[g]].draining
          /\ \A i \in DOMAIN queues'[queueOf[g]].entries :
               HabitatOf[queues'[queueOf[g]].entries[i]] = g
          /\ WorkersOf(g) # {}
    BY <2>1 DEF QueuesOK
  <2>3. /\ queues'[q].draining /\ WorkersOf(h) # {}
    BY <1>0, <1>1 DEF QueuesOK, Joins
  <2>4. QED
    BY <2>2, <2>3, <1>0, <1>1, <1>2, <1>3
<1>6. \A p \in Stimuli : queueOf'[HabitatOf[p]] # p => queues'[p] = NoEntries
  BY <1>0, <1>1 DEF QueuesOK
<1>7. \A t \in Stimuli : status'[t] = "new" => ~Working(t)'
  BY <1>1 DEF QueuesOK, TypeOK, Working
<1>8. QED
  BY <1>1, <1>4, <1>5, <1>6, <1>7 DEF QueuesOK, Working

\* What a drain loop knows about its queue.
LEMMA DrainLoop ==
  ASSUME TypeOK, QueuesOK, NEW w \in Stimuli, Working(w)
  PROVE  /\ HabOf(w) \in Habitats /\ worker[w].queue \in Stimuli
         /\ worker[w].queue = queueOf[HabOf(w)]
         /\ HabitatOf[worker[w].queue] = HabOf(w)
         /\ worker[w].stim \in Stimuli
         /\ \A i \in DOMAIN queues[worker[w].queue].entries :
              HabitatOf[queues[worker[w].queue].entries[i]] = HabOf(w)
         /\ \A v \in Stimuli : Working(v) /\ HabOf(v) = HabOf(w) => v = w
<1>1. worker[w].queue \in Stimuli /\ worker[w].stim \in Stimuli /\ HabOf(w) \in Habitats
  BY WorkerType DEF BusyRecords
<1>2. worker[w].queue = queueOf[HabOf(w)] /\ queueOf[HabOf(w)] # None
  BY <1>1, ConstantTypes DEF QueuesOK, HabOf
<1>3. \A v \in Stimuli : Working(v) /\ HabOf(v) = HabOf(w) => v = w
  BY DEF QueuesOK, HabitatSerial, HabOf
<1>4. QED
  BY <1>1, <1>2, <1>3 DEF QueuesOK

LEMMA EndsQueues ==
  ASSUME TypeOK, QueuesOK, NEW w \in Stimuli, Working(w), Ends(w),
         status' = [status EXCEPT ![worker[w].stim] = "resolved"]
  PROVE  QueuesOK'
<1> DEFINE h == HabOf(w)
           q == worker[w].queue
<1>0. /\ h \in Habitats /\ q \in Stimuli /\ q = queueOf[h] /\ HabitatOf[q] = h
      /\ \A v \in Stimuli : Working(v) /\ HabOf(v) = h => v = w
  BY DrainLoop
<1>1. /\ queueOf'[h] = None /\ \A g \in Habitats \ {h} : queueOf'[g] = queueOf[g]
      /\ queues'[q] = NoEntries /\ \A p \in Stimuli \ {q} : queues'[p] = queues[p]
      /\ worker'[w] = Idle /\ \A v \in Stimuli \ {w} : worker'[v] = worker[v]
  BY <1>0 DEF Ends, TypeOK
<1>2. /\ ~Working(w)'
      /\ \A v \in Stimuli : Working(v)' => Working(v) /\ v # w /\ worker'[v] = worker[v]
  BY <1>1 DEF Idle, Working
<1>3. HabitatSerial'
  BY <1>2 DEF QueuesOK, HabitatSerial
<1>4. \A v \in Stimuli :
        Working(v)' => worker'[v].queue = queueOf'[HabitatOf[worker'[v].stim]]
  <2>1. ASSUME NEW v \in Stimuli, Working(v)'
        PROVE  worker'[v].queue = queueOf'[HabitatOf[worker'[v].stim]]
    <3>1. Working(v) /\ worker'[v] = worker[v] /\ HabOf(v) # h /\ HabOf(v) \in Habitats
      BY <2>1, <1>0, <1>2, WorkerType
    <3>2. QED
      BY <3>1, <1>1 DEF QueuesOK, HabOf
  <2>2. QED
    BY <2>1
<1>5. \A g \in Habitats : queueOf'[g] # None =>
        /\ HabitatOf[queueOf'[g]] = g
        /\ queues'[queueOf'[g]].draining
        /\ \A i \in DOMAIN queues'[queueOf'[g]].entries :
             HabitatOf[queues'[queueOf'[g]].entries[i]] = g
        /\ WorkersOf(g)' # {}
  <2>1. ASSUME NEW g \in Habitats, queueOf'[g] # None
        PROVE  /\ HabitatOf[queueOf'[g]] = g
               /\ queues'[queueOf'[g]].draining
               /\ \A i \in DOMAIN queues'[queueOf'[g]].entries :
                    HabitatOf[queues'[queueOf'[g]].entries[i]] = g
               /\ WorkersOf(g)' # {}
    <3>1. g # h /\ queueOf'[g] = queueOf[g]
      BY <2>1, <1>1
    <3>2. HabitatOf[queueOf[g]] = g /\ queueOf[g] \in Stimuli
      BY <2>1, <3>1 DEF QueuesOK, TypeOK
    <3>3. queues'[queueOf[g]] = queues[queueOf[g]]
      BY <3>1, <3>2, <1>0, <1>1
    <3>4. PICK v \in Stimuli : Working(v) /\ HabOf(v) = g
      BY <2>1, <3>1 DEF QueuesOK, WorkersOf, HabOf
    <3>5. worker'[v] = worker[v]
      BY <3>1, <3>4, <1>1
    <3>6. v \in WorkersOf(g)'
      BY <3>4, <3>5 DEF WorkersOf, HabOf, Working
    <3>7. QED
      BY <2>1, <3>1, <3>3, <3>6 DEF QueuesOK
  <2>2. QED
    BY <2>1
<1>6. \A p \in Stimuli : queueOf'[HabitatOf[p]] # p => queues'[p] = NoEntries
  <2>1. ASSUME NEW p \in Stimuli, p # q, queueOf'[HabitatOf[p]] # p
        PROVE  queues[p] = NoEntries
    <3>1. HabitatOf[p] \in Habitats
      BY ConstantTypes
    <3>2. queueOf[HabitatOf[p]] # p
      BY <2>1, <3>1, <1>0, <1>1
    <3>3. QED
      BY <3>2 DEF QueuesOK
  <2>2. QED
    BY <2>1, <1>1
<1>7. \A t \in Stimuli : status'[t] = "new" => ~Working(t)'
  BY <1>2 DEF QueuesOK, TypeOK
<1>8. QED
  BY <1>3, <1>4, <1>5, <1>6, <1>7 DEF QueuesOK

LEMMA TurnsQueues ==
  ASSUME TypeOK, QueuesOK, NEW w \in Stimuli, Working(w), Turns(w),
         status' = [status EXCEPT ![worker[w].stim] = "resolved"]
  PROVE  QueuesOK'
<1> DEFINE h == HabOf(w)
           q == worker[w].queue
           entries == queues[q].entries
<1>0. /\ h \in Habitats /\ q \in Stimuli /\ q = queueOf[h] /\ HabitatOf[q] = h
      /\ \A i \in DOMAIN entries : HabitatOf[entries[i]] = h
      /\ \A v \in Stimuli : Working(v) /\ HabOf(v) = h => v = w
  BY DrainLoop
<1>1. /\ queueOf' = queueOf
      /\ queues'[q].draining = queues[q].draining /\ queues'[q].entries = Tail(entries)
      /\ \A p \in Stimuli \ {q} : queues'[p] = queues[p]
      /\ worker'[w] = Processing(q, Head(entries))
      /\ \A v \in Stimuli \ {w} : worker'[v] = worker[v]
  BY <1>0 DEF Turns, TypeOK
<1>2. entries \in Seq(Stimuli) /\ entries # <<>>
  BY <1>0, QueueType DEF Turns
<1> HIDE DEF entries
<1>3. /\ Head(entries) \in Stimuli /\ HabitatOf[Head(entries)] = h
      /\ \A i \in DOMAIN Tail(entries) : HabitatOf[Tail(entries)[i]] = h
  BY <1>0, <1>2
<1>4. /\ worker'[w].stim = Head(entries) /\ worker'[w].queue = q /\ Working(w)'
      /\ \A v \in Stimuli : Working(v)' <=> Working(v)
      /\ \A v \in Stimuli : HabOf(v)' = HabOf(v)
  <2>1. worker'[w].stim = Head(entries) /\ worker'[w].queue = q /\ worker'[w].pc = "received"
    BY <1>1 DEF Processing, Idle
  <2>2. HabOf(w)' = HabOf(w)
    BY <2>1, <1>3 DEF HabOf
  <2>3. Working(w)'
    BY <2>1 DEF Working
  <2>4. \A v \in Stimuli \ {w} : (Working(v)' <=> Working(v)) /\ HabOf(v)' = HabOf(v)
    BY <1>1 DEF Working, HabOf
  <2>5. QED
    BY <2>1, <2>2, <2>3, <2>4
<1>5. HabitatSerial'
  BY <1>4 DEF QueuesOK, HabitatSerial, HabOf
<1>6. \A v \in Stimuli :
        Working(v)' => worker'[v].queue = queueOf'[HabitatOf[worker'[v].stim]]
  BY <1>0, <1>1, <1>3, <1>4 DEF QueuesOK
<1>7. \A g \in Habitats : WorkersOf(g)' = WorkersOf(g)
  BY <1>4 DEF WorkersOf, HabOf
<1>8. \A g \in Habitats : queueOf[g] # None =>
        /\ HabitatOf[queueOf[g]] = g
        /\ queues'[queueOf[g]].draining
        /\ \A i \in DOMAIN queues'[queueOf[g]].entries :
             HabitatOf[queues'[queueOf[g]].entries[i]] = g
        /\ WorkersOf(g) # {}
  <2>1. ASSUME NEW g \in Habitats, g # h, queueOf[g] # None
        PROVE  queues'[queueOf[g]] = queues[queueOf[g]]
    <3>1. HabitatOf[queueOf[g]] = g /\ queueOf[g] \in Stimuli
      BY <2>1 DEF QueuesOK, TypeOK
    <3>2. QED
      BY <2>1, <3>1, <1>0, <1>1
  <2>2. \A g \in Habitats \ {h} : queueOf[g] # None =>
          /\ HabitatOf[queueOf[g]] = g
          /\ queues'[queueOf[g]].draining
          /\ \A i \in DOMAIN queues'[queueOf[g]].entries :
               HabitatOf[queues'[queueOf[g]].entries[i]] = g
          /\ WorkersOf(g) # {}
    BY <2>1 DEF QueuesOK
  <2>3. q # None
    BY <1>0, ConstantTypes
  <2>4. queues'[q].draining /\ WorkersOf(h) # {}
    BY <1>0, <1>1, <2>3 DEF QueuesOK
  <2>5. /\ HabitatOf[queueOf[h]] = h
        /\ queues'[queueOf[h]].draining
        /\ \A i \in DOMAIN queues'[queueOf[h]].entries :
             HabitatOf[queues'[queueOf[h]].entries[i]] = h
        /\ WorkersOf(h) # {}
    BY <2>4, <1>0, <1>1, <1>3
  <2> HIDE DEF h, q
  <2>6. QED
    BY <2>2, <2>5
<1>9. \A p \in Stimuli : queueOf'[HabitatOf[p]] # p => queues'[p] = NoEntries
  BY <1>0, <1>1 DEF QueuesOK
<1>10. \A t \in Stimuli : status'[t] = "new" => ~Working(t)'
  BY <1>4 DEF QueuesOK, TypeOK
<1>11. QED
  BY <1>1, <1>5, <1>6, <1>7, <1>8, <1>9, <1>10 DEF QueuesOK

LEMMA StepQueues ==
  ASSUME TypeOK, QueuesOK, Step
  PROVE  QueuesOK'
<1>1. CASE Calm
  BY <1>1, CalmQueues
<1>2. CASE \E s \in Stimuli : Receive(s)
  <2>1. PICK s \in Stimuli : Receive(s)
    BY <1>2
  <2>2. status[s] = "new" /\ status' = [status EXCEPT ![s] = "accepted"]
    BY <2>1 DEF Receive
  <2>3. QED
    BY <2>1, <2>2, ReceiveShape, BeginsQueues, JoinsQueues
<1>3. CASE \E w \in Stimuli : Working(w) /\ Drain(w) /\ UNCHANGED historyVars
  <2>1. PICK w \in Stimuli : Working(w) /\ Drain(w)
    BY <1>3
  <2>2. QED
    BY <2>1, DrainShape, EndsQueues, TurnsQueues
<1>4. QED
  BY <1>1, <1>2, <1>3 DEF Step

-----------------------------------------------------------------------------
(***************************************************************************)
(* Order.  Whoever joins has the last ticket, so the place behind everyone  *)
(* of its priority is the one the order asks for.                           *)
(***************************************************************************)
LEMMA CalmTickets ==
  ASSUME TicketsOK, Calm
  PROVE  TicketsOK'
BY DEF TicketsOK, InOrder, Server!Before, Calm

LEMMA InsertedInOrder ==
  ASSUME NEW entries \in Seq(Stimuli), NEW s \in Stimuli, InOrder(entries),
         ticket \in [Stimuli -> Nat],
         \A i \in DOMAIN entries : entries[i] # s /\ ticket[entries[i]] <= accepted,
         accepted \in Nat, ticket' = [ticket EXCEPT ![s] = accepted + 1]
  PROVE  InOrder(Inserted(entries, s))'
<1> DEFINE r == Inserted(entries, s)
<1>1. PICK k \in 1..(Len(entries) + 1) :
        /\ IsInsertion(r, entries, k, s)
        /\ \A i \in 1..(k - 1) : Priority[entries[i]] <= Priority[s]
        /\ k <= Len(entries) => Priority[entries[k]] > Priority[s]
  BY InsertedShape
<1> HIDE DEF r
<1>2. /\ r \in Seq(Stimuli) /\ DOMAIN r = 1..(Len(entries) + 1)
      /\ Len(entries) \in Nat /\ DOMAIN entries = 1..Len(entries)
  BY <1>1 DEF IsInsertion
<1>3. ASSUME NEW i \in DOMAIN entries, NEW j \in DOMAIN entries, i < j
      PROVE  Server!Before(entries[i], entries[j])'
  BY <1>3 DEF InOrder, Server!Before
<1>4. ASSUME NEW i \in 1..(k - 1)
      PROVE  Server!Before(entries[i], s)'
  <2>1. i \in DOMAIN entries /\ entries[i] \in Stimuli
    BY <1>2
  <2>2. /\ Priority[entries[i]] <= Priority[s]
        /\ ticket'[entries[i]] <= accepted /\ ticket'[s] = accepted + 1
        /\ ticket'[entries[i]] \in Nat
    BY <1>1, <2>1
  <2>3. QED
    BY <2>1, <2>2, ConstantTypes DEF Server!Before
<1>5. ASSUME NEW j \in k..Len(entries)
      PROVE  Server!Before(s, entries[j])'
  <2>1. k \in DOMAIN entries /\ j \in DOMAIN entries
    BY <1>2
  <2>2. Priority[entries[k]] <= Priority[entries[j]]
    <3>1. k \in Int /\ j \in Int /\ k <= j
      BY <1>2
    <3>2. entries[k] \in Stimuli /\ entries[j] \in Stimuli
      BY <2>1
    <3>3. k # j => Server!Before(entries[k], entries[j])
      BY <2>1, <3>1 DEF InOrder
    <3>4. QED
      BY <3>2, <3>3, ConstantTypes DEF Server!Before
  <2>3. QED
    BY <1>1, <2>1, <2>2, ConstantTypes DEF Server!Before
<1>6. ASSUME NEW i \in DOMAIN r, NEW j \in DOMAIN r, i < j
      PROVE  Server!Before(r[i], r[j])'
  <2>0. /\ i \in Int /\ j \in Int /\ k \in Int /\ Len(entries) \in Int
        /\ j <= Len(entries) + 1 /\ 1 <= i /\ 1 <= k /\ i < j
    BY <1>2, <1>6
  <2>1. CASE j < k
    BY <2>1, <1>1, <1>2, <1>3, <1>6 DEF IsInsertion
  <2>2. CASE j = k
    BY <2>2, <1>1, <1>2, <1>4, <1>6 DEF IsInsertion
  <2>3. CASE i = k
    <3>1. j \in (k + 1)..(Len(entries) + 1) /\ j - 1 \in k..Len(entries)
      BY <2>0, <2>3
    <3>2. r[j] = entries[j - 1] /\ r[i] = s
      BY <2>3, <3>1, <1>1 DEF IsInsertion
    <3>3. QED
      BY <3>1, <3>2, <1>5
  <2>4. CASE i < k /\ k < j
    <3>1. /\ r[j] = entries[j - 1] /\ j - 1 \in DOMAIN entries
          /\ r[i] = entries[i] /\ i \in DOMAIN entries /\ i < j - 1
      BY <2>4, <1>1, <1>2, <1>6 DEF IsInsertion
    <3>2. QED
      BY <3>1, <1>3
  <2>5. CASE k < i
    <3>1. /\ j \in (k + 1)..(Len(entries) + 1) /\ j - 1 \in 1..Len(entries)
          /\ i \in (k + 1)..(Len(entries) + 1) /\ i - 1 \in 1..Len(entries)
          /\ i - 1 < j - 1
      BY <2>0, <2>5
    <3>2. r[j] = entries[j - 1] /\ r[i] = entries[i - 1]
      BY <3>1, <1>1 DEF IsInsertion
    <3>3. QED
      BY <3>1, <3>2, <1>2, <1>3
  <2>6. QED
    BY <2>1, <2>2, <2>3, <2>4, <2>5, <1>1, <1>2, <1>6
<1>7. InOrder(r)'
  BY <1>6 DEF InOrder
<1>8. QED
  BY <1>7 DEF r

\* A new ticket does not disturb a queue its holder is not in.
LEMMA StillInOrder ==
  ASSUME NEW entries \in Seq(Stimuli), NEW s \in Stimuli, InOrder(entries),
         ticket \in [Stimuli -> Nat], \A i \in DOMAIN entries : entries[i] # s,
         NEW n, ticket' = [ticket EXCEPT ![s] = n]
  PROVE  InOrder(entries)'
<1>1. ASSUME NEW i \in DOMAIN entries, NEW j \in DOMAIN entries, i < j
      PROVE  Server!Before(entries[i], entries[j])'
  <2>1. /\ entries[i] \in Stimuli /\ entries[j] \in Stimuli
        /\ ticket'[entries[i]] = ticket[entries[i]]
        /\ ticket'[entries[j]] = ticket[entries[j]]
    OBVIOUS
  <2>2. Server!Before(entries[i], entries[j])
    BY <1>1 DEF InOrder
  <2>3. QED
    BY <2>1, <2>2 DEF Server!Before
<1>2. QED
  BY <1>1 DEF InOrder

LEMMA EntriesBefore ==
  ASSUME TypeOK, TicketsOK, NEW s \in Stimuli, status[s] = "new", NEW q \in Stimuli
  PROVE  /\ InOrder(queues[q].entries)
         /\ \A i \in DOMAIN queues[q].entries :
              /\ queues[q].entries[i] \in Stimuli /\ queues[q].entries[i] # s
              /\ ticket[queues[q].entries[i]] # 0
              /\ ticket[queues[q].entries[i]] <= accepted
<1>1. /\ \A i \in DOMAIN queues[q].entries : queues[q].entries[i] \in Stimuli
      /\ \A i \in DOMAIN queues[q].entries : ticket[queues[q].entries[i]] # 0
      /\ InOrder(queues[q].entries) /\ ticket[s] = 0
  BY QueueType DEF TicketsOK
<1>2. QED
  BY <1>1 DEF TicketsOK

LEMMA ReceiveTickets ==
  ASSUME TypeOK, QueuesOK, TicketsOK, NEW s \in Stimuli, Receive(s)
  PROVE  TicketsOK'
<1>0. /\ ticket \in [Stimuli -> Nat] /\ accepted \in Nat
      /\ status \in [Stimuli -> {"new", "ignored", "accepted", "resolved"}]
  BY DEF TypeOK
<1>1. /\ status[s] = "new" /\ status' = [status EXCEPT ![s] = "accepted"]
      /\ accepted' = accepted + 1 /\ ticket' = [ticket EXCEPT ![s] = accepted + 1]
  BY DEF Receive
<1>2. \A t \in Stimuli : ticket'[t] <= accepted' /\ (status'[t] = "new" => ticket'[t] = 0)
  BY <1>0, <1>1 DEF TicketsOK
<1>3. ASSUME NEW p \in Stimuli, NEW e \in Seq(Stimuli), e = queues[p].entries
      PROVE  /\ InOrder(e)' /\ \A i \in DOMAIN e : ticket'[e[i]] # 0
             /\ InOrder(Inserted(e, s))'
             /\ \A i \in DOMAIN Inserted(e, s) : ticket'[Inserted(e, s)[i]] # 0
  <2>1. /\ InOrder(e)
        /\ \A i \in DOMAIN e : /\ e[i] \in Stimuli /\ e[i] # s
                               /\ ticket[e[i]] # 0 /\ ticket[e[i]] <= accepted
    BY <1>1, <1>3, EntriesBefore
  <2>2. InOrder(e)'
    BY <2>1, <1>0, <1>1, StillInOrder
  <2>3. InOrder(Inserted(e, s))'
    BY <2>1, <1>0, <1>1, InsertedInOrder
  <2>4. \A i \in DOMAIN e : ticket'[e[i]] # 0
    BY <2>1, <1>0, <1>1
  <2>5. \A x \in ToSet(Inserted(e, s)) : x = s \/ \E i \in DOMAIN e : x = e[i]
    BY InsertedElements DEF ToSet
  <2>6. \A x \in ToSet(Inserted(e, s)) : ticket'[x] # 0
    BY <2>4, <2>5, <1>0, <1>1
  <2>7. QED
    BY <2>2, <2>3, <2>4, <2>6 DEF ToSet
<1>4. ASSUME NEW p \in Stimuli
      PROVE  /\ InOrder(queues[p].entries)'
             /\ \A i \in DOMAIN queues'[p].entries : ticket'[queues'[p].entries[i]] # 0
  <2>1. PICK e \in Seq(Stimuli) : e = queues[p].entries
    BY QueueType
  <2>2. \/ queues'[p].entries = e
        \/ queues'[p].entries = <<>>
        \/ queues'[p].entries = Inserted(e, s)
    <3>1. CASE Begins(s)
      BY <2>1, <3>1 DEF Begins, TypeOK
    <3>2. CASE Joins(s)
      BY <2>1, <3>2 DEF Joins, TypeOK
    <3>3. QED
      BY <3>1, <3>2, ReceiveShape
  <2>3. /\ InOrder(e)' /\ \A i \in DOMAIN e : ticket'[e[i]] # 0
        /\ InOrder(Inserted(e, s))'
        /\ \A i \in DOMAIN Inserted(e, s) : ticket'[Inserted(e, s)[i]] # 0
    BY <2>1, <1>3
  <2>4. QED
    BY <2>2, <2>3 DEF InOrder
<1>5. QED
  BY <1>2, <1>4 DEF TicketsOK

LEMMA DrainTickets ==
  ASSUME TypeOK, QueuesOK, TicketsOK, NEW w \in Stimuli, Working(w), Drain(w),
         UNCHANGED historyVars
  PROVE  TicketsOK'
<1>0. ticket' = ticket /\ accepted' = accepted
  BY DEF historyVars
<1>1. \A t \in Stimuli : status'[t] = "new" => status[t] = "new"
  BY DrainShape DEF TypeOK
<1>2. ASSUME NEW p \in Stimuli
      PROVE  /\ InOrder(queues[p].entries)'
             /\ \A i \in DOMAIN queues'[p].entries : ticket'[queues'[p].entries[i]] # 0
  <2>1. PICK e \in Seq(Stimuli) : e = queues[p].entries
    BY QueueType
  <2>2. \/ queues'[p].entries = e
        \/ queues'[p].entries = <<>>
        \/ e # <<>> /\ queues'[p].entries = Tail(e)
    <3>1. CASE Ends(w)
      BY <2>1, <3>1 DEF Ends, NoEntries, TypeOK
    <3>2. CASE Turns(w)
      BY <2>1, <3>2 DEF Turns, TypeOK
    <3>3. QED
      BY <3>1, <3>2, DrainShape
  <2>3. InOrder(e) /\ \A i \in DOMAIN e : ticket[e[i]] # 0
    BY <2>1 DEF TicketsOK
  <2>4. \A i, j \in DOMAIN e : i < j => Server!Before(e[i], e[j])'
    BY <2>3, <1>0 DEF InOrder, Server!Before
  <2>5. CASE queues'[p].entries = e
    BY <2>3, <2>4, <2>5, <1>0 DEF InOrder
  <2>6. CASE queues'[p].entries = <<>>
    BY <2>6 DEF InOrder
  <2>7. CASE e # <<>> /\ queues'[p].entries = Tail(e)
    <3>1. /\ DOMAIN Tail(e) = 1..(Len(e) - 1) /\ DOMAIN e = 1..Len(e)
          /\ \A i \in DOMAIN Tail(e) : Tail(e)[i] = e[i + 1] /\ i + 1 \in DOMAIN e
      BY <2>7
    <3>2. \A i \in DOMAIN Tail(e) : ticket'[Tail(e)[i]] # 0
      BY <3>1, <2>3, <1>0
    <3>3. ASSUME NEW i \in DOMAIN Tail(e), NEW j \in DOMAIN Tail(e), i < j
          PROVE  Server!Before(Tail(e)[i], Tail(e)[j])'
      <4>1. i + 1 < j + 1
        BY <3>1, <3>3
      <4>2. QED
        BY <4>1, <3>1, <2>4
    <3>4. QED
      BY <2>7, <3>2, <3>3 DEF InOrder
  <2>8. QED
    BY <2>2, <2>5, <2>6, <2>7
<1>3. QED
  BY <1>0, <1>1, <1>2 DEF TicketsOK

LEMMA StepTickets ==
  ASSUME TypeOK, QueuesOK, TicketsOK, Step
  PROVE  TicketsOK'
BY CalmTickets, ReceiveTickets, DrainTickets DEF Step

-----------------------------------------------------------------------------
(***************************************************************************)
(* Types.                                                                   *)
(***************************************************************************)
QueueTypes ==
  /\ status \in [Stimuli -> {"new", "ignored", "accepted", "resolved"}]
  /\ queueOf \in [Habitats -> Stimuli \cup {None}]
  /\ queues \in [Stimuli -> [entries : Seq(Stimuli), draining : BOOLEAN]]

WorkerOK(r) ==
  r \in WorkerRecords /\ (r.pc \notin {"idle", "received"} => r.rest # <<>>)

WorkerTypes == worker \in [Stimuli -> WorkerRecords] /\ \A w \in Stimuli : WorkerOK(worker[w])

OtherTypes ==
  /\ phase \in {"idle", "starting", "running", "stopping", "stopped"}
  /\ booting \in BOOLEAN /\ listening \in BOOLEAN
  /\ state \in [Lives -> SUBSET Stimuli] /\ applied \in [Lives -> SUBSET Stimuli]
  /\ faults \in 0..MaxFaults /\ accepted \in Nat /\ ticket \in [Stimuli -> Nat]

LEMMA TypeParts == TypeOK <=> QueueTypes /\ WorkerTypes /\ OtherTypes
BY DEF TypeOK, QueueTypes, WorkerTypes, WorkerOK, OtherTypes

LEMMA IdleOK ==
  /\ WorkerOK(Idle)
  /\ \A q, s \in Stimuli : WorkerOK(Processing(q, s))
<1>1. WorkerOK(Idle)
  BY DEF WorkerOK, WorkerRecords, Idle
<1>2. ASSUME NEW q \in Stimuli, NEW s \in Stimuli
      PROVE  WorkerOK(Processing(q, s))
  <2>1. Idle \in [pc : {"idle", "received"}, queue : Stimuli \cup {None},
                  stim : Stimuli \cup {None}, rest : Seq(Lives), seen : SUBSET Stimuli]
    BY DEF Idle
  <2>2. /\ Processing(q, s) \in BusyRecords
        /\ Processing(q, s).pc = "received"
    BY <2>1 DEF Processing, BusyRecords, BusyPcs
  <2>3. QED
    BY <2>2 DEF WorkerOK, WorkerRecords, BusyRecords, BusyPcs
<1>3. QED
  BY <1>1, <1>2

LEMMA DrainTypes ==
  ASSUME TypeOK, QueuesOK, NEW w \in Stimuli, Working(w), Drain(w)
  PROVE  QueueTypes' /\ WorkerTypes'
<1> DEFINE q == worker[w].queue
<1>1. /\ q \in Stimuli /\ worker[w].stim \in Stimuli /\ HabOf(w) \in Habitats
      /\ queues[q].entries \in Seq(Stimuli)
  BY DrainLoop, QueueType
<1>2. status' \in [Stimuli -> {"new", "ignored", "accepted", "resolved"}]
  BY <1>1, DrainShape DEF TypeOK
<1>3. CASE Ends(w)
  <2>1. NoEntries \in [entries : Seq(Stimuli), draining : BOOLEAN]
    BY DEF NoEntries
  <2>2. QueueTypes'
    BY <1>1, <1>2, <1>3, <2>1 DEF Ends, TypeOK, QueueTypes
  <2>3. WorkerTypes'
    BY <1>3, IdleOK, TypeParts DEF Ends, WorkerTypes, WorkerOK
  <2>4. QED
    BY <2>2, <2>3
<1>4. CASE Turns(w)
  <2>1. /\ Head(queues[q].entries) \in Stimuli
        /\ Tail(queues[q].entries) \in Seq(Stimuli)
    BY <1>1, <1>4 DEF Turns
  <2>2. QueueTypes'
    BY <1>1, <1>2, <1>4, <2>1 DEF Turns, TypeOK, QueueTypes
  <2>3. WorkerOK(Processing(q, Head(queues[q].entries)))
    BY <1>1, <2>1, IdleOK
  <2>4. WorkerTypes'
    BY <1>4, <2>3, TypeParts DEF Turns, WorkerTypes, WorkerOK
  <2>5. QED
    BY <2>2, <2>4
<1>5. QED
  BY <1>3, <1>4, DrainShape

LEMMA ReceiveTypes ==
  ASSUME TypeOK, QueuesOK, NEW s \in Stimuli, Receive(s)
  PROVE  TypeOK'
<1>0. HabitatOf[s] \in Habitats /\ s # None
  BY ConstantTypes
<1>1. status' \in [Stimuli -> {"new", "ignored", "accepted", "resolved"}]
  BY DEF Receive, TypeOK
<1>2. OtherTypes'
  BY DEF Receive, TypeOK, OtherTypes, lifecycleVars, stateVars
<1>3. CASE Begins(s)
  <2>1. [entries |-> <<>>, draining |-> TRUE] \in [entries : Seq(Stimuli), draining : BOOLEAN]
    OBVIOUS
  <2>2. QueueTypes'
    BY <1>0, <1>1, <1>3, <2>1 DEF Begins, TypeOK, QueueTypes
  <2>3. WorkerTypes'
    BY <1>3, IdleOK, TypeParts DEF Begins, WorkerTypes, WorkerOK
  <2>4. QED
    BY <1>2, <2>2, <2>3, TypeParts DEF TypeOK, QueueTypes, WorkerTypes, WorkerOK, OtherTypes
<1>4. CASE Joins(s)
  <2>1. queueOf[HabitatOf[s]] \in Stimuli
    BY <1>0, <1>4 DEF Joins, TypeOK
  <2>2. Inserted(queues[queueOf[HabitatOf[s]]].entries, s) \in Seq(Stimuli)
    BY <2>1, QueueType, InsertedElements
  <2>3. QueueTypes'
    BY <1>1, <1>4, <2>1, <2>2 DEF Joins, TypeOK, QueueTypes
  <2>4. WorkerTypes'
    BY <1>4, TypeParts DEF Joins, WorkerTypes
  <2>5. QED
    BY <1>2, <2>3, <2>4 DEF TypeOK, QueueTypes, WorkerTypes, WorkerOK, OtherTypes
<1>5. QED
  BY <1>3, <1>4, ReceiveShape

\* The lives a stimulus is routed to, and those that are left of them.
LEMMA RestType ==
  ASSUME TypeOK, NEW w \in Stimuli, Working(w)
  PROVE  /\ Routed(worker[w].stim) \in Seq(Lives)
         /\ worker[w].pc # "received" =>
              /\ worker[w].rest \in Seq(Lives) /\ worker[w].rest # <<>>
              /\ LifeAt(w) \in Lives /\ Tail(worker[w].rest) \in Seq(Lives)
<1>1. worker[w] \in BusyRecords /\ HabOf(w) \in Habitats
  BY WorkerType
<1>2. Routed(worker[w].stim) \in Seq(Lives)
  BY <1>1, ConstantTypes DEF Routed, HabOf
<1>3. worker[w].pc # "received" => worker[w].rest # <<>>
  BY DEF TypeOK, Working
<1>4. worker[w].rest \in Seq(Lives)
  BY <1>1 DEF BusyRecords
<1>5. QED
  BY <1>2, <1>3, <1>4 DEF LifeAt

LEMMA GotoTypes ==
  ASSUME TypeOK, NEW w \in Stimuli, Working(w), NEW pc \in BusyPcs,
         NEW rest \in Seq(Lives), rest # <<>>, Goto(w, pc, rest)
  PROVE  QueueTypes' /\ WorkerTypes'
<1>1. worker[w] \in BusyRecords
  BY WorkerType
<1>2. worker'[w] = [worker[w] EXCEPT !.pc = pc, !.rest = rest, !.seen = {}]
  BY TypeParts DEF Goto, WorkerTypes
<1>3. worker'[w] \in BusyRecords /\ worker'[w].rest = rest
  BY <1>1, <1>2 DEF BusyRecords
<1>4. WorkerOK(worker'[w])
  BY <1>3 DEF WorkerOK, WorkerRecords, BusyRecords, BusyPcs
<1>5. worker' = [worker EXCEPT ![w] = worker'[w]]
  BY TypeParts DEF Goto, WorkerTypes
<1>6. WorkerTypes'
  BY <1>4, <1>5, TypeParts DEF WorkerTypes, WorkerOK
<1>7. QED
  BY <1>6, TypeParts DEF Goto, queueVars, QueueTypes

LEMMA LiveTypes ==
  ASSUME TypeOK, QueuesOK, NEW w \in Stimuli, Working(w), NEW rest \in Seq(Lives),
         Live(w, rest)
  PROVE  QueueTypes' /\ WorkerTypes'
<1>1. "living" \in BusyPcs
  BY DEF BusyPcs
<1>2. QED
  BY <1>1, DrainTypes, GotoTypes DEF Live

LEMMA ReadTypes ==
  ASSUME TypeOK, NEW w \in Stimuli, Working(w), worker[w].pc # "received",
         NEW pc \in BusyPcs, Read(w, pc)
  PROVE  TypeOK'
<1>1. worker[w] \in BusyRecords
  BY WorkerType
<1>2. worker'[w] = [worker[w] EXCEPT !.pc = pc, !.seen = state[LifeAt(w)]]
  BY <1>1 DEF Read, TypeOK
<1>3. state[LifeAt(w)] \in SUBSET Stimuli
  BY RestType DEF TypeOK
<1>4. worker'[w] \in BusyRecords /\ worker'[w].rest # <<>>
  BY <1>1, <1>2, <1>3, RestType DEF BusyRecords
<1>5. WorkerOK(worker'[w])
  BY <1>4 DEF WorkerOK, WorkerRecords, BusyRecords, BusyPcs
<1>6. worker' = [worker EXCEPT ![w] = worker'[w]]
  BY TypeParts DEF Read, WorkerTypes
<1>7. WorkerTypes'
  BY <1>5, <1>6, TypeParts DEF WorkerTypes, WorkerOK
<1>8. QueueTypes' /\ OtherTypes'
  BY TypeParts DEF Read, QueueTypes, OtherTypes, lifecycleVars, queueVars, stateVars,
                   historyVars
<1>9. QED
  BY <1>7, <1>8 DEF TypeOK, QueueTypes, WorkerTypes, WorkerOK, OtherTypes

LEMMA WriteTypes ==
  ASSUME TypeOK, NEW w \in Stimuli, Working(w), worker[w].pc # "received", Write(w)
  PROVE  OtherTypes'
<1>1. /\ worker[w].seen \cup {worker[w].stim} \in SUBSET Stimuli
      /\ applied[LifeAt(w)] \cup {worker[w].stim} \in SUBSET Stimuli
  BY WorkerType, RestType DEF BusyRecords, TypeOK
<1>2. QED
  BY <1>1 DEF Write, TypeOK, OtherTypes, lifecycleVars, historyVars

LEMMA WorkerStepTypes ==
  ASSUME TypeOK, QueuesOK, NEW w \in Stimuli, WorkerStep(w)
  PROVE  TypeOK'
<1>0. Working(w) /\ Routed(worker[w].stim) \in Seq(Lives)
  BY WorkerStepShape, RestType
<1>1. worker[w].pc # "received" =>
        /\ worker[w].rest \in Seq(Lives) /\ worker[w].rest # <<>>
        /\ Tail(worker[w].rest) \in Seq(Lives)
  BY <1>0, RestType
<1>2. {"ticking", "ticked", "updating"} \subseteq BusyPcs
  BY DEF BusyPcs
<1> USE DEF lifecycleVars, stateVars, historyVars
<1>3. ASSUME Fault PROVE faults' \in 0..MaxFaults
  BY <1>3, FaultsAssumption DEF Fault, TypeOK
<1>4. CASE Route(w)
  <2>1. OtherTypes'
    BY <1>4 DEF Route, TypeOK, OtherTypes
  <2>2. CASE Goto(w, "ticking", Routed(worker[w].stim)) /\ Routed(worker[w].stim) # <<>>
    BY <2>1, <2>2, <1>0, <1>2, GotoTypes DEF TypeOK, QueueTypes, WorkerTypes, WorkerOK, OtherTypes
  <2>3. CASE Live(w, Routed(worker[w].stim))
    BY <2>1, <2>3, <1>0, LiveTypes DEF TypeOK, QueueTypes, WorkerTypes, WorkerOK, OtherTypes
  <2>4. QED
    BY <1>4, <2>2, <2>3 DEF Route
<1>5. CASE TickRead(w)
  BY <1>5, <1>0, <1>2, ReadTypes DEF TickRead
<1>6. CASE TickSave(w)
  <2>1. OtherTypes' /\ worker[w].pc = "ticked"
    BY <1>6, <1>0, WriteTypes DEF TickSave
  <2>2. CASE Goto(w, "ticking", Tail(worker[w].rest)) /\ Tail(worker[w].rest) # <<>>
    BY <2>1, <2>2, <1>0, <1>1, <1>2, GotoTypes
    DEF TypeOK, QueueTypes, WorkerTypes, WorkerOK, OtherTypes
  <2>3. CASE Live(w, Routed(worker[w].stim))
    BY <2>1, <2>3, <1>0, LiveTypes DEF TypeOK, QueueTypes, WorkerTypes, WorkerOK, OtherTypes
  <2>4. QED
    BY <1>6, <2>2, <2>3 DEF TickSave
<1>7. CASE TickFails(w)
  <2>1. OtherTypes'
    BY <1>3, <1>7 DEF TickFails, TypeOK, OtherTypes
  <2>2. QED
    BY <2>1, <1>0, <1>7, LiveTypes
    DEF TickFails, TypeOK, QueueTypes, WorkerTypes, WorkerOK, OtherTypes
<1>8. CASE UpdateRead(w)
  BY <1>8, <1>0, <1>2, ReadTypes DEF UpdateRead
<1>9. CASE UpdateSave(w)
  <2>1. OtherTypes' /\ worker[w].pc = "updating"
    BY <1>9, <1>0, WriteTypes DEF UpdateSave
  <2>2. QED
    BY <2>1, <1>0, <1>1, <1>9, LiveTypes
    DEF UpdateSave, TypeOK, QueueTypes, WorkerTypes, WorkerOK, OtherTypes
<1>10. CASE UpdateFails(w)
  <2>1. OtherTypes' /\ worker[w].pc = "updating"
    BY <1>3, <1>10 DEF UpdateFails, TypeOK, OtherTypes
  <2>2. QED
    BY <2>1, <1>0, <1>1, <1>10, LiveTypes
    DEF UpdateFails, TypeOK, QueueTypes, WorkerTypes, WorkerOK, OtherTypes
<1>11. CASE LifeEnds(w)
  <2>1. OtherTypes' /\ worker[w].pc = "living"
    BY <1>11 DEF LifeEnds, TypeOK, OtherTypes
  <2>2. QED
    BY <2>1, <1>0, <1>1, <1>11, LiveTypes
    DEF LifeEnds, TypeOK, QueueTypes, WorkerTypes, WorkerOK, OtherTypes
<1>12. CASE HookThrows(w)
  <2>1. OtherTypes'
    BY <1>3, <1>12 DEF HookThrows, TypeOK, OtherTypes
  <2>2. QED
    BY <2>1, <1>0, <1>12, DrainTypes
    DEF HookThrows, TypeOK, QueueTypes, WorkerTypes, WorkerOK, OtherTypes
<1>13. QED
  BY <1>4, <1>5, <1>6, <1>7, <1>8, <1>9, <1>10, <1>11, <1>12 DEF WorkerStep

LEMMA NextTypes ==
  ASSUME TypeOK, QueuesOK, [Next]_vars
  PROVE  TypeOK'
<1> USE DEF TypeOK, lifecycleVars, stateVars, historyVars, queueVars
<1>1. CASE LifecycleStep
  BY <1>1 DEF LifecycleStep, Start, Run, Listen, Stop, Stopped, Lifecycle
<1>2. CASE \E s \in Stimuli : Ignore(s)
  BY <1>2 DEF Ignore
<1>3. CASE \E s \in Stimuli : Receive(s)
  BY <1>3, ReceiveTypes
<1>4. CASE \E w \in Stimuli : WorkerStep(w)
  BY <1>4, WorkerStepTypes
<1>5. CASE UNCHANGED vars
  BY <1>5 DEF vars
<1>6. QED
  BY <1>1, <1>2, <1>3, <1>4, <1>5 DEF Next

LEMMA InitRuntime == Init => TypeOK /\ QueuesOK /\ TicketsOK
<1> SUFFICES ASSUME Init PROVE TypeOK /\ QueuesOK /\ TicketsOK
  OBVIOUS
<1>1. \A s \in Stimuli : ~Working(s)
  BY DEF Init, Working, Idle
<1>2. \A q \in Stimuli : queues[q] = NoEntries /\ queues[q].entries = <<>>
  BY DEF Init, NoEntries
<1>3. TypeOK
  <2>1. NoEntries \in [entries : Seq(Stimuli), draining : BOOLEAN]
    BY DEF NoEntries
  <2>2. QueueTypes
    BY <2>1 DEF Init, QueueTypes
  <2>3. WorkerTypes
    BY IdleOK DEF Init, WorkerTypes, WorkerOK
  <2>4. OtherTypes
    <3>1. /\ phase = "idle" /\ booting = FALSE /\ listening = FALSE
          /\ accepted = 0 /\ ticket \in [Stimuli -> Nat]
      BY DEF Init
    <3>2. state \in [Lives -> SUBSET Stimuli] /\ applied \in [Lives -> SUBSET Stimuli]
      BY DEF Init
    <3>3. faults \in 0..MaxFaults
      BY FaultsAssumption DEF Init
    <3>4. QED
      BY <3>1, <3>2, <3>3 DEF OtherTypes
  <2>5. QED
    BY <2>2, <2>3, <2>4, TypeParts
<1>4. QueuesOK
  <2>1. \A h \in Habitats : queueOf[h] = None
    BY DEF Init
  <2>2. QED
    BY <1>1, <1>2, <2>1 DEF QueuesOK, HabitatSerial
<1>5. TicketsOK
  BY <1>2 DEF Init, TicketsOK, InOrder
<1>6. QED
  BY <1>3, <1>4, <1>5

\* Types, the agreement of queues and drain loops, and their order.
LEMMA QueuesInvariant == Spec => [](TypeOK /\ QueuesOK /\ TicketsOK)
<1>1. TypeOK /\ QueuesOK /\ TicketsOK /\ [Next]_vars => (TypeOK /\ QueuesOK /\ TicketsOK)'
  BY NextTypes, StepShape, StepQueues, StepTickets
<1>2. QED
  BY <1>1, InitRuntime, PTL DEF Spec

\* Type correctness of the runtime, for any stimuli, habitats and lives.
THEOREM RuntimeTypeCorrect == Spec => []TypeOK
BY QueuesInvariant, PTL

\* One stimulus of a habitat is processed at a time (the draining flag and the
\* deletion of the map entry in drainStimulusQueue()).
THEOREM OneAtATime == Spec => []HabitatSerial
<1>1. QueuesOK => HabitatSerial
  BY DEF QueuesOK
<1>2. QED
  BY <1>1, QueuesInvariant, PTL

-----------------------------------------------------------------------------
(***************************************************************************)
(* No lost update of a life of one habitat.                                 *)
(***************************************************************************)
Reached(h, lives) == \A i \in DOMAIN lives : h \in Reaching(lives[i])

SavingPcs == {"ticked", "updating"}

\* w goes on, and is not about to save; the other drain loops stay as they are.
Moves(w) ==
  /\ \A v \in Stimuli \ {w} : worker'[v] = worker[v]
  /\ Working(w)' => /\ worker'[w].pc \notin SavingPcs
                    /\ Reached(HabitatOf[worker'[w].stim], worker'[w].rest)

\* What a drain loop is at, and what it has left, are lives its habitat reaches.
LEMMA RestReached ==
  ASSUME TypeOK, SeenOK, NEW w \in Stimuli, Working(w)
  PROVE  /\ Reached(HabOf(w), Routed(worker[w].stim))
         /\ worker[w].pc # "received" =>
              /\ HabOf(w) \in Reaching(LifeAt(w))
              /\ Reached(HabOf(w), Tail(worker[w].rest))
<1>1. HabOf(w) \in Habitats /\ Routed(worker[w].stim) = LivesOf[HabOf(w)]
  BY WorkerType DEF HabOf, Routed
<1>2. Reached(HabOf(w), Routed(worker[w].stim))
  BY <1>1 DEF Reached, Reaching, ToSet
<1>3. ASSUME worker[w].pc # "received"
      PROVE  /\ HabOf(w) \in Reaching(LifeAt(w))
             /\ Reached(HabOf(w), Tail(worker[w].rest))
  <2>1. PICK rest \in Seq(Lives) : rest = worker[w].rest /\ rest # <<>>
    BY <1>3, RestType
  <2>2. \A i \in DOMAIN rest : HabOf(w) \in Reaching(rest[i])
    BY <2>1 DEF SeenOK, HabOf
  <2>3. Head(rest) = rest[1] /\ 1 \in DOMAIN rest
    BY <2>1
  <2>4. \A i \in DOMAIN Tail(rest) : i + 1 \in DOMAIN rest /\ Tail(rest)[i] = rest[i + 1]
    BY <2>1
  <2>5. QED
    BY <2>1, <2>2, <2>3, <2>4 DEF LifeAt, Reached
<1>4. QED
  BY <1>2, <1>3

LEMMA DrainMoves ==
  ASSUME TypeOK, QueuesOK, NEW w \in Stimuli, Working(w), Drain(w)
  PROVE  Moves(w)
<1>1. worker \in [Stimuli -> WorkerRecords]
  BY WorkerType
<1>2. CASE Ends(w)
  BY <1>1, <1>2 DEF Ends, Moves, Working, Idle
<1>3. CASE Turns(w)
  <2>1. PICK q, s : worker' = [worker EXCEPT ![w] = Processing(q, s)]
    BY <1>3 DEF Turns
  <2>2. Processing(q, s).pc = "received" /\ Processing(q, s).rest = <<>>
    BY DEF Processing, Idle
  <2>3. QED
    BY <1>1, <2>1, <2>2 DEF Moves, SavingPcs, Reached
<1>4. QED
  BY <1>2, <1>3, DrainShape

LEMMA GotoMoves ==
  ASSUME TypeOK, NEW w \in Stimuli, Working(w), NEW pc \in BusyPcs \ SavingPcs,
         NEW rest \in Seq(Lives), Reached(HabOf(w), rest), Goto(w, pc, rest)
  PROVE  Moves(w)
<1>1. /\ \A v \in Stimuli \ {w} : worker'[v] = worker[v]
      /\ worker'[w] = [worker[w] EXCEPT !.pc = pc, !.rest = rest, !.seen = {}]
      /\ worker[w] \in BusyRecords
  BY WorkerType DEF Goto
<1>2. worker'[w].pc = pc /\ worker'[w].rest = rest /\ worker'[w].stim = worker[w].stim
  BY <1>1 DEF BusyRecords
<1>3. QED
  BY <1>1, <1>2 DEF Moves, HabOf

LEMMA LiveMoves ==
  ASSUME TypeOK, QueuesOK, NEW w \in Stimuli, Working(w), NEW rest \in Seq(Lives),
         Reached(HabOf(w), rest), Live(w, rest)
  PROVE  Moves(w)
<1>1. "living" \in BusyPcs \ SavingPcs
  BY DEF BusyPcs, SavingPcs
<1>2. QED
  BY <1>1, DrainMoves, GotoMoves DEF Live

\* A step that saves nothing.
LEMMA MovesSeen ==
  ASSUME SeenOK, OwnStateKept, NEW w \in Stimuli, Moves(w), UNCHANGED stateVars
  PROVE  SeenOK' /\ OwnStateKept'
<1>1. OwnStateKept'
  BY DEF OwnStateKept, stateVars
<1>2. ASSUME NEW v \in Stimuli, Working(v)'
      PROVE  /\ \A i \in DOMAIN worker'[v].rest :
                  HabitatOf[worker'[v].stim] \in Reaching(worker'[v].rest[i])
             /\ worker'[v].pc \in {"ticked", "updating"} /\ Own(LifeAt(v)')
                  => worker'[v].seen = state'[LifeAt(v)']
  <2>1. CASE v = w
    BY <1>2, <2>1 DEF Moves, Reached, SavingPcs
  <2>2. CASE v # w
    BY <1>2, <2>2 DEF Moves, SeenOK, Working, LifeAt, stateVars
  <2>3. QED
    BY <2>1, <2>2
<1>3. QED
  BY <1>1, <1>2 DEF SeenOK

\* A read-modify-write ends.  Were another drain loop about to save the state
\* of the same life, its habitat would be another one that reaches the life.
LEMMA WriteSeen ==
  ASSUME TypeOK, HabitatSerial, SeenOK, OwnStateKept, NEW w \in Stimuli,
         worker[w].pc \in SavingPcs, Write(w), Moves(w)
  PROVE  SeenOK' /\ OwnStateKept'
<1> DEFINE l == LifeAt(w)
           s == worker[w].stim
<1>0. Working(w) /\ worker[w].pc # "received"
  BY DEF Working, SavingPcs
<1>1. l \in Lives /\ HabOf(w) \in Reaching(l)
  BY <1>0, RestType, RestReached
<1>2. /\ state'[l] = worker[w].seen \cup {s}
      /\ applied'[l] = applied[l] \cup {s}
      /\ \A k \in Lives \ {l} : state'[k] = state[k] /\ applied'[k] = applied[k]
  BY <1>1 DEF Write, TypeOK
<1>3. Own(l) => worker[w].seen = state[l]
  BY <1>0 DEF SeenOK, SavingPcs
<1>4. ASSUME NEW k \in Lives, Own(k)
      PROVE  applied'[k] \subseteq state'[k]
  <2>1. CASE k = l
    BY <2>1, <1>2, <1>3, <1>4 DEF OwnStateKept
  <2>2. CASE k # l
    BY <2>2, <1>2, <1>4 DEF OwnStateKept
  <2>3. QED
    BY <2>1, <2>2
<1>5. ASSUME NEW v \in Stimuli, Working(v)'
      PROVE  /\ \A i \in DOMAIN worker'[v].rest :
                  HabitatOf[worker'[v].stim] \in Reaching(worker'[v].rest[i])
             /\ worker'[v].pc \in {"ticked", "updating"} /\ Own(LifeAt(v)')
                  => worker'[v].seen = state'[LifeAt(v)']
  <2>1. CASE v = w
    BY <1>5, <2>1 DEF Moves, Reached, SavingPcs
  <2>2. CASE v # w
    <3>1. worker'[v] = worker[v] /\ Working(v) /\ LifeAt(v)' = LifeAt(v)
      BY <1>5, <2>2 DEF Moves, Working, LifeAt
    <3>2. ASSUME worker[v].pc \in SavingPcs, Own(LifeAt(v))
          PROVE  worker[v].seen = state'[LifeAt(v)]
      <4>1. worker[v].pc # "received"
        BY <3>2 DEF SavingPcs
      <4>2. LifeAt(v) \in Lives /\ HabOf(v) \in Reaching(LifeAt(v))
        BY <3>1, <4>1, RestType, RestReached
      <4>3. LifeAt(v) # l
        <5>1. SUFFICES ASSUME LifeAt(v) = l PROVE FALSE
          OBVIOUS
        <5>2. HabOf(v) = HabOf(w)
          BY <5>1, <3>2, <4>2, <1>1 DEF Own
        <5>3. QED
          BY <5>2, <3>1, <1>0, <2>2 DEF HabitatSerial, HabOf
      <4>4. worker[v].seen = state[LifeAt(v)]
        BY <3>1, <3>2 DEF SeenOK, SavingPcs
      <4>5. QED
        BY <4>2, <4>3, <4>4, <1>2
    <3>3. QED
      BY <3>1, <3>2 DEF SeenOK, SavingPcs
  <2>3. QED
    BY <2>1, <2>2
<1>6. OwnStateKept'
  BY <1>4 DEF OwnStateKept
<1>7. QED
  BY <1>5, <1>6 DEF SeenOK

\* A read-modify-write begins.
LEMMA ReadSeen ==
  ASSUME TypeOK, SeenOK, OwnStateKept, NEW w \in Stimuli, Working(w),
         worker[w].pc # "received", NEW pc \in SavingPcs, Read(w, pc)
  PROVE  SeenOK' /\ OwnStateKept'
<1>1. worker \in [Stimuli -> WorkerRecords] /\ worker[w] \in BusyRecords
  BY WorkerType
<1>2. worker'[w] = [worker[w] EXCEPT !.pc = pc, !.seen = state[LifeAt(w)]]
  BY <1>1 DEF Read
<1>3. \A v \in Stimuli \ {w} : worker'[v] = worker[v]
  BY <1>1 DEF Read
<1>4. /\ worker'[w].rest = worker[w].rest /\ worker'[w].stim = worker[w].stim
      /\ worker'[w].seen = state[LifeAt(w)] /\ LifeAt(w)' = LifeAt(w)
  BY <1>1, <1>2 DEF BusyRecords, LifeAt
<1>5. state' = state /\ applied' = applied
  BY DEF Read, stateVars
<1>6. OwnStateKept'
  BY <1>5 DEF OwnStateKept
<1>7. ASSUME NEW v \in Stimuli, Working(v)'
      PROVE  /\ \A i \in DOMAIN worker'[v].rest :
                  HabitatOf[worker'[v].stim] \in Reaching(worker'[v].rest[i])
             /\ worker'[v].pc \in {"ticked", "updating"} /\ Own(LifeAt(v)')
                  => worker'[v].seen = state'[LifeAt(v)']
  <2>1. CASE v = w
    BY <2>1, <1>4, <1>5 DEF SeenOK
  <2>2. CASE v # w
    BY <1>7, <2>2, <1>3, <1>5 DEF SeenOK, Working, LifeAt
  <2>3. QED
    BY <2>1, <2>2
<1>8. QED
  BY <1>6, <1>7 DEF SeenOK

LEMMA WorkerStepSeen ==
  ASSUME TypeOK, QueuesOK, SeenOK, OwnStateKept, NEW w \in Stimuli, WorkerStep(w)
  PROVE  SeenOK' /\ OwnStateKept'
<1>0. /\ Working(w) /\ HabitatSerial
      /\ Routed(worker[w].stim) \in Seq(Lives) /\ Reached(HabOf(w), Routed(worker[w].stim))
  BY WorkerStepShape, RestType, RestReached DEF QueuesOK
<1>1. worker[w].pc # "received" =>
        /\ Tail(worker[w].rest) \in Seq(Lives)
        /\ Reached(HabOf(w), Tail(worker[w].rest))
  BY <1>0, RestType, RestReached
<1>2. "ticking" \in BusyPcs \ SavingPcs /\ {"ticked", "updating"} = SavingPcs
  BY DEF BusyPcs, SavingPcs
<1>3. CASE Route(w)
  BY <1>0, <1>2, <1>3, GotoMoves, LiveMoves, MovesSeen DEF Route
<1>4. CASE TickRead(w)
  BY <1>0, <1>2, <1>4, ReadSeen DEF TickRead
<1>5. CASE TickSave(w)
  <2>1. worker[w].pc \in SavingPcs /\ worker[w].pc # "received" /\ Write(w)
    BY <1>2, <1>5 DEF TickSave
  <2>2. Moves(w)
    BY <1>0, <1>1, <1>2, <1>5, <2>1, GotoMoves, LiveMoves DEF TickSave
  <2>3. QED
    BY <1>0, <2>1, <2>2, WriteSeen
<1>6. CASE TickFails(w)
  BY <1>0, <1>6, LiveMoves, MovesSeen DEF TickFails
<1>7. CASE UpdateRead(w)
  BY <1>0, <1>2, <1>7, ReadSeen DEF UpdateRead
<1>8. CASE UpdateSave(w)
  <2>1. worker[w].pc \in SavingPcs /\ worker[w].pc # "received" /\ Write(w)
    BY <1>2, <1>8 DEF UpdateSave
  <2>2. Moves(w)
    BY <1>0, <1>1, <1>8, <2>1, LiveMoves DEF UpdateSave
  <2>3. QED
    BY <1>0, <2>1, <2>2, WriteSeen
<1>9. CASE UpdateFails(w)
  BY <1>0, <1>1, <1>9, LiveMoves, MovesSeen DEF UpdateFails
<1>10. CASE LifeEnds(w)
  BY <1>0, <1>1, <1>10, LiveMoves, MovesSeen DEF LifeEnds
<1>11. CASE HookThrows(w)
  BY <1>0, <1>11, DrainMoves, MovesSeen DEF HookThrows
<1>12. QED
  BY <1>3, <1>4, <1>5, <1>6, <1>7, <1>8, <1>9, <1>10, <1>11 DEF WorkerStep

LEMMA ReceiveSeen ==
  ASSUME TypeOK, QueuesOK, SeenOK, OwnStateKept, NEW s \in Stimuli, Receive(s)
  PROVE  SeenOK' /\ OwnStateKept'
<1>1. ~Working(s) /\ worker \in [Stimuli -> WorkerRecords]
  BY WorkerType DEF Receive, QueuesOK
<1>2. CASE Begins(s)
  <2>1. Processing(s, s).pc = "received" /\ Processing(s, s).rest = <<>>
    BY DEF Processing, Idle
  <2>2. worker' = [worker EXCEPT ![s] = Processing(s, s)]
    BY <1>2 DEF Begins
  <2>3. Moves(s)
    BY <1>1, <2>1, <2>2 DEF Moves, SavingPcs, Reached
  <2>4. QED
    BY <2>3, MovesSeen DEF Receive
<1>3. CASE Joins(s)
  <2>1. Moves(s)
    BY <1>1, <1>3 DEF Joins, Moves, Working
  <2>2. QED
    BY <2>1, MovesSeen DEF Receive
<1>4. QED
  BY <1>2, <1>3, ReceiveShape

LEMMA NextSeen ==
  ASSUME TypeOK, QueuesOK, SeenOK, OwnStateKept, [Next]_vars
  PROVE  SeenOK' /\ OwnStateKept'
<1>1. CASE worker' = worker /\ state' = state /\ applied' = applied
  BY <1>1 DEF SeenOK, OwnStateKept, Working, LifeAt
<1>2. CASE \E s \in Stimuli : Receive(s)
  BY <1>2, ReceiveSeen
<1>3. CASE \E w \in Stimuli : WorkerStep(w)
  BY <1>3, WorkerStepSeen
<1>4. QED
  <2>1. LifecycleStep => worker' = worker /\ state' = state /\ applied' = applied
    BY DEF LifecycleStep, Start, Run, Listen, Stop, Stopped, Lifecycle, stateVars
  <2>2. (\E s \in Stimuli : Ignore(s))
           => worker' = worker /\ state' = state /\ applied' = applied
    BY DEF Ignore, stateVars
  <2>3. UNCHANGED vars => worker' = worker /\ state' = state /\ applied' = applied
    BY DEF vars, stateVars
  <2>4. QED
    BY <1>1, <1>2, <1>3, <2>1, <2>2, <2>3 DEF Next

\* The conjunction of the invariants is one.
THEOREM RuntimeInvariant == Spec => []RuntimeInv
<1>1. Init => SeenOK /\ OwnStateKept
  BY DEF Init, SeenOK, OwnStateKept, Working, Idle
<1>2. RuntimeInv /\ [Next]_vars => RuntimeInv'
  BY NextTypes, StepShape, StepQueues, StepTickets, NextSeen DEF RuntimeInv
<1>3. Init => RuntimeInv
  BY <1>1, InitRuntime DEF RuntimeInv
<1>4. QED
  BY <1>2, <1>3, PTL DEF Spec

\* No read-modify-write of the state of a life of one habitat is lost: ticks
\* and updates of such a life only run in the drain loop of its habitat.
THEOREM OwnStatesKept == Spec => []OwnStateKept
<1>1. RuntimeInv => OwnStateKept
  BY DEF RuntimeInv
<1>2. QED
  BY <1>1, RuntimeInvariant, PTL

-----------------------------------------------------------------------------
(***************************************************************************)
(* The queues implement the priority server.                                *)
(***************************************************************************)
Waiting == [h \in Habitats |-> EntriesOf(h)]
Serving == [h \in Habitats |-> ServedBy(h)]

LEMMA OneMember ==
  ASSUME NEW S, NEW x, S = {x}
  PROVE  (CHOOSE y \in S : TRUE) = x
OBVIOUS

\* What the habitat of a drain loop, and one without, serve.
LEMMA ServedIs ==
  ASSUME HabitatSerial, NEW w \in Stimuli, Working(w)
  PROVE  /\ WorkersOf(HabOf(w)) = {w}
         /\ ServedBy(HabOf(w)) = worker[w].stim
<1>1. WorkersOf(HabOf(w)) = {w}
  BY DEF WorkersOf, HabOf, HabitatSerial
<1>2. (CHOOSE v \in WorkersOf(HabOf(w)) : TRUE) = w
  BY <1>1, OneMember
<1>3. QED
  BY <1>1, <1>2 DEF ServedBy

LEMMA IdleHabitat ==
  ASSUME TypeOK, QueuesOK, NEW h \in Habitats
  PROVE  /\ queueOf[h] = None <=> ServedBy(h) = None
         /\ queueOf[h] = None <=> WorkersOf(h) = {}
<1>1. ASSUME queueOf[h] = None
      PROVE  WorkersOf(h) = {}
  <2>1. SUFFICES ASSUME NEW w \in WorkersOf(h) PROVE FALSE
    OBVIOUS
  <2>2. w \in Stimuli /\ Working(w) /\ HabOf(w) = h
    BY <2>1 DEF WorkersOf, HabOf
  <2>3. QED
    BY <1>1, <2>2, DrainLoop, ConstantTypes
<1>2. ASSUME queueOf[h] # None
      PROVE  ServedBy(h) # None /\ WorkersOf(h) # {}
  <2>1. WorkersOf(h) # {}
    BY <1>2 DEF QueuesOK
  <2>2. PICK w \in Stimuli : Working(w) /\ HabOf(w) = h
    BY <2>1 DEF WorkersOf, HabOf
  <2>3. ServedBy(h) = worker[w].stim
    BY <2>2, ServedIs DEF QueuesOK
  <2>4. QED
    BY <2>1, <2>2, <2>3, DrainLoop, ConstantTypes
<1>3. QED
  BY <1>1, <1>2 DEF ServedBy

\* The drain loops of a habitat go on with what they serve.
LEMMA SameServed ==
  ASSUME NEW g \in Habitats, WorkersOf(g)' = WorkersOf(g),
         \A v \in WorkersOf(g) : worker'[v].stim = worker[v].stim
  PROVE  ServedBy(g)' = ServedBy(g)
<1>1. CASE WorkersOf(g) = {}
  BY <1>1 DEF ServedBy
<1>2. CASE WorkersOf(g) # {}
  <2>1. PICK w \in WorkersOf(g) : w = CHOOSE v \in WorkersOf(g) : TRUE
    BY <1>2
  <2>2. (CHOOSE v \in WorkersOf(g) : TRUE)' = w
    BY <2>1
  <2>3. QED
    BY <1>2, <2>1, <2>2 DEF ServedBy
<1>3. QED
  BY <1>1, <1>2

\* A step that serves the same stimuli from the same queues.
LEMMA CalmMaps ==
  ASSUME Calm
  PROVE  UNCHANGED <<ticket, accepted, Waiting, Serving>>
<1>1. \A h \in Habitats : EntriesOf(h)' = EntriesOf(h)
  BY DEF Calm, EntriesOf
<1>2. ASSUME NEW h \in Habitats
      PROVE  ServedBy(h)' = ServedBy(h)
  <2>1. WorkersOf(h)' = WorkersOf(h) /\ WorkersOf(h) \subseteq Stimuli
    BY DEF Calm, Keeps, WorkersOf, Working
  <2>2. \A v \in WorkersOf(h) : worker'[v].stim = worker[v].stim
    BY <2>1 DEF Calm, Keeps
  <2>3. QED
    BY <2>1, <2>2, SameServed
<1>3. QED
  BY <1>1, <1>2 DEF Calm, Waiting, Serving

\* A habitat that a step leaves alone.
LEMMA SameHabitat ==
  ASSUME NEW g \in Habitats, queueOf'[g] = queueOf[g],
         queueOf[g] # None => queues'[queueOf[g]].entries = queues[queueOf[g]].entries,
         WorkersOf(g)' = WorkersOf(g),
         \A v \in WorkersOf(g) : worker'[v].stim = worker[v].stim
  PROVE  EntriesOf(g)' = EntriesOf(g) /\ ServedBy(g)' = ServedBy(g)
<1>1. EntriesOf(g)' = EntriesOf(g)
  BY DEF EntriesOf
<1>2. QED
  BY <1>1, SameServed

\* A queue object serves the habitat it was created for.
LEMMA QueueHabitat ==
  ASSUME TypeOK, QueuesOK, NEW g \in Habitats, queueOf[g] # None
  PROVE  queueOf[g] \in Stimuli /\ HabitatOf[queueOf[g]] = g
<1>1. queueOf[g] \in Stimuli
  BY DEF TypeOK
<1>2. QED
  BY <1>1 DEF QueuesOK

LEMMA NewServed ==
  ASSUME NEW g \in Habitats, NEW w \in Stimuli, WorkersOf(g)' = {w}
  PROVE  ServedBy(g)' = worker'[w].stim
<1>1. (CHOOSE v \in WorkersOf(g) : TRUE)' = w
  BY OneMember
<1>2. QED
  BY <1>1 DEF ServedBy

\* Receive(s) where nothing is served: the server takes s up.
LEMMA BeginsMaps ==
  ASSUME TypeOK, QueuesOK, NEW s \in Stimuli, status[s] = "new", Begins(s)
  PROVE  /\ Serving[HabitatOf[s]] = None /\ UNCHANGED Waiting
         /\ Serving' = [Serving EXCEPT ![HabitatOf[s]] = s]
<1> DEFINE h == HabitatOf[s]
<1>0. /\ h \in Habitats /\ s # None /\ ~Working(s) /\ queueOf[h] = None
      /\ ServedBy(h) = None /\ WorkersOf(h) = {}
  BY ConstantTypes, IdleHabitat DEF Begins, QueuesOK
<1>1. /\ queueOf'[h] = s /\ \A g \in Habitats \ {h} : queueOf'[g] = queueOf[g]
      /\ queues'[s].entries = <<>>
      /\ \A q \in Stimuli \ {s} : queues'[q] = queues[q]
      /\ worker'[s].stim = s /\ Working(s)'
      /\ \A v \in Stimuli \ {s} : worker'[v] = worker[v]
  BY <1>0 DEF Begins, TypeOK, Working, Processing, Idle
<1>2. WorkersOf(h)' = {s}
  <2>1. \A v \in Stimuli \ {s} : ~(Working(v)' /\ HabitatOf[worker'[v].stim] = h)
    BY <1>0, <1>1 DEF WorkersOf, Working
  <2>2. QED
    BY <2>1, <1>1 DEF WorkersOf
<1>3. ServedBy(h)' = s
  BY <1>0, <1>1, <1>2, NewServed
<1>4. EntriesOf(h) = {} /\ EntriesOf(h)' = {}
  BY <1>0, <1>1 DEF EntriesOf, ToSet
<1>5. ASSUME NEW g \in Habitats \ {h}
      PROVE  EntriesOf(g)' = EntriesOf(g) /\ ServedBy(g)' = ServedBy(g)
  <2>1. WorkersOf(g)' = WorkersOf(g) /\ s \notin WorkersOf(g)
    BY <1>0, <1>1 DEF WorkersOf, Working
  <2>2. queueOf[g] # None => queueOf[g] \in Stimuli /\ queueOf[g] # s
    BY QueueHabitat
  <2>3. \A v \in WorkersOf(g) : worker'[v].stim = worker[v].stim
    BY <1>1, <2>1 DEF WorkersOf
  <2>4. QED
    BY <1>1, <2>1, <2>2, <2>3, SameHabitat
<1>6. QED
  BY <1>0, <1>3, <1>4, <1>5 DEF Waiting, Serving

\* Receive(s) where something is served: s waits.
LEMMA JoinsMaps ==
  ASSUME TypeOK, QueuesOK, NEW s \in Stimuli, Joins(s)
  PROVE  /\ Serving[HabitatOf[s]] # None /\ UNCHANGED Serving
         /\ Waiting' = [Waiting EXCEPT ![HabitatOf[s]] = @ \cup {s}]
<1> DEFINE h == HabitatOf[s]
<1>0. h \in Habitats /\ queueOf[h] \in Stimuli /\ queueOf[h] # None /\ ServedBy(h) # None
  BY ConstantTypes, IdleHabitat DEF Joins, TypeOK
<1>1. PICK e \in Seq(Stimuli) : e = queues[queueOf[h]].entries
  BY <1>0, QueueType
<1>2. /\ queueOf' = queueOf /\ worker' = worker
      /\ queues'[queueOf[h]].entries = Inserted(e, s)
      /\ \A q \in Stimuli \ {queueOf[h]} : queues'[q] = queues[q]
  BY <1>0, <1>1 DEF Joins, TypeOK
<1>3. EntriesOf(h) = ToSet(e) /\ EntriesOf(h)' = ToSet(e) \cup {s}
  BY <1>0, <1>1, <1>2, InsertedElements DEF EntriesOf
<1>4. \A g \in Habitats : WorkersOf(g)' = WorkersOf(g)
  BY <1>2 DEF WorkersOf, Working
<1>5. \A g \in Habitats : ServedBy(g)' = ServedBy(g)
  BY <1>2, <1>4, SameServed
<1>6. ASSUME NEW g \in Habitats \ {h}
      PROVE  EntriesOf(g)' = EntriesOf(g)
  <2>1. queueOf[g] # None => queueOf[g] \in Stimuli /\ queueOf[g] # queueOf[h]
    BY <1>0, QueueHabitat
  <2>2. QED
    BY <1>2, <2>1 DEF EntriesOf
<1>7. QED
  BY <1>0, <1>3, <1>5, <1>6 DEF Waiting, Serving

LEMMA ReceiveMaps ==
  ASSUME TypeOK, QueuesOK, TicketsOK, NEW s \in Stimuli, Receive(s)
  PROVE  Server!Accept(s)
<1>1. /\ ticket[s] = 0 /\ accepted' = accepted + 1
      /\ ticket' = [ticket EXCEPT ![s] = accepted + 1]
  BY DEF Receive, TicketsOK
<1>2. CASE Begins(s)
  BY <1>1, <1>2, BeginsMaps DEF Receive, Server!Accept, Waiting, Serving
<1>3. CASE Joins(s)
  BY <1>1, <1>3, JoinsMaps DEF Server!Accept, Waiting, Serving
<1>4. QED
  BY <1>2, <1>3, ReceiveShape

\* Drain(w) with an empty queue: the habitat is left idle.
LEMMA EndsMaps ==
  ASSUME TypeOK, QueuesOK, NEW w \in Stimuli, Working(w), Ends(w)
  PROVE  /\ Serving[HabOf(w)] # None /\ Waiting[HabOf(w)] = {} /\ UNCHANGED Waiting
         /\ Serving' = [Serving EXCEPT ![HabOf(w)] = None]
<1>0. PICK h \in Habitats, q \in Stimuli :
        /\ h = HabOf(w) /\ q = queueOf[h] /\ q # None /\ worker[w].queue = q
        /\ ServedBy(h) # None /\ WorkersOf(h) = {w}
  <2>1. /\ HabOf(w) \in Habitats /\ queueOf[HabOf(w)] \in Stimuli
        /\ worker[w].queue = queueOf[HabOf(w)]
    BY DrainLoop
  <2>2. queueOf[HabOf(w)] # None
    BY <2>1, ConstantTypes
  <2>3. WorkersOf(HabOf(w)) = {w} /\ ServedBy(HabOf(w)) # None
    BY <2>1, <2>2, IdleHabitat, ServedIs DEF QueuesOK
  <2>4. QED
    BY <2>1, <2>2, <2>3
<1>1. /\ queueOf'[h] = None /\ \A g \in Habitats \ {h} : queueOf'[g] = queueOf[g]
      /\ queues[q].entries = <<>>
      /\ \A p \in Stimuli \ {q} : queues'[p] = queues[p]
      /\ ~Working(w)' /\ \A v \in Stimuli \ {w} : worker'[v] = worker[v]
  BY <1>0 DEF Ends, TypeOK, Working, Idle
<1>2. WorkersOf(h)' = {}
  BY <1>0, <1>1 DEF WorkersOf, Working
<1>3. ServedBy(h)' = None
  BY <1>2 DEF ServedBy
<1>4. EntriesOf(h) = {} /\ EntriesOf(h)' = {}
  BY <1>0, <1>1 DEF EntriesOf, ToSet
<1>5. ASSUME NEW g \in Habitats \ {h}
      PROVE  EntriesOf(g)' = EntriesOf(g) /\ ServedBy(g)' = ServedBy(g)
  <2>1. w \notin WorkersOf(g)
    BY <1>0 DEF WorkersOf, HabOf
  <2>2. WorkersOf(g)' = WorkersOf(g)
    BY <1>1, <2>1 DEF WorkersOf, Working
  <2>3. queueOf[g] # None => queueOf[g] \in Stimuli /\ queueOf[g] # q
    BY <1>0, QueueHabitat
  <2>4. \A v \in WorkersOf(g) : worker'[v].stim = worker[v].stim
    BY <1>1, <2>1 DEF WorkersOf
  <2>5. QED
    BY <1>1, <2>2, <2>3, <2>4, SameHabitat
<1>6. QED
  BY <1>0, <1>3, <1>4, <1>5 DEF Waiting, Serving

\* Nothing goes before itself, so the first entry occurs once.
LEMMA HeadOfOrder ==
  ASSUME NEW e \in Seq(Stimuli), e # <<>>, InOrder(e), ticket \in [Stimuli -> Nat]
  PROVE  /\ Head(e) \in ToSet(e) /\ ToSet(Tail(e)) = ToSet(e) \ {Head(e)}
         /\ \A t \in ToSet(e) \ {Head(e)} : Server!Before(Head(e), t)
<1>1. /\ Len(e) \in Nat /\ DOMAIN e = 1..Len(e) /\ 1 \in DOMAIN e /\ Head(e) = e[1]
      /\ \A i \in DOMAIN e : e[i] \in Stimuli
  OBVIOUS
<1>2. /\ DOMAIN Tail(e) = 1..(Len(e) - 1)
      /\ \A i \in DOMAIN Tail(e) : Tail(e)[i] = e[i + 1] /\ i + 1 \in DOMAIN e /\ i + 1 # 1
  OBVIOUS
<1>3. \A i \in DOMAIN e : i # 1 => Server!Before(e[1], e[i])
  <2>1. ASSUME NEW i \in DOMAIN e, i # 1 PROVE Server!Before(e[1], e[i])
    <3>1. 1 < i
      BY <1>1, <2>1
    <3>2. QED
      BY <1>1, <3>1 DEF InOrder
  <2>2. QED
    BY <2>1
<1>4. \A s \in Stimuli : ~Server!Before(s, s)
  BY ConstantTypes DEF Server!Before
<1>5. \A i \in DOMAIN e : i # 1 => e[i] # e[1]
  BY <1>1, <1>3, <1>4
<1>6. ToSet(Tail(e)) \subseteq ToSet(e) \ {Head(e)}
  BY <1>1, <1>2, <1>5 DEF ToSet
<1>7. ASSUME NEW t \in ToSet(e) \ {Head(e)}
      PROVE  t \in ToSet(Tail(e)) /\ Server!Before(Head(e), t)
  <2>1. PICK i \in DOMAIN e : e[i] = t /\ i # 1
    BY <1>1 DEF ToSet
  <2>2. i - 1 \in DOMAIN Tail(e) /\ Tail(e)[i - 1] = e[i]
    BY <1>1, <1>2, <2>1
  <2>3. QED
    BY <1>1, <1>3, <2>1, <2>2 DEF ToSet
<1>8. Head(e) \in ToSet(e)
  BY <1>1 DEF ToSet
<1>9. QED
  BY <1>6, <1>7, <1>8

\* Drain(w) with entries: the habitat turns to the first one.
LEMMA TurnsMaps ==
  ASSUME TypeOK, QueuesOK, TicketsOK, NEW w \in Stimuli, Working(w), Turns(w)
  PROVE  /\ Serving[HabOf(w)] # None
         /\ \E s \in Waiting[HabOf(w)] :
              /\ \A t \in Waiting[HabOf(w)] \ {s} : Server!Before(s, t)
              /\ Serving' = [Serving EXCEPT ![HabOf(w)] = s]
              /\ Waiting' = [Waiting EXCEPT ![HabOf(w)] = @ \ {s}]
<1>0. PICK h \in Habitats, q \in Stimuli, e \in Seq(Stimuli) :
        /\ h = HabOf(w) /\ q = queueOf[h] /\ q # None /\ worker[w].queue = q
        /\ e = queues[q].entries
        /\ \A i \in DOMAIN e : HabitatOf[e[i]] = h
  <2>1. /\ HabOf(w) \in Habitats /\ queueOf[HabOf(w)] \in Stimuli
        /\ worker[w].queue = queueOf[HabOf(w)]
        /\ \A i \in DOMAIN queues[queueOf[HabOf(w)]].entries :
             HabitatOf[queues[queueOf[HabOf(w)]].entries[i]] = HabOf(w)
    BY DrainLoop
  <2>2. queueOf[HabOf(w)] # None /\ queues[queueOf[HabOf(w)]].entries \in Seq(Stimuli)
    BY <2>1, ConstantTypes, QueueType
  <2>3. QED
    BY <2>1, <2>2
<1>1. /\ e # <<>> /\ queueOf' = queueOf
      /\ queues'[q].entries = Tail(e)
      /\ \A p \in Stimuli \ {q} : queues'[p] = queues[p]
      /\ worker'[w] = Processing(q, Head(e))
      /\ \A v \in Stimuli \ {w} : worker'[v] = worker[v]
  BY <1>0 DEF Turns, TypeOK
<1>2. /\ Head(e) \in ToSet(e) /\ ToSet(Tail(e)) = ToSet(e) \ {Head(e)}
      /\ \A t \in ToSet(e) \ {Head(e)} : Server!Before(Head(e), t)
  BY <1>0, <1>1, HeadOfOrder DEF TicketsOK, TypeOK
<1>3. Working(w)' /\ worker'[w].stim = Head(e) /\ HabitatOf[Head(e)] = h
  BY <1>0, <1>1 DEF Processing, Idle, Working
<1>4. WorkersOf(h) = {w} /\ ServedBy(h) # None
  BY <1>0, ServedIs, IdleHabitat DEF QueuesOK
<1>5. ASSUME NEW g \in Habitats
      PROVE  WorkersOf(g)' = WorkersOf(g)
  <2>1. w \in WorkersOf(g)' <=> w \in WorkersOf(g)
    BY <1>0, <1>3 DEF WorkersOf, HabOf
  <2>2. \A v \in Stimuli \ {w} : v \in WorkersOf(g)' <=> v \in WorkersOf(g)
    BY <1>1 DEF WorkersOf, Working
  <2>3. \A v : v \in WorkersOf(g) \/ v \in WorkersOf(g)' => v \in Stimuli
    BY DEF WorkersOf
  <2>4. \A v : v \in WorkersOf(g)' <=> v \in WorkersOf(g)
    BY <2>1, <2>2, <2>3
  <2>5. QED
    BY <2>4
<1>6. ServedBy(h)' = Head(e)
  BY <1>3, <1>4, <1>5, NewServed
<1>7. EntriesOf(h) = ToSet(e) /\ EntriesOf(h)' = ToSet(e) \ {Head(e)}
  BY <1>0, <1>1, <1>2 DEF EntriesOf
<1>8. ASSUME NEW g \in Habitats \ {h}
      PROVE  EntriesOf(g)' = EntriesOf(g) /\ ServedBy(g)' = ServedBy(g)
  <2>1. w \notin WorkersOf(g)
    BY <1>0 DEF WorkersOf, HabOf
  <2>2. queueOf[g] # None => queueOf[g] \in Stimuli /\ queueOf[g] # q
    BY <1>0, QueueHabitat
  <2>3. \A v \in WorkersOf(g) : worker'[v].stim = worker[v].stim
    BY <1>1, <2>1 DEF WorkersOf
  <2>4. QED
    BY <1>1, <1>5, <2>2, <2>3, SameHabitat
<1>9. /\ Waiting[h] = ToSet(e) /\ Serving[h] # None
      /\ Serving' = [Serving EXCEPT ![h] = Head(e)]
      /\ Waiting' = [Waiting EXCEPT ![h] = ToSet(e) \ {Head(e)}]
  BY <1>4, <1>6, <1>7, <1>8 DEF Waiting, Serving
<1>10. QED
  BY <1>0, <1>2, <1>9

LEMMA DrainMaps ==
  ASSUME TypeOK, QueuesOK, TicketsOK, NEW w \in Stimuli, Working(w), Drain(w),
         UNCHANGED historyVars
  PROVE  Server!Turn(HabOf(w))
<1>1. ticket' = ticket /\ accepted' = accepted
  BY DEF historyVars
<1>2. CASE Ends(w)
  BY <1>1, <1>2, EndsMaps DEF Server!Turn, Waiting, Serving
<1>3. CASE Turns(w)
  BY <1>1, <1>3, TurnsMaps DEF Server!Turn, Waiting, Serving
<1>4. QED
  BY <1>2, <1>3, DrainShape

LEMMA InitMaps == Init => Server!Init
<1> SUFFICES ASSUME Init PROVE Server!Init
  OBVIOUS
<1>1. \A h \in Habitats : EntriesOf(h) = {}
  BY DEF Init, EntriesOf
<1>2. \A h \in Habitats : WorkersOf(h) = {}
  BY DEF Init, WorkersOf, Working, Idle
<1>3. \A h \in Habitats : ServedBy(h) = None
  BY <1>2 DEF ServedBy
<1>4. QED
  BY <1>1, <1>3 DEF Init, Server!Init

LEMMA StepMaps ==
  ASSUME TypeOK, QueuesOK, TicketsOK, [Next]_vars
  PROVE  [Server!Next]_(Server!vars)
<1>1. CASE Calm
  BY <1>1, CalmMaps DEF Server!vars, Waiting, Serving
<1>2. CASE \E s \in Stimuli : Receive(s)
  BY <1>2, ReceiveMaps DEF Server!Next
<1>3. CASE \E w \in Stimuli : Working(w) /\ Drain(w) /\ UNCHANGED historyVars
  <2>1. PICK w \in Stimuli : Working(w) /\ Drain(w) /\ UNCHANGED historyVars
    BY <1>3
  <2>2. Server!Turn(HabOf(w)) /\ HabOf(w) \in Habitats
    BY <2>1, DrainMaps, DrainLoop
  <2>3. QED
    BY <2>2 DEF Server!Next
<1>4. QED
  BY <1>1, <1>2, <1>3, StepShape DEF Step

\* The queues implement the priority server: receiveStimulus() accepts, the
\* end of a loop of drainStimulusQueue() is a turn, and nothing else shows.
THEOREM ServesInOrder == Spec => ServerSpec
<1>1. TypeOK /\ QueuesOK /\ TicketsOK /\ [Next]_vars => [Server!Next]_(Server!vars)
  BY StepMaps
<1>2. QED
  BY <1>1, InitMaps, QueuesInvariant, PTL DEF Spec, ServerSpec, Server!Spec
=============================================================================
