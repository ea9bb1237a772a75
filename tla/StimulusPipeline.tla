-------------------------- MODULE StimulusPipeline --------------------------
(***************************************************************************)
(* One stimulus on its way through the pipeline: PipelineRunner, the stage *)
(* order, RequestContextStore and TraceRecorder of @elysia-ai/kernel, as   *)
(* processStimulus() of the runtime uses them.                             *)
(*                                                                         *)
(* A stimulus passes two segments: the stages before the anchor once, the  *)
(* anchor and what follows once for each life it is routed to.  Every      *)
(* segment computes the stage order anew and reads the hooks of a stage    *)
(* when it gets there, while plugins come and go between any two awaits.   *)
(* StimulusRuntime models the queue in front of this, with one hook.       *)
(***************************************************************************)
EXTENDS Integers, Sequences, FiniteSets, SequencesExt

CONSTANTS
  Names,       \* every stage name, in lexical order
  Core,        \* the declarations of ELYSIA_PIPELINE_STAGES
  Anchor,      \* PHASE_BOUNDARY_STAGE
  CoreHooks,   \* the hooks of the main chain
  Plugins,     \* what each third-party plugin registers: [stage, hook]
  MaxLives,    \* the most lives the stimulus is routed to
  MaxChanges   \* how often plugins are applied and disposed

\* A declaration is [name, after, before], a hook [stage, owner, priority, isolate].
\* Contexts are numbered 0 to MaxLives.
None == MaxLives + 1

ASSUME MaxLivesAssumption == MaxLives \in Nat

\* What the declarations mention.
Known(decls) == UNION {{d.name} \cup d.after \cup d.before : d \in decls}

ASSUME NamesAssumption ==
  /\ Names \in Seq(ToSet(Names)) /\ IsInjective(Names)
  /\ Known(Core \cup {Plugins[p].stage : p \in DOMAIN Plugins}) \subseteq ToSet(Names)

\* Every hook is a closure of its own, so that no two of them are the same.
ASSUME HooksAssumption ==
  /\ CoreHooks \in Seq(ToSet(CoreHooks)) /\ IsInjective(CoreHooks)
  /\ \A i \in DOMAIN CoreHooks : CoreHooks[i].priority \in Int
  /\ \A p \in DOMAIN Plugins :
       /\ Plugins[p].hook.priority \in Int
       /\ Plugins[p].hook \notin ToSet(CoreHooks)
       /\ \A q \in DOMAIN Plugins : p # q => Plugins[p].hook # Plugins[q].hook

VARIABLES
  declared, \* runner.stages: the declarations the map holds
  hooked,   \* runner.hooks: [hook, seq]
  nextSeq,  \* runner.nextSeq
  applied,  \* for each plugin: has it been applied, and disposed since
  pc,       \* where processStimulus is
  run,      \* the pipeline.run() going on: [seg, order, hooks]
  lives,    \* how many lives it is routed to
  stopped,  \* the contexts stop() was called on
  written,  \* the contexts something was written to, with who wrote it
  store,    \* the contexts the store holds
  ran,      \* history: every hook called, [seg, hook, saw, how]
  traces,   \* history: the traces completed, in order
  began     \* history: what was registered as each segment began

runnerVars == <<declared, hooked, nextSeq, applied>>
stimulusVars == <<pc, run, lives, stopped, written, store, ran, traces, began>>
pipelineVars == <<runnerVars, stimulusVars>>

(***************************************************************************)
(* sortStages(): Kahn's algorithm; among the stages that may come next the *)
(* lexically first one does.                                               *)
(***************************************************************************)
Edges(decls) ==
  {e \in Known(decls) \X Known(decls) :
     /\ e[1] # e[2]
     /\ \E d \in decls : \/ e[2] = d.name /\ e[1] \in d.after
                         \/ e[1] = d.name /\ e[2] \in d.before}

Ready(pending, edges) == {n \in pending : \A m \in pending : <<m, n>> \notin edges}

Rank(name) == CHOOSE i \in DOMAIN Names : Names[i] = name
Lexical(set) == CHOOSE n \in set : \A m \in set : Rank(n) <= Rank(m)

\* One round: once nothing is ready the order stays as it is.
Extended(order, known, edges) ==
  LET next == Ready(known \ ToSet(order), edges)
  IN IF next = {} THEN order ELSE Append(order, Lexical(next))

Order(decls) ==
  LET ordered[n \in 0..Len(Names)] ==
        IF n = 0 THEN <<>> ELSE Extended(ordered[n - 1], Known(decls), Edges(decls))
  IN ordered[Len(Names)]

\* The PipelineTopologyError of a cycle: what is on it never gets ready.
Cyclic(decls) == ToSet(Order(decls)) # Known(decls)

(***************************************************************************)
(* splitStageOrder(): without the anchor everything is before it.          *)
(***************************************************************************)
AnchorAt(order) ==
  IF Anchor \in ToSet(order) THEN CHOOSE i \in DOMAIN order : order[i] = Anchor
  ELSE Len(order) + 1

\* Mutant: the anchor ends the first segment and begins the second.
SplitTwice(order) ==
  <<SubSeq(order, 1, AnchorAt(order)), SubSeq(order, AnchorAt(order), Len(order))>>

Split(order) ==
  <<SubSeq(order, 1, AnchorAt(order) - 1), SubSeq(order, AnchorAt(order), Len(order))>>

\* getHooksForStage(): by priority, then by registration.  The array is the set of
\* its hooks, of which the first one is always the next.
HooksOf(stage) == {h \in hooked : h.hook.stage = stage}
Precedes(g, h) == \/ g.hook.priority < h.hook.priority
                  \/ g.hook.priority = h.hook.priority /\ g.seq < h.seq

(***************************************************************************)
(* Plugins.  A stage already declared under that name stays as it is; the  *)
(* disposer removes the declaration by name, whoever made it.              *)
(***************************************************************************)
PipelineInit ==
  /\ declared = Core
  /\ hooked = {[hook |-> CoreHooks[i], seq |-> i] : i \in DOMAIN CoreHooks}
  /\ nextSeq = Len(CoreHooks) + 1
  /\ applied = [p \in DOMAIN Plugins |-> "no"]
  /\ pc = "idle"
  /\ run = [seg |-> 0, order |-> <<>>, hooks |-> {}]
  /\ stopped = {} /\ written = [s \in 0..MaxLives |-> None] /\ store = {}
  /\ lives = 0 /\ ran = <<>> /\ traces = <<>> /\ began = <<>>

Changes == Cardinality({p \in DOMAIN Plugins : applied[p] # "no"})
  + Cardinality({p \in DOMAIN Plugins : applied[p] = "gone"})

Apply(p) ==
  /\ applied[p] = "no" /\ Changes < MaxChanges
  /\ applied' = [applied EXCEPT ![p] = "yes"]
  /\ declared' = declared \cup
       {d \in {Plugins[p].stage} : \A e \in declared : e.name # d.name}
  /\ hooked' = hooked \cup {[hook |-> Plugins[p].hook, seq |-> nextSeq]}
  /\ nextSeq' = nextSeq + 1
  /\ UNCHANGED stimulusVars

Dispose(p) ==
  /\ applied[p] = "yes" /\ Changes < MaxChanges
  /\ applied' = [applied EXCEPT ![p] = "gone"]
  /\ declared' = {d \in declared : d.name # Plugins[p].stage.name}
  /\ hooked' = {h \in hooked : h.hook # Plugins[p].hook}
  /\ UNCHANGED nextSeq /\ UNCHANGED stimulusVars

(***************************************************************************)
(* processStimulus().                                                      *)
(***************************************************************************)
\* Context 0 is the stimulus', s > 0 that of the s-th life, whose parent is 0.
Parent(s) == 0

\* read(): the context's own data, or else its parent's.
Read(s) == IF written[s] # None THEN written[s] ELSE written[Parent(s)]

\* create() and run() with the stages of the segment; a cycle throws instead.
Begin(s) ==
  /\ store' = store \cup {s}
  /\ began' = Append(began, [declared |-> declared, hooked |-> hooked])
  /\ IF Cyclic(declared) THEN pc' = "failing" /\ run' = [run EXCEPT !.seg = s]
     ELSE /\ pc' = "running"
          /\ run' = [seg |-> s, order |-> Split(Order(declared))[IF s = 0 THEN 1 ELSE 2],
                     hooks |-> {}]

\* The emit of stimulus.received comes before the context.
Receive ==
  /\ pc = "idle" /\ pc' = "received"
  /\ UNCHANGED runnerVars
  /\ UNCHANGED <<run, lives, stopped, written, store, ran, traces, began>>

BeginStimulus ==
  /\ pc = "received" /\ Begin(0)
  /\ UNCHANGED runnerVars /\ UNCHANGED <<lives, stopped, written, ran, traces>>

NextStage ==
  /\ pc = "running" /\ run.hooks = {} /\ run.order # <<>>
  /\ run.seg \notin stopped
  /\ run' = [run EXCEPT !.hooks = HooksOf(Head(run.order)), !.order = Tail(@)]
  /\ UNCHANGED runnerVars
  /\ UNCHANGED <<pc, lives, stopped, written, store, ran, traces, began>>

\* A hook runs: it may write into the context, stop it or throw.  A throw ends
\* the run unless the hook is isolated.
CallHook(how) ==
  /\ pc = "running" /\ run.seg \notin stopped
  /\ \E next \in run.hooks :
       /\ \A h \in run.hooks \ {next} : Precedes(next, h)
       /\ ran' = Append(ran, [seg |-> run.seg, hook |-> next.hook,
                              saw |-> Read(run.seg), how |-> how])
       /\ run' = [run EXCEPT !.hooks = @ \ {next}]
       /\ pc' = IF how = "throw" /\ ~next.hook.isolate THEN "failing" ELSE pc
  /\ written' = IF how = "write" THEN [written EXCEPT ![run.seg] = run.seg] ELSE written
  /\ stopped' = IF how = "stop" THEN stopped \cup {run.seg} ELSE stopped
  /\ UNCHANGED runnerVars /\ UNCHANGED <<lives, store, traces, began>>

\* finish() of the trace and delete() of the context, in the finally blocks.
Release(segs) ==
  /\ traces' = traces \o segs
  /\ store' = store \ ToSet(segs)

RunOver == (run.hooks = {} /\ run.order = <<>>) \/ run.seg \in stopped

\* The stimulus segment is over: the projection resolver names the lives.
Route ==
  /\ pc = "running" /\ run.seg = 0 /\ RunOver
  /\ pc' = "routed" /\ lives' \in 0..MaxLives
  /\ UNCHANGED runnerVars
  /\ UNCHANGED <<run, stopped, written, store, ran, traces, began>>

LifeEnds ==
  /\ pc = "running" /\ run.seg > 0 /\ RunOver
  /\ pc' = "routed" /\ Release(<<run.seg>>)
  /\ UNCHANGED runnerVars
  /\ UNCHANGED <<run, lives, stopped, written, ran, began>>

BeginLife ==
  /\ pc = "routed" /\ run.seg < lives /\ Begin(run.seg + 1)
  /\ UNCHANGED runnerVars /\ UNCHANGED <<lives, stopped, written, ran, traces>>

Finish ==
  /\ pc = "routed" /\ run.seg = lives
  /\ pc' = "done" /\ Release(<<0>>)
  /\ UNCHANGED runnerVars
  /\ UNCHANGED <<run, lives, stopped, written, ran, began>>

\* An exception leaves through the finally of the life, then of the stimulus.
\* Mutant: the life's context is only deleted after a life that ended well.
FailKeepsLife ==
  /\ pc = "failing" /\ pc' = "failed" /\ Release(<<0>>)
  /\ UNCHANGED runnerVars
  /\ UNCHANGED <<run, lives, stopped, written, ran, began>>

Fail ==
  /\ pc = "failing" /\ pc' = "failed"
  /\ Release(IF run.seg = 0 THEN <<0>> ELSE <<run.seg, 0>>)
  /\ UNCHANGED runnerVars
  /\ UNCHANGED <<run, lives, stopped, written, ran, began>>

PipelineNext ==
  \/ \E p \in DOMAIN Plugins : Apply(p) \/ Dispose(p)
  \/ Receive \/ BeginStimulus \/ NextStage
  \/ \E how \in {"ok", "write", "stop", "throw"} : CallHook(how)
  \/ Route \/ LifeEnds \/ BeginLife \/ Finish \/ Fail

PipelineSpec == PipelineInit /\ [][PipelineNext]_pipelineVars

(***************************************************************************)
(* Properties.                                                             *)
(***************************************************************************)
\* What was registered is what was registered when the stimulus came in.
Steady == \A i \in DOMAIN began :
            began[i] = [declared |-> declared, hooked |-> hooked]

CallsOf(hook, seg) == {i \in DOMAIN ran : ran[i].hook = hook /\ ran[i].seg = seg}

\* If nobody registered or disposed anything while
\* a stimulus was processed, and nothing stopped, every hook of a known stage was
\* called either once in all or once for each life, never both, and the stages
\* declared before the anchor the first way, those after it the second.
EachWhereItBelongs ==
  pc = "done" /\ Steady /\ stopped = {} =>
    \A h \in hooked : h.hook.stage \in Known(declared) =>
      LET calls == [s \in 0..lives |-> Cardinality(CallsOf(h.hook, s))]
      IN \/ /\ calls = [s \in 0..lives |-> IF s = 0 THEN 1 ELSE 0]
            /\ <<Anchor, h.hook.stage>> \notin Edges(declared)
            /\ h.hook.stage # Anchor
         \/ /\ calls = [s \in 0..lives |-> IF s = 0 THEN 0 ELSE 1]
            /\ <<h.hook.stage, Anchor>> \notin Edges(declared)

\* The order of the calls of one context follows the declarations its segment
\* started from, whatever was registered since; within a stage the priorities
\* decide; and no hook is called after one that stopped the context or threw.
CalledInOrder ==
  \A i, j \in DOMAIN ran : i < j /\ ran[i].seg = ran[j].seg =>
    LET first == ran[i].hook  second == ran[j].hook
        at == began[ran[i].seg + 1].declared
    IN /\ first.stage # second.stage => \A d \in at :
            /\ ~(d.name = first.stage /\ second.stage \in d.after)
            /\ ~(d.name = second.stage /\ first.stage \in d.before)
       /\ first.stage = second.stage => first.priority <= second.priority
       /\ ran[i].how # "stop" /\ (ran[i].how = "throw" => first.isolate)

\* PipelineRunner.run and processStimulus: every hook is called in the segment it
\* belongs to, as often as it should, and in the order of the declarations.
HooksInTheirPlace == EachWhereItBelongs /\ CalledInOrder

\* Nothing is left behind: a hook reads what was written in its own life or for
\* the whole stimulus, never what another life wrote; and when the stimulus is
\* over, even by an exception, the store is empty and every context that was begun
\* has reported its trace once, the lives before the stimulus.
Released ==
  /\ \A i \in DOMAIN ran : ran[i].saw \in {None, 0, ran[i].seg}
  /\ pc \in {"done", "failed"} =>
       /\ store = {} /\ IsInjective(traces)
       /\ ToSet(traces) = 0..(Len(began) - 1) /\ Last(traces) = 0
=============================================================================
