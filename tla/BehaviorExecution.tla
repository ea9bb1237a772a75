-------------------------- MODULE BehaviorExecution --------------------------
(***************************************************************************)
(* The plans a wake-up leaves (behavior/src/execution-plan.ts) and their    *)
(* execution (elysia-ai-runtime/src/behavior-execution/index.ts), with the  *)
(* bond service that answers one kind of action.  The memory service is     *)
(* here only its answer, memory.update.failed or not, and whether the       *)
(* memory is stored; MemoryService has the rest of it.  Chats execute their plans concurrently over one event   *)
(* bus, so a listener hears of the failures of the other chats' plans.      *)
(***************************************************************************)
EXTENDS BondService

CONSTANTS
  PlansOf,         \* chat -> the plans of its stimuli
  Policies,        \* failure policies to consider: "continue", "stop-on-critical"
  ContextRequests,
  MaxCalls,        \* bound on the plans executed and contexts built
  MaxFaults        \* bound on the memory and bond calls that fail

VARIABLES
  policy,
  memoryUp,    \* whether the memory plugin is loaded
  exec,        \* per chat: the plan in execution
  listening,   \* the listeners of memory.update.failed: <<plan, action>> -> failure heard
  report,      \* per chat: the result of the plan executed last
  calls, faults

planvars == <<policy, memoryUp, exec, listening, report>>
vars == <<bondvars, planvars, calls, faults>>

NoPlan == [pc |-> "none"]
NoReport == [status |-> "none"]

\* createBehaviorExecutionPlan: a plan has at most one action of each type, and
\* they are executed by falling priority.
Priority(type) ==
  CASE type = "dialogue" -> 100 [] type = "memory-update" -> 60
    [] type = "bond-update" -> 50 [] type = "homeostasis-update" -> 40 [] type = "noop" -> 0

Actions(p) == IF p.does = {} THEN {"noop"} ELSE p.does

Init ==
  /\ BondInit
  /\ policy \in Policies /\ memoryUp \in BOOLEAN
  /\ exec = [c \in Chats |-> NoPlan]
  /\ listening = <<>>
  /\ report = [c \in Chats |-> NoReport]
  /\ calls = 0 /\ faults = 0

Enter(c, e) == exec' = [exec EXCEPT ![c] = e]

\* execute() is called with a plan; its number stands for its id.
Execute(c, p) ==
  /\ exec[c] = NoPlan /\ asking[c] = Idle /\ calls < MaxCalls
  /\ calls' = calls + 1
  /\ Enter(c, [pc |-> "next", id |-> calls', plan |-> p, left |-> Actions(p),
               results |-> <<>>, stored |-> FALSE, failed |-> FALSE])
  /\ UNCHANGED <<bondvars, policy, memoryUp, listening, report, faults>>

\* The action of a plan whose turn it is.
Turn(c, a) ==
  /\ exec[c].pc = "next" /\ a \in exec[c].left
  /\ \A b \in exec[c].left : Priority(b) <= Priority(a)

\* The result of an action.  One that failed ends the plan where the policy says
\* so.
Conclude(c, a, completed) ==
  LET e == exec[c]
      results == Append(e.results, [type |-> a, completed |-> completed])
  IN  IF ~completed /\ policy = "stop-on-critical"
        THEN /\ report' = [report EXCEPT ![c] =
                  [status |-> "failed", plan |-> e.plan, results |-> results,
                   stored |-> e.stored, failed |-> e.failed]]
             /\ Enter(c, NoPlan)
        ELSE /\ Enter(c, [e EXCEPT !.pc = "next", !.left = @ \ {a}, !.results = results])
             /\ UNCHANGED report

\* Every action has had its turn.
Finish(c) ==
  /\ exec[c].pc = "next" /\ exec[c].left = {}
  /\ LET e == exec[c] IN
     report' = [report EXCEPT ![c] =
       [status |-> IF \A i \in DOMAIN e.results : e.results[i].completed
                     THEN "completed" ELSE "partial",
        plan |-> e.plan, results |-> e.results, stored |-> e.stored, failed |-> e.failed]]
  /\ Enter(c, NoPlan)
  /\ UNCHANGED <<bondvars, policy, memoryUp, listening, calls, faults>>

\* Actions whose event nobody answers: dialogue.task.created, the homeostasis
\* update, noop.
DispatchEvent(c) ==
  /\ \E a \in {"dialogue", "homeostasis-update", "noop"} : Turn(c, a) /\ Conclude(c, a, TRUE)
  /\ UNCHANGED <<bondvars, policy, memoryUp, listening, calls, faults>>

\* A memory update is asked for, with a listener for its failure.
DispatchMemory(c) ==
  /\ Turn(c, "memory-update")
  /\ Enter(c, [exec[c] EXCEPT !.pc = IF memoryUp THEN "memory" ELSE "told"])
  /\ listening' = [l \in DOMAIN listening \cup {exec[c].id} |->
                     IF l \in DOMAIN listening THEN listening[l] ELSE FALSE]
  /\ UNCHANGED <<bondvars, policy, memoryUp, report, calls, faults>>

\* Mutant: a listener takes every failure for its own.
ConcernsAnyone(listener, id) == TRUE

\* The listener of an action takes only the failure of this plan's action.
Concerns(listener, id) == listener = id

\* The memory service answers: it stored the memory, or every listener there is
\* hears of a failure.  That may come after the memory was stored, when the limit
\* of memories is enforced or when the store fails after taking the memory.
MemoryAnswers(c) ==
  /\ exec[c].pc = "memory"
  /\ \/ /\ Enter(c, [exec[c] EXCEPT !.pc = "told", !.stored = TRUE])
        /\ UNCHANGED <<listening, faults>>
     \/ /\ faults < MaxFaults /\ faults' = faults + 1
        /\ \E stored \in BOOLEAN :
             Enter(c, [exec[c] EXCEPT !.pc = "told", !.stored = stored, !.failed = TRUE])
        /\ listening' = [l \in DOMAIN listening |->
                           listening[l] \/ Concerns(l, exec[c].id)]
  /\ UNCHANGED <<bondvars, policy, memoryUp, report, calls>>

\* Mutant: the listener of an action that failed is left behind.
DisposedUnlessFailed(id) ==
  IF listening[id] THEN listening ELSE [l \in DOMAIN listening \ {id} |-> listening[l]]

Disposed(id) == [l \in DOMAIN listening \ {id} |-> listening[l]]

\* The emit returns; the listener is disposed of and its failure thrown.
MemoryReturns(c) ==
  /\ exec[c].pc = "told"
  /\ listening' = Disposed(exec[c].id)
  /\ Conclude(c, "memory-update", ~listening[exec[c].id])
  /\ UNCHANGED <<bondvars, policy, memoryUp, calls, faults>>

\* A bond update is asked for; whatever comes of it the action is completed.
DispatchBond(c) ==
  /\ Turn(c, "bond-update")
  /\ Enter(c, [exec[c] EXCEPT !.pc = "bond"])
  /\ AskBond(c, exec[c].plan.bond)
  /\ UNCHANGED <<policy, memoryUp, listening, report, calls, faults>>

BondReturns(c) ==
  /\ exec[c].pc = "bond" /\ asking[c] = Idle
  /\ Conclude(c, "bond-update", TRUE)
  /\ UNCHANGED <<bondvars, policy, memoryUp, listening, calls, faults>>

\* The dialogue of a chat asks for its context when its plan has been executed.
BuildContext(c, q) ==
  /\ exec[c] = NoPlan /\ calls < MaxCalls
  /\ calls' = calls + 1
  /\ AskContext(c, q)
  /\ UNCHANGED <<planvars, faults>>

ServiceStep(c) ==
  \/ BondStep(c) /\ UNCHANGED <<planvars, calls, faults>>
  \/ /\ BondThrows(c) /\ faults < MaxFaults /\ faults' = faults + 1
     /\ UNCHANGED <<planvars, calls>>

Step(c) ==
  \/ Finish(c) \/ DispatchEvent(c) \/ DispatchMemory(c) \/ MemoryAnswers(c) \/ MemoryReturns(c)
  \/ DispatchBond(c) \/ BondReturns(c) \/ ServiceStep(c)

Next ==
  \E c \in Chats :
    \/ Step(c)
    \/ \E p \in PlansOf[c] : Execute(c, p)
    \/ \E q \in ContextRequests : BuildContext(c, q)

Spec == Init /\ [][Next]_vars
-----------------------------------------------------------------------------
TypeOK ==
  /\ BondTypeOK
  /\ policy \in Policies /\ memoryUp \in BOOLEAN
  /\ \A c \in Chats :
       /\ exec[c].pc \in {"none", "next", "memory", "told", "bond"}
       /\ report[c].status \in {"none", "completed", "partial", "failed"}
  /\ DOMAIN listening \subseteq 1..calls
  /\ calls \in 0..MaxCalls /\ faults \in 0..MaxFaults

\* With the memory plugin loaded, a plan is reported completed exactly if its own
\* memory update did not fail, and then what it asked to be remembered is stored,
\* whatever happens to the plans of other chats meanwhile (reported partial or
\* failed, it may be stored nevertheless); no plan leaves out an action, unless a
\* failure ended it, or does one twice; and however an action ends, its listener of
\* memory.update.failed ends with it.
ReportedAsItWent ==
  /\ DOMAIN listening \subseteq
       {exec[c].id : c \in {c \in Chats : exec[c].pc \in {"memory", "told"}}}
  /\ \A c \in Chats :
       LET r == report[c] IN
       r # NoReport =>
         /\ memoryUp /\ "memory-update" \in r.plan.does =>
              (r.status = "completed") = ~r.failed /\ (r.failed \/ r.stored)
         /\ r.status # "failed" =>
              {r.results[i].type : i \in DOMAIN r.results} = Actions(r.plan)
         /\ \A i, j \in DOMAIN r.results : r.results[i].type = r.results[j].type => i = j
         /\ r.status = "failed" => policy = "stop-on-critical" /\ ~Last(r.results).completed
=============================================================================
