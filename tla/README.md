# A TLA+ development of elysia-ai

elysia-ai is a plugin framework for "digital lives" that live in chats. A chat adapter (the
*body*) turns messages into *stimuli*; the *runtime* queues them per chat (a *habitat*), routes
each one to the lives that perceive it, and runs a pipeline of plugin hooks for every life:
perceive, decide whether to wake up, render a prompt, call a language model through the *model
gateway*, send the reply, and update what the life remembers and feels. Besides messages,
*scheduled triggers* wake lives up at given times.

These modules model the parts of it where the order of events, or of pieces of data, decides
whether it works. Everything is translated from the TypeScript under `src/packages/`; paths
below are relative to that directory. `PROJECT.json` maps every definition to the lines it
stands for, and lists the hazards the properties were written for.

## 1. Inventory

The program runs on one JavaScript thread, so code between two `await`s is atomic and everything
else interleaves: promises of several chats, timers, administrative calls. Several processes may
share one MongoDB. The granularity of all models follows: **an action is the synchronous code
between two awaits.**

| Part | State it keeps | Operations | What is hard | What makes it correct |
|---|---|---|---|---|
| Scheduled triggers: `@elysia-ai/behavior/src/trigger-manager.ts`, `@elysia-ai/trigger/src/trigger-planner.ts`, `mongo-trigger-task-repository.ts` | task documents (shared by processes); `started`, `timer`, `harvesting`, `running` per manager | start, stop, harvest, runTask, create, update, pauseUntil, resume, remove, fire | two managers on one repository, whole-document saves across awaits, restarts, a store that fails before or after the effect | an occurrence wakes a life once, in order, and is not lost; disabled tasks stay paused; `running` tasks recover |
| Model gateway: `@elysia-ai/model-gateway/src/{index,health,routing,registry}` | per provider: consecutive failures, opening time, probe flag; per request: candidate, attempt | execute, executeWithRetry, isAvailable, markProbeStarted, recordSuccess, recordFailure | requests in flight while the circuit opens, probes, late answers, retries and fallbacks | the breaker counts visits and not attempts; at most one probe per cooldown; no circuit is open for good |
| Providers and protocols: `@elysia-ai/model-gateway/src/providers`, `@elysia-ai/protocol-{openai,anthropic,gemini,responses,custom}/src`, `@elysia-ai/maheshvara/src` | the state of a stream decoder; ids of tool calls | encode a request, decode an answer, decode a stream of server-sent events | chunks that end anywhere; five ways to tell an answer piece by piece; a conversation begun over one protocol and continued over another | nothing said is lost or repeated; a cut stream does not pass for a complete one; each tool result answers its own call |
| Stimulus runtime: `elysia-ai-runtime/src/runtime.ts`, `lifecycle/`, `homeostasis/` | lifecycle state, `stimulusQueues` (entries, draining), life states | start, stop, receiveStimulus, drainStimulusQueue, processStimulus, homeostasis updates | stop and start at any point, hooks that throw, read-modify-write of life states, concurrent chats | one stimulus per habitat at a time, in priority order; every accepted one is resolved; no lost update |
| Kernel: `@elysia-ai/kernel/src/{events,pipeline,context,trace}` | handler Sets, stages and hooks, namespaced contexts | on, once, off, emit; registerStage, registerHook, run; begin and release of contexts | disposers called twice, handlers that dispose during emit, re-registration of a stage, plugins coming and going during a run | a subscription receives every event until it is disposed of, and only then; hooks in order; nothing left behind |
| Behavior dispatch: `@elysia-ai/behavior/src/index.ts`, `@elysia-ai/trigger/src/{commands,instant,batcher,event-history,pack-memory}.ts` | scopes per life and habitat (bounded cache), batches, cooldowns, event history | ingestForLife, fireTrigger, buildWakeArtifact, executeWakeArtifact, ticker | three layers (command, instant rule, batch) over several lives, batches evicted or cut, timers | an event is woken for at most once per life and not forgotten; a command or instant reply is given once |
| Behavior plans: `@elysia-ai/behavior/src/execution-plan.ts`, `elysia-ai-runtime/src/behavior-execution/index.ts` | the result of the plan, a listener for each memory action | build a plan, execute it | the outcome of one action is heard on a bus all plans share | a report is completed exactly if nothing in it failed, and then its memory is stored |
| Memory: `@elysia-ai/memory/src/index.ts` | entries: status, importance, access count, merged sources | update (create or merge), retrieve, consolidate, enforceMaxEntries, remove, contexts | count/select/archive and read/merge/save across awaits; several queries mingled in a context | the cap holds at rest; what was told is stored; one memory per source; private memories stay private |
| Bond: `@elysia-ai/bond/src/index.ts` | one bond per life and target: metrics, interaction count | update, retrieve, remove, contexts | look up, compute and create or update across awaits | one bond per life and target; metrics in range; no interaction lost |
| Brain and dialogue: `@elysia-ai/brain/src`, `@elysia-ai/dialogue/src` | messages of a conversation, rounds, histories | runBrainToolLoop, execute, handleInstruction | tool calls that fail or are unknown, the last round, outputs of several tasks | requests are well-formed; the history tells what was said; a task ends in one outcome |
| Body: `elysia-ai-body/src` | channels (bounded) | handle message, send | channels evicted before the reply, no session | every output is sent once, in order, to the chat it answers |
| Observatory: `@elysia-ai/observatory/src` | a ring of records, an index by stimulus, traces | record, query, analytics, clear | two structures that evict separately; calls interleaved | what is counted is what happened |
| Homeostasis plugin: `@elysia-ai/homeostasis/src/index.ts` | the numbers of a life's state | tick for a message, decay, recovery, clamping | runs inside a listener, over several lives, with awaits | no tick is lost |
| Cognition: `@elysia-ai/cognition/src/index.ts` | rolling list of events per life and habitat | record, list | bounded lists | newest events are kept |
| Trigger tool: `@elysia-ai/behavior/src/trigger-tool.ts` | none | calls of the trigger manager on behalf of a model | quota, ownership | a life manages its own tasks only |
| Runtime persistence: `elysia-ai-runtime/src/{store,persistence-service.ts,projection}` | manifests, projection rules, life states | save, register, announce | saved, registered and announced in separate steps | what is registered is what is stored |
| Persona, perception | texts; rule tables | - | data, no control | - |
| Shared and core: `@elysia-ai/shared/src`, `@elysia-ai/core/src` | bounded cache, document repository | get, set, upsert, conditional update | used by all others | - |

How they interact: the body calls `runtime.receiveStimulus()`; the runtime emits
`stimulus.received` and `projection.routed` on the event bus, where homeostasis, cognition and
behavior listen (the bus isolates listeners that throw), and runs the pipeline stages, where
behavior, dialogue and the sender have hooks (a hook that throws ends the stimulus). A wake-up
of a scheduled trigger or an instant rule comes back as a synthetic stimulus through
`receiveStimulus()`; every reply of a model is the reply to such a wake-up. Dialogue calls the
brain, the brain the model gateway, the gateway a provider, which encodes the request for its
protocol. The execute stage emits update requests for homeostasis, memory and bond. The
observatory listens to all of it.

## 2. Plan

Modules are ordered by what a failure costs: a wake-up lost or sent twice, a model provider cut
off, a chat that goes silent, a state that forgets.

| | Modules | State |
|---|---|---|
| 1 | `TriggerPlanner`, `TriggerManager`, abstract `OccurrenceLedger` | modelled, checked, proved |
| 2 | `ModelGateway` | modelled, checked, proved |
| 3 | `StimulusRuntime`, abstract `PriorityServer` | modelled, checked, proved |
| 4 | `BehaviorDispatch`: commands, instant rules, batcher and scopes over several lives | modelled, checked, proved |
| 5 | `EventBus` and `StimulusPipeline` | modelled, checked, proved |
| 6 | `MemoryService`, `BondService`, `BehaviorExecution`, put together in `LifeServices` | modelled, checked, proved |
| 7 | `ToolLoop`, `WakeTurn`: wake-ups from the model's answer to the send | modelled, checked, proved |
| 8 | `SseParser`, five stream decoders, `ProtocolStreams`; `ProtocolMessages`, `CustomPresets`, `ToolConversation` | modelled, checked |
| 9 | `Observatory` | modelled, checked, proved |
| 10 | projection rules and manifests; homeostasis arithmetic; retrieval of memories | not modelled, section 6 |

A theorem that would be worth having and is not there: what a stream decoder keeps of an answer.

## 3. Modules

### TriggerPlanner, TriggerManager, OccurrenceLedger

`TriggerPlanner` is the time arithmetic: the next occurrence of a condition
(`computeNextOccurrence`), `resolveMisfire`, `initialTriggerState`, `afterTriggerRun`. One unit
of time is a minute. A cron condition is the set of the instants its expressions match; an
interval is arithmetic on its grid; a document keeps the fields that decide anything, so
`lastRunAt` and `lastError` are left out.

`TriggerManager` is any number of managers on one repository. `hpc[m]` is the await at which
`harvest()`/`runTask()` of manager `m` is; `due[m]` holds the documents as they were harvested,
because the code goes on working with those *snapshots* after other processes have changed the
documents; `restoring[m]` is the list `start()` still goes through. `call[c]` is an
administrator's call between the read and the write. `Claim` is the conditional update
(`claimOccurrence`), all the other writes are whole-document upserts. A repository operation may
throw (`Fault`), both before and after it took effect; a manager may crash between any two
steps. Clock readings lag behind `clock` by up to `MaxSkew`. `SteadyNext` are the steps of
managers that stay up and tasks nobody administers; `Next` has everything.

`OccurrenceLedger` is the promise, in three actions: a task is on at most one occurrence, which
is fired once, and the next one lies after everything fired. The mapping reads the task's
occurrence off its document while it waits, and off the snapshot of the manager that claimed it
in between (`Pending`).

### ModelGateway

`req[r]` is where a request is in `execute()`: its chain of candidate slots, the candidate it is
at, the attempt, and `healthFailureRecorded`. `fails`, `opened` and `probing` are the fields of
`ProviderHealthTracker`. `Call` sends the request (and is the probe when the circuit is open and
has cooled down), `Answer` and `Fail` are its outcomes at any later time, `Retry` ends the
sleep. `visits` and `probes` are histories. Diagnostics are those of `Observatory`;
usage records are left out.

### StimulusRuntime, PriorityServer

A stimulus goes from `new` through `accepted` to `resolved` (or `ignored`, when the runtime is
not running). A queue object is named after the stimulus whose `receiveStimulus()` created it
and a drain loop after the one that started it, so the model would show two queues or two loops
on one habitat if the code could produce them. `worker[w].pc` is the await a drain loop is at.
The state of a life is the set of stimuli whose effect it contains: a lost update is one that is
in `applied` and not in `state`. Only messages tick; the execute stage of a wake-up asks the
homeostasis service for an update, if that is listening (between `runtime.started` and
`stop()`). A life's state is taken to exist (`life.loaded` precedes the first stimulus).

`PriorityServer` is the promise of `docs/elysia-ai-architecture.md` 3.2: one stimulus per
habitat at a time, the most urgent first, first come first served among equals, no preemption,
habitats independent, and none idle while a stimulus waits. The mapping takes the set of queued
entries and the stimulus of the habitat's working drain loop. That the queue is a sorted list is
gone at that level: the refinement is what shows that the insertion loop is right.

### BehaviorDispatch

A message goes to each life of its chat in turn (`Take`, `Decide`), and `ingestForLife()` asks
three layers: the commands, the instant rules, the batcher. Which commands and rules match a
message is data (`CommandOf`, `RulesOf`); whether they have cooled down is state. `scopes` is
the bounded cache in its order of use, so that touching one scope may evict another one with the
events in its batch. The interval timer (`Tick`) is the unit of time. A wake-up is a synthetic
stimulus: it enters the queue of its chat, an instant one before the others, is offered to every
life there and built for its own (`Build`). A direct reply is sent asynchronously (`ReplyEnds`),
and only then is the rule's cooldown used up. `lost`, `replies` and `since` are histories.

`Filters` has the one operator on lists this module needs, a filter (`Only`), written so that it
can be reasoned about (section 5).

The queue is the one of `StimulusRuntime`, in short: chats are served one stimulus at a time,
and no hook throws. Timestamps of messages are those of the model's clock at their arrival,
which may be well before they are pushed.

### EventBus, StimulusPipeline

`EventBus` is one event name of `MemoryEventBus`. A subscriber keeps the Set object it was put
into (its disposer closes over it) while the map may by then hold another one, so Sets are
numbered objects, `sets` has the handlers of each and `heldBy` says which one the map holds.
`emit()` calls the handlers of a copy one by one (`Deliver`), with anything between two of them.

`StimulusPipeline` is `processStimulus()` in detail where `StimulusRuntime` has one hook:
`declared` and `hooked` are the runner's stages and hooks, which plugins change at any await
(`Apply`, `Dispose`); every segment sorts the stages anew (`Order`, Kahn's algorithm; a cycle
throws), takes its side of the anchor (`Split`) and reads the hooks of a stage when it gets
there. `store` and `written` are the request contexts, that of a life having the stimulus's as
parent. A hook writes, stops its context or throws; `Fail` is the `finally` blocks.

### MemoryService, BondService, BehaviorExecution

`MemoryService` is the memory of one life, used by two chats at once. `work[c]` is the await at
which a chat's call is: an update (find by source, merge or save, then `enforceMaxEntries` in
its three separate calls), a consolidation, or a context (query by query). The repository is a
Map, whose update merges at once, or a collection, whose update rereads, merges and replaces the
whole document in a second call. The text of an entry is the set of requests it holds, so that
text written back, lost or shown to the wrong reader is visible. The selection of a context is
by rules or by the ids a model names.

`BondService` has bonds with their five metrics in ten-thousandths, `Delta` and `Clamp` with the
code's numbers, and the look-up, computation and write of an update as steps of their own.
`BehaviorExecution` composes it with the plans of wake-ups (`createBehaviorExecutionPlan`) and
their execution: one action after the other, memory updates with a listener on the shared bus
for their failure (`listening`), the failure policy, the report. The memory service answers in one
step there: the failure it tells of may come before the memory was stored or after, when the
limit is enforced, so `failed` and `stored` are kept apart.

### ToolLoop, WakeTurn

`ToolLoop` has the operators of one tool loop: the request the brain makes of its messages, the
echo that comes back, what each tool call decides, what is said in the end. `WakeTurn` runs
them: a wake-up (`Wake`), the model's answers (`ModelAnswers`, after the last of which the
history is written and the outputs created), the sender stage (`Send`), the registry of channels
messages were seen in (`Register`), and failures of the model and of the platform. A reply is
always the reply to a wake-up, whose synthetic stimulus has an id of its own, so the route of
the incoming message is never found and the registry, or a bot without a session, leads to the
chat.

### ProtocolStreams and its decoders

`SseParser` is the incremental parser of server-sent events over symbols: line breaks, field
names, pieces of the JSON text of an event. `ChatStream`, `AnthropicStream`, `GeminiStream`,
`ResponsesStream` and `CustomStream` are the five stream decoders: pure operators from a
decoder's state and a wire event to its next state and the stream events it emits. In
`ProtocolStreams` an upstream says an answer in the events of its protocol (texts of several
choices, tool calls with their arguments, snapshots, failures, ends, `[DONE]`), each framed as
its server does; the transport cuts the symbols into chunks anywhere (`Chunk`; one may end
between a carriage return and its line feed), or the connection ends (`Cut`). `said` is what the
upstream meant; tokens are numbered. The decoders are the protocol
packages' public API; the runtime's own providers do not stream.

A custom upstream is described by a configuration (`config`): cumulative or not, told apart by
frames or not, and which of the frames that stop or fail are terminal. It may begin a call without
arguments, with an empty text or whole, go on with fragments that are JSON by themselves or not,
with or without the call's id and name (told together), and report an error in a frame that gives
a reason to finish as well or is terminal. Without frames nobody remembers whose arguments a
frame holds, missing ones become `{}` and what is no JSON is quoted (`Mapped`).

### ProtocolMessages, CustomPresets, ToolConversation

`ProtocolMessages` encodes a conversation for four protocols and decodes their answers: roles,
ids of tool calls (given, missing, synthesized from positions, and for a result to Gemini left
out when it is the function's name), arguments (missing, empty, JSON,
broken), results, merging of neighbouring messages. `CustomPresets` is the template engine with
the four presets of the custom protocol, by their paths, filters and aliases. `ToolConversation`
is a tool loop whose every request may go to another protocol than the one before, as a fallback
does.

### Observatory

`records`, `byStimulus` and `traceRing` are what the store and the service keep (`records`,
`byStimulus`, `traces` in the code); `Heard` is the `onAny` handler, `AppendRecord` the two
evictions. Events come from model calls, with their diagnostics put together attempt by attempt,
and from other components (`Ambient`, `Observe`). Memory and bond tell of their repository's
replacement after its set-up (`InTurn`); the triggers' repository is heard of only when it fails.
Analytics and snapshots are operators over the records. `heard`, `completed` and `cleared` are
histories.

### LifeServices, MCLifeServices, MCPlatform

A run has a budget, so the components of rows 5 to 9 share two of them: `part` is chosen
initially and never changes, and a behaviour follows the component it names while the others
stay as they began. They share no state; where they interact with other components, the module
says so by its inputs. `LifeServices` puts the memory, the plans, the wake-ups and the
conversations together for any chats, requests, plans and limits, with what is assumed of them;
`MCLifeServices` is its small instance, `MCPlatform` the components of the platform.

## 4. Runs

| Run | Instance | Shows |
|---|---|---|
| `trigger_steady` | 2 managers, 2 tasks, each interval, once or cron, clock to 2, lag 1, 2 faults, fairness | no occurrence twice or out of order, `runCount` exact, the ledger implemented (`OccurrencesInOrder`, `RunCountExact`, `LedgerSpec`); what is due is fired, or the task is in error since the store failed, or stays running where the save of that error failed too (`DueIsFired`) |
| `trigger_admin` | 2 managers, one up at first, 1 client with 1 call, 1 start, 1 task of either kind, crashes, 1 fault, clock to 2, fairness | a disabled task is paused in every document (`DisabledMeansPaused`); an occurrence is fired again at most once for each start, and for each call and manager (`RefiresBounded`); a `once` task created ahead of its instant is not completed unfired (`OnceIsNotLost`); `running` tasks are taken up again (`RunningRecovers`) |
| `model_gateway` | 3 requests, chain of 3 slots over 2 providers, threshold 2, 1 retry | `OpensOnThresholdVisits`, `ProbesSpaced`, `ProbeHasOwner` |
| `runtime_queue` | 4 stimuli in 2 chats, 2 lives, 1 fault, start and stop at any point, fairness | `HabitatSerial`, `ServerSpec`, `OwnStateKept`, `AcceptedIsResolved` |
| `behavior_dispatch` | 3 messages in a chat with 2 lives, a scheduled trigger in any of 3 scopes, a cache of 2, clock to 3 | `WokenOnce`, `RepliedOnce`, `NothingForgotten`, `WaitsBounded` |
| `life_services` | two chats at once: memory with a limit of 1, over either repository; plans about one person and about nobody, under either policy; wake-ups with their tool loops and sends; a conversation over eight protocols | `CapAtRest`, `ToldIsStored`, `OneActivePerSource`, `ContextKeepsVisibility`; `ReportedAsItWent`, `BondsExact`; `RequestsWellFormed`, `HistoryTellsWhatWasSaid`, `SentOnceInOrder`; `RequestsFaithful` |
| `platform` | 3 subscribers and 2 emits; a stimulus for up to 2 lives with 3 plugins; an answer in each of 5 protocols, cut anywhere; an observatory of 4 records and 2 model calls | `HeardByAll`; `HooksInTheirPlace`, `Released`; `StreamFaithful`, `StreamEndsHonestly`; `ObservedAsItWent` |
| `trigger_overlap`, `trigger_remove`, `runtime_shared_life`, `dispatch_instant`, `responses_results` | | the code disagrees with its documentation or comments, section 7 |

Why these bounds are enough. Two managers suffice for every race on a task: a claim has one
winner, and the loser drops its snapshot. Three instants (0 to 2) let a task be harvested,
fired, rescheduled and harvested again by a manager that still holds the old snapshot; `Cron13`
skips an instant, so that the next one is not always `+ 1`. One fault reaches every catch block,
on either side of a write; in `trigger_steady` a second one makes the save in the catch block
fail, which ends the harvest. In `trigger_admin` the second manager starts while the first works,
and one call meets every await of a harvest. Three requests are what a breaker of threshold 2
needs to have one late answer while another is the probe; the chain has two slots of one
provider, because that is how one request visits a provider twice. In `runtime_queue` three
stimuli share a chat, one being processed while two wait in either order of priority, and one
life of the two perceives both chats. In `behavior_dispatch` the three messages reach every
layer: a mention wakes the first life and, its rule not having cooled down, waits in the second
one's batch; of two command messages the later one, not cooled down either, is batched, or
replied to by an instant rule. Two events in one batch at different times tell the longest wait
from the last event's; there the quiet window is as long as the longest wait, and in
`dispatch_instant` it decides alone. Three scopes over a cache of two evict a waiting batch.

In `life_services` three memory calls are two that overlap and one that finds what they left;
with a limit of one every save overflows; a message told twice is merged, and one in a thread,
one in private and the news have each an owner and a visibility of their own. Three plans make
two overlap on one person's bond while a third is about nobody. Two wake-ups share a history of
three entries, so that the older is cut through the middle of a pair; the
third arrival drops one of the two channels and the bot may be missing. Two rounds and two segments reach both limits of a loop,
and a window of two messages would cut a tool result from its call, if the loop had one. Three
blocks of answers give two rounds with a fallback between them, or two calls in one answer. In
`platform` the third subscriber comes after a Set was dropped; a disposer may be called twice; a
plugin's stage sorts before the core's lexically, and one closes a cycle. Two tokens and two
calls are enough for a text to be lost, repeated or displaced. Four records with a ring of four
and a fifth event evict one.

The stimuli of a runtime model, like the messages of a dispatch model, are received once each,
the requests of a gateway model made once each, and the services' calls are bounded, so these
runs may stop (`CHECK_DEADLOCK FALSE`); the trigger runs check deadlock (the interval timer may
always tick).

Bounds, each a guard of the step that spends it: `MaxTime`, `MaxSkew`, `MaxStarts`, `MaxCalls`,
`MaxFaults` in the trigger modules; `MaxTime` in the gateway; `MaxFaults` in the runtime;
`MaxTime` and `MaxScheduled` in the dispatch; `MaxEntries`, `MaxCalls`, `MaxBonds`, `MaxPlans`,
`MaxWakes`, `MaxArrivals`, `MaxBlocks`, `MaxPerAnswer`, `MaxFaults` in the services;
`MaxSubscriptions`, `MaxEmits`, `MaxOff`, `MaxLives`, `MaxChanges`, `MaxSaid`, `MaxCalled`,
`MaxHeard` in the platform. (`Cap`, `MaxRounds`, `MaxSegments`, `DefaultWindow`, `MemoryLimit`,
`MaxHistory`, `MaxChannels`, `MaxRetries`, `MaxRecords`, `MaxItems`, `RecentLimit`, `Quiet`,
`MaxWait` and the like are configuration of the program, with small values.) `Stop` and `Crash`
need a start in reserve, so that the bound itself never leaves all managers down.

**Fairness.** Triggers: weak fairness of the clock, of each manager's harvest steps (the
interval timer keeps ticking and the repository answers or throws, as the driver has timeouts),
and of each manager's steps of `start()` (a process that is down is started again by its
supervisor, and `start()` goes on when its repository calls return). Nothing obliges an
administrator, a crash or a fault. Runtime: weak fairness of each drain loop, that is, hooks,
listeners and repository operations end. That is an assumption about the plugins: a call to a
model provider without `timeoutMs` may hang, and would hold up its chat with it. The other runs
check safety only.

Every property has a mutant: a variant of a definition as a plausible mistake would leave it
(`Mutant:` comments), under which the property is violated.

## 5. Proofs

`tlapm` checks, for every value of the constants that satisfies the assumptions (conditions
well-formed, `Grace` positive, finitely many managers and at least one, the registry's fallback
chains naming configured slots, `Threshold` positive, priorities natural numbers, `MaxLives` a
natural number, `MaxOff` above 1; in the dispatch, the lives of a chat listed once each and
limits that are natural numbers, those of the scopes and the packs positive). In the pipeline,
`NamesAssumption` has the names of all stages in their lexical order, each once, and
`HooksAssumption` priorities that are integers and hooks that are distinct, as closures are. In
the observatory, `StoreAssumption` has limits that are natural numbers, those of the ring and of
the recent failures positive, and finitely many calls; `EventAssumption` says which component
tells of what: only the gateway emits `gateway.*`, and of a repository the four events of
`core/src/bus/event-map.ts:360-380` are all there is; `ErrorAssumption` that an error has a code
(its class's name, if no other). `LifeServices` names four assumptions. `LimitsAssumption`: limits are natural numbers. `RequestsAssumption`:
`None` is not a request, importances are percentages, and what is to be remembered of a stimulus
is asked in the stimulus's own chat with its own attribution, because a plan takes habitat,
thread and actor from its stimulus (`behavior/src/execution-plan.ts:107-114`) and a chat's
stimuli are processed by its own drain loop. `PlansAssumption`: a plan has the four types of
action that `createBehaviorExecutionPlan` builds, and `None` is nobody's name.
`AnswersAssumption`: a model answers with a sequence of tool calls, of which a name that is none
of the output tools is one kind.

| Theorem | Statement |
|---|---|
| `TriggerManagerProofs!NextOccurrenceLater` | the next occurrence lies after the instant it is computed from |
| `TriggerManagerProofs!TypeCorrect`, `DisabledStaysPaused` | `Spec => []TypeOK`, `Spec => []DisabledMeansPaused` |
| `TriggerManagerProofs!RefiresAreBounded`, `OnceFires` | `Spec => []RefiresBounded`, `Spec => []OnceIsNotLost` |
| `TriggerManagerProofs!FiresInOrder`, `CountsEveryRun` | `SteadySpec => []OccurrencesInOrder`, `=> []RunCountExact` |
| `TriggerManagerProofs!Refinement` | `SteadySpec => LedgerSpec` |
| `ModelGatewayProofs!GatewayTypeCorrect`, `CircuitCountsVisits`, `ProbesAreSpaced`, `ProbesAreOwned` | `Spec => []` of `TypeOK`, `OpensOnThresholdVisits`, `ProbesSpaced`, `ProbeHasOwner` |
| `StimulusRuntimeProofs!RuntimeTypeCorrect`, `OneAtATime`, `OwnStatesKept`, `RuntimeInvariant` | `Spec => []` of `TypeOK`, `HabitatSerial`, `OwnStateKept`, `RuntimeInv` |
| `StimulusRuntimeProofs!ServesInOrder` | `Spec => ServerSpec` |
| `KernelProofs!EveryoneHears`, `BusInvariant` | `BusSpec => []HeardByAll`, `=> []BusInv` |
| `KernelProofs!AllReleased`, `PipelineInvariant` | `PipelineSpec => []Released`, `=> []PipelineInv` |
| `KernelProofs!InTheirPlace`, `HooksInvariant` | `PipelineSpec => []HooksInTheirPlace`, `=> []HooksInv` |
| `KernelProofs!AsItWent`, `ObservatoryInvariant` | `ObservatorySpec => []ObservedAsItWent`, `=> []ObservatoryInv` |
| `BehaviorDispatchProofs!OneReply` | `Spec => []RepliedOnce` |
| `BehaviorDispatchProofs!DispatchTyped`, `WokenOnceAlways`, `NothingIsForgotten`, `WaitsAreBounded` | `Spec => []` of `TypeOK`, `WokenOnce`, `NothingForgotten`, `WaitsBounded` |
| `LifeMemoryProofs!CapCorrect`, `ToldStaysStored`, `SourcesCorrect`, `MemoryInvariant` | `Spec => []` of `CapAtRest`, `ToldIsStored`, `OneActivePerSource`, `MemoryInv` |
| `LifeMemoryProofs!ContextsCorrect` | `Spec => []ContextKeepsVisibility` |
| `LifeServicesProofs!BondsCorrect`, `BondContextsCorrect`, `ReportsCorrect`, `PlansInvariant` | `Spec => []` of `BondsExact`, `Plans!ContextNamesAsked`, `ReportedAsItWent`, and of `BondsInv` and `ExecInv` |
| `LifeServicesProofs!RequestsCorrect`, `HistoryCorrect`, `SendsCorrect`, `WakesInvariant` | `Spec => []` of `RequestsWellFormed`, `HistoryTellsWhatWasSaid`, `SentOnceInOrder`, and of `WakeInv` |
| `LifeMemoryProofs!TypeCorrect` | `Spec => []TypeOK`, of all the services |

*Disabled tasks.* `DisabledMeansPaused` speaks of the store, but any document that is still to
be written ends up there. `WritersPause` says it of all of them: of what `start()` has read, of
what a call is about to write; and a harvested snapshot is enabled, since `listDue` asks for
that.

*Restarts and administration.* A firing moves a task on, unless somebody writes an older document
back: a manager that starts and resets what it finds `running`, or an administrator's call. So
`RefiresBounded` rests on counting copies. `Runs` is, for a task and an instant, the number of
times it was fired together with one for each document from which it may be fired again: the one
stored, one that `start()` still goes through, one a manager has harvested, one a call has read.
A step only turns one of these into another, or drops it; a start adds one at most, and the end
of a pause, which every manager that harvested it writes, one for each manager
(`RunsBounded`). `CopiesInv` ties occurrence keys to instants in every copy. `OnceIsNotLost`
needs of every copy of a `once` task created ahead what it says of the stored one: it is
scheduled, or completed and fired (`KeepsOnce`, `OnceInv`).

*Steady managers.* `OccurrencesInOrder` is not inductive: a stale snapshot could be fired.
`SteadyInv` adds what the claim compares. A snapshot is never ahead of its task, and with equal
instants it has the task's run count (`SnapshotsInv`); a task has one holder, and is not
claimable while it has one (`HolderInv`); everything fired lies before what is scheduled or
claimed, and the holder's snapshot counts all the earlier runs (`FiredInv`). The claim compares
occurrence keys and not instants, so `WellKeyed` relates the two. Rescheduling moves forward by
`NextOccurrenceLater`. The refinement follows from the same invariant: a claim and a save
stutter, `Fire` is the ledger's `Fire`, `FinalSave` its `Reschedule` or, like `SaveError`, a
`GiveUp`.

*Gateway.* `GatewayInv` is `CircuitsOK /\ RequestsPositioned /\ VisitsOK /\ ProbeHasOwner`. The
count of failures is the number of visits on record because a request goes down its chain and
each visit is recorded once: the visit a request is on is not on record before it fails
(`Unvisited`). Probes are spaced because every probe finds its circuit cooled down, and the
failure that clears the flag moves the opening time to the present, so that late failures of
older requests can only move it further.

*Runtime.* `RuntimeInv` is `TypeOK /\ QueuesOK /\ TicketsOK /\ SeenOK /\ OwnStateKept`.
`QueuesOK` ties the three things the code keeps apart: a chat has a queue object in the map
exactly while that object is marked as draining and one drain loop is at work on it; so
`receiveStimulus()` either finds no queue and starts a loop, or finds a loop and only adds an
entry, and `HabitatSerial` follows. `TicketsOK` says that every queue is sorted by priority and
then by order of acceptance, which the insertion loop keeps (`InsertedShape`,
`InsertedInOrder`). With both, `Receive` maps to `Accept`, the end of a stimulus to `Turn`, and
every other step to a stutter. `SeenOK` says that a drain loop only serves lives its chat
reaches, and that what it has read of a life of one chat is still what is stored: another loop
about to save that life would belong to the same chat, and is therefore the same loop. A life of
two chats has no such argument, and the run `runtime_shared_life` is the counterexample.

*Event bus.* `HeardByAll` speaks of emits that are over and says nothing of those that are not.
`BusInv` is `BusTyped /\ InOwnSet /\ OneSetHeld /\ EmitsExact`: a handler is in its own Set
exactly until it leaves, and, as long as no disposer was called after its subscription had
ended, only the Set the map holds is non-empty; so whoever is subscribed is found by `emit()`.
An emit under way has in `todo` who is still to be called and in `heard` who was, and together
they are those who were subscribed when it started. `MaxOff` must be above 1 in the theorem:
with a counter that stops at 1 a second disposal could not be told from the first.

*Pipeline.* `PipelineInv` adds to `Released` where `processStimulus()` is: the traces reported
are those of the lives that are over, in order, and the store holds the contexts of the stimulus
and of the life in progress, no more (`Progress`); a context was written to only by its own life
(`OwnWords`). Which stages and hooks there are, and their order, does not matter for it.

*Hooks.* For `HooksInTheirPlace` it does. First, what `sortStages()` returns: its order repeats
no stage and puts none before one it has to come after, whatever is declared (`OrderFacts`, by
induction over the rounds of Kahn's algorithm), and the two sides of the anchor are parts of it
with nothing across that the declarations forbid (`SplitFacts`). Then `HooksInv`, which follows
a segment as it runs. `ToCome`: the stages and hooks still to come may come after everything
that was called in it, by the declarations it started from and, within a stage, by priority and
registration. `CalledWhenDue`: a hook that was registered as the segment began and still is was
called in it, once, if the turn of its stage has come, and not at all otherwise. It speaks of
those registered at both times because a plugin may come or go in between, with its stage or
without; `HooksApart` keeps a plugin's hook from being counted as another's.

*Observatory.* `ObservedAsItWent` counts records, and what it compares them to are calls, so the
invariant has to say which record is whose. `AccountInv` does it without naming places in the
ring: of the gateway's records, however they are picked, as many were heard as there are calls
whose question is among them, and calls whose answer is. The set picked may be any set, so one
induction gives every counter (`Counting`, `CountingAnswers`); two calls may leave the same
record, which is why it is a count and not a bijection. `RingInv` is about the
store alone: the ring is what was heard last since `clear()`, and the list of every stimulus is
the ring filtered (`Indexed`). That survives an eviction because the oldest record of the ring is
the first of its own list, whatever was appended in between (`UnlistedIndex`, `OnlyTail`). A
failed call blames the last of its attempts (`Blamed`), which puts `finalErrorCode` and the
attempts in agreement; and of a repository's replacement nothing is heard before its set-up
(`HeardInv`).

*Dispatch.* For `RepliedOnce`, `Unanswered`: what nobody has marked as consumed, nobody has
replied to. A reply marks the message in the step that sends it, before the await. The others
need `DispatchInv`, which has three parts beside the types and `NothingForgotten` itself.
`ServedInTurn`: a stimulus is in one queue once, and for the lives that are still to be served
it has had no effect, so a message that is queued was not heard and a wake-up that is queued was
not built. `WokenForHeard`: what waits in a batch, or is in a wake-up, was heard by that life; it
waits in the batch of its own chat only, and then in no wake-up, and it is in one wake-up at
most. Without the first part, the second would not survive a message that is served again for
the same life. `WaitsTimed`: the batcher's start is a time stamp and so never later than the
push, which is what makes its `max-wait` a bound on the model's clock. The proof does not follow
each action through each part: `Grown` says what a step may add to the queues and wake-ups,
`Moved` that what a new wake-up is for was in its scope's batch, or has just been heard, and is no
longer in the batch, `Minded` that what leaves a batch is in a wake-up or noted as lost. Every
action is shown to be such a step, and every such step to keep the invariant.

*Memory.* `MemInv` is `MemTyped /\ MemSound /\ MemSingle /\ Limited /\ ToldKept /\ Discreet`,
and five of the six speak of what a call still holds across an await. `MemSound`: an entry keeps
its key (stimulus, actor, owner), so a snapshot, a document on its way back to the collection or
a candidate of a context agrees with the stored entry on it, however old it is; and an entry no
consolidation wrote tells what one request said, with its attribution, and so does every reading
of it. `MemSingle`: a chat about to save found no active entry of its source, and a chat about
to merge found the one there is; neither can be overtaken, since another chat has other stimuli,
and consolidations only archive. `Limited`: when there are too many active entries, some chat is
about to count, or has a surplus in hand that was counted since, or holds a list whose
archiving brings the number down. That list holds as many entries as it should
because an order of n elements has an element in each of its n places (`Places`,
`FirstFacts`). `Discreet`: what was collected was visible when it was read, and a text is only
ever replaced by one with the same attribution. The limit is not `Cap` alone, for two reasons
the model showed. A merge that holds a snapshot from before an archiving writes the entry back
as active (`revivals`). And a consolidation saves its entry between another chat's count and its
list, which may then archive the consolidated entry, the least important one by now, in the
place of one of its sources: the life stays one over its limit for each consolidation. A bound
without these entries is violated by three chats with six calls between them.

*Bonds and plans.* `BondsExact` speaks of targets whose updates did not overlap. For those,
`Exact` says what is found before the answer: one chat at most is at work on the target; if it is
about to save, there is no bond; if it is about to write, it holds the count that comes next.
`ExecInv` says of a plan under way that its results and the actions still to come make up its
actions, none twice; that a chat waiting for the memory service has a listener under the plan's
own id, which no other plan has; that the listener has heard of a failure exactly if the update of its own plan failed; and that
the memory of an update that did not fail is stored. `ReportedAsItWent` reads these off when the plan ends.

*Wake-ups.* `WakeInv` is `TurnInv /\ SendInv /\ RegistryInv /\ RoutesTold`. A wake-up has its
number for good: it is either in the loop of one chat or among those whose outputs were created,
never both (`Numbered`), so an entry of a history, however late it is read, names outputs that no
later step replaces. The messages of a loop hold no system message, and every tool call with its
results (`Conversation`); a round keeps that because the echo comes back without the system
prompt and the calls it adds are answered one by one before the next request
(`Answers`, `RoundFacts`, `ConversationGrows`). A round executes its calls in order, which the
model writes as a recursive function over them; its values exist by the same induction the
filters use (`CalledExists`). `SendInv` splits what was created for a wake-up into the attempts
made and the outputs its turn still holds. `NowhereToGo` compares the registry with the messages
seen: the registry holds exactly the chats whose last message is followed by messages of fewer
than `MaxChannels` other chats. For that, `RegistryInv` says of any two chats in it that
the later one was seen after the last time the earlier was (`LastOrdered`), of each that since some
message of its own only chats after it were seen (`Covered`), and of a chat no longer in it that
the registry is full of chats seen since (`Outlived`). An entry pushed out was followed by all that
remain, so that they, and with them the registry's length, count the others
(`RegistryIsRecent`).

*Types of the services.* `TypeOK` follows from the four invariants above. Besides them it needs
that a plan in execution was counted, which keeps the listeners' ids within `calls`, and that no
step goes beyond the bound on failures (`Bounded`).

*Filters.* The batches, the cache, the queues, the registry of channels and the attempts of a
wake-up are filtered lists. What a filter returns is an
induction over the list, and the library's induction theorems cannot be instantiated here. It is
obtained from well-foundedness instead (`FilterProofs!SetInduction`, for a set that holds 0 and
the successor of each of its members), with a filter that is a recursive function
(`Filters!Only`): its existence, members, order, length and distinctness are lemmas there.

Left to TLC: the liveness properties (`DueIsFired`, `RunningRecovers`, `AcceptedIsResolved`),
which need fairness; and the properties of the protocols (`StreamFaithful`,
`StreamEndsHonestly`, `RequestsFaithful`), which say what a decoder or an encoder folded over a
sequence returns for every sequence: inductions over data, for five decoders and eight
protocols, whose hypotheses would have to describe every state of every decoder.

## 6. Not modelled

* Scheduled triggers: manual `fire()`, which changes no task; `start()` that throws in its
  restore loop; the trigger tool, which parses arguments and calls the operations modelled.
  `create()` counts an owner's tasks and saves after an await, so that concurrent creates may
  exceed the quota: there is one client in the runs.
* Gateway and protocols: usage records, model discovery, pictures, sounds and documents, options
  of requests, user-written custom protocols (the templates of the four presets are modelled)
  and their validation. A call without `timeoutMs` never times out (`providers/utils.ts:93`); an
  answer that does not come has no step in the model, and the fairness of the runtime excludes
  it.
* Runtime: manifests, registries and the persistence service, which wrap calls to a driver; the
  projection resolver is the constant `LivesOf`, so rules do not change while a stimulus is
  processed. The kernel's lifecycle manager, which only the test harness uses, and its sweep of
  old contexts.
* Homeostasis: which updates are made and when, not the numbers. Between `runtime.started` and
  the subscription of its service no update is heard, which is part of the model's guard and of
  no property.
* Dispatch: `enableReply` switched off, the shorter quiet window of direct messages, the
  announcements of replies as system events (they are never batched or matched), the limit of
  500 users per cooldown, the rolling window of events, the attribution of a wake-up to an
  actor, platform clocks that differ from the process's. The cooldown of a rule that replies is
  used up after the send (`index.ts:755`): the model has it so, no property forbids the second
  reply to another message meanwhile. A prompt assembled when its stimulus is served leaves out
  the latest pack whoever's it is (`index.ts:479-482`): modelled, and named in section 7.
* Memory and bonds: `retrieve()` with its access counts, `remove()`, the plugins' configuration;
  how a context is worded. Scores are modelled up to the bonuses for words and recency.
* Brain, dialogue and body: rendering and truncation of prompts, which depend on lengths of
  texts; member and reaction events of a platform.
* Observatory: redaction, titles, getters by task and provider, pages.
* Cognition beyond the order of recording and dispatching; perception and persona, which turn
  texts into texts.

## 7. Where the code and its documentation differ

* `trigger_overlap`: `start()` puts every task it finds `running` back to `waiting` under the
  same key, whoever is running it. When an old and a new process overlap at a restart, both wake
  the life for one occurrence; `docs/elysia-ai-database-schema.md` says the claim prevents
  exactly that.
* `trigger_remove`: after the claim, `runTask` upserts the whole snapshot, so a task removed in
  between exists again; the comment above that very step says whole snapshots are not written
  for this reason.
* `runtime_shared_life`: stimuli are serialised per chat, but state belongs to a life, and a
  life may perceive several chats: two messages interleave their ticks and one is lost.
  `docs/elysia-ai-known-issues-2026-08.md` lists it as fixed. `OwnStateKept` is what does hold.
* `dispatch_instant`: the rule that wakes a life does not mark the stimulus as consumed, as
  commands and replies do; with no cooldown, or once it has passed, every life of the chat is
  woken for one message. The comment in `ingestForLife()` says this happens once per stimulus.
  `RepliedOnce` is what holds.
* `responses_results`: the bridge puts the id of a tool result into its `tool_output` part, the
  Responses encoder looks for it in the message, finds none, and sends the result as a text of
  the user, or under the id it made up for another call. The comments of `encode.ts` say the
  pairing holds. `RequestsFaithful` is what does hold of the other protocols.

Met while modelling and part of the models, without a run of their own:

* `behavior/src/index.ts:479-482` drops the latest pack as the wake-up's own whoever's it is;
  its comment excludes that.
* `memory/src/index.ts:1092-1094`: over Mongo an archiving may write an older text back, as the
  whole document read before is written, against the comment above (1090-1091). `ToldIsStored`
  therefore speaks of the Map.
* `stop()` in the stimulus segment does not end the life segments (`runtime.ts:473-482`,
  `kernel/src/pipeline/runner.ts:99`), though the plugin guide has it end the processing.
* `once()` may call its handler twice when emits overlap, since a copy of the Set is under way.
* `receiveStimulus()` of a runtime that is not running ignores the stimulus without an error.
* A result without an id is dropped for Anthropic while its call is sent under a synthesized
  one; a result whose id is the function's name is sent to Gemini without it
  (`protocol-gemini/src/encode.ts:252`), though its call has it, as the Gemini preset makes it:
  there the name alone pairs them; empty ids reach Gemini, whose next request then throws; presets of the custom protocol
  but the Chat one lose the system text, and may repeat ids. These are the exceptions
  `RequestsFaithful` names.
* A plan reported partial or failed may have stored its memory: the failure of the limit's
  enforcement is told as the failure of the update (`memory/src/index.ts:1372-1373`, 1233-1240).
* A custom protocol streamed without frames quotes each fragment of arguments that is no JSON by
  itself and puts `{}` for missing ones (`protocol-custom/src/response.ts:175-187`), so the
  fragments do not add up to what was said; with frames they are passed on as they are, which is
  what the comment in `stream.ts:333-336` says. `StreamFaithful` leaves out the calls with such
  fragments (`Unreadable`), and only those.
* A custom stream that failed is told completed as well, if the frame of the error is terminal or
  gives a reason to finish, or by the mark (`protocol-custom/src/stream.ts:210-231`).
  `FailureLast` allows that and no completion before the failure.
* The custom stream decoder tells completion once more at the mark; Chat Completions
  truncated in a choice that only began after the others ended goes unreported. These are the
  exceptions `StreamEndsHonestly` names.
* Analytics of the observatory classify a failure by its last attempt and stop there when that
  has no class (`service.ts:362-365`), while the gateway's own message goes on
  (`model-gateway/src/index.ts:215`); only the first 20 attempts are kept; a request without a
  route throws without `gateway.failed` (361). A component of which only failures are heard, as
  of the triggers' repository (`behavior/src/mongo-trigger-task-repository.ts:75-88`), is counted
  by component and not among the loaded ones.
