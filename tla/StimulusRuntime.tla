-------------------------- MODULE StimulusRuntime --------------------------
(***************************************************************************)
(* The runtime (elysia-ai-runtime/src/runtime.ts): its lifecycle, the       *)
(* priority queue of each habitat, the processing of a stimulus, and the    *)
(* updates of the lives' homeostasis state made on the way: the tick of the *)
(* homeostasis plugin for a message, the update asked for by the execute    *)
(* stage for a wake-up.                                                     *)
(*                                                                          *)
(* An action is the synchronous code between two awaits.  A queue object is *)
(* named after the stimulus whose receiveStimulus() created it, a drain     *)
(* loop after the one whose call started it.                                *)
(***************************************************************************)
EXTENDS Integers, Sequences, SequencesExt

CONSTANTS
  Stimuli, None,
  Habitats, HabitatOf,
  Priority,           \* 0 for an instant wake-up, 1 for the rest
  Lives, LivesOf,     \* habitat -> the active lives its stimuli are routed to
  Messages, Wakes,    \* real messages; synthetic wake-ups.  The rest is system
  TargetOf,           \* the life a wake-up is for
  MaxFaults           \* bound on hooks and repository operations that throw

ASSUME StimuliAssumption ==
  /\ None \notin Stimuli
  /\ HabitatOf \in [Stimuli -> Habitats]
  /\ Priority \in [Stimuli -> Nat]
ASSUME RoutingAssumption ==
  /\ LivesOf \in [Habitats -> Seq(Lives)]
  /\ Messages \subseteq Stimuli /\ Wakes \subseteq Stimuli /\ Messages \cap Wakes = {}
  /\ TargetOf \in [Wakes -> Lives]
ASSUME FaultsAssumption == MaxFaults \in Nat

VARIABLES
  phase,      \* MinimalLifecycle's state
  booting,    \* start() has yet to start the homeostasis service
  listening,  \* that service is subscribed to update requests
  status,     \* per stimulus: where its receiveStimulus() call is
  queueOf,    \* stimulusQueues: habitat -> queue object, or None
  queues,     \* per queue object: its entries and its draining flag
  worker,     \* per drain loop: what it is processing
  state,      \* per life: the stimuli whose effect its stored state contains
  faults,
  applied,          \* history: the stimuli whose effect was ever saved
  ticket, accepted  \* history: the order in which stimuli were accepted

lifecycleVars == <<phase, booting, listening>>
queueVars == <<status, queueOf, queues>>
historyVars == <<ticket, accepted>>
stateVars == <<state, applied>>
vars == <<lifecycleVars, queueVars, worker, stateVars, faults, historyVars>>

-----------------------------------------------------------------------------
Idle == [pc |-> "idle", queue |-> None, stim |-> None, rest |-> <<>>, seen |-> {}]
Processing(q, s) == [Idle EXCEPT !.pc = "received", !.queue = q, !.stim = s]
NoEntries == [entries |-> <<>>, draining |-> FALSE]

Min0(S) == CHOOSE i \in S : \A j \in S : i <= j

\* Mutant: inserted before entries of its own priority.
InsertedUnstably(entries, s) ==
  LET later == {i \in DOMAIN entries : Priority[entries[i]] >= Priority[s]}
  IN  IF later = {} THEN Append(entries, s) ELSE InsertAt(entries, Min0(later), s)

\* The stable insertion of receiveStimulus().
Inserted(entries, s) ==
  LET later == {i \in DOMAIN entries : Priority[entries[i]] > Priority[s]}
  IN  IF later = {} THEN Append(entries, s) ELSE InsertAt(entries, Min0(later), s)

Fault == faults < MaxFaults /\ faults' = faults + 1

-----------------------------------------------------------------------------
Init ==
  /\ phase = "idle" /\ booting = FALSE /\ listening = FALSE
  /\ status = [s \in Stimuli |-> "new"]
  /\ queueOf = [h \in Habitats |-> None]
  /\ queues = [q \in Stimuli |-> NoEntries]
  /\ worker = [w \in Stimuli |-> Idle]
  /\ state = [l \in Lives |-> {}]
  /\ applied = [l \in Lives |-> {}]
  /\ faults = 0
  /\ ticket = [s \in Stimuli |-> 0] /\ accepted = 0

(***************************************************************************)
(* start() and stop().  In any other state they throw and change nothing.   *)
(***************************************************************************)
Lifecycle(from, to) ==
  /\ phase = from /\ phase' = to
  /\ UNCHANGED <<queueVars, worker, stateVars, faults, historyVars>>

Start == Lifecycle("idle", "starting") /\ UNCHANGED <<booting, listening>>
Run == Lifecycle("starting", "running") /\ booting' = TRUE /\ UNCHANGED listening
Stop == Lifecycle("running", "stopping") /\ listening' = FALSE /\ UNCHANGED booting
Stopped == Lifecycle("stopping", "stopped") /\ UNCHANGED <<booting, listening>>

\* start() goes on once the listeners of runtime.started have returned, even
\* if stop() was called in the meantime.
Listen ==
  /\ booting
  /\ booting' = FALSE /\ listening' = TRUE
  /\ UNCHANGED <<phase, queueVars, worker, stateVars, faults, historyVars>>

LifecycleStep == Start \/ Run \/ Listen \/ Stop \/ Stopped

-----------------------------------------------------------------------------
(***************************************************************************)
(* receiveStimulus() and drainStimulusQueue().                              *)
(***************************************************************************)
Ignore(s) ==
  /\ status[s] = "new" /\ phase # "running"
  /\ status' = [status EXCEPT ![s] = "ignored"]
  /\ UNCHANGED <<lifecycleVars, queueOf, queues, worker, stateVars, faults, historyVars>>

QueueFor(s) == IF queueOf[HabitatOf[s]] = None THEN s ELSE queueOf[HabitatOf[s]]

\* Mutant: a drain in progress does not keep another one from starting.
ReceiveAlwaysDraining(s) ==
  LET q == QueueFor(s)
      entries == Inserted(queues[q].entries, s)
  IN  /\ status[s] = "new" /\ phase = "running"
      /\ status' = [status EXCEPT ![s] = "accepted"]
      /\ accepted' = accepted + 1
      /\ ticket' = [ticket EXCEPT ![s] = accepted + 1]
      /\ queueOf' = [queueOf EXCEPT ![HabitatOf[s]] = q]
      /\ queues' = [queues EXCEPT ![q] = [entries |-> Tail(entries), draining |-> TRUE]]
      /\ worker' = [worker EXCEPT ![s] = Processing(q, Head(entries))]
      /\ UNCHANGED <<lifecycleVars, stateVars, faults>>

\* The entry is queued; a drain starts, and takes the first entry up, unless
\* the queue is being drained.
Receive(s) ==
  LET q == QueueFor(s)
      entries == Inserted(queues[q].entries, s)
  IN  /\ status[s] = "new" /\ phase = "running"
      /\ status' = [status EXCEPT ![s] = "accepted"]
      /\ accepted' = accepted + 1
      /\ ticket' = [ticket EXCEPT ![s] = accepted + 1]
      /\ queueOf' = [queueOf EXCEPT ![HabitatOf[s]] = q]
      /\ IF queues[q].draining
           THEN queues' = [queues EXCEPT ![q].entries = entries] /\ UNCHANGED worker
           ELSE /\ queues' = [queues EXCEPT ![q] = [entries |-> Tail(entries),
                                                    draining |-> TRUE]]
                /\ worker' = [worker EXCEPT ![s] = Processing(q, Head(entries))]
      /\ UNCHANGED <<lifecycleVars, stateVars, faults>>

\* Mutant: the key is deleted as soon as the last entry is taken up.
DrainDeletingEarly(w) ==
  LET q == worker[w].queue
      h == HabitatOf[worker[w].stim]
      entries == queues[q].entries
  IN  /\ status' = [status EXCEPT ![worker[w].stim] = "resolved"]
      /\ IF entries = <<>>
           THEN /\ queues' = [queues EXCEPT ![q] = NoEntries]
                /\ queueOf' = [queueOf EXCEPT ![h] = None]
                /\ worker' = [worker EXCEPT ![w] = Idle]
           ELSE /\ queues' = [queues EXCEPT ![q].entries = Tail(entries)]
                /\ queueOf' = IF Len(entries) = 1
                                THEN [queueOf EXCEPT ![h] = None] ELSE queueOf
                /\ worker' = [worker EXCEPT ![w] = Processing(q, Head(entries))]

\* processStimulus() has returned or thrown: the entry is resolved, and the
\* next one taken up, or the queue left.
Drain(w) ==
  LET q == worker[w].queue
      entries == queues[q].entries
  IN  /\ status' = [status EXCEPT ![worker[w].stim] = "resolved"]
      /\ IF entries = <<>>
           THEN /\ queues' = [queues EXCEPT ![q] = NoEntries]
                /\ queueOf' = [queueOf EXCEPT ![HabitatOf[worker[w].stim]] = None]
                /\ worker' = [worker EXCEPT ![w] = Idle]
           ELSE /\ queues' = [queues EXCEPT ![q].entries = Tail(entries)]
                /\ worker' = [worker EXCEPT ![w] = Processing(q, Head(entries))]
                /\ UNCHANGED queueOf

-----------------------------------------------------------------------------
(***************************************************************************)
(* processStimulus().  worker[w].pc is the await it is at:                  *)
(*   received  listeners of stimulus.received, stimulus-phase pipeline      *)
(*   ticking   the homeostasis listener of projection.routed, about to read *)
(*   ticked    the same, about to save what it computed                     *)
(*   living    the life-phase pipeline of the first life of `rest`          *)
(*   updating  its execute stage, about to save the updated state           *)
(* A listener that throws is isolated by the event bus, a hook is not.      *)
(***************************************************************************)
LifeAt(w) == Head(worker[w].rest)
Routed(s) == LivesOf[HabitatOf[s]]

Goto(w, pc, rest) ==
  /\ worker' = [worker EXCEPT ![w].pc = pc, ![w].rest = rest, ![w].seen = {}]
  /\ UNCHANGED queueVars

\* Mutant: the end of the list of lives is not noticed.
LiveOn(w, rest) == Goto(w, "living", rest)

\* On to the life phase, or to the end when nothing is left to do.
Live(w, rest) == IF rest = <<>> THEN Drain(w) ELSE Goto(w, "living", rest)

\* The stimulus phase ends and the stimulus is routed; only messages tick.
Route(w) ==
  /\ worker[w].pc = "received"
  /\ IF worker[w].stim \in Messages /\ Routed(worker[w].stim) # <<>>
       THEN Goto(w, "ticking", Routed(worker[w].stim))
       ELSE Live(w, Routed(worker[w].stim))
  /\ UNCHANGED <<lifecycleVars, stateVars, faults, historyVars>>

Read(w, pc) ==
  /\ worker' = [worker EXCEPT ![w].pc = pc, ![w].seen = state[LifeAt(w)]]
  /\ UNCHANGED <<lifecycleVars, queueVars, stateVars, faults, historyVars>>

Write(w) ==
  /\ state' = [state EXCEPT ![LifeAt(w)] = worker[w].seen \cup {worker[w].stim}]
  /\ applied' = [applied EXCEPT ![LifeAt(w)] = @ \cup {worker[w].stim}]
  /\ UNCHANGED <<lifecycleVars, faults, historyVars>>

TickRead(w) == worker[w].pc = "ticking" /\ Read(w, "ticked")

TickSave(w) ==
  /\ worker[w].pc = "ticked"
  /\ Write(w)
  /\ IF Tail(worker[w].rest) # <<>>
       THEN Goto(w, "ticking", Tail(worker[w].rest))
       ELSE Live(w, Routed(worker[w].stim))

\* The repository fails: the listener ends, the remaining lives do not tick.
TickFails(w) ==
  /\ worker[w].pc \in {"ticking", "ticked"}
  /\ Fault
  /\ Live(w, Routed(worker[w].stim))
  /\ UNCHANGED <<lifecycleVars, stateVars, historyVars>>

\* The execute stage of the life a wake-up is for asks for an update.
Executes(w) ==
  worker[w].stim \in Wakes /\ TargetOf[worker[w].stim] = LifeAt(w) /\ listening

UpdateRead(w) == worker[w].pc = "living" /\ Executes(w) /\ Read(w, "updating")

UpdateSave(w) ==
  /\ worker[w].pc = "updating"
  /\ Write(w)
  /\ Live(w, Tail(worker[w].rest))

\* The repository fails: the service reports it, the pipeline goes on.
UpdateFails(w) ==
  /\ worker[w].pc = "updating"
  /\ Fault
  /\ Live(w, Tail(worker[w].rest))
  /\ UNCHANGED <<lifecycleVars, stateVars, historyVars>>

\* The pipeline of a life that updates no state ends.
LifeEnds(w) ==
  /\ worker[w].pc = "living" /\ ~Executes(w)
  /\ Live(w, Tail(worker[w].rest))
  /\ UNCHANGED <<lifecycleVars, stateVars, faults, historyVars>>

\* Mutant: the exception of a hook leaves the drain loop.
HookThrowsUncaught(w) ==
  /\ worker[w].pc \in {"received", "living"}
  /\ Fault
  /\ worker' = [worker EXCEPT ![w] = Idle]
  /\ UNCHANGED <<queueVars, lifecycleVars, stateVars, historyVars>>

\* A hook throws: processStimulus() ends, the remaining lives are not served.
HookThrows(w) ==
  /\ worker[w].pc \in {"received", "living"}
  /\ Fault
  /\ Drain(w)
  /\ UNCHANGED <<lifecycleVars, stateVars, historyVars>>

WorkerStep(w) ==
  \/ Route(w) \/ TickRead(w) \/ TickSave(w) \/ TickFails(w)
  \/ UpdateRead(w) \/ UpdateSave(w) \/ UpdateFails(w)
  \/ LifeEnds(w) \/ HookThrows(w)

Next ==
  \/ LifecycleStep
  \/ \E s \in Stimuli : Ignore(s) \/ Receive(s) \/ WorkerStep(s)

Spec == Init /\ [][Next]_vars

\* Every listener, hook and repository operation ends.
FairSpec == Spec /\ \A w \in Stimuli : WF_vars(WorkerStep(w))

-----------------------------------------------------------------------------
WorkerRecords ==
  {Idle} \cup
  [pc : {"received", "ticking", "ticked", "living", "updating"},
   queue : Stimuli, stim : Stimuli, rest : Seq(Lives), seen : SUBSET Stimuli]

\* Every variable has its type, and a worker that is at a life has one.
TypeOK ==
  /\ phase \in {"idle", "starting", "running", "stopping", "stopped"}
  /\ booting \in BOOLEAN /\ listening \in BOOLEAN
  /\ status \in [Stimuli -> {"new", "ignored", "accepted", "resolved"}]
  /\ queueOf \in [Habitats -> Stimuli \cup {None}]
  /\ queues \in [Stimuli -> [entries : Seq(Stimuli), draining : BOOLEAN]]
  /\ worker \in [Stimuli -> WorkerRecords]
  /\ state \in [Lives -> SUBSET Stimuli] /\ applied \in [Lives -> SUBSET Stimuli]
  /\ faults \in 0..MaxFaults /\ accepted \in Nat /\ ticket \in [Stimuli -> Nat]
  /\ \A w \in Stimuli : worker[w].pc \notin {"idle", "received"} => worker[w].rest # <<>>

Working(w) == worker[w].pc # "idle"
WorkersOf(h) == {w \in Stimuli : Working(w) /\ HabitatOf[worker[w].stim] = h}

\* One stimulus of a habitat is processed at a time: no second drain loop
\* starts, and no second queue object comes up, while one is at work.
HabitatSerial ==
  \A v, w \in Stimuli :
    Working(v) /\ Working(w) /\ HabitatOf[worker[v].stim] = HabitatOf[worker[w].stim]
      => v = w

\* The queues implement the priority server: stable insertion is the same as
\* choosing the most urgent, longest waiting stimulus at each turn.
EntriesOf(h) == IF queueOf[h] = None THEN {} ELSE ToSet(queues[queueOf[h]].entries)
ServedBy(h) ==
  IF WorkersOf(h) = {} THEN None ELSE worker[CHOOSE w \in WorkersOf(h) : TRUE].stim

Server == INSTANCE PriorityServer
            WITH waiting <- [h \in Habitats |-> EntriesOf(h)],
                 serving <- [h \in Habitats |-> ServedBy(h)]

\* Every behaviour of the runtime is one of the abstract server.
ServerSpec == Server!Spec

\* The habitats whose stimuli may reach a life.
Reaching(l) == {h \in Habitats : l \in ToSet(LivesOf[h])}

\* A life that lives in one habitat only.
Own(l) == \A g, h \in Reaching(l) : g = h

\* The effects of concurrent stimuli on a life that lives in one habitat are
\* all in its state: no read-modify-write of a tick or an update is lost.
OwnStateKept == \A l \in Lives : Own(l) => applied[l] \subseteq state[l]

\* An accepted stimulus is resolved in the end, whatever fails on the way and
\* even if the runtime is stopped meanwhile.
AcceptedIsResolved ==
  \A s \in Stimuli : status[s] = "accepted" ~> status[s] = "resolved"

-----------------------------------------------------------------------------
(***************************************************************************)
(* The inductive invariants behind the safety properties above.             *)
(***************************************************************************)

\* A habitat has a queue exactly while a drain loop is at work on it; a queue
\* object that is not in use has no entries.
QueuesOK ==
  /\ HabitatSerial
  /\ \A w \in Stimuli :
       Working(w) => worker[w].queue = queueOf[HabitatOf[worker[w].stim]]
  /\ \A h \in Habitats : queueOf[h] # None =>
       /\ HabitatOf[queueOf[h]] = h
       /\ queues[queueOf[h]].draining
       /\ \A i \in DOMAIN queues[queueOf[h]].entries :
            HabitatOf[queues[queueOf[h]].entries[i]] = h
       /\ WorkersOf(h) # {}
  /\ \A q \in Stimuli : queueOf[HabitatOf[q]] # q => queues[q] = NoEntries
  /\ \A s \in Stimuli : status[s] = "new" => ~Working(s)

\* Every queue is in the order in which the server is to serve it.
InOrder(entries) ==
  \A i, j \in DOMAIN entries : i < j => Server!Before(entries[i], entries[j])

TicketsOK ==
  /\ \A s \in Stimuli : ticket[s] <= accepted /\ (status[s] = "new" => ticket[s] = 0)
  /\ \A q \in Stimuli :
       /\ InOrder(queues[q].entries)
       /\ \A i \in DOMAIN queues[q].entries : ticket[queues[q].entries[i]] # 0

\* A drain loop only serves lives its habitat reaches; while one is about to
\* save the state of a life of one habitat, that state is the one it read.
SeenOK ==
  \A w \in Stimuli : Working(w) =>
    /\ \A i \in DOMAIN worker[w].rest :
         HabitatOf[worker[w].stim] \in Reaching(worker[w].rest[i])
    /\ worker[w].pc \in {"ticked", "updating"} /\ Own(LifeAt(w))
         => worker[w].seen = state[LifeAt(w)]

RuntimeInv == TypeOK /\ QueuesOK /\ TicketsOK /\ SeenOK /\ OwnStateKept

-----------------------------------------------------------------------------
\* docs/elysia-ai-known-issues-2026-08.md: lost updates of concurrent
\* read-modify-writes were fixed by serialising the stimuli of a habitat.
NoUpdateLost == \A l \in Lives : applied[l] \subseteq state[l]
=============================================================================
