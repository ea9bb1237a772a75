--------------------------- MODULE TriggerManager ---------------------------
(***************************************************************************)
(* Scheduled triggers: TriggerManager (behavior/src/trigger-manager.ts)     *)
(* instances sharing one task repository (MongoTriggerTaskRepository, or    *)
(* MemoryTriggerTaskRepository when there is one manager).                  *)
(*                                                                          *)
(* An action is one repository operation together with the synchronous code *)
(* up to the next await, so that managers, administrators, crashes and      *)
(* store failures interleave exactly at the awaits.                         *)
(***************************************************************************)
EXTENDS TriggerPlanner, Sequences, FiniteSets

CONSTANTS
  Managers,          \* TriggerManager instances
  Up,                \* those whose harvest timer runs in the initial state
  Clients,           \* callers of create / update / pauseUntil / resume / remove
  Tasks, NoTask,     \* task ids
  OwnerOf,           \* ownerKey of the task an id may be given to
  MaxTasksPerOwner,
  MaxTime, MaxSkew,  \* bound on the clock; how far a reading lags behind it
  MaxStarts, MaxCalls, MaxFaults   \* bounds on starts, admin calls, failures

ASSUME ManagersAssumption ==
  Up \subseteq Managers /\ Managers # {} /\ IsFiniteSet(Managers)
ASSUME TasksAssumption == NoTask \notin Tasks
ASSUME BoundsAssumption ==
  /\ {MaxTime, MaxSkew, MaxStarts, MaxCalls, MaxFaults} \subseteq Nat
  /\ MaxTasksPerOwner \in Nat
  /\ \A t \in Tasks : t \in DOMAIN OwnerOf

VARIABLES
  store,      \* the repository: Tasks -> document, Absent where there is none
  used,       \* ids handed out so far (ids are random: never reused)
  clock,      \* wall-clock time
  started, timer,       \* per manager: the `started` flag, a live interval
  restoring, startNow,  \* start(): documents still to restore, its clock reading
  starting,             \* start() is between two awaits
  hpc, due, cur, now,   \* harvest(): where it awaits, snapshots not yet done
                        \* with, the task being run, its clock reading
  call,       \* per client: the write its call is about to make
  fired,      \* history: the instants each task was fired for, in order
  starts, calls, faults   \* how much of the bounds is spent

storeVars == <<store, used>>
startVars == <<started, timer, restoring, startNow, starting>>
harvestVars == <<hpc, due, cur, now>>
bounds == <<starts, calls, faults>>
vars == <<store, used, clock, startVars, harvestVars, call, fired, bounds>>

-----------------------------------------------------------------------------
Statuses == {"waiting", "running", "paused", "completed", "error"}

\* Stands for no document: its status and condition are no task's.
Absent == [enabled |-> FALSE, cond |-> [type |-> "none"], created |-> 0,
           status |-> "absent", nextRunAt |-> NoTime, key |-> NoKey,
           runCount |-> 0, pausedUntil |-> NoTime]

KeySet == {"none", "once", "interval", "cron"} \X Int

TaskDocs == [enabled : BOOLEAN, cond : Conditions, created : Nat,
             status : Statuses, nextRunAt : Int, key : KeySet,
             runCount : Nat, pausedUntil : Int]
Docs == TaskDocs \cup {Absent}

\* Mutant: create() forgets initialTriggerState.
NewTaskWithoutState(c, at) ==
  [Absent EXCEPT !.enabled = TRUE, !.cond = c, !.created = at]

NewTask(c, at) ==
  InitialTriggerState([Absent EXCEPT !.enabled = TRUE, !.cond = c, !.created = at],
                      at)

\* A reading of Date.now() on one of the hosts.
Readings == {n \in 0..clock : clock <= n + MaxSkew}

Nothing == [t \in Tasks |-> Absent]
NoCall == [id |-> NoTask, doc |-> Absent]

\* reschedulePreservingHistory and reschedule.
ReschedulePreservingHistory(doc, at) ==
  [InitialTriggerState(doc, at) EXCEPT !.runCount = doc.runCount]
Reschedule(doc, at) == Scheduled(doc, Upcoming(doc, at))

-----------------------------------------------------------------------------
(***************************************************************************)
(* The repository: upsert, the claim CAS and the due query.                 *)
(***************************************************************************)
Save(t, doc) == store' = [store EXCEPT ![t] = doc]

\* Mutants: the claim's filter on the status alone, or on the key alone.
ClaimableByStatus(t, key) == store[t].status = "waiting"
ClaimableByKey(t, key) == store[t].key = key

Claimable(t, key) ==
  key # NoKey /\ store[t].status = "waiting" /\ store[t].key = key

IsDue(doc, at) ==
  /\ doc.enabled
  /\ \/ doc.status = "waiting" /\ doc.nextRunAt # NoTime /\ doc.nextRunAt <= at
     \/ doc.status = "paused" /\ doc.pausedUntil # NoTime /\ doc.pausedUntil <= at

ListDue(at) == [t \in Tasks |-> IF IsDue(store[t], at) THEN store[t] ELSE Absent]

CountByOwner(o) ==
  Cardinality({t \in Tasks : store[t] # Absent /\ OwnerOf[t] = o})

\* A repository operation that throws, whether or not it took effect.
Fault == faults < MaxFaults /\ faults' = faults + 1 /\ UNCHANGED <<starts, calls>>

-----------------------------------------------------------------------------
Init ==
  /\ store \in [Tasks -> {Absent} \cup {NewTask(c, 0) : c \in Conditions}]
  /\ used = {t \in Tasks : store[t] # Absent}
  /\ clock = 0
  /\ started = [m \in Managers |-> m \in Up]
  /\ timer = [m \in Managers |-> m \in Up]
  /\ restoring = [m \in Managers |-> Nothing]
  /\ startNow = [m \in Managers |-> 0]
  /\ starting = [m \in Managers |-> FALSE]
  /\ hpc = [m \in Managers |-> "idle"]
  /\ due = [m \in Managers |-> Nothing]
  /\ cur = [m \in Managers |-> NoTask]
  /\ now = [m \in Managers |-> 0]
  /\ call = [c \in Clients |-> NoCall]
  /\ fired = [t \in Tasks |-> <<>>]
  /\ starts = 0 /\ calls = 0 /\ faults = 0

Tick ==
  /\ clock < MaxTime
  /\ clock' = clock + 1
  /\ UNCHANGED <<store, used, startVars, harvestVars, call, fired, bounds>>

-----------------------------------------------------------------------------
(***************************************************************************)
(* harvest() and runTask().  hpc[m] is the await the manager is at:         *)
(*   idle    no harvest in progress (the `harvesting` mutex is free)        *)
(*   pick    between two tasks of the due list                              *)
(*   claim   about to claim (or, for a paused task, to reschedule) cur[m]   *)
(*   save    claimed; about to save the snapshot as running                 *)
(*   fire    saved as running; fires next                                   *)
(*   reread  fired; about to read the task back                             *)
(*   finish  still running; about to save the next state                    *)
(*   failed  in the catch block; about to save the snapshot as error        *)
(* The `running` set needs no variable: harvest() is its own mutex, and a   *)
(* manual fire() enters and leaves the set without an await.                *)
(***************************************************************************)
Snapshot(m) == due[m][cur[m]]

\* One interval tick.  Nothing changes when nothing is due, or when the query
\* fails; the due list is processed in any order (Mongo sorts by nextRunAt,
\* the in-memory repository keeps insertion order).
Harvest(m) ==
  /\ timer[m] /\ hpc[m] = "idle"
  /\ \E at \in Readings :
       IF ListDue(at) = Nothing
         THEN UNCHANGED harvestVars
         ELSE /\ hpc' = [hpc EXCEPT ![m] = "pick"]
              /\ due' = [due EXCEPT ![m] = ListDue(at)]
              /\ now' = [now EXCEPT ![m] = at]
              /\ UNCHANGED cur
  /\ UNCHANGED <<storeVars, clock, startVars, call, fired, bounds>>

\* The loop over the due list enters runTask.
NextTask(m, t) ==
  /\ hpc[m] = "pick" /\ due[m][t] # Absent
  /\ hpc' = [hpc EXCEPT ![m] = "claim"]
  /\ cur' = [cur EXCEPT ![m] = t]
  /\ UNCHANGED <<storeVars, clock, startVars, due, now, call, fired, bounds>>

\* runTask returns: on to the next snapshot, or the harvest is over.
LeaveTask(m) ==
  /\ due' = [due EXCEPT ![m][cur[m]] = Absent]
  /\ cur' = [cur EXCEPT ![m] = NoTask]
  /\ hpc' = [hpc EXCEPT ![m] = IF due'[m] = Nothing THEN "idle" ELSE "pick"]
  /\ UNCHANGED now

\* An exception that leaves runTask ends the harvest and drops the due list.
AbortHarvest(m) ==
  /\ due' = [due EXCEPT ![m] = Nothing]
  /\ cur' = [cur EXCEPT ![m] = NoTask]
  /\ hpc' = [hpc EXCEPT ![m] = "idle"]
  /\ UNCHANGED now

Goto(m, pc) == hpc' = [hpc EXCEPT ![m] = pc] /\ UNCHANGED <<due, cur, now>>

\* An operation inside runTask's try block answers, or throws into the catch.
Answered(m, pc) ==
  \/ Goto(m, pc) /\ UNCHANGED bounds
  \/ Goto(m, "failed") /\ Fault

\* A paused task whose pause is over: rescheduled from the harvested snapshot,
\* outside the try block.
WakePaused(m) ==
  /\ hpc[m] = "claim" /\ Snapshot(m).status = "paused"
  /\ \/ /\ Save(cur[m], ReschedulePreservingHistory(Snapshot(m), now[m]))
        /\ LeaveTask(m) /\ UNCHANGED bounds
     \/ AbortHarvest(m) /\ Fault /\ UNCHANGED store
  /\ UNCHANGED <<used, clock, startVars, call, fired>>

\* The CAS.  A lost claim ends the task (markClaimConflict notes it in
\* lastError only).
Claim(m) ==
  /\ hpc[m] = "claim" /\ Snapshot(m).status = "waiting"
  /\ IF Claimable(cur[m], Snapshot(m).key)
       THEN Save(cur[m], [store[cur[m]] EXCEPT !.status = "running"])
            /\ Answered(m, "save")
       ELSE LeaveTask(m) /\ UNCHANGED <<store, bounds>>
  /\ UNCHANGED <<used, clock, startVars, call, fired>>

SaveRunning(m) ==
  /\ hpc[m] = "save"
  /\ Save(cur[m], [Snapshot(m) EXCEPT !.status = "running"])
  /\ Answered(m, "fire")
  /\ UNCHANGED <<used, clock, startVars, call, fired>>

\* deps.fire: the wake-up of the target habitat is handed to the runtime; a
\* broadcast wakes every active habitat, and when there is none, or no life is
\* found for the target, the occurrence is spent without one.  fireTrigger does
\* not throw.
Fire(m) ==
  /\ hpc[m] = "fire"
  /\ fired' = [fired EXCEPT ![cur[m]] = Append(@, Snapshot(m).nextRunAt)]
  /\ Goto(m, "reread")
  /\ UNCHANGED <<storeVars, clock, startVars, call, bounds>>

\* The final write is given up when the task is no longer running.
Reread(m) ==
  /\ hpc[m] = "reread"
  /\ IF store[cur[m]].status = "running"
       THEN Answered(m, "finish")
       ELSE LeaveTask(m) /\ UNCHANGED bounds
  /\ UNCHANGED <<storeVars, clock, startVars, call, fired>>

FinalSave(m) ==
  /\ hpc[m] = "finish"
  /\ Save(cur[m], AfterTriggerRun(Snapshot(m), now[m]))
  /\ \/ LeaveTask(m) /\ UNCHANGED bounds
     \/ Goto(m, "failed") /\ Fault
  /\ UNCHANGED <<used, clock, startVars, call, fired>>

\* An operation of the try block throws without having taken effect.
LoseOperation(m) ==
  /\ \/ hpc[m] = "claim" /\ Snapshot(m).status = "waiting"
     \/ hpc[m] \in {"save", "reread", "finish"}
  /\ Goto(m, "failed") /\ Fault
  /\ UNCHANGED <<storeVars, clock, startVars, call, fired>>

\* Mutant: the failure is only logged.
SaveErrorLogged(m) ==
  /\ hpc[m] = "failed"
  /\ LeaveTask(m)
  /\ UNCHANGED <<storeVars, clock, startVars, call, fired, bounds>>

\* The catch block: the snapshot is saved as error, or that save throws too.
SaveError(m) ==
  /\ hpc[m] = "failed"
  /\ \/ /\ Save(cur[m], [Snapshot(m) EXCEPT !.status = "error"])
        /\ LeaveTask(m) /\ UNCHANGED bounds
     \/ AbortHarvest(m) /\ Fault /\ UNCHANGED store
  /\ UNCHANGED <<used, clock, startVars, call, fired>>

HarvestStep(m) ==
  \/ Harvest(m)
  \/ \E t \in Tasks : NextTask(m, t)
  \/ WakePaused(m) \/ Claim(m) \/ SaveRunning(m) \/ Fire(m)
  \/ Reread(m) \/ FinalSave(m) \/ LoseOperation(m) \/ SaveError(m)

-----------------------------------------------------------------------------
(***************************************************************************)
(* start(), stop() and the end of a process.  start() is not entered twice  *)
(* at once: the plugin calls it once per instance.                          *)
(***************************************************************************)
Start(m) ==
  /\ ~started[m] /\ ~starting[m] /\ starts < MaxStarts
  /\ starts' = starts + 1
  /\ started' = [started EXCEPT ![m] = TRUE]
  /\ starting' = [starting EXCEPT ![m] = TRUE]
  /\ restoring' = [restoring EXCEPT ![m] = store]
  /\ \E at \in Readings : startNow' = [startNow EXCEPT ![m] = at]
  /\ UNCHANGED <<storeVars, clock, timer, harvestVars, call, fired, calls, faults>>

\* Mutant: a task whose instant is still to come is saved as it was found.
RestoredAsFound(doc, at) ==
  IF doc.status = "error" \/ doc.nextRunAt = NoTime THEN Reschedule(doc, at) ELSE doc

\* What start() saves for a task that is in error, running or waiting.
Restored(doc, at) ==
  IF \/ doc.status = "error"
     \/ doc.nextRunAt = NoTime
     \/ doc.nextRunAt <= at /\ ResolveMisfire(doc.cond, doc.nextRunAt, at) = "skip"
    THEN Reschedule(doc, at)
    ELSE [doc EXCEPT !.status = "waiting"]

RestoreTask(m, t) ==
  /\ starting[m] /\ restoring[m][t] # Absent
  /\ \/ /\ restoring[m][t].status \in {"error", "running", "waiting"}
        /\ Save(t, Restored(restoring[m][t], startNow[m]))
     \/ /\ restoring[m][t].status \in {"paused", "completed"}
        /\ UNCHANGED store
  /\ restoring' = [restoring EXCEPT ![m][t] = Absent]
  /\ UNCHANGED <<used, clock, started, timer, startNow, starting, harvestVars,
                 call, fired, bounds>>

\* The interval is installed even when stop() was called in the meantime.
StartDone(m) ==
  /\ starting[m] /\ restoring[m] = Nothing
  /\ timer' = [timer EXCEPT ![m] = TRUE]
  /\ starting' = [starting EXCEPT ![m] = FALSE]
  /\ UNCHANGED <<storeVars, clock, started, restoring, startNow, harvestVars,
                 call, fired, bounds>>

\* A harvest in flight goes on after stop().  (A budgeted start is kept for
\* later, so that the bound on starts never leaves every manager down.)
Stop(m) ==
  /\ started[m] /\ starts < MaxStarts
  /\ started' = [started EXCEPT ![m] = FALSE]
  /\ timer' = [timer EXCEPT ![m] = FALSE]
  /\ UNCHANGED <<storeVars, clock, restoring, startNow, starting, harvestVars,
                 call, fired, bounds>>

\* The process dies: everything but the store is lost.
Crash(m) ==
  /\ started[m] /\ starts < MaxStarts
  /\ started' = [started EXCEPT ![m] = FALSE]
  /\ timer' = [timer EXCEPT ![m] = FALSE]
  /\ restoring' = [restoring EXCEPT ![m] = Nothing]
  /\ starting' = [starting EXCEPT ![m] = FALSE]
  /\ AbortHarvest(m)
  /\ UNCHANGED <<storeVars, clock, startNow, call, fired, bounds>>

LifecycleStep(m) ==
  \/ Start(m) \/ StartDone(m) \/ Stop(m) \/ Crash(m)
  \/ \E t \in Tasks : RestoreTask(m, t)

-----------------------------------------------------------------------------
(***************************************************************************)
(* The administrative calls.  Each reads the task (create: the owner's      *)
(* count), computes the document to write, and writes it after an await.    *)
(***************************************************************************)
\* update: a new condition (or only a new name or prompt), then the switch.
Redefined(doc, at) ==
  {doc} \cup {ReschedulePreservingHistory([doc EXCEPT !.cond = c], at) : c \in Conditions}

\* Mutant: switching a task off leaves its status and instant.
SwitchedOffOnly(doc, at) ==
  {doc, ReschedulePreservingHistory([doc EXCEPT !.enabled = TRUE], at),
   [doc EXCEPT !.enabled = FALSE]}

Switched(doc, at) ==
  {doc, ReschedulePreservingHistory([doc EXCEPT !.enabled = TRUE], at),
   [doc EXCEPT !.enabled = FALSE, !.status = "paused", !.nextRunAt = NoTime, !.key = NoKey]}

Patched(doc, at) == UNION {Switched(d, at) : d \in Redefined(doc, at)}

Paused(doc, at) ==
  {[doc EXCEPT !.status = "paused", !.nextRunAt = u, !.pausedUntil = u]
     : u \in (at + 1)..(MaxTime + 1)}

Resumed(doc, at) ==
  IF doc.enabled THEN {ReschedulePreservingHistory(doc, at)} ELSE {}

\* The documents a call on an existing task may go on to write; a removal
\* writes Absent.
Outcomes(doc, at) ==
  Patched(doc, at) \cup Paused(doc, at) \cup Resumed(doc, at) \cup {Absent}

BeginCall(c, t, doc) ==
  /\ call[c] = NoCall /\ calls < MaxCalls
  /\ calls' = calls + 1
  /\ call' = [call EXCEPT ![c] = [id |-> t, doc |-> doc]]
  /\ UNCHANGED <<store, clock, startVars, harvestVars, fired, starts, faults>>

Admin(c, t) ==
  /\ store[t] # Absent
  /\ \E at \in Readings : \E doc \in Outcomes(store[t], at) : BeginCall(c, t, doc)
  /\ UNCHANGED used

Create(c, t) ==
  /\ t \notin used
  /\ CountByOwner(OwnerOf[t]) < MaxTasksPerOwner
  /\ \E cond \in Conditions, at \in Readings : BeginCall(c, t, NewTask(cond, at))
  /\ used' = used \cup {t}

EndCall(c) ==
  /\ call[c] # NoCall
  /\ Save(call[c].id, call[c].doc)
  /\ call' = [call EXCEPT ![c] = NoCall]
  /\ UNCHANGED <<used, clock, startVars, harvestVars, fired, bounds>>

ClientStep(c) == EndCall(c) \/ \E t \in Tasks : Admin(c, t) \/ Create(c, t)

-----------------------------------------------------------------------------
\* Managers that stay up, tasks that nobody administers.
SteadyNext == Tick \/ \E m \in Managers : HarvestStep(m)

Next == SteadyNext \/ (\E m \in Managers : LifecycleStep(m))
                   \/ (\E c \in Clients : ClientStep(c))

SteadySpec == Init /\ [][SteadyNext]_vars
Spec == Init /\ [][Next]_vars

\* The steps of start(), of which one is enabled at a time.
StartStep(m) == Start(m) \/ StartDone(m) \/ \E t \in Tasks : RestoreTask(m, t)

\* Timers tick, every repository call is answered in the end, and a process
\* that is down is started again.  Nothing obliges anyone to fail or to call.
Fairness ==
  /\ WF_vars(Tick)
  /\ \A m \in Managers : /\ WF_vars(HarvestStep(m))
                         /\ WF_vars(StartStep(m))

FairSteadySpec == SteadySpec /\ Fairness
FairSpec == Spec /\ Fairness
-----------------------------------------------------------------------------
(***************************************************************************)
(* Properties of a deployment whose managers stay up (SteadySpec).          *)
(***************************************************************************)

StoreTypeOK ==
  /\ store \in [Tasks -> Docs]
  /\ used \in SUBSET Tasks
  /\ clock \in Nat
  /\ fired \in [Tasks -> Seq(Int)]
  /\ call \in [Clients -> [id : Tasks \cup {NoTask}, doc : Docs]]
  /\ starts \in Nat /\ calls \in Nat /\ faults \in Nat

StartTypeOK ==
  /\ started \in [Managers -> BOOLEAN]
  /\ timer \in [Managers -> BOOLEAN]
  /\ starting \in [Managers -> BOOLEAN]
  /\ startNow \in [Managers -> Nat]
  /\ restoring \in [Managers -> [Tasks -> Docs]]

HarvestTypeOK ==
  /\ hpc \in [Managers -> {"idle", "pick", "claim", "save", "fire", "reread",
                           "finish", "failed"}]
  /\ due \in [Managers -> [Tasks -> Docs]]
  /\ cur \in [Managers -> Tasks \cup {NoTask}]
  /\ now \in [Managers -> Nat]

\* A manager inside runTask has a task, and the harvested snapshot of it.
TaskInHand ==
  \A m \in Managers :
    hpc[m] \notin {"idle", "pick"} => cur[m] \in Tasks /\ Snapshot(m) \in TaskDocs

\* Every variable has its type, in every behaviour of the full specification.
TypeOK == StoreTypeOK /\ StartTypeOK /\ HarvestTypeOK /\ TaskInHand

\* However many managers harvest the same repository, with lagging clocks and
\* a failing store, a task is fired for strictly increasing instants: no
\* occurrence twice, none out of order (claim's CAS and afterTriggerRun).
OccurrencesInOrder ==
  \A t \in Tasks : \A i, j \in DOMAIN fired[t] : i < j => fired[t][i] < fired[t][j]

\* A scheduled or finished task's runCount is the number of times it was
\* fired: the full-document saves of concurrent managers lose no run.
RunCountExact ==
  \A t \in Tasks :
    store[t].status \in {"waiting", "completed"} => store[t].runCount = Len(fired[t])

\* An occurrence due on every clock is fired in the end, or its task is in error
\* because the repository failed, or it stays running because the catch block's save
\* failed as well; the other tasks of that harvest are fired all the same.
DueIsFired ==
  \A t \in Tasks, k \in 1..(MaxTime - MaxSkew) :
    (store[t].status = "waiting" /\ store[t].nextRunAt = k /\ k + MaxSkew <= clock)
      ~> \/ \E i \in DOMAIN fired[t] : fired[t][i] = k
         \/ store[t].status = "error"
         \/ store[t].status = "running" /\ faults > 1

\* The managers implement the ledger: the occurrence a task is on is the one
\* it waits for, or the one a manager has claimed and not yet fired.
Claimants(t) == {m \in Managers : cur[m] = t /\ hpc[m] \in {"save", "fire"}}

Pending(t) ==
  IF store[t].status = "waiting"
    THEN store[t].nextRunAt
    ELSE IF Claimants(t) = {} THEN NoTime
         ELSE Snapshot(CHOOSE m \in Claimants(t) : TRUE).nextRunAt

Ledger == INSTANCE OccurrenceLedger
            WITH next <- [t \in Tasks |-> Pending(t)], log <- fired

\* Every behaviour of the managers is one of the abstract ledger.
LedgerSpec == Ledger!Spec

-----------------------------------------------------------------------------
(***************************************************************************)
(* Properties of the full specification: restarts, failures and             *)
(* administrative calls at any point.                                       *)
(***************************************************************************)

\* Whatever interleaves, a disabled task is paused in every document written:
\* listDue and the claim look at different fields, and both refuse it.
DisabledMeansPaused ==
  \A t \in Tasks : store[t] # Absent /\ ~store[t].enabled => store[t].status = "paused"

\* Stale writes can bring an occurrence back, but each refire takes a start()
\* of its own or an administrative call; only the end of a pause, which every
\* manager that harvested it writes, can bring one back more than once a call.
RefiresBounded ==
  \A t \in Tasks : \A k \in {fired[t][i] : i \in DOMAIN fired[t]} :
    Cardinality({i \in DOMAIN fired[t] : fired[t][i] = k})
      <= 1 + starts + calls * Cardinality(Managers)

\* A once task created before its instant is not completed before it fired,
\* however late its manager is back (resolveMisfire always catches up on once):
\* only a failing store (a task in error is rescheduled from its present) or a
\* user's call can lose it.
OnceAhead(d) == d.cond.type = "once" /\ d.created < d.cond.at
OnceIsNotLost ==
  calls = 0 /\ faults = 0 => \A t \in Tasks :
    store[t].status = "completed" /\ OnceAhead(store[t]) => fired[t] # <<>>

\* A task left running by a manager that died is taken up again, unless a user's
\* call, computed from the running document, writes it back.
RunningRecovers ==
  \A t \in Tasks :
    store[t].status = "running" ~> (store[t].status # "running" \/ calls > 0)

-----------------------------------------------------------------------------
(***************************************************************************)
(* The inductive invariants behind the safety properties above.             *)
(***************************************************************************)
PausedIfDisabled(d) == d # Absent /\ ~d.enabled => d.status = "paused"

\* Every document anyone may still write, and every snapshot it may be
\* computed from, keeps a disabled task paused.
WritersPause ==
  /\ \A t \in Tasks : PausedIfDisabled(store[t])
  /\ \A m \in Managers, t \in Tasks : PausedIfDisabled(restoring[m][t])
  /\ \A m \in Managers, t \in Tasks : due[m][t] # Absent => due[m][t].enabled
  /\ \A c \in Clients : PausedIfDisabled(call[c].doc)

\* What anyone may still write of a once task keeps its instant until it fired.
KeepsOnce(d, log) ==
  d # Absent /\ OnceAhead(d) =>
    \/ d.status \in {"waiting", "running"} /\ d.nextRunAt # NoTime
    \/ d.status = "completed" /\ log # <<>>

OnceKept ==
  /\ \A t \in Tasks : KeepsOnce(store[t], fired[t])
  /\ \A m \in Managers, t \in Tasks :
       KeepsOnce(restoring[m][t], fired[t]) /\ KeepsOnce(due[m][t], fired[t])
  /\ \A m \in Managers :
       /\ hpc[m] # "failed"
       /\ hpc[m] \in {"reread", "finish"} => fired[cur[m]] # <<>>
  /\ \A c \in Clients : call[c] = NoCall

OnceInv == calls = 0 /\ faults = 0 => OnceKept

\* m has claimed t and not yet let go of it.
Holds(m, t) == cur[m] = t /\ hpc[m] \in {"save", "fire", "reread", "finish"}
Snapped(m, t) == due[m][t] # Absent

\* The key of a scheduled document determines its instant.
KeyAt(c, at) == IF c.type = "once" THEN Key("once", OnceAt) ELSE Key(c.type, at)
WellKeyed(d) ==
  /\ d.nextRunAt \in Nat
  /\ d.key = KeyAt(d.cond, d.nextRunAt)
  /\ d.cond.type = "once" => d.nextRunAt = d.cond.at

\* A scheduled document carries the key of its instant, and a snapshot was due.
Keyed(d) == d.status \in {"waiting", "running"} => d.key = KeyAt(d.cond, d.nextRunAt)
CopiesInv ==
  /\ \A t \in Tasks : Keyed(store[t])
  /\ \A m \in Managers, t \in Tasks : Keyed(restoring[m][t]) /\ Keyed(due[m][t])
  /\ \A c \in Clients : Keyed(call[c].doc)
  /\ \A m \in Managers, t \in Tasks :
       /\ due[m][t] # Absent => due[m][t].status \in {"waiting", "paused"}
       /\ due[m][t].status = "waiting" => due[m][t].nextRunAt <= now[m]
  /\ \A m \in Managers :
       hpc[m] \notin {"idle", "pick", "claim"} => Snapshot(m).status = "waiting"

(***************************************************************************)
(* The runs of task t for instant k: those there were, and one for each     *)
(* copy of t from which another may come.  A step turns one of them into    *)
(* another; only a start() and a call add to them.                          *)
(***************************************************************************)
Ran(t, k) == {<<"ran", i>> : i \in {j \in DOMAIN fired[t] : fired[t][j] = k}}

\* The key of a once task is the same for every instant.
Scheduling(t, k) ==
  {x \in {<<"scheduled", NoTask>>} :
     /\ store[t].status = "waiting"
     /\ store[t].cond.type = "once" \/ store[t].nextRunAt <= k}

HeldFor(m, t, k) ==
  /\ cur[m] = t
  /\ \/ hpc[m] \in {"save", "fire"} /\ Snapshot(m).nextRunAt <= k
     \/ /\ hpc[m] \in {"reread", "finish"} /\ Snapshot(m).nextRunAt < k
        /\ Snapshot(m).cond.type # "once"

Holding(t, k) == {<<"held", m>> : m \in {n \in Managers : HeldFor(n, t, k)}}
Restoring(t) == {<<"restored", m>> : m \in {n \in Managers : restoring[n][t] # Absent}}
Waking(t) ==
  {<<"woken", m>> : m \in {n \in Managers : store[t].status = "paused"
                                             \/ due[n][t].status = "paused"}}
Writing(t) ==
  {<<"written", x>> : x \in {c \in Clients : call[c].id = t} \X Managers}

Runs(t, k) ==
  Ran(t, k) \cup Scheduling(t, k) \cup Holding(t, k)
    \cup Restoring(t) \cup Waking(t) \cup Writing(t)

RunsBounded(Instants) ==
  \A t \in Tasks, k \in Instants :
    /\ IsFiniteSet(Runs(t, k))
    /\ Cardinality(Runs(t, k)) <= 1 + starts + calls * Cardinality(Managers)

\* Snapshots are of the task's one definition, were due, and are not ahead of
\* the task nor of the manager that holds it.
SnapshotsInv ==
  \A m \in Managers, t \in Tasks :
    Snapped(m, t) =>
      /\ due[m][t].status = "waiting" /\ WellKeyed(due[m][t])
      /\ due[m][t].nextRunAt <= now[m]
      /\ store[t] # Absent /\ due[m][t].cond = store[t].cond
      /\ store[t].status = "waiting" =>
           \/ due[m][t].nextRunAt < store[t].nextRunAt
           \/ /\ due[m][t].nextRunAt = store[t].nextRunAt
              /\ due[m][t].runCount = store[t].runCount
      /\ \A n \in Managers : Holds(n, t) => due[m][t].nextRunAt <= due[n][t].nextRunAt

\* One holder at a time, and no claimable document while there is one.
HolderInv ==
  /\ \A m, n \in Managers, t \in Tasks : Holds(m, t) /\ Holds(n, t) => m = n
  /\ \A m \in Managers, t \in Tasks :
       Holds(m, t) => store[t].status \in {"running", "error"}

\* What has been fired lies before what is scheduled or claimed.
FiredInv ==
  \A t \in Tasks :
    /\ store[t].status = "waiting" =>
         /\ WellKeyed(store[t])
         /\ \A i \in DOMAIN fired[t] : fired[t][i] < store[t].nextRunAt
    /\ \A m \in Managers : Holds(m, t) =>
         IF hpc[m] \in {"save", "fire"}
           THEN /\ \A i \in DOMAIN fired[t] : fired[t][i] < due[m][t].nextRunAt
                /\ due[m][t].runCount = Len(fired[t])
           ELSE /\ \A i \in DOMAIN fired[t] : fired[t][i] <= due[m][t].nextRunAt
                /\ due[m][t].runCount + 1 = Len(fired[t])

NonePaused == \A t \in Tasks : store[t].status # "paused"

SteadyInv ==
  /\ SnapshotsInv /\ HolderInv /\ FiredInv /\ NonePaused
  /\ OccurrencesInOrder /\ RunCountExact

-----------------------------------------------------------------------------
(***************************************************************************)
(* What the repository's docs and comments say and the code does not keep.  *)
(***************************************************************************)

\* docs/elysia-ai-database-schema.md 7.5: when several processes share the
\* repository, or an old and a new one overlap at a restart, the claim keeps
\* them from waking the life twice for one occurrence.
OneWakePerOccurrence ==
  \A t \in Tasks : \A i, j \in DOMAIN fired[t] : i # j => fired[t][i] # fired[t][j]

\* trigger-manager.ts, runTask: writing whole snapshots is avoided because it
\* would bring a removed task back.
RemovedStaysRemoved ==
  [][\A t \in Tasks :
       t \in used /\ store[t] = Absent /\ (\A c \in Clients : call[c].id # t)
         => store'[t] = Absent]_vars
=============================================================================
