------------------------ MODULE TriggerManagerProofs ------------------------
(***************************************************************************)
(* Proofs about TriggerManager, for any number of managers, clients and     *)
(* tasks, any conditions and any bounds.                                    *)
(***************************************************************************)
EXTENDS TriggerManager, WellFoundedInduction, FiniteSetTheorems, TLAPS

-----------------------------------------------------------------------------
(***************************************************************************)
(* The trigger planner: where computeNextOccurrence can land.               *)
(***************************************************************************)
\* One step past the floor of a division lies beyond the dividend, the floor
\* itself does not (Math.floor in computeNextOccurrence).
LEMMA DivisionStep ==
  ASSUME NEW a \in Int, NEW e \in Nat \ {0}
  PROVE  /\ a \div e \in Int
         /\ ((a \div e) + 1) * e > a
         /\ (a \div e) * e <= a
OBVIOUS

LessOnNat == {ss \in Nat \X Nat : ss[1] < ss[2]}

\* Every nonempty set of instants has an earliest one (the minimum taken over
\* the expressions of a cron condition).
LEMMA EarliestExists ==
  ASSUME NEW S \in SUBSET Nat, S # {}
  PROVE  Earliest(S) \in S /\ \A u \in S : Earliest(S) <= u
<1>1. IsWellFoundedOn(LessOnNat, Nat)
  BY NatLessThanWellFounded DEF OpToRel, LessOnNat
<1>2. PICK x \in S : \A y \in S : ~ (<<y, x>> \in LessOnNat)
  BY <1>1, WFMin
<1>3. ASSUME NEW y \in S, y < x PROVE FALSE
  <2>1. <<y, x>> \in Nat \X Nat /\ <<y, x>>[1] < <<y, x>>[2]
    BY <1>3
  <2>2. QED
    BY <1>2, <2>1 DEF LessOnNat
<1>4. \A y \in S : x <= y
  BY <1>3
<1>5. QED
  BY <1>4 DEF Earliest

KeyTypes == {"none", "once", "interval", "cron"}

\* computeNextOccurrence returns no occurrence, or a well-formed one strictly
\* after the instant it was asked for: rescheduling can never land on the
\* occurrence just run.
THEOREM NextOccurrenceLater ==
  ASSUME NEW c \in Conditions, NEW after \in Int, NEW created \in Nat
  PROVE  LET o == NextOccurrence(c, after, created)
         IN  \/ o = NoOccurrence
             \/ /\ o = [at |-> o.at, key |-> o.key]
                /\ o.at \in Nat
                /\ o.at > after
                /\ o.key \in KeyTypes \X Int
<1> DEFINE o == NextOccurrence(c, after, created)
<1>0. ConditionTypeOK(c)
  BY ConditionsAssumption
<1>1. CASE c.type = "once"
  <2>1. c.at \in Nat
    BY <1>0, <1>1 DEF ConditionTypeOK
  <2>2. o = IF c.at <= after THEN NoOccurrence
                             ELSE [at |-> c.at, key |-> Key("once", OnceAt)]
    BY <1>1 DEF NextOccurrence
  <2>3. Key("once", OnceAt) \in KeyTypes \X Int
    BY DEF Key, KeyTypes, OnceAt
  <2>4. QED
    BY <2>1, <2>2, <2>3
<1>2. CASE c.type = "interval"
  <2> DEFINE anchor == Anchor(c, created)
             index == GridIndex(c, after, created)
             quotient == (after - anchor) \div c.every
  <2>1. c.every \in Nat \ {0} /\ anchor \in Nat
    BY <1>0, <1>2 DEF ConditionTypeOK, Anchor, NoTime
  <2>2. o = Occurrence("interval", anchor + index * c.every)
    BY <1>2 DEF NextOccurrence
  <2>3. /\ quotient \in Int
        /\ (quotient + 1) * c.every > after - anchor
    <3>1. after - anchor \in Int
      BY <2>1
    <3>2. QED
      BY <2>1, <3>1, DivisionStep
  <2>4. index = IF quotient + 1 < 0 THEN 0 ELSE quotient + 1
    BY DEF GridIndex
  <2>5. /\ index * c.every \in Nat
        /\ index * c.every > after - anchor
    <3> HIDE DEF index, quotient, anchor
    <3>1. CASE quotient + 1 < 0
      <4>1. index = 0
        BY <2>4, <3>1
      <4>2. index * c.every = 0
        BY <4>1, <2>1
      <4>3. (quotient + 1) * c.every <= 0
        BY <2>1, <2>3, <3>1
      <4>4. after - anchor < 0
        BY <4>3, <2>1, <2>3
      <4>5. QED
        BY <4>2, <4>4
    <3>2. CASE quotient + 1 >= 0
      <4>1. index = quotient + 1
        BY <2>3, <2>4, <3>2
      <4>2. QED
        BY <4>1, <2>1, <2>3, <3>2
    <3>3. QED
      BY <3>1, <3>2, <2>3
  <2>6. /\ anchor + index * c.every \in Nat
        /\ anchor + index * c.every > after
    <3> HIDE DEF index, anchor
    <3>1. QED
      BY <2>1, <2>5
  <2>7. QED
    BY <2>2, <2>6 DEF Occurrence, Key, KeyTypes
<1>3. CASE c.type = "cron"
  <2> DEFINE later == {t \in c.instants : t > after}
  <2>1. later \in SUBSET Nat
    BY <1>0, <1>3 DEF ConditionTypeOK
  <2>2. o = IF later = {} THEN NoOccurrence
                          ELSE Occurrence("cron", Earliest(later))
    BY <1>3 DEF NextOccurrence
  <2>3. later # {} => Earliest(later) \in later
    BY <2>1, EarliestExists
  <2>4. later # {} => Earliest(later) \in Nat /\ Earliest(later) > after
    BY <2>1, <2>3
  <2>5. QED
    BY <2>2, <2>4 DEF Occurrence, Key, KeyTypes
<1>4. QED
  BY <1>0, <1>1, <1>2, <1>3 DEF ConditionTypeOK

-----------------------------------------------------------------------------
(***************************************************************************)
(* The documents the planner's operators build.                             *)
(***************************************************************************)
LEMMA AbsentIsNoTask == Absent \notin TaskDocs
BY DEF Absent, TaskDocs, Statuses

\* A document before initialTriggerState gave it a state.
Drafts == [enabled : BOOLEAN, cond : Conditions, created : Nat,
           status : Statuses \cup {"absent"}, nextRunAt : Int, key : KeySet,
           runCount : Nat, pausedUntil : Int]

LEMMA TasksAreDrafts == TaskDocs \subseteq Drafts
BY DEF TaskDocs, Drafts

LEMMA NullTypes ==
  /\ NoTime \in Int /\ NoKey \in KeySet
  /\ NoOccurrence.at \in Int /\ NoOccurrence.key \in KeySet
BY DEF NoOccurrence, NoTime, NoKey, Key, KeySet

LEMMA UpcomingType ==
  ASSUME NEW doc \in Drafts, NEW at \in Int
  PROVE  /\ Upcoming(doc, at).at \in Int
         /\ Upcoming(doc, at).key \in KeySet
<1>1. doc.cond \in Conditions /\ doc.created \in Nat
  BY DEF Drafts
<1>2. QED
  BY <1>1, NullTypes, NextOccurrenceLater DEF Upcoming, KeyTypes, KeySet

LEMMA ScheduledType ==
  ASSUME NEW doc \in Drafts, NEW o, o.at \in Int, o.key \in KeySet
  PROVE  /\ Scheduled(doc, o) \in TaskDocs
         /\ Scheduled(doc, o).enabled = doc.enabled
         /\ Scheduled(doc, o).runCount = doc.runCount
         /\ Scheduled(doc, o).cond = doc.cond
         /\ Scheduled(doc, o).created = doc.created
BY DEF Scheduled, TaskDocs, Drafts, Statuses

LEMMA InitialStateType ==
  ASSUME NEW doc \in Drafts, NEW at \in Int
  PROVE  /\ InitialTriggerState(doc, at) \in TaskDocs
         /\ InitialTriggerState(doc, at).enabled = doc.enabled
         /\ ~doc.enabled => InitialTriggerState(doc, at).status = "paused"
<1> DEFINE fresh == [doc EXCEPT !.runCount = 0, !.pausedUntil = NoTime]
           parked == [fresh EXCEPT !.status = "paused", !.nextRunAt = NoTime,
                                   !.key = NoKey]
<1>1. fresh \in Drafts /\ fresh.enabled = doc.enabled
  BY NullTypes DEF Drafts
<1>2. /\ Scheduled(fresh, Upcoming(doc, at)) \in TaskDocs
      /\ Scheduled(fresh, Upcoming(doc, at)).enabled = doc.enabled
  BY <1>1, UpcomingType, ScheduledType
<1>3. /\ parked \in TaskDocs
      /\ parked.enabled = doc.enabled /\ parked.status = "paused"
  BY <1>1, NullTypes DEF Drafts, TaskDocs, Statuses
<1>4. InitialTriggerState(doc, at) =
        IF doc.enabled THEN Scheduled(fresh, Upcoming(doc, at)) ELSE parked
  BY DEF InitialTriggerState
<1>5. QED
  <2> HIDE DEF fresh, parked
  <2>1. QED
    BY <1>2, <1>3, <1>4

LEMMA PreservingHistoryType ==
  ASSUME NEW doc \in TaskDocs, NEW at \in Int
  PROVE  /\ ReschedulePreservingHistory(doc, at) \in TaskDocs
         /\ ReschedulePreservingHistory(doc, at).enabled = doc.enabled
         /\ ~doc.enabled => ReschedulePreservingHistory(doc, at).status = "paused"
<1>1. doc.runCount \in Nat
  BY DEF TaskDocs
<1>2. QED
  BY <1>1, InitialStateType, TasksAreDrafts DEF ReschedulePreservingHistory, TaskDocs

LEMMA AfterRunType ==
  ASSUME NEW doc \in TaskDocs, NEW at \in Int
  PROVE  /\ AfterTriggerRun(doc, at) \in TaskDocs
         /\ AfterTriggerRun(doc, at).enabled = doc.enabled
         /\ AfterTriggerRun(doc, at).cond = doc.cond
         /\ AfterTriggerRun(doc, at).created = doc.created
         /\ AfterTriggerRun(doc, at).runCount = doc.runCount + 1
<1> DEFINE counted == [doc EXCEPT !.runCount = @ + 1]
<1>1. /\ counted \in Drafts /\ counted.enabled = doc.enabled
      /\ counted.cond = doc.cond /\ counted.created = doc.created
      /\ counted.runCount = doc.runCount + 1
  BY DEF TaskDocs, Drafts
<1> DEFINE o == IF doc.cond.type = "once" THEN NoOccurrence ELSE Upcoming(doc, at)
<1>2. o.at \in Int /\ o.key \in KeySet
  BY NullTypes, TasksAreDrafts, UpcomingType
<1>3. AfterTriggerRun(doc, at) = Scheduled(counted, o)
  BY DEF AfterTriggerRun
<1>4. QED
  <2> HIDE DEF counted, o
  <2>1. QED
    BY <1>1, <1>2, <1>3, ScheduledType

LEMMA NewTaskType ==
  ASSUME NEW c \in Conditions, NEW at \in Nat
  PROVE  NewTask(c, at) \in TaskDocs /\ NewTask(c, at).enabled = TRUE
<1> DEFINE blank == [Absent EXCEPT !.enabled = TRUE, !.cond = c, !.created = at]
<1>1. blank \in Drafts /\ blank.enabled = TRUE
  BY NullTypes DEF Absent, Drafts
<1>2. NewTask(c, at) = InitialTriggerState(blank, at)
  BY DEF NewTask
<1>3. at \in Int
  OBVIOUS
<1>4. QED
  <2> HIDE DEF blank
  <2>1. QED
    BY <1>1, <1>2, <1>3, InitialStateType
-----------------------------------------------------------------------------
(***************************************************************************)
(* Type correctness.  One lemma for each group of actions.                  *)
(***************************************************************************)
LEMMA NothingType == Nothing \in [Tasks -> Docs] /\ Absent \in Docs
BY DEF Nothing, Docs

LEMMA ReadingsType == ASSUME clock \in Nat PROVE Readings \subseteq Nat
BY DEF Readings

LEMMA InitTypeOK == Init => TypeOK
<1> SUFFICES ASSUME Init PROVE TypeOK
  OBVIOUS
<1>1. {NewTask(c, 0) : c \in Conditions} \subseteq TaskDocs
  BY NewTaskType
<1>2. StoreTypeOK
  BY <1>1, NothingType DEF Init, StoreTypeOK, Docs, NoCall
<1>3. StartTypeOK
  BY NothingType DEF Init, StartTypeOK
<1>4. HarvestTypeOK
  BY NothingType DEF Init, HarvestTypeOK
<1>5. TaskInHand
  BY DEF Init, TaskInHand
<1>6. QED
  BY <1>2, <1>3, <1>4, <1>5 DEF TypeOK

\* Leaving a task, or the whole harvest, keeps the harvest's variables typed.
LEMMA LeaveTaskType ==
  ASSUME HarvestTypeOK, TaskInHand, NEW m \in Managers,
         LeaveTask(m) \/ AbortHarvest(m)
  PROVE  HarvestTypeOK' /\ TaskInHand'
<1>1. CASE LeaveTask(m)
  <2>1. due' \in [Managers -> [Tasks -> Docs]]
    BY <1>1, NothingType DEF LeaveTask, HarvestTypeOK
  <2>2. HarvestTypeOK'
    BY <1>1, <2>1 DEF LeaveTask, HarvestTypeOK
  <2>3. hpc'[m] \in {"idle", "pick"}
    BY <1>1 DEF LeaveTask, HarvestTypeOK
  <2>4. \A n \in Managers \ {m} : hpc'[n] = hpc[n] /\ cur'[n] = cur[n] /\ due'[n] = due[n]
    BY <1>1 DEF LeaveTask, HarvestTypeOK
  <2>5. TaskInHand'
    BY <2>3, <2>4 DEF TaskInHand, Snapshot
  <2>6. QED
    BY <2>2, <2>5
<1>2. CASE AbortHarvest(m)
  <2>1. HarvestTypeOK'
    BY <1>2, NothingType DEF AbortHarvest, HarvestTypeOK
  <2>2. hpc'[m] = "idle"
    BY <1>2 DEF AbortHarvest, HarvestTypeOK
  <2>3. \A n \in Managers \ {m} : hpc'[n] = hpc[n] /\ cur'[n] = cur[n] /\ due'[n] = due[n]
    BY <1>2 DEF AbortHarvest, HarvestTypeOK
  <2>4. TaskInHand'
    BY <2>2, <2>3 DEF TaskInHand, Snapshot
  <2>5. QED
    BY <2>1, <2>4
<1>3. QED
  BY <1>1, <1>2

PCs == {"idle", "pick", "claim", "save", "fire", "reread", "finish", "failed"}

LEMMA GotoType ==
  ASSUME HarvestTypeOK, TaskInHand, NEW m \in Managers, NEW pc \in PCs,
         hpc[m] \notin {"idle", "pick"}, Goto(m, pc)
  PROVE  HarvestTypeOK' /\ TaskInHand'
BY DEF Goto, HarvestTypeOK, TaskInHand, Snapshot, PCs

LEMMA AnsweredType ==
  ASSUME TypeOK, NEW m \in Managers, NEW pc \in PCs,
         hpc[m] \notin {"idle", "pick"}, Answered(m, pc)
  PROVE  /\ HarvestTypeOK' /\ TaskInHand'
         /\ starts' \in Nat /\ calls' \in Nat /\ faults' \in Nat
<1>1. "failed" \in PCs
  BY DEF PCs
<1>2. HarvestTypeOK' /\ TaskInHand'
  BY <1>1, GotoType DEF Answered, TypeOK
<1>3. QED
  BY <1>2 DEF Answered, Fault, bounds, TypeOK, StoreTypeOK

LEMMA HarvestStepTypeOK ==
  ASSUME TypeOK, NEW m \in Managers, HarvestStep(m)
  PROVE  TypeOK'
<1> USE DEF TypeOK
<1>0. StartTypeOK'
  BY DEF HarvestStep, Harvest, NextTask, WakePaused, Claim, SaveRunning, Fire,
         Reread, FinalSave, LoseOperation, SaveError, startVars, StartTypeOK
<1>1. CASE Harvest(m)
  <2>1. StoreTypeOK'
    BY <1>1 DEF Harvest, storeVars, bounds, StoreTypeOK
  <2>2. PICK at \in Readings :
          IF ListDue(at) = Nothing
            THEN UNCHANGED harvestVars
            ELSE /\ hpc' = [hpc EXCEPT ![m] = "pick"]
                 /\ due' = [due EXCEPT ![m] = ListDue(at)]
                 /\ now' = [now EXCEPT ![m] = at]
                 /\ UNCHANGED cur
    BY <1>1 DEF Harvest
  <2>3. at \in Nat /\ ListDue(at) \in [Tasks -> Docs]
    BY ReadingsType, NothingType DEF ListDue, StoreTypeOK
  <2>4. CASE UNCHANGED harvestVars
    BY <2>1, <2>4, <1>0 DEF harvestVars, HarvestTypeOK, TaskInHand, Snapshot
  <2>5. CASE ~ UNCHANGED harvestVars
    <3>1. HarvestTypeOK'
      BY <2>2, <2>3, <2>5 DEF HarvestTypeOK
    <3>2. TaskInHand'
      BY <2>2, <2>5 DEF TaskInHand, Snapshot, HarvestTypeOK
    <3>3. QED
      BY <1>0, <2>1, <3>1, <3>2
  <2>6. QED
    BY <2>4, <2>5
<1>2. ASSUME NEW t \in Tasks, NextTask(m, t)
      PROVE  TypeOK'
  <2>1. StoreTypeOK'
    BY <1>2 DEF NextTask, storeVars, bounds, StoreTypeOK
  <2>2. HarvestTypeOK'
    BY <1>2 DEF NextTask, HarvestTypeOK
  <2>3. due[m][t] \in TaskDocs
    BY <1>2 DEF NextTask, HarvestTypeOK, Docs
  <2>4. TaskInHand'
    BY <1>2, <2>3 DEF NextTask, TaskInHand, Snapshot, HarvestTypeOK
  <2>5. QED
    BY <1>0, <2>1, <2>2, <2>4
<1>3. CASE WakePaused(m)
  <2>1. cur[m] \in Tasks /\ Snapshot(m) \in TaskDocs /\ now[m] \in Int
    BY <1>3 DEF WakePaused, TaskInHand, HarvestTypeOK
  <2>2. ReschedulePreservingHistory(Snapshot(m), now[m]) \in TaskDocs
    BY <2>1, PreservingHistoryType
  <2>3. StoreTypeOK'
    BY <1>3, <2>1, <2>2 DEF WakePaused, Save, Fault, bounds, StoreTypeOK, Docs
  <2>4. HarvestTypeOK' /\ TaskInHand'
    BY <1>3, LeaveTaskType DEF WakePaused
  <2>5. QED
    BY <1>0, <2>3, <2>4
<1>4. CASE Claim(m)
  <2>1. cur[m] \in Tasks /\ hpc[m] \notin {"idle", "pick"}
    BY <1>4 DEF Claim, TaskInHand
  <2>2. CASE Claimable(cur[m], Snapshot(m).key)
    <3>1. store[cur[m]] \in TaskDocs
      BY <2>1, <2>2 DEF Claimable, StoreTypeOK, Docs, Absent
    <3>2. [store[cur[m]] EXCEPT !.status = "running"] \in Docs
      BY <3>1 DEF TaskDocs, Docs, Statuses
    <3>3. Answered(m, "save")
      BY <1>4, <2>2 DEF Claim
    <3>4. "save" \in PCs
      BY DEF PCs
    <3>5. /\ HarvestTypeOK' /\ TaskInHand'
          /\ starts' \in Nat /\ calls' \in Nat /\ faults' \in Nat
      BY <2>1, <3>3, <3>4, AnsweredType
    <3>6. StoreTypeOK'
      BY <1>4, <2>1, <2>2, <3>2, <3>5 DEF Claim, Save, StoreTypeOK
    <3>7. QED
      BY <1>0, <3>5, <3>6
  <2>3. CASE ~Claimable(cur[m], Snapshot(m).key)
    <3>1. StoreTypeOK'
      BY <1>4, <2>3 DEF Claim, bounds, StoreTypeOK
    <3>2. HarvestTypeOK' /\ TaskInHand'
      BY <1>4, <2>3, LeaveTaskType DEF Claim
    <3>3. QED
      BY <1>0, <3>1, <3>2
  <2>4. QED
    BY <2>2, <2>3
<1>5. CASE SaveRunning(m)
  <2>1. cur[m] \in Tasks /\ Snapshot(m) \in TaskDocs /\ hpc[m] \notin {"idle", "pick"}
    BY <1>5 DEF SaveRunning, TaskInHand
  <2>2. [Snapshot(m) EXCEPT !.status = "running"] \in Docs
    BY <2>1 DEF TaskDocs, Docs, Statuses
  <2>3. Answered(m, "fire") /\ "fire" \in PCs
    BY <1>5 DEF SaveRunning, PCs
  <2>4. /\ HarvestTypeOK' /\ TaskInHand'
        /\ starts' \in Nat /\ calls' \in Nat /\ faults' \in Nat
    BY <2>1, <2>3, AnsweredType
  <2>5. StoreTypeOK'
    BY <1>5, <2>1, <2>2, <2>4 DEF SaveRunning, Save, StoreTypeOK
  <2>6. QED
    BY <1>0, <2>4, <2>5
<1>6. CASE Fire(m)
  <2>1. cur[m] \in Tasks /\ Snapshot(m) \in TaskDocs /\ hpc[m] \notin {"idle", "pick"}
    BY <1>6 DEF Fire, TaskInHand
  <2>2. Snapshot(m).nextRunAt \in Int
    BY <2>1 DEF TaskDocs
  <2>3. StoreTypeOK'
    BY <1>6, <2>1, <2>2 DEF Fire, storeVars, bounds, StoreTypeOK
  <2>4. HarvestTypeOK' /\ TaskInHand'
    BY <1>6, <2>1, GotoType DEF Fire, PCs
  <2>5. QED
    BY <1>0, <2>3, <2>4
<1>7. CASE Reread(m)
  <2>1. hpc[m] \notin {"idle", "pick"} /\ "finish" \in PCs
    BY <1>7 DEF Reread, PCs
  <2>2. CASE Answered(m, "finish")
    <3>1. /\ HarvestTypeOK' /\ TaskInHand'
          /\ starts' \in Nat /\ calls' \in Nat /\ faults' \in Nat
      BY <2>1, <2>2, AnsweredType
    <3>2. StoreTypeOK'
      BY <1>7, <3>1 DEF Reread, storeVars, StoreTypeOK
    <3>3. QED
      BY <1>0, <3>1, <3>2
  <2>3. CASE LeaveTask(m) /\ UNCHANGED bounds
    <3>1. HarvestTypeOK' /\ TaskInHand'
      BY <2>3, LeaveTaskType
    <3>2. StoreTypeOK'
      BY <1>7, <2>3 DEF Reread, storeVars, bounds, StoreTypeOK
    <3>3. QED
      BY <1>0, <3>1, <3>2
  <2>4. QED
    BY <1>7, <2>2, <2>3 DEF Reread
<1>8. CASE FinalSave(m)
  <2>1. /\ cur[m] \in Tasks /\ Snapshot(m) \in TaskDocs /\ now[m] \in Int
        /\ hpc[m] \notin {"idle", "pick"} /\ "failed" \in PCs
    BY <1>8 DEF FinalSave, TaskInHand, HarvestTypeOK, PCs
  <2>2. AfterTriggerRun(Snapshot(m), now[m]) \in TaskDocs
    BY <2>1, AfterRunType
  <2>3. StoreTypeOK'
    BY <1>8, <2>1, <2>2 DEF FinalSave, Save, Fault, bounds, StoreTypeOK, Docs
  <2>4. HarvestTypeOK' /\ TaskInHand'
    BY <1>8, <2>1, LeaveTaskType, GotoType DEF FinalSave
  <2>5. QED
    BY <1>0, <2>3, <2>4
<1>9. CASE LoseOperation(m)
  <2>1. hpc[m] \notin {"idle", "pick"} /\ "failed" \in PCs
    BY <1>9 DEF LoseOperation, PCs
  <2>2. HarvestTypeOK' /\ TaskInHand'
    BY <1>9, <2>1, GotoType DEF LoseOperation
  <2>3. StoreTypeOK'
    BY <1>9 DEF LoseOperation, Fault, storeVars, StoreTypeOK
  <2>4. QED
    BY <1>0, <2>2, <2>3
<1>10. CASE SaveError(m)
  <2>1. cur[m] \in Tasks /\ Snapshot(m) \in TaskDocs
    BY <1>10 DEF SaveError, TaskInHand
  <2>2. [Snapshot(m) EXCEPT !.status = "error"] \in Docs
    BY <2>1 DEF TaskDocs, Docs, Statuses
  <2>3. StoreTypeOK'
    BY <1>10, <2>1, <2>2 DEF SaveError, Save, Fault, bounds, StoreTypeOK
  <2>4. HarvestTypeOK' /\ TaskInHand'
    BY <1>10, LeaveTaskType DEF SaveError
  <2>5. QED
    BY <1>0, <2>3, <2>4
<1>11. QED
  BY <1>1, <1>2, <1>3, <1>4, <1>5, <1>6, <1>7, <1>8, <1>9, <1>10 DEF HarvestStep
LEMMA RestoredType ==
  ASSUME NEW doc \in TaskDocs, NEW at \in Int
  PROVE  /\ Restored(doc, at) \in TaskDocs
         /\ Restored(doc, at).enabled = doc.enabled
<1>1. Reschedule(doc, at) \in TaskDocs /\ Reschedule(doc, at).enabled = doc.enabled
  BY TasksAreDrafts, UpcomingType, ScheduledType DEF Reschedule
<1>2. /\ [doc EXCEPT !.status = "waiting"] \in TaskDocs
      /\ [doc EXCEPT !.status = "waiting"].enabled = doc.enabled
  BY DEF TaskDocs, Statuses
<1>3. QED
  BY <1>1, <1>2 DEF Restored

LEMMA LifecycleStepTypeOK ==
  ASSUME TypeOK, NEW m \in Managers, LifecycleStep(m)
  PROVE  TypeOK'
<1> USE DEF TypeOK
<1>1. CASE Start(m)
  <2>1. StoreTypeOK' /\ HarvestTypeOK' /\ TaskInHand'
    BY <1>1 DEF Start, storeVars, harvestVars, StoreTypeOK, HarvestTypeOK,
                TaskInHand, Snapshot
  <2>2. StartTypeOK'
    BY <1>1, ReadingsType DEF Start, StoreTypeOK, StartTypeOK
  <2>3. QED
    BY <2>1, <2>2
<1>2. CASE StartDone(m)
  BY <1>2 DEF StartDone, storeVars, harvestVars, bounds, StoreTypeOK, StartTypeOK,
              HarvestTypeOK, TaskInHand, Snapshot
<1>3. CASE Stop(m)
  BY <1>3 DEF Stop, storeVars, harvestVars, bounds, StoreTypeOK, StartTypeOK,
              HarvestTypeOK, TaskInHand, Snapshot
<1>4. CASE Crash(m)
  <2>1. StoreTypeOK'
    BY <1>4 DEF Crash, storeVars, bounds, StoreTypeOK
  <2>2. StartTypeOK'
    BY <1>4, NothingType DEF Crash, StartTypeOK
  <2>3. HarvestTypeOK' /\ TaskInHand'
    BY <1>4, LeaveTaskType DEF Crash
  <2>4. QED
    BY <2>1, <2>2, <2>3
<1>5. ASSUME NEW t \in Tasks, RestoreTask(m, t)
      PROVE  TypeOK'
  <2>1. HarvestTypeOK' /\ TaskInHand'
    BY <1>5 DEF RestoreTask, harvestVars, HarvestTypeOK, TaskInHand, Snapshot
  <2>2. StartTypeOK'
    BY <1>5, NothingType DEF RestoreTask, StartTypeOK
  <2>3. restoring[m][t] \in TaskDocs /\ startNow[m] \in Int
    BY <1>5 DEF RestoreTask, StartTypeOK, Docs
  <2>4. Restored(restoring[m][t], startNow[m]) \in Docs
    BY <2>3, RestoredType DEF Docs
  <2>5. StoreTypeOK'
    BY <1>5, <2>4 DEF RestoreTask, Save, bounds, StoreTypeOK
  <2>6. QED
    BY <2>1, <2>2, <2>5
<1>6. QED
  BY <1>1, <1>2, <1>3, <1>4, <1>5 DEF LifecycleStep


-----------------------------------------------------------------------------
(***************************************************************************)
(* Administrative calls.                                                    *)
(***************************************************************************)
LEMMA RedefinedType ==
  ASSUME NEW doc \in TaskDocs, NEW at \in Nat, NEW d \in Redefined(doc, at)
  PROVE  /\ d \in TaskDocs
         /\ PausedIfDisabled(doc) => PausedIfDisabled(d)
<1> USE AbsentIsNoTask DEF PausedIfDisabled
<1>1. CASE d = doc
  BY <1>1
<1>2. ASSUME NEW c \in Conditions,
             d = ReschedulePreservingHistory([doc EXCEPT !.cond = c], at)
      PROVE  d \in TaskDocs /\ (~d.enabled => d.status = "paused")
  <2>1. [doc EXCEPT !.cond = c] \in TaskDocs
    BY DEF TaskDocs
  <2>2. QED
    BY <1>2, <2>1, PreservingHistoryType
<1>3. QED
  BY <1>1, <1>2 DEF Redefined

LEMMA SwitchedType ==
  ASSUME NEW doc \in TaskDocs, NEW at \in Nat, NEW d \in Switched(doc, at)
  PROVE  /\ d \in TaskDocs
         /\ PausedIfDisabled(doc) => PausedIfDisabled(d)
<1> USE AbsentIsNoTask DEF PausedIfDisabled
<1>1. CASE d = doc
  BY <1>1
<1>2. CASE d = ReschedulePreservingHistory([doc EXCEPT !.enabled = TRUE], at)
  <2>1. [doc EXCEPT !.enabled = TRUE] \in TaskDocs
    BY DEF TaskDocs
  <2>2. QED
    BY <1>2, <2>1, PreservingHistoryType
<1>3. CASE d = [doc EXCEPT !.enabled = FALSE, !.status = "paused",
                           !.nextRunAt = NoTime, !.key = NoKey]
  BY <1>3, NullTypes DEF TaskDocs, Statuses
<1>4. QED
  BY <1>1, <1>2, <1>3 DEF Switched

\* The documents an administrative call may write are documents, and a
\* disabled one among them is paused.
LEMMA OutcomesType ==
  ASSUME NEW doc \in TaskDocs, NEW at \in Nat,
         NEW d \in Outcomes(doc, at)
  PROVE  /\ d \in Docs
         /\ PausedIfDisabled(doc) => PausedIfDisabled(d)
<1> USE AbsentIsNoTask DEF PausedIfDisabled
<1>1. CASE d \in Patched(doc, at)
  <2>1. PICK e \in Redefined(doc, at) : d \in Switched(e, at)
    BY <1>1 DEF Patched
  <2>2. e \in TaskDocs /\ (PausedIfDisabled(doc) => PausedIfDisabled(e))
    BY <2>1, RedefinedType
  <2>3. QED
    BY <2>1, <2>2, SwitchedType DEF Docs
<1>2. CASE d \in Paused(doc, at)
  <2>1. MaxTime \in Nat
    BY BoundsAssumption
  <2>2. PICK u \in (at + 1)..(MaxTime + 1) :
          d = [doc EXCEPT !.status = "paused", !.nextRunAt = u, !.pausedUntil = u]
    BY <1>2 DEF Paused
  <2>3. u \in Int
    BY <2>1
  <2>4. d \in TaskDocs /\ d.status = "paused"
    BY <2>2, <2>3 DEF TaskDocs, Statuses
  <2>5. QED
    BY <2>4 DEF Docs
<1>3. CASE d \in Resumed(doc, at)
  BY <1>3, PreservingHistoryType DEF Resumed, Docs
<1>4. CASE d = Absent
  BY <1>4 DEF Docs
<1>5. QED
  BY <1>1, <1>2, <1>3, <1>4 DEF Outcomes

LEMMA BeginCallType ==
  ASSUME TypeOK, NEW c \in Clients, NEW t \in Tasks, NEW doc \in Docs,
         BeginCall(c, t, doc), used' \in SUBSET Tasks
  PROVE  TypeOK'
<1>1. [id |-> t, doc |-> doc] \in [id : Tasks \cup {NoTask}, doc : Docs]
  OBVIOUS
<1>2. StoreTypeOK'
  BY <1>1 DEF BeginCall, TypeOK, StoreTypeOK
<1>3. StartTypeOK' /\ HarvestTypeOK' /\ TaskInHand'
  BY DEF BeginCall, TypeOK, startVars, harvestVars, StartTypeOK, HarvestTypeOK,
         TaskInHand, Snapshot
<1>4. QED
  BY <1>2, <1>3 DEF TypeOK

LEMMA ClientStepTypeOK ==
  ASSUME TypeOK, NEW c \in Clients, ClientStep(c)
  PROVE  TypeOK'
<1>1. CASE EndCall(c)
  <2>1. call[c] # NoCall /\ call[c].doc \in Docs /\ NoCall \in [id : Tasks \cup {NoTask}, doc : Docs]
    BY <1>1, NothingType DEF EndCall, TypeOK, StoreTypeOK, NoCall
  <2>2. StoreTypeOK'
    BY <1>1, <2>1 DEF EndCall, Save, bounds, TypeOK, StoreTypeOK
  <2>3. StartTypeOK' /\ HarvestTypeOK' /\ TaskInHand'
    BY <1>1 DEF EndCall, TypeOK, startVars, harvestVars, StartTypeOK,
                HarvestTypeOK, TaskInHand, Snapshot
  <2>4. QED
    BY <2>2, <2>3 DEF TypeOK
<1>2. ASSUME NEW t \in Tasks, Admin(c, t)
      PROVE  TypeOK'
  <2>1. PICK at \in Readings : \E doc \in Outcomes(store[t], at) : BeginCall(c, t, doc)
    BY <1>2 DEF Admin
  <2>2. PICK doc \in Outcomes(store[t], at) : BeginCall(c, t, doc)
    BY <2>1
  <2>3. store[t] \in TaskDocs /\ at \in Nat
    BY <1>2, ReadingsType DEF Admin, TypeOK, StoreTypeOK, Docs
  <2>4. doc \in Docs
    BY <2>2, <2>3, OutcomesType
  <2>5. used' \in SUBSET Tasks
    BY <1>2 DEF Admin, TypeOK, StoreTypeOK
  <2>6. QED
    BY <2>2, <2>4, <2>5, BeginCallType
<1>3. ASSUME NEW t \in Tasks, Create(c, t)
      PROVE  TypeOK'
  <2>1. PICK cond \in Conditions, at \in Readings : BeginCall(c, t, NewTask(cond, at))
    BY <1>3 DEF Create
  <2>2. at \in Nat
    BY ReadingsType DEF TypeOK, StoreTypeOK
  <2>3. NewTask(cond, at) \in Docs
    BY <2>2, NewTaskType DEF Docs
  <2>4. used' \in SUBSET Tasks
    BY <1>3 DEF Create, TypeOK, StoreTypeOK
  <2>5. QED
    BY <2>1, <2>3, <2>4, BeginCallType
<1>4. QED
  BY <1>1, <1>2, <1>3 DEF ClientStep

LEMMA TickTypeOK == ASSUME TypeOK, Tick PROVE TypeOK'
BY DEF Tick, startVars, harvestVars, bounds, TypeOK, StoreTypeOK, StartTypeOK,
       HarvestTypeOK, TaskInHand, Snapshot

LEMMA StutterTypeOK == ASSUME TypeOK, UNCHANGED vars PROVE TypeOK'
BY DEF vars, startVars, harvestVars, bounds, TypeOK, StoreTypeOK, StartTypeOK,
       HarvestTypeOK, TaskInHand, Snapshot

\* Every reachable state is well typed, with crashes, failures and calls at any
\* point: in particular a manager inside runTask always holds a snapshot.
THEOREM TypeCorrect == Spec => []TypeOK
<1>1. Init => TypeOK
  BY InitTypeOK
<1>2. TypeOK /\ [Next]_vars => TypeOK'
  BY TickTypeOK, StutterTypeOK, HarvestStepTypeOK, LifecycleStepTypeOK,
     ClientStepTypeOK DEF Next, SteadyNext
<1>3. QED
  BY <1>1, <1>2, PTL DEF Spec
-----------------------------------------------------------------------------
(***************************************************************************)
(* A disabled task is paused, whatever interleaves.                         *)
(***************************************************************************)
LEMMA NothingPauses ==
  \A t \in Tasks : Nothing[t] = Absent /\ PausedIfDisabled(Absent)
BY DEF Nothing, PausedIfDisabled

\* Leaving a task drops snapshots and adds none.
LEMMA LeavingPauses ==
  ASSUME TypeOK, WritersPause, NEW m \in Managers,
         LeaveTask(m) \/ AbortHarvest(m) \/ (\E pc : Goto(m, pc))
  PROVE  \A n \in Managers, t \in Tasks : due'[n][t] # Absent => due'[n][t].enabled
<1>1. \A n \in Managers, t \in Tasks : due'[n][t] \in {due[n][t], Absent}
  <2> SUFFICES ASSUME NEW n \in Managers, NEW t \in Tasks
               PROVE  due'[n][t] \in {due[n][t], Absent}
    OBVIOUS
  <2>1. CASE LeaveTask(m)
    BY <2>1 DEF LeaveTask, TypeOK, HarvestTypeOK
  <2>2. CASE AbortHarvest(m)
    BY <2>2, NothingPauses DEF AbortHarvest, TypeOK, HarvestTypeOK
  <2>3. CASE \E pc : Goto(m, pc)
    BY <2>3 DEF Goto
  <2>4. QED
    BY <2>1, <2>2, <2>3
<1>2. QED
  BY <1>1 DEF WritersPause

\* A save of a document that keeps the rule keeps the rule.
LEMMA SavePauses ==
  ASSUME TypeOK, WritersPause, NEW t \in Tasks, NEW d, PausedIfDisabled(d), Save(t, d)
  PROVE  \A u \in Tasks : PausedIfDisabled(store'[u])
BY DEF Save, TypeOK, StoreTypeOK, WritersPause

LEMMA InitWritersPause == Init => WritersPause
<1> SUFFICES ASSUME Init PROVE WritersPause
  OBVIOUS
<1>1. \A t \in Tasks : PausedIfDisabled(store[t])
  BY NewTaskType DEF Init, PausedIfDisabled
<1>2. QED
  BY <1>1, NothingPauses DEF Init, WritersPause, NoCall, PausedIfDisabled

LEMMA HarvestStepPauses ==
  ASSUME TypeOK, WritersPause, NEW m \in Managers, HarvestStep(m)
  PROVE  WritersPause'
<1>0. /\ \A n \in Managers, t \in Tasks : PausedIfDisabled(restoring'[n][t])
      /\ \A c \in Clients : PausedIfDisabled(call'[c].doc)
  BY DEF HarvestStep, Harvest, NextTask, WakePaused, Claim, SaveRunning, Fire,
         Reread, FinalSave, LoseOperation, SaveError, startVars, WritersPause,
         PausedIfDisabled
<1> DEFINE DueEnabled == \A n \in Managers, t \in Tasks :
                           due[n][t] # Absent => due[n][t].enabled
           StorePauses == \A t \in Tasks : PausedIfDisabled(store[t])
<1>h. ASSUME hpc[m] \notin {"idle", "pick"}
      PROVE  /\ cur[m] \in Tasks /\ Snapshot(m) \in TaskDocs
             /\ Snapshot(m).enabled = TRUE
             /\ now[m] \in Int
  BY <1>h, AbsentIsNoTask DEF TypeOK, HarvestTypeOK, TaskInHand, WritersPause,
                              Snapshot, TaskDocs
<1>1. CASE Harvest(m)
  <2>1. StorePauses'
    BY <1>1 DEF Harvest, storeVars, WritersPause, PausedIfDisabled
  <2>2. \A at \in Readings, t \in Tasks :
          ListDue(at)[t] # Absent => ListDue(at)[t].enabled
    BY DEF ListDue, IsDue
  <2>3. DueEnabled'
    BY <1>1, <2>2 DEF Harvest, harvestVars, TypeOK, HarvestTypeOK, WritersPause
  <2>4. QED
    BY <1>0, <2>1, <2>3 DEF WritersPause
<1>2. ASSUME NEW t \in Tasks, NextTask(m, t)
      PROVE  WritersPause'
  BY <1>0, <1>2 DEF NextTask, storeVars, WritersPause, PausedIfDisabled
<1>3. CASE WakePaused(m)
  <2>1. hpc[m] \notin {"idle", "pick"}
    BY <1>3 DEF WakePaused
  <2>2. PausedIfDisabled(ReschedulePreservingHistory(Snapshot(m), now[m]))
    BY <1>h, <2>1, PreservingHistoryType DEF PausedIfDisabled
  <2>3. StorePauses'
    BY <1>3, <1>h, <2>1, <2>2, SavePauses DEF WakePaused, WritersPause, PausedIfDisabled
  <2>4. DueEnabled'
    BY <1>3, LeavingPauses DEF WakePaused
  <2>5. QED
    BY <1>0, <2>3, <2>4 DEF WritersPause
<1>4. CASE Claim(m)
  <2>1. hpc[m] \notin {"idle", "pick"}
    BY <1>4 DEF Claim
  <2>2. CASE Claimable(cur[m], Snapshot(m).key)
    <3>1. cur[m] \in Tasks /\ store[cur[m]].status = "waiting"
      BY <1>h, <2>1, <2>2 DEF Claimable
    <3>2. store[cur[m]] \in TaskDocs
      BY <3>1 DEF TypeOK, StoreTypeOK, Docs, Absent
    <3>3. store[cur[m]].enabled = TRUE
      BY <3>1, <3>2, AbsentIsNoTask DEF TaskDocs, WritersPause, PausedIfDisabled
    <3>4. PausedIfDisabled([store[cur[m]] EXCEPT !.status = "running"])
      BY <3>2, <3>3 DEF TaskDocs, PausedIfDisabled
    <3>5. StorePauses'
      BY <1>4, <1>h, <2>1, <2>2, <3>4, SavePauses DEF Claim
    <3>6. DueEnabled'
      BY <1>4, <2>2, LeavingPauses DEF Claim, Answered
    <3>7. QED
      BY <1>0, <3>5, <3>6 DEF WritersPause
  <2>3. CASE ~Claimable(cur[m], Snapshot(m).key)
    <3>1. DueEnabled'
      BY <1>4, <2>3, LeavingPauses DEF Claim
    <3>2. QED
      BY <1>0, <1>4, <2>3, <3>1 DEF Claim, WritersPause, PausedIfDisabled
  <2>4. QED
    BY <2>2, <2>3
<1>5. CASE SaveRunning(m)
  <2>1. hpc[m] \notin {"idle", "pick"}
    BY <1>5 DEF SaveRunning
  <2>2. PausedIfDisabled([Snapshot(m) EXCEPT !.status = "running"])
    BY <1>h, <2>1 DEF TaskDocs, PausedIfDisabled
  <2>3. StorePauses'
    BY <1>5, <1>h, <2>1, <2>2, SavePauses DEF SaveRunning
  <2>4. DueEnabled'
    BY <1>5, LeavingPauses DEF SaveRunning, Answered
  <2>5. QED
    BY <1>0, <2>3, <2>4 DEF WritersPause
<1>6. CASE Fire(m)
  <2>1. DueEnabled'
    BY <1>6, LeavingPauses DEF Fire
  <2>2. QED
    BY <1>0, <1>6, <2>1 DEF Fire, storeVars, WritersPause, PausedIfDisabled
<1>7. CASE Reread(m)
  <2>1. DueEnabled'
    BY <1>7, LeavingPauses DEF Reread, Answered
  <2>2. QED
    BY <1>0, <1>7, <2>1 DEF Reread, storeVars, WritersPause, PausedIfDisabled
<1>8. CASE FinalSave(m)
  <2>1. hpc[m] \notin {"idle", "pick"}
    BY <1>8 DEF FinalSave
  <2>2. PausedIfDisabled(AfterTriggerRun(Snapshot(m), now[m]))
    BY <1>h, <2>1, AfterRunType DEF PausedIfDisabled
  <2>3. StorePauses'
    BY <1>8, <1>h, <2>1, <2>2, SavePauses DEF FinalSave
  <2>4. DueEnabled'
    BY <1>8, LeavingPauses DEF FinalSave
  <2>5. QED
    BY <1>0, <2>3, <2>4 DEF WritersPause
<1>9. CASE LoseOperation(m)
  <2>1. DueEnabled'
    BY <1>9, LeavingPauses DEF LoseOperation
  <2>2. QED
    BY <1>0, <1>9, <2>1 DEF LoseOperation, storeVars, WritersPause, PausedIfDisabled
<1>10. CASE SaveError(m)
  <2>1. hpc[m] \notin {"idle", "pick"}
    BY <1>10 DEF SaveError
  <2>2. PausedIfDisabled([Snapshot(m) EXCEPT !.status = "error"])
    BY <1>h, <2>1 DEF TaskDocs, PausedIfDisabled
  <2>3. StorePauses'
    BY <1>10, <1>h, <2>1, <2>2, SavePauses DEF SaveError, WritersPause, PausedIfDisabled
  <2>4. DueEnabled'
    BY <1>10, LeavingPauses DEF SaveError
  <2>5. QED
    BY <1>0, <2>3, <2>4 DEF WritersPause
<1>11. QED
  BY <1>1, <1>2, <1>3, <1>4, <1>5, <1>6, <1>7, <1>8, <1>9, <1>10 DEF HarvestStep

LEMMA LifecycleStepPauses ==
  ASSUME TypeOK, WritersPause, NEW m \in Managers, LifecycleStep(m)
  PROVE  WritersPause'
<1>1. CASE Start(m)
  BY <1>1 DEF Start, storeVars, harvestVars, WritersPause, PausedIfDisabled, TypeOK,
              StartTypeOK
<1>2. CASE StartDone(m) \/ Stop(m)
  BY <1>2 DEF StartDone, Stop, storeVars, harvestVars, WritersPause, PausedIfDisabled
<1>3. CASE Crash(m)
  <2>1. \A n \in Managers, t \in Tasks : due'[n][t] # Absent => due'[n][t].enabled
    BY <1>3, LeavingPauses DEF Crash
  <2>2. \A n \in Managers, t \in Tasks : PausedIfDisabled(restoring'[n][t])
    BY <1>3, NothingPauses DEF Crash, TypeOK, StartTypeOK, WritersPause
  <2>3. QED
    BY <1>3, <2>1, <2>2 DEF Crash, storeVars, WritersPause, PausedIfDisabled
<1>4. ASSUME NEW t \in Tasks, RestoreTask(m, t)
      PROVE  WritersPause'
  <2> DEFINE doc == restoring[m][t]
  <2>1. doc \in TaskDocs /\ startNow[m] \in Int /\ PausedIfDisabled(doc) /\ doc # Absent
    BY <1>4 DEF RestoreTask, TypeOK, StartTypeOK, Docs, WritersPause
  <2>2. CASE doc.status \in {"error", "running", "waiting"} /\ Save(t, Restored(doc, startNow[m]))
    <3>1. doc.enabled = TRUE
      BY <2>1, <2>2 DEF PausedIfDisabled, TaskDocs
    <3>2. PausedIfDisabled(Restored(doc, startNow[m]))
      <4> HIDE DEF doc
      <4>1. QED
        BY <2>1, <3>1, RestoredType DEF PausedIfDisabled
    <3>3. \A u \in Tasks : PausedIfDisabled(store'[u])
      BY <2>2, <3>2, SavePauses
    <3>4. QED
      BY <1>4, <3>3 DEF RestoreTask, harvestVars, TypeOK, StartTypeOK, WritersPause,
                        PausedIfDisabled
  <2>3. CASE UNCHANGED store
    BY <1>4, <2>3 DEF RestoreTask, harvestVars, TypeOK, StartTypeOK, WritersPause,
                      PausedIfDisabled
  <2>4. QED
    BY <1>4, <2>2, <2>3 DEF RestoreTask
<1>5. QED
  BY <1>1, <1>2, <1>3, <1>4 DEF LifecycleStep

LEMMA ClientStepPauses ==
  ASSUME TypeOK, WritersPause, NEW c \in Clients, ClientStep(c)
  PROVE  WritersPause'
<1>1. CASE EndCall(c)
  <2>1. call[c].id \in Tasks \cup {NoTask} /\ PausedIfDisabled(call[c].doc)
    BY DEF TypeOK, StoreTypeOK, WritersPause
  <2>2. \A t \in Tasks : store'[t] \in {store[t], call[c].doc}
    BY <1>1, <2>1 DEF EndCall, Save, TypeOK, StoreTypeOK
  <2>3. PausedIfDisabled(NoCall.doc)
    BY DEF NoCall, PausedIfDisabled
  <2>4. \A d \in Clients : PausedIfDisabled(call'[d].doc)
    BY <1>1, <2>3 DEF EndCall, TypeOK, StoreTypeOK, WritersPause
  <2>5. QED
    BY <1>1, <2>1, <2>2, <2>4 DEF EndCall, startVars, harvestVars, WritersPause,
                                  PausedIfDisabled
<1>2. ASSUME NEW t \in Tasks, NEW doc, PausedIfDisabled(doc), BeginCall(c, t, doc)
      PROVE  WritersPause'
  <2>1. \A d \in Clients : PausedIfDisabled(call'[d].doc)
    BY <1>2 DEF BeginCall, TypeOK, StoreTypeOK, WritersPause
  <2>2. QED
    BY <1>2, <2>1 DEF BeginCall, startVars, harvestVars, WritersPause, PausedIfDisabled
<1>3. ASSUME NEW t \in Tasks, Admin(c, t)
      PROVE  WritersPause'
  <2>1. PICK at \in Readings : \E doc \in Outcomes(store[t], at) : BeginCall(c, t, doc)
    BY <1>3 DEF Admin
  <2>2. PICK doc \in Outcomes(store[t], at) : BeginCall(c, t, doc)
    BY <2>1
  <2>3. store[t] \in TaskDocs /\ at \in Nat /\ PausedIfDisabled(store[t])
    BY <1>3, ReadingsType DEF Admin, TypeOK, StoreTypeOK, Docs, WritersPause
  <2>4. PausedIfDisabled(doc)
    BY <2>2, <2>3, OutcomesType
  <2>5. QED
    BY <1>2, <2>2, <2>4
<1>4. ASSUME NEW t \in Tasks, Create(c, t)
      PROVE  WritersPause'
  <2>1. PICK cond \in Conditions, at \in Readings : BeginCall(c, t, NewTask(cond, at))
    BY <1>4 DEF Create
  <2>2. at \in Nat
    BY ReadingsType DEF TypeOK, StoreTypeOK
  <2>3. PausedIfDisabled(NewTask(cond, at))
    BY <2>2, NewTaskType DEF PausedIfDisabled
  <2>4. QED
    BY <1>2, <2>1, <2>3
<1>5. QED
  BY <1>1, <1>3, <1>4 DEF ClientStep

LEMMA WritersPauseInvariant == Spec => []WritersPause
<1>1. Init => WritersPause
  BY InitWritersPause
<1>2. ASSUME TypeOK, WritersPause, [Next]_vars
      PROVE  WritersPause'
  <2>1. CASE Tick \/ UNCHANGED vars
    BY <1>2, <2>1 DEF Tick, vars, startVars, harvestVars, WritersPause, PausedIfDisabled
  <2>2. QED
    BY <1>2, <2>1, HarvestStepPauses, LifecycleStepPauses, ClientStepPauses
       DEF Next, SteadyNext
<1>3. QED
  BY <1>1, <1>2, TypeCorrect, PTL DEF Spec

\* Disabling a task takes it out of the schedule for good: no stale save, no
\* restart and no other call leaves a disabled task in a state that is harvested
\* or claimed.  (A stale save may enable it again.)
THEOREM DisabledStaysPaused == Spec => []DisabledMeansPaused
<1>1. WritersPause => DisabledMeansPaused
  BY DEF WritersPause, PausedIfDisabled, DisabledMeansPaused
<1>2. QED
  BY <1>1, WritersPauseInvariant, PTL

-----------------------------------------------------------------------------
(***************************************************************************)
(* Proofs about TriggerManager while its managers stay up and nobody        *)
(* administers the tasks: occurrences are fired in order and counted, for   *)
(* any number of managers and tasks, lagging clocks and a failing store;    *)
(* and the managers implement the occurrence ledger.                        *)
(***************************************************************************)

LEMMA SteadyTypeCorrect == SteadySpec => []TypeOK
<1>1. TypeOK /\ [SteadyNext]_vars => TypeOK'
  BY TickTypeOK, StutterTypeOK, HarvestStepTypeOK DEF SteadyNext
<1>2. QED
  BY <1>1, InitTypeOK, PTL DEF SteadySpec

-----------------------------------------------------------------------------
(***************************************************************************)
(* Keys.  A claim compares keys: for two documents of one definition, that  *)
(* is comparing instants.                                                   *)
(***************************************************************************)
LEMMA NextOccurrenceKeyed ==
  ASSUME NEW c \in Conditions, NEW after \in Int, NEW created \in Nat
  PROVE  LET o == NextOccurrence(c, after, created)
         IN  \/ o = NoOccurrence
             \/ /\ o.key = KeyAt(c, o.at)
                /\ c.type = "once" => o.at = c.at
<1>1. ConditionTypeOK(c)
  BY ConditionsAssumption
<1>2. CASE c.type = "once"
  BY <1>2 DEF NextOccurrence, KeyAt
<1>3. CASE c.type = "interval"
  BY <1>3 DEF NextOccurrence, KeyAt, Occurrence
<1>4. CASE c.type = "cron"
  BY <1>4 DEF NextOccurrence, KeyAt, Occurrence
<1>5. QED
  BY <1>1, <1>2, <1>3, <1>4 DEF ConditionTypeOK

LEMMA KeysDecide ==
  ASSUME NEW d, NEW e, WellKeyed(d), WellKeyed(e), d.cond = e.cond, d.key = e.key
  PROVE  d.nextRunAt = e.nextRunAt
BY DEF WellKeyed, KeyAt, Key

\* A document put on an upcoming occurrence: completed, or waiting for a
\* well-keyed instant after the reading of the clock.
LEMMA ScheduledLater ==
  ASSUME NEW doc \in Drafts, NEW d \in Drafts, NEW at \in Int, NEW o,
         o = NoOccurrence \/ o = Upcoming(doc, at), d.cond = doc.cond
  PROVE  /\ Scheduled(d, o).status \in {"waiting", "completed"}
         /\ Scheduled(d, o).status = "waiting" =>
              WellKeyed(Scheduled(d, o)) /\ Scheduled(d, o).nextRunAt > at
<1>1. doc.cond \in Conditions /\ doc.created \in Nat
  BY DEF Drafts
<1>2. /\ Scheduled(d, o).status = IF o = NoOccurrence THEN "completed" ELSE "waiting"
      /\ Scheduled(d, o).nextRunAt = o.at
      /\ Scheduled(d, o).key = o.key
      /\ Scheduled(d, o).cond = doc.cond
  BY DEF Scheduled, Drafts
<1>3. CASE o = NoOccurrence
  BY <1>2, <1>3
<1>4. CASE o # NoOccurrence
  <2>1. /\ o.at \in Nat /\ o.at > at
        /\ o.key = KeyAt(doc.cond, o.at)
        /\ doc.cond.type = "once" => o.at = doc.cond.at
    BY <1>1, <1>4, NextOccurrenceLater, NextOccurrenceKeyed DEF Upcoming
  <2>2. QED
    BY <1>2, <2>1 DEF WellKeyed
<1>5. QED
  BY <1>3, <1>4

LEMMA AfterRunLater ==
  ASSUME NEW doc \in TaskDocs, NEW at \in Int
  PROVE  LET d == AfterTriggerRun(doc, at)
         IN  /\ d.status \in {"waiting", "completed"}
             /\ d.status = "waiting" => WellKeyed(d) /\ d.nextRunAt > at
<1> DEFINE counted == [doc EXCEPT !.runCount = @ + 1]
           o == IF doc.cond.type = "once" THEN NoOccurrence ELSE Upcoming(doc, at)
<1>1. counted \in TaskDocs /\ counted.cond = doc.cond /\ counted.created = doc.created
  BY DEF TaskDocs
<1>2. AfterTriggerRun(doc, at) = Scheduled(counted, o)
  BY DEF AfterTriggerRun
<1>3. QED
  <2> HIDE DEF counted
  <2>1. o = NoOccurrence \/ o = Upcoming(doc, at)
    OBVIOUS
  <2>2. QED
    <3> HIDE DEF o
    <3>1. QED
      BY <1>1, <1>2, <2>1, TasksAreDrafts, ScheduledLater

LEMMA NewTaskScheduled ==
  ASSUME NEW c \in Conditions
  PROVE  LET d == NewTask(c, 0)
         IN  /\ d.status \in {"waiting", "completed"}
             /\ d.status = "waiting" => WellKeyed(d)
             /\ d.runCount = 0
<1> DEFINE blank == [Absent EXCEPT !.enabled = TRUE, !.cond = c, !.created = 0]
           fresh == [blank EXCEPT !.runCount = 0, !.pausedUntil = NoTime]
<1>1. blank \in Drafts /\ blank.enabled = TRUE
  BY NullTypes DEF Absent, Drafts
<1>2. fresh \in Drafts /\ fresh.cond = blank.cond /\ fresh.runCount = 0
  BY <1>1, NullTypes DEF Drafts
<1>3. NewTask(c, 0) = Scheduled(fresh, Upcoming(blank, 0))
  BY <1>1 DEF NewTask, InitialTriggerState
<1>4. Scheduled(fresh, Upcoming(blank, 0)).runCount = 0
  BY <1>2 DEF Scheduled, Drafts
<1>5. QED
  <2> HIDE DEF fresh, blank
  <2>1. QED
    BY <1>1, <1>2, <1>3, <1>4, ScheduledLater

-----------------------------------------------------------------------------
(***************************************************************************)
(* Most steps of a harvest claim nothing and fire nothing.                  *)
(***************************************************************************)
Unfired(m) == hpc[m] \in {"save", "fire"}

Calm ==
  /\ fired' = fired /\ now' = now
  /\ \A n \in Managers, t \in Tasks :
       /\ due'[n][t] \in {due[n][t], Absent}
       /\ Holds(n, t)' => /\ Holds(n, t) /\ due'[n][t] = due[n][t]
                          /\ Unfired(n)' <=> Unfired(n)

\* What a calm step may have written: nothing, or a document that no claim
\* takes, of the same definition.
Unclaimable(t) ==
  \/ store'[t] = store[t]
  \/ /\ store[t] # Absent /\ store'[t] # Absent
     /\ store'[t].cond = store[t].cond
     /\ store'[t].status \in {"running", "error"}

LEMMA CalmSnapshots ==
  ASSUME SnapshotsInv, Calm, \A t \in Tasks : Unclaimable(t)
  PROVE  SnapshotsInv'
<1> SUFFICES ASSUME NEW m \in Managers, NEW t \in Tasks, due'[m][t] # Absent
             PROVE  /\ due'[m][t].status = "waiting" /\ WellKeyed(due'[m][t])
                    /\ due'[m][t].nextRunAt <= now'[m]
                    /\ store'[t] # Absent /\ due'[m][t].cond = store'[t].cond
                    /\ store'[t].status = "waiting" =>
                         \/ due'[m][t].nextRunAt < store'[t].nextRunAt
                         \/ /\ due'[m][t].nextRunAt = store'[t].nextRunAt
                            /\ due'[m][t].runCount = store'[t].runCount
                    /\ \A n \in Managers :
                         Holds(n, t)' => due'[m][t].nextRunAt <= due'[n][t].nextRunAt
  BY DEF SnapshotsInv, Snapped, WellKeyed
<1>1. due'[m][t] = due[m][t] /\ Snapped(m, t) /\ now' = now
  BY DEF Calm, Snapped
<1>2. /\ due[m][t].status = "waiting" /\ WellKeyed(due[m][t])
      /\ due[m][t].nextRunAt <= now[m]
      /\ store[t] # Absent /\ due[m][t].cond = store[t].cond
      /\ store[t].status = "waiting" =>
           \/ due[m][t].nextRunAt < store[t].nextRunAt
           \/ /\ due[m][t].nextRunAt = store[t].nextRunAt
              /\ due[m][t].runCount = store[t].runCount
      /\ \A n \in Managers : Holds(n, t) => due[m][t].nextRunAt <= due[n][t].nextRunAt
  BY <1>1 DEF SnapshotsInv
<1>3. Unclaimable(t)
  OBVIOUS
<1>4. \A n \in Managers : Holds(n, t)' => Holds(n, t) /\ due'[n][t] = due[n][t]
  BY DEF Calm
<1>5. QED
  BY <1>1, <1>2, <1>3, <1>4 DEF Unclaimable

LEMMA CalmHolders ==
  ASSUME HolderInv, Calm, \A t \in Tasks : Unclaimable(t)
  PROVE  HolderInv'
<1>1. \A n \in Managers, t \in Tasks : Holds(n, t)' => Holds(n, t)
  BY DEF Calm
<1>2. \A m, n \in Managers, t \in Tasks : Holds(m, t)' /\ Holds(n, t)' => m = n
  BY <1>1 DEF HolderInv
<1>3. \A m \in Managers, t \in Tasks :
        Holds(m, t)' => store'[t].status \in {"running", "error"}
  BY <1>1 DEF HolderInv, Unclaimable
<1>4. QED
  BY <1>2, <1>3 DEF HolderInv

LEMMA CalmFired ==
  ASSUME FiredInv, Calm, \A t \in Tasks : Unclaimable(t)
  PROVE  FiredInv'
<1> SUFFICES ASSUME NEW t \in Tasks
             PROVE  /\ store'[t].status = "waiting" =>
                         /\ WellKeyed(store'[t])
                         /\ \A i \in DOMAIN fired'[t] : fired'[t][i] < store'[t].nextRunAt
                    /\ \A m \in Managers : Holds(m, t)' =>
                         IF Unfired(m)'
                           THEN /\ \A i \in DOMAIN fired'[t] :
                                     fired'[t][i] < due'[m][t].nextRunAt
                                /\ due'[m][t].runCount = Len(fired'[t])
                           ELSE /\ \A i \in DOMAIN fired'[t] :
                                     fired'[t][i] <= due'[m][t].nextRunAt
                                /\ due'[m][t].runCount + 1 = Len(fired'[t])
  BY DEF FiredInv, WellKeyed, Unfired
<1>1. fired' = fired
  BY DEF Calm
<1>2. store'[t].status = "waiting" => store'[t] = store[t]
  BY DEF Unclaimable
<1>3. \A m \in Managers : Holds(m, t)' => /\ Holds(m, t) /\ due'[m][t] = due[m][t]
                                          /\ Unfired(m)' <=> Unfired(m)
  BY DEF Calm
<1>4. QED
  BY <1>1, <1>2, <1>3 DEF FiredInv, Unfired

LEMMA CalmStep ==
  ASSUME SteadyInv, Calm, \A t \in Tasks : Unclaimable(t)
  PROVE  SteadyInv'
<1>1. SnapshotsInv' /\ HolderInv' /\ FiredInv'
  BY CalmSnapshots, CalmHolders, CalmFired DEF SteadyInv
<1>2. NonePaused'
  BY DEF SteadyInv, NonePaused, Unclaimable
<1>3. OccurrencesInOrder'
  BY DEF SteadyInv, OccurrencesInOrder, Calm
<1>4. RunCountExact'
  BY DEF SteadyInv, RunCountExact, Calm, Unclaimable
<1>5. QED
  BY <1>1, <1>2, <1>3, <1>4 DEF SteadyInv

-----------------------------------------------------------------------------
(***************************************************************************)
(* The steps of a harvest.                                                  *)
(***************************************************************************)
\* A manager in the middle of a task, and the snapshot it works from.
LEMMA InHand ==
  ASSUME TypeOK, NEW m \in Managers, hpc[m] \notin {"idle", "pick"}
  PROVE  /\ cur[m] \in Tasks /\ due[m][cur[m]] \in TaskDocs
         /\ Snapped(m, cur[m]) /\ now[m] \in Nat
BY AbsentIsNoTask DEF TypeOK, HarvestTypeOK, TaskInHand, Snapshot, Snapped

LEMMA LeavingIsCalm ==
  ASSUME TypeOK, NEW m \in Managers, LeaveTask(m) \/ AbortHarvest(m), fired' = fired
  PROVE  Calm
<1>1. \A n \in Managers, t \in Tasks : due'[n][t] \in {due[n][t], Absent}
  <2>1. CASE LeaveTask(m)
    BY <2>1 DEF LeaveTask, TypeOK, HarvestTypeOK
  <2>2. CASE AbortHarvest(m)
    BY <2>2, NothingPauses DEF AbortHarvest, TypeOK, HarvestTypeOK
  <2>3. QED
    BY <2>1, <2>2
<1>2. hpc'[m] \in {"idle", "pick"}
  BY DEF LeaveTask, AbortHarvest, TypeOK, HarvestTypeOK
<1>3. \A n \in Managers \ {m} : hpc'[n] = hpc[n] /\ cur'[n] = cur[n] /\ due'[n] = due[n]
  BY DEF LeaveTask, AbortHarvest, TypeOK, HarvestTypeOK
<1>4. now' = now
  BY DEF LeaveTask, AbortHarvest
<1>5. QED
  BY <1>1, <1>2, <1>3, <1>4 DEF Calm, Holds, Unfired

LEMMA GotoIsCalm ==
  ASSUME TypeOK, NEW m \in Managers, NEW pc, Goto(m, pc), fired' = fired,
         \/ pc = "failed"
         \/ pc = "fire" /\ hpc[m] = "save"
         \/ pc = "finish" /\ hpc[m] = "reread"
  PROVE  Calm
<1>1. hpc'[m] = pc /\ \A n \in Managers \ {m} : hpc'[n] = hpc[n]
  BY DEF Goto, TypeOK, HarvestTypeOK
<1>2. QED
  BY <1>1 DEF Goto, Calm, Holds, Unfired

LEMMA HarvestSteady ==
  ASSUME TypeOK, SteadyInv, NEW m \in Managers, Harvest(m)
  PROVE  SteadyInv'
<1>1. PICK at \in Readings :
        IF ListDue(at) = Nothing
          THEN UNCHANGED harvestVars
          ELSE /\ hpc' = [hpc EXCEPT ![m] = "pick"]
               /\ due' = [due EXCEPT ![m] = ListDue(at)]
               /\ now' = [now EXCEPT ![m] = at]
               /\ UNCHANGED cur
  BY DEF Harvest
<1>2. store' = store /\ fired' = fired
  BY DEF Harvest, storeVars
<1>3. CASE UNCHANGED harvestVars
  <2>1. Calm /\ \A t \in Tasks : Unclaimable(t)
    BY <1>2, <1>3 DEF harvestVars, Calm, Holds, Unfired, Unclaimable
  <2>2. QED
    BY <2>1, CalmStep
<1>4. CASE ~ UNCHANGED harvestVars
  <2>1. /\ hpc' = [hpc EXCEPT ![m] = "pick"] /\ due' = [due EXCEPT ![m] = ListDue(at)]
        /\ now' = [now EXCEPT ![m] = at] /\ cur' = cur /\ at \in Nat /\ hpc[m] = "idle"
    BY <1>1, <1>4, ReadingsType DEF Harvest, TypeOK, StoreTypeOK
  <2>2. \A n \in Managers, t \in Tasks : /\ Holds(n, t)' <=> Holds(n, t)
                                         /\ Holds(n, t) => due'[n][t] = due[n][t]
                                         /\ Holds(n, t) => (Unfired(n)' <=> Unfired(n))
    BY <2>1 DEF Holds, Unfired, TypeOK, HarvestTypeOK
  <2>3. \A n \in Managers \ {m} : due'[n] = due[n] /\ now'[n] = now[n]
    BY <2>1 DEF TypeOK, HarvestTypeOK
  <2>4. ASSUME NEW t \in Tasks, due'[m][t] # Absent
        PROVE  /\ due'[m][t] = store[t] /\ store[t].status = "waiting" /\ store[t] # Absent
               /\ store[t].nextRunAt <= now'[m]
    <3>1. due'[m][t] = ListDue(at)[t] /\ now'[m] = at
      BY <2>1 DEF TypeOK, HarvestTypeOK
    <3>2. due'[m][t] = store[t] /\ IsDue(store[t], at)
      BY <3>1, <2>4 DEF ListDue
    <3>3. QED
      BY <3>1, <3>2, <2>4 DEF IsDue, SteadyInv, NonePaused
  <2>5. SnapshotsInv'
    <3> SUFFICES ASSUME NEW n \in Managers, NEW t \in Tasks, due'[n][t] # Absent
                 PROVE  /\ due'[n][t].status = "waiting" /\ WellKeyed(due'[n][t])
                        /\ due'[n][t].nextRunAt <= now'[n]
                        /\ store[t] # Absent /\ due'[n][t].cond = store[t].cond
                        /\ store[t].status = "waiting" =>
                             \/ due'[n][t].nextRunAt < store[t].nextRunAt
                             \/ /\ due'[n][t].nextRunAt = store[t].nextRunAt
                                /\ due'[n][t].runCount = store[t].runCount
                        /\ \A p \in Managers :
                             Holds(p, t) => due'[n][t].nextRunAt <= due[p][t].nextRunAt
      BY <1>2, <2>2 DEF SnapshotsInv, Snapped, WellKeyed
    <3>1. CASE n = m
      <4>1. \A p \in Managers : ~ Holds(p, t)
        BY <2>4, <3>1 DEF SteadyInv, HolderInv
      <4>2. WellKeyed(store[t])
        BY <2>4, <3>1 DEF SteadyInv, FiredInv
      <4>3. QED
        BY <2>4, <3>1, <4>1, <4>2
    <3>2. CASE n # m
      BY <2>3, <3>2 DEF SteadyInv, SnapshotsInv, Snapped
    <3>3. QED
      BY <3>1, <3>2
  <2>6. HolderInv'
    BY <1>2, <2>2 DEF SteadyInv, HolderInv
  <2>7. FiredInv'
    <3>1. \A n \in Managers : hpc'[n] \in {"save", "fire"} <=> Unfired(n)'
      BY DEF Unfired
    <3>2. \A n \in Managers : hpc[n] \in {"save", "fire"} <=> Unfired(n)
      BY DEF Unfired
    <3>3. QED
      BY <1>2, <2>2, <3>1, <3>2 DEF SteadyInv, FiredInv, WellKeyed
  <2>8. QED
    BY <1>2, <2>5, <2>6, <2>7 DEF SteadyInv, NonePaused, OccurrencesInOrder, RunCountExact
<1>5. QED
  BY <1>3, <1>4

LEMMA NextTaskSteady ==
  ASSUME TypeOK, SteadyInv, NEW m \in Managers, NEW t \in Tasks, NextTask(m, t)
  PROVE  SteadyInv'
<1>1. hpc'[m] = "claim" /\ \A n \in Managers \ {m} : hpc'[n] = hpc[n] /\ cur'[n] = cur[n]
  BY DEF NextTask, TypeOK, HarvestTypeOK
<1>2. Calm /\ \A u \in Tasks : Unclaimable(u)
  BY <1>1 DEF NextTask, storeVars, Calm, Holds, Unfired, Unclaimable
<1>3. QED
  BY <1>2, CalmStep

\* What the catch block, or a save before firing, writes.
LEMMA SnapshotUnclaimable ==
  ASSUME TypeOK, SteadyInv, NEW m \in Managers, hpc[m] \notin {"idle", "pick"},
         NEW s \in {"running", "error"},
         Save(cur[m], [Snapshot(m) EXCEPT !.status = s])
  PROVE  \A u \in Tasks : Unclaimable(u)
<1>1. /\ cur[m] \in Tasks /\ due[m][cur[m]] \in TaskDocs /\ Snapped(m, cur[m])
  BY InHand
<1> DEFINE d == [due[m][cur[m]] EXCEPT !.status = s]
<1>2. d \in TaskDocs /\ d.status = s /\ d.cond = due[m][cur[m]].cond
  BY <1>1 DEF TaskDocs, Statuses
<1>3. store[cur[m]] # Absent /\ due[m][cur[m]].cond = store[cur[m]].cond
  BY <1>1 DEF SteadyInv, SnapshotsInv
<1>4. store' = [store EXCEPT ![cur[m]] = d]
  BY DEF Save, Snapshot
<1>5. d # Absent
  BY <1>2, AbsentIsNoTask
<1>6. QED
  <2> HIDE DEF d
  <2>1. QED
    BY <1>1, <1>2, <1>3, <1>4, <1>5 DEF Unclaimable, TypeOK, StoreTypeOK

LEMMA ClaimSteady ==
  ASSUME TypeOK, SteadyInv, NEW m \in Managers, Claim(m)
  PROVE  SteadyInv'
<1> DEFINE t == cur[m]
<1>1. /\ t \in Tasks /\ due[m][t] \in TaskDocs /\ Snapped(m, t)
      /\ hpc[m] = "claim" /\ fired' = fired
  BY InHand DEF Claim
<1>2. CASE ~Claimable(t, Snapshot(m).key)
  <2>1. Calm
    BY <1>1, <1>2, LeavingIsCalm DEF Claim
  <2>2. \A u \in Tasks : Unclaimable(u)
    BY <1>2 DEF Claim, Unclaimable
  <2>3. QED
    BY <2>1, <2>2, CalmStep
<1>3. CASE Claimable(t, Snapshot(m).key)
  <2> DEFINE d == [store[t] EXCEPT !.status = "running"]
  <2>1. /\ store' = [store EXCEPT ![t] = d] /\ Answered(m, "save")
        /\ store[t].status = "waiting" /\ store[t].key = due[m][t].key
    BY <1>3 DEF Claim, Save, Claimable, Snapshot
  <2>2. store[t] \in TaskDocs
    BY <1>1, <2>1 DEF TypeOK, StoreTypeOK, Docs, Absent
  <2>3. d \in TaskDocs /\ d.status = "running" /\ d.cond = store[t].cond /\ d # Absent
    BY <2>2, AbsentIsNoTask DEF TaskDocs, Statuses
  <2>4. /\ store'[t] = d
        /\ \A u \in Tasks \ {t} : store'[u] = store[u]
    BY <1>1, <2>1 DEF TypeOK, StoreTypeOK
  <2>5. \A u \in Tasks : Unclaimable(u)
    <3> HIDE DEF d
    <3>1. QED
      BY <2>2, <2>3, <2>4, AbsentIsNoTask DEF Unclaimable
  <2>6. /\ due[m][t].nextRunAt = store[t].nextRunAt
        /\ due[m][t].runCount = store[t].runCount
    <3>1. /\ WellKeyed(due[m][t]) /\ due[m][t].cond = store[t].cond
          /\ \/ due[m][t].nextRunAt < store[t].nextRunAt
             \/ /\ due[m][t].nextRunAt = store[t].nextRunAt
                /\ due[m][t].runCount = store[t].runCount
      BY <1>1, <2>1 DEF SteadyInv, SnapshotsInv
    <3>2. WellKeyed(store[t])
      BY <1>1, <2>1 DEF SteadyInv, FiredInv
    <3>3. due[m][t].nextRunAt = store[t].nextRunAt
      BY <2>1, <3>1, <3>2, KeysDecide
    <3>4. store[t].nextRunAt \in Nat
      BY <3>2 DEF WellKeyed
    <3>5. QED
      BY <3>1, <3>3, <3>4
  <2>7. CASE Goto(m, "failed")
    <3>1. Calm
      BY <1>1, <2>7, GotoIsCalm
    <3>2. QED
      BY <2>5, <3>1, CalmStep
  <2>8. CASE Goto(m, "save")
    <3>1. /\ due' = due /\ cur' = cur /\ now' = now /\ hpc'[m] = "save"
          /\ \A n \in Managers \ {m} : hpc'[n] = hpc[n]
      BY <2>8 DEF Goto, TypeOK, HarvestTypeOK
    <3>2. \A n \in Managers : ~ Holds(n, t)
      BY <1>1, <2>1 DEF SteadyInv, HolderInv
    <3>3. \A n \in Managers, u \in Tasks :
            Holds(n, u)' <=> Holds(n, u) \/ (n = m /\ u = t)
      BY <1>1, <3>1 DEF Holds
    <3>4. SnapshotsInv'
      <4> SUFFICES ASSUME NEW n \in Managers, NEW u \in Tasks, due[n][u] # Absent
                   PROVE  /\ due[n][u].status = "waiting" /\ WellKeyed(due[n][u])
                          /\ due[n][u].nextRunAt <= now[n]
                          /\ store'[u] # Absent /\ due[n][u].cond = store'[u].cond
                          /\ store'[u].status = "waiting" =>
                               \/ due[n][u].nextRunAt < store'[u].nextRunAt
                               \/ /\ due[n][u].nextRunAt = store'[u].nextRunAt
                                  /\ due[n][u].runCount = store'[u].runCount
                          /\ \A p \in Managers :
                               Holds(p, u)' => due[n][u].nextRunAt <= due[p][u].nextRunAt
        BY <3>1 DEF SnapshotsInv, Snapped, WellKeyed
      <4>1. /\ due[n][u].status = "waiting" /\ WellKeyed(due[n][u])
            /\ due[n][u].nextRunAt <= now[n]
            /\ store[u] # Absent /\ due[n][u].cond = store[u].cond
            /\ store[u].status = "waiting" =>
                 \/ due[n][u].nextRunAt < store[u].nextRunAt
                 \/ /\ due[n][u].nextRunAt = store[u].nextRunAt
                    /\ due[n][u].runCount = store[u].runCount
            /\ \A p \in Managers : Holds(p, u) => due[n][u].nextRunAt <= due[p][u].nextRunAt
        BY DEF SteadyInv, SnapshotsInv, Snapped
      <4>2. u = t => due[n][u].nextRunAt <= due[m][t].nextRunAt
        <5>1. u = t => due[n][u].nextRunAt \in Nat /\ due[m][t].nextRunAt \in Int
          BY <1>1, <4>1 DEF WellKeyed, TaskDocs
        <5>2. QED
          BY <5>1, <4>1, <2>1, <2>6
      <4>3. \A p \in Managers : Holds(p, u)' => due[n][u].nextRunAt <= due[p][u].nextRunAt
        BY <3>3, <4>1, <4>2
      <4>4. Unclaimable(u)
        BY <2>5
      <4>5. QED
        BY <4>1, <4>3, <4>4 DEF Unclaimable
    <3>5. HolderInv'
      <4>1. \A n, p \in Managers, u \in Tasks : Holds(n, u)' /\ Holds(p, u)' => n = p
        BY <3>2, <3>3 DEF SteadyInv, HolderInv
      <4>2. \A n \in Managers, u \in Tasks :
              Holds(n, u)' => store'[u].status \in {"running", "error"}
        <5> HIDE DEF d
        <5>1. QED
          BY <2>3, <2>4, <3>3 DEF SteadyInv, HolderInv
      <4>3. QED
        BY <4>1, <4>2 DEF HolderInv
    <3>6. FiredInv'
      <4> SUFFICES ASSUME NEW u \in Tasks
                   PROVE  /\ store'[u].status = "waiting" =>
                               /\ WellKeyed(store'[u])
                               /\ \A i \in DOMAIN fired[u] :
                                    fired[u][i] < store'[u].nextRunAt
                          /\ \A n \in Managers : Holds(n, u)' =>
                               IF Unfired(n)'
                                 THEN /\ \A i \in DOMAIN fired[u] :
                                           fired[u][i] < due[n][u].nextRunAt
                                      /\ due[n][u].runCount = Len(fired[u])
                                 ELSE /\ \A i \in DOMAIN fired[u] :
                                           fired[u][i] <= due[n][u].nextRunAt
                                      /\ due[n][u].runCount + 1 = Len(fired[u])
        BY <1>1, <3>1 DEF FiredInv, WellKeyed, Unfired
      <4>1. store'[u].status = "waiting" => store'[u] = store[u]
        BY <2>5 DEF Unclaimable
      <4>2. store'[u].status = "waiting" =>
              /\ WellKeyed(store'[u])
              /\ \A i \in DOMAIN fired[u] : fired[u][i] < store'[u].nextRunAt
        BY <4>1 DEF SteadyInv, FiredInv
      <4>3. ASSUME NEW n \in Managers, Holds(n, u), n # m
            PROVE  IF Unfired(n)'
                     THEN /\ \A i \in DOMAIN fired[u] : fired[u][i] < due[n][u].nextRunAt
                          /\ due[n][u].runCount = Len(fired[u])
                     ELSE /\ \A i \in DOMAIN fired[u] : fired[u][i] <= due[n][u].nextRunAt
                          /\ due[n][u].runCount + 1 = Len(fired[u])
        <5>1. Unfired(n)' <=> hpc[n] \in {"save", "fire"}
          BY <3>1, <4>3 DEF Unfired
        <5>2. QED
          BY <4>3, <5>1 DEF SteadyInv, FiredInv
      <4>4. CASE u = t
        <5>1. Unfired(m)'
          BY <3>1 DEF Unfired
        <5>2. /\ \A i \in DOMAIN fired[u] : fired[u][i] < due[m][u].nextRunAt
              /\ due[m][u].runCount = Len(fired[u])
          BY <2>1, <2>6, <4>4 DEF SteadyInv, FiredInv, RunCountExact
        <5>3. QED
          BY <3>2, <3>3, <4>2, <4>4, <5>1, <5>2
      <4>5. CASE u # t
        <5>1. ~ Holds(m, u)
          BY <1>1 DEF Holds
        <5>2. QED
          BY <3>3, <4>2, <4>3, <4>5, <5>1
      <4>6. QED
        BY <4>4, <4>5
    <3>7. NonePaused' /\ OccurrencesInOrder' /\ RunCountExact'
      BY <1>1, <2>5 DEF SteadyInv, NonePaused, OccurrencesInOrder, RunCountExact, Unclaimable
    <3>8. QED
      BY <3>4, <3>5, <3>6, <3>7 DEF SteadyInv
  <2>9. QED
    BY <2>1, <2>7, <2>8 DEF Answered
<1>4. QED
  BY <1>2, <1>3

LEMMA FireSteady ==
  ASSUME TypeOK, SteadyInv, NEW m \in Managers, Fire(m)
  PROVE  SteadyInv'
<1> DEFINE t == cur[m]
           k == due[m][t].nextRunAt
<1>1. /\ t \in Tasks /\ due[m][t] \in TaskDocs /\ Snapped(m, t)
      /\ hpc[m] = "fire" /\ store' = store /\ Holds(m, t)
  BY InHand DEF Fire, storeVars, Holds
<1>2. /\ fired' = [fired EXCEPT ![t] = Append(@, k)]
      /\ due' = due /\ cur' = cur /\ now' = now /\ hpc'[m] = "reread"
      /\ \A n \in Managers \ {m} : hpc'[n] = hpc[n]
  BY DEF Fire, Goto, Snapshot, TypeOK, HarvestTypeOK
<1>3. \A n \in Managers, u \in Tasks : Holds(n, u)' <=> Holds(n, u)
  BY <1>1, <1>2 DEF Holds
<1>4. /\ k \in Int /\ fired[t] \in Seq(Int)
      /\ \A i \in DOMAIN fired[t] : fired[t][i] < k
      /\ due[m][t].runCount = Len(fired[t])
      /\ store[t].status \in {"running", "error"}
  BY <1>1 DEF TaskDocs, TypeOK, StoreTypeOK, SteadyInv, FiredInv, HolderInv
<1>5. /\ fired'[t] = Append(fired[t], k)
      /\ \A u \in Tasks \ {t} : fired'[u] = fired[u]
  BY <1>1, <1>2 DEF TypeOK, StoreTypeOK
<1>6. /\ Len(fired'[t]) = Len(fired[t]) + 1
      /\ DOMAIN fired'[t] = 1..(Len(fired[t]) + 1)
      /\ \A i \in DOMAIN fired[t] : fired'[t][i] = fired[t][i]
      /\ fired'[t][Len(fired[t]) + 1] = k
      /\ DOMAIN fired[t] = 1..Len(fired[t]) /\ Len(fired[t]) \in Nat
      /\ \A i \in DOMAIN fired[t] : fired[t][i] \in Int
  <2> HIDE DEF k, t
  <2>1. QED
    BY <1>4, <1>5
<1>7. \A i \in DOMAIN fired'[t] : fired'[t][i] <= k
  <2> HIDE DEF k, t
  <2>1. QED
    BY <1>4, <1>6
<1>8. SnapshotsInv'
  BY <1>1, <1>2, <1>3 DEF SteadyInv, SnapshotsInv, Snapped, WellKeyed
<1>9. HolderInv'
  BY <1>1, <1>3 DEF SteadyInv, HolderInv
<1>10. FiredInv'
  <2> SUFFICES ASSUME NEW u \in Tasks
               PROVE  /\ store[u].status = "waiting" =>
                           /\ WellKeyed(store[u])
                           /\ \A i \in DOMAIN fired'[u] : fired'[u][i] < store[u].nextRunAt
                      /\ \A n \in Managers : Holds(n, u) =>
                           IF Unfired(n)'
                             THEN /\ \A i \in DOMAIN fired'[u] :
                                       fired'[u][i] < due[n][u].nextRunAt
                                  /\ due[n][u].runCount = Len(fired'[u])
                             ELSE /\ \A i \in DOMAIN fired'[u] :
                                       fired'[u][i] <= due[n][u].nextRunAt
                                  /\ due[n][u].runCount + 1 = Len(fired'[u])
    BY <1>1, <1>2, <1>3 DEF FiredInv, WellKeyed, Unfired
  <2>1. CASE u = t
    <3>1. \A n \in Managers : Holds(n, u) => n = m
      BY <1>1, <2>1 DEF SteadyInv, HolderInv
    <3>2. ~ Unfired(m)'
      BY <1>2 DEF Unfired
    <3>3. due[m][u].runCount + 1 = Len(fired'[u])
      BY <1>4, <1>6, <2>1
    <3>4. QED
      BY <1>4, <1>7, <2>1, <3>1, <3>2, <3>3
  <2>2. CASE u # t
    <3>1. ~ Holds(m, u) /\ fired'[u] = fired[u]
      BY <1>5, <2>2 DEF Holds
    <3>2. \A n \in Managers : Holds(n, u) => (Unfired(n)' <=> hpc[n] \in {"save", "fire"})
      BY <1>2, <3>1 DEF Unfired
    <3>3. QED
      BY <3>1, <3>2 DEF SteadyInv, FiredInv
  <2>3. QED
    BY <2>1, <2>2
<1>11. OccurrencesInOrder'
  <2> SUFFICES ASSUME NEW u \in Tasks, NEW i \in DOMAIN fired'[u], NEW j \in DOMAIN fired'[u],
                      i < j
               PROVE  fired'[u][i] < fired'[u][j]
    BY DEF OccurrencesInOrder
  <2>1. CASE u # t
    BY <1>5, <2>1 DEF SteadyInv, OccurrencesInOrder
  <2>2. CASE u = t
    <3> HIDE DEF k, t
    <3>1. i \in DOMAIN fired[t]
      BY <1>6, <2>2
    <3>2. CASE j \in DOMAIN fired[t]
      BY <1>1, <1>6, <2>2, <3>1, <3>2 DEF SteadyInv, OccurrencesInOrder
    <3>3. CASE j \notin DOMAIN fired[t]
      <4>1. j = Len(fired[t]) + 1
        BY <1>6, <2>2, <3>3
      <4>2. QED
        BY <1>4, <1>6, <2>2, <3>1, <4>1
    <3>4. QED
      BY <3>2, <3>3
  <2>3. QED
    BY <2>1, <2>2
<1>12. NonePaused' /\ RunCountExact'
  BY <1>1, <1>4, <1>5 DEF SteadyInv, NonePaused, RunCountExact
<1>13. QED
  BY <1>8, <1>9, <1>10, <1>11, <1>12 DEF SteadyInv

LEMMA FinalSaveSteady ==
  ASSUME TypeOK, SteadyInv, NEW m \in Managers, NEW t \in Tasks, t = cur[m], FinalSave(m)
  PROVE  SteadyInv'
<1> DEFINE d == AfterTriggerRun(due[m][t], now[m])
<1>1. /\ t \in Tasks /\ due[m][t] \in TaskDocs /\ Snapped(m, t) /\ now[m] \in Nat
      /\ hpc[m] = "finish" /\ fired' = fired /\ Holds(m, t)
  BY InHand DEF FinalSave, Holds
<1>2. /\ d \in TaskDocs /\ d.cond = due[m][t].cond
      /\ d.runCount = due[m][t].runCount + 1
      /\ d.status \in {"waiting", "completed"}
      /\ d.status = "waiting" => WellKeyed(d) /\ d.nextRunAt > now[m]
  BY <1>1, AfterRunType, AfterRunLater
<1>3. /\ store'[t] = d
      /\ \A u \in Tasks \ {t} : store'[u] = store[u]
  BY <1>1 DEF FinalSave, Save, Snapshot, TypeOK, StoreTypeOK
<1>4. Calm
  BY <1>1, LeavingIsCalm, GotoIsCalm DEF FinalSave
<1>5. \A n \in Managers : ~ Holds(n, t)'
  <2>1. hpc'[m] \in {"idle", "pick", "failed"}
    BY DEF FinalSave, LeaveTask, Goto, TypeOK, HarvestTypeOK
  <2>2. ~ Holds(m, t)'
    BY <2>1 DEF Holds
  <2>3. \A n \in Managers : Holds(n, t)' => n = m
    BY <1>1, <1>4 DEF Calm, SteadyInv, HolderInv
  <2>4. QED
    BY <2>2, <2>3
<1> HIDE DEF d
<1>6. SnapshotsInv'
  <2> SUFFICES ASSUME NEW n \in Managers, NEW u \in Tasks, due'[n][u] # Absent
               PROVE  /\ due'[n][u].status = "waiting" /\ WellKeyed(due'[n][u])
                      /\ due'[n][u].nextRunAt <= now'[n]
                      /\ store'[u] # Absent /\ due'[n][u].cond = store'[u].cond
                      /\ store'[u].status = "waiting" =>
                           \/ due'[n][u].nextRunAt < store'[u].nextRunAt
                           \/ /\ due'[n][u].nextRunAt = store'[u].nextRunAt
                              /\ due'[n][u].runCount = store'[u].runCount
                      /\ \A p \in Managers :
                           Holds(p, u)' => due'[n][u].nextRunAt <= due'[p][u].nextRunAt
    BY DEF SnapshotsInv, Snapped, WellKeyed
  <2>1. due'[n][u] = due[n][u] /\ Snapped(n, u) /\ now' = now
    BY <1>4 DEF Calm, Snapped
  <2>2. /\ due[n][u].status = "waiting" /\ WellKeyed(due[n][u])
        /\ due[n][u].nextRunAt <= now[n]
        /\ store[u] # Absent /\ due[n][u].cond = store[u].cond
        /\ store[u].status = "waiting" =>
             \/ due[n][u].nextRunAt < store[u].nextRunAt
             \/ /\ due[n][u].nextRunAt = store[u].nextRunAt
                /\ due[n][u].runCount = store[u].runCount
        /\ \A p \in Managers : Holds(p, u) => due[n][u].nextRunAt <= due[p][u].nextRunAt
    BY <2>1 DEF SteadyInv, SnapshotsInv
  <2>3. \A p \in Managers : Holds(p, u)' => Holds(p, u) /\ due'[p][u] = due[p][u]
    BY <1>4 DEF Calm
  <2>4. CASE u # t
    BY <1>3, <2>1, <2>2, <2>3, <2>4
  <2>5. CASE u = t
    <3>1. due[m][t].nextRunAt <= now[m] /\ due[m][t].cond = store[t].cond
      BY <1>1 DEF SteadyInv, SnapshotsInv
    <3>2. due[n][u].nextRunAt <= due[m][t].nextRunAt
      BY <1>1, <2>2, <2>5
    <3>3. due[n][u].nextRunAt \in Nat /\ due[m][t].nextRunAt \in Int
      BY <1>1, <2>2 DEF WellKeyed, TaskDocs
    <3>4. store'[u].status = "waiting" => due[n][u].nextRunAt < store'[u].nextRunAt
      BY <1>1, <1>2, <1>3, <2>5, <3>1, <3>2, <3>3 DEF WellKeyed
    <3>5. store'[u] # Absent /\ store'[u].cond = store[u].cond
      BY <1>2, <1>3, <2>5, <3>1, AbsentIsNoTask
    <3>6. QED
      BY <1>5, <2>1, <2>2, <2>5, <3>4, <3>5
  <2>6. QED
    BY <2>4, <2>5
<1>7. HolderInv'
  <2>1. \A n \in Managers, u \in Tasks : Holds(n, u)' => Holds(n, u) /\ u # t
    BY <1>4, <1>5 DEF Calm
  <2>2. \A n, p \in Managers, u \in Tasks : Holds(n, u)' /\ Holds(p, u)' => n = p
    BY <2>1 DEF SteadyInv, HolderInv
  <2>3. \A n \in Managers, u \in Tasks :
          Holds(n, u)' => store'[u].status \in {"running", "error"}
    BY <1>3, <2>1 DEF SteadyInv, HolderInv
  <2>4. QED
    BY <2>2, <2>3 DEF HolderInv
<1>8. /\ \A i \in DOMAIN fired[t] : fired[t][i] <= due[m][t].nextRunAt
      /\ due[m][t].runCount + 1 = Len(fired[t])
      /\ due[m][t].nextRunAt <= now[m]
  BY <1>1 DEF SteadyInv, FiredInv, SnapshotsInv
<1>9. FiredInv'
  <2> SUFFICES ASSUME NEW u \in Tasks
               PROVE  /\ store'[u].status = "waiting" =>
                           /\ WellKeyed(store'[u])
                           /\ \A i \in DOMAIN fired[u] : fired[u][i] < store'[u].nextRunAt
                      /\ \A n \in Managers : Holds(n, u)' =>
                           IF Unfired(n)'
                             THEN /\ \A i \in DOMAIN fired[u] :
                                       fired[u][i] < due'[n][u].nextRunAt
                                  /\ due'[n][u].runCount = Len(fired[u])
                             ELSE /\ \A i \in DOMAIN fired[u] :
                                       fired[u][i] <= due'[n][u].nextRunAt
                                  /\ due'[n][u].runCount + 1 = Len(fired[u])
    BY <1>1 DEF FiredInv, WellKeyed, Unfired
  <2>1. CASE u = t
    <3>1. \A i \in DOMAIN fired[t] : fired[t][i] \in Int
      BY <1>1 DEF TypeOK, StoreTypeOK
    <3>2. due[m][t].nextRunAt \in Int /\ (d.status = "waiting" => d.nextRunAt \in Nat)
      BY <1>1, <1>2 DEF TaskDocs, WellKeyed
    <3>3. d.status = "waiting" => \A i \in DOMAIN fired[t] : fired[t][i] < d.nextRunAt
      BY <1>1, <1>2, <1>8, <3>1, <3>2
    <3>4. QED
      BY <1>2, <1>3, <1>5, <2>1, <3>3
  <2>2. CASE u # t
    <3>1. \A n \in Managers : Holds(n, u)' => /\ Holds(n, u) /\ due'[n][u] = due[n][u]
                                              /\ Unfired(n)' <=> Unfired(n)
      BY <1>4 DEF Calm
    <3>2. QED
      BY <1>3, <2>2, <3>1 DEF SteadyInv, FiredInv, Unfired
  <2>3. QED
    BY <2>1, <2>2
<1>10. NonePaused' /\ OccurrencesInOrder' /\ RunCountExact'
  BY <1>1, <1>2, <1>3, <1>8 DEF SteadyInv, NonePaused, OccurrencesInOrder, RunCountExact
<1>11. QED
  BY <1>6, <1>7, <1>9, <1>10 DEF SteadyInv

LEMMA InitSteady == Init => SteadyInv
<1> SUFFICES ASSUME Init PROVE SteadyInv
  OBVIOUS
<1>1. \A m \in Managers, t \in Tasks : ~ Snapped(m, t) /\ ~ Holds(m, t)
  BY NothingPauses DEF Init, Snapped, Holds
<1>2. \A t \in Tasks :
        /\ fired[t] = <<>>
        /\ store[t].status \in {"absent", "waiting", "completed"}
        /\ store[t].status = "waiting" => WellKeyed(store[t])
        /\ store[t].runCount = 0
  BY NewTaskScheduled DEF Init, Absent
<1>3. SnapshotsInv /\ HolderInv
  BY <1>1 DEF SnapshotsInv, HolderInv
<1>4. FiredInv
  BY <1>1, <1>2 DEF FiredInv
<1>5. NonePaused /\ OccurrencesInOrder
  BY <1>2 DEF NonePaused, OccurrencesInOrder
<1>6. RunCountExact
  BY <1>2 DEF RunCountExact
<1>7. QED
  BY <1>3, <1>4, <1>5, <1>6 DEF SteadyInv

LEMMA HarvestStepSteady ==
  ASSUME TypeOK, SteadyInv, NEW m \in Managers, HarvestStep(m)
  PROVE  SteadyInv'
<1>1. CASE Harvest(m)
  BY <1>1, HarvestSteady
<1>2. CASE \E t \in Tasks : NextTask(m, t)
  BY <1>2, NextTaskSteady
<1>3. CASE WakePaused(m)
  <2>1. Snapped(m, cur[m]) /\ cur[m] \in Tasks /\ due[m][cur[m]].status = "paused"
    BY <1>3, InHand DEF WakePaused, Snapshot
  <2>2. QED
    BY <2>1 DEF SteadyInv, SnapshotsInv
<1>4. CASE Claim(m)
  BY <1>4, ClaimSteady
<1>5. CASE SaveRunning(m)
  <2>1. hpc[m] = "save" /\ fired' = fired
    BY <1>5 DEF SaveRunning
  <2>2. Calm
    BY <1>5, <2>1, GotoIsCalm DEF SaveRunning, Answered
  <2>3. \A u \in Tasks : Unclaimable(u)
    BY <1>5, <2>1, SnapshotUnclaimable DEF SaveRunning
  <2>4. QED
    BY <2>2, <2>3, CalmStep
<1>6. CASE Fire(m)
  BY <1>6, FireSteady
<1>7. CASE Reread(m)
  <2>1. hpc[m] = "reread" /\ fired' = fired /\ store' = store
    BY <1>7 DEF Reread, storeVars
  <2>2. Calm
    BY <1>7, <2>1, GotoIsCalm, LeavingIsCalm DEF Reread, Answered
  <2>3. \A u \in Tasks : Unclaimable(u)
    BY <2>1 DEF Unclaimable
  <2>4. QED
    BY <2>2, <2>3, CalmStep
<1>8. CASE FinalSave(m)
  <2>1. cur[m] \in Tasks
    BY <1>8, InHand DEF FinalSave
  <2>2. QED
    BY <1>8, <2>1, FinalSaveSteady
<1>9. CASE LoseOperation(m)
  <2>1. fired' = fired /\ store' = store
    BY <1>9 DEF LoseOperation, storeVars
  <2>2. Calm
    BY <1>9, <2>1, GotoIsCalm DEF LoseOperation
  <2>3. \A u \in Tasks : Unclaimable(u)
    BY <2>1 DEF Unclaimable
  <2>4. QED
    BY <2>2, <2>3, CalmStep
<1>10. CASE SaveError(m)
  <2>1. hpc[m] = "failed" /\ fired' = fired
    BY <1>10 DEF SaveError
  <2>2. Calm
    BY <1>10, <2>1, LeavingIsCalm DEF SaveError
  <2>3. \A u \in Tasks : Unclaimable(u)
    <3>1. CASE UNCHANGED store
      BY <3>1 DEF Unclaimable
    <3>2. CASE Save(cur[m], [Snapshot(m) EXCEPT !.status = "error"])
      BY <2>1, <3>2, SnapshotUnclaimable
    <3>3. QED
      BY <1>10, <3>1, <3>2 DEF SaveError
  <2>4. QED
    BY <2>2, <2>3, CalmStep
<1>11. QED
  BY <1>1, <1>2, <1>3, <1>4, <1>5, <1>6, <1>7, <1>8, <1>9, <1>10 DEF HarvestStep

LEMMA SteadyInvariant == SteadySpec => []SteadyInv
<1>1. ASSUME TypeOK, SteadyInv, [SteadyNext]_vars
      PROVE  SteadyInv'
  <2>1. CASE Tick \/ UNCHANGED vars
    <3>1. store' = store /\ Calm
      BY <2>1 DEF Tick, vars, harvestVars, Calm, Holds, Unfired
    <3>2. \A t \in Tasks : Unclaimable(t)
      BY <3>1 DEF Unclaimable
    <3>3. QED
      BY <1>1, <3>1, <3>2, CalmStep
  <2>2. CASE \E m \in Managers : HarvestStep(m)
    BY <1>1, <2>2, HarvestStepSteady
  <2>3. QED
    BY <1>1, <2>1, <2>2 DEF SteadyNext
<1>2. QED
  BY <1>1, InitSteady, SteadyTypeCorrect, PTL DEF SteadySpec

\* However many managers harvest one repository, no occurrence is fired twice
\* or out of order: the claim compares keys, a key decides its instant, and
\* afterTriggerRun schedules past the reading of the clock the run began with.
THEOREM FiresInOrder == SteadySpec => []OccurrencesInOrder
<1>1. SteadyInv => OccurrencesInOrder
  BY DEF SteadyInv
<1>2. QED
  BY <1>1, SteadyInvariant, PTL

\* The whole-document saves of concurrent managers lose no run.
THEOREM CountsEveryRun == SteadySpec => []RunCountExact
<1>1. SteadyInv => RunCountExact
  BY DEF SteadyInv
<1>2. QED
  BY <1>1, SteadyInvariant, PTL
-----------------------------------------------------------------------------
(***************************************************************************)
(* TriggerManager implements OccurrenceLedger while its managers stay up.   *)
(***************************************************************************)
Claims(m, t) == Holds(m, t) /\ Unfired(m)

-----------------------------------------------------------------------------
(***************************************************************************)
(* The occurrence a task is on: the refinement mapping, before and after a  *)
(* step.                                                                    *)
(***************************************************************************)
LEMMA ClaimantsAreHolders ==
  ASSUME NEW t \in Tasks
  PROVE  /\ Claimants(t) = {m \in Managers : Claims(m, t)}
         /\ Claimants(t)' = {m \in Managers : Claims(m, t)'}
BY DEF Claimants, Claims, Holds, Unfired

LEMMA PendingBefore ==
  ASSUME HolderInv, NEW t \in Tasks
  PROVE  /\ store[t].status = "waiting" => Pending(t) = store[t].nextRunAt
         /\ store[t].status # "waiting" /\ (\A m \in Managers : ~ Claims(m, t))
              => Pending(t) = NoTime
         /\ \A m \in Managers : Claims(m, t) => Pending(t) = due[m][t].nextRunAt
<1>1. ASSUME NEW m \in Managers, Claims(m, t)
      PROVE  Pending(t) = due[m][t].nextRunAt
  <2>1. Claimants(t) = {m}
    BY <1>1, ClaimantsAreHolders DEF HolderInv, Claims
  <2>2. (CHOOSE n \in Claimants(t) : TRUE) = m
    BY <2>1
  <2>3. store[t].status # "waiting" /\ cur[m] = t
    BY <1>1 DEF HolderInv, Claims, Holds
  <2>4. QED
    BY <2>1, <2>2, <2>3 DEF Pending, Snapshot
<1>2. (\A m \in Managers : ~ Claims(m, t)) => Claimants(t) = {}
  BY ClaimantsAreHolders
<1>3. QED
  BY <1>1, <1>2 DEF Pending

LEMMA PendingAfter ==
  ASSUME HolderInv', NEW t \in Tasks
  PROVE  /\ store'[t].status = "waiting" => Pending(t)' = store'[t].nextRunAt
         /\ store'[t].status # "waiting" /\ (\A m \in Managers : ~ Claims(m, t)')
              => Pending(t)' = NoTime
         /\ \A m \in Managers : Claims(m, t)' => Pending(t)' = due'[m][t].nextRunAt
<1>1. ASSUME NEW m \in Managers, Claims(m, t)'
      PROVE  Pending(t)' = due'[m][t].nextRunAt
  <2>1. Claimants(t)' = {m}
    BY <1>1, ClaimantsAreHolders DEF HolderInv, Claims
  <2>2. (CHOOSE n \in Claimants(t)' : TRUE) = m
    BY <2>1
  <2>3. store'[t].status # "waiting" /\ cur'[m] = t
    BY <1>1 DEF HolderInv, Claims, Holds
  <2>4. QED
    BY <2>1, <2>2, <2>3 DEF Pending, Snapshot
<1>2. (\A m \in Managers : ~ Claims(m, t)') => Claimants(t)' = {}
  BY ClaimantsAreHolders
<1>3. QED
  BY <1>1, <1>2 DEF Pending

\* A step that changes neither what t waits for nor who has claimed it.
Undisturbed(t) ==
  /\ \/ store'[t] = store[t]
     \/ store[t].status # "waiting" /\ store'[t].status # "waiting"
  /\ \A n \in Managers : /\ Claims(n, t)' <=> Claims(n, t)
                         /\ Claims(n, t) => due'[n][t] = due[n][t]

LEMMA UndisturbedPending ==
  ASSUME HolderInv, HolderInv', NEW t \in Tasks, Undisturbed(t)
  PROVE  Pending(t)' = Pending(t)
<1>1. CASE \E m \in Managers : Claims(m, t)
  BY <1>1, PendingBefore, PendingAfter DEF Undisturbed
<1>2. CASE ~ \E m \in Managers : Claims(m, t)
  BY <1>2, PendingBefore, PendingAfter DEF Undisturbed
<1>3. QED
  BY <1>1, <1>2

-----------------------------------------------------------------------------
(***************************************************************************)
(* A step of the ledger disturbs one task, in one of three ways.            *)
(***************************************************************************)
OnlyAffects(t) ==
  \A u \in Tasks \ {t} : Pending(u)' = Pending(u) /\ fired'[u] = fired[u]

LEMMA LedgerStep ==
  ASSUME StoreTypeOK, StoreTypeOK', NEW t \in Tasks, OnlyAffects(t),
         \/ Pending(t)' = Pending(t) /\ fired'[t] = fired[t]
         \/ Pending(t)' = NoTime /\ fired'[t] = fired[t]
         \/ /\ Pending(t) # NoTime /\ Pending(t)' = NoTime
            /\ fired'[t] = Append(fired[t], Pending(t))
         \/ /\ Pending(t) = NoTime /\ Pending(t)' \in Nat
            /\ \A i \in DOMAIN fired[t] : fired[t][i] < Pending(t)'
            /\ fired'[t] = fired[t]
  PROVE  [Ledger!Next]_(Ledger!vars)
<1> DEFINE next == [u \in Tasks |-> Pending(u)]
<1>1. /\ next' = [next EXCEPT ![t] = Pending(t)']
      /\ next[t] = Pending(t) /\ next'[t] = Pending(t)'
  BY DEF OnlyAffects
<1>2. fired' = [fired EXCEPT ![t] = fired'[t]]
  BY DEF OnlyAffects, StoreTypeOK
<1>3. fired'[t] = fired[t] => fired' = fired
  BY <1>2 DEF StoreTypeOK
<1>4. CASE Pending(t)' = Pending(t) /\ fired'[t] = fired[t]
  <2>1. next' = next
    BY <1>1, <1>4
  <2>2. QED
    BY <1>3, <1>4, <2>1 DEF Ledger!vars
<1>5. CASE Pending(t)' = NoTime /\ fired'[t] = fired[t]
  <2>1. Ledger!GiveUp(t)
    BY <1>1, <1>3, <1>5 DEF Ledger!GiveUp
  <2>2. QED
    BY <2>1 DEF Ledger!Next
<1>6. CASE /\ Pending(t) # NoTime /\ Pending(t)' = NoTime
           /\ fired'[t] = Append(fired[t], Pending(t))
  <2>1. Ledger!Fire(t)
    BY <1>1, <1>2, <1>6 DEF Ledger!Fire
  <2>2. QED
    BY <2>1 DEF Ledger!Next
<1>7. CASE /\ Pending(t) = NoTime /\ Pending(t)' \in Nat
           /\ \A i \in DOMAIN fired[t] : fired[t][i] < Pending(t)'
           /\ fired'[t] = fired[t]
  <2>1. Ledger!Reschedule(t)
    BY <1>1, <1>3, <1>7 DEF Ledger!Reschedule
  <2>2. QED
    BY <2>1 DEF Ledger!Next
<1>8. QED
  BY <1>4, <1>5, <1>6, <1>7

LEMMA LedgerStutter ==
  ASSUME HolderInv, HolderInv', \A t \in Tasks : Undisturbed(t), fired' = fired
  PROVE  [Ledger!Next]_(Ledger!vars)
<1>1. \A t \in Tasks : Pending(t)' = Pending(t)
  BY UndisturbedPending
<1>2. QED
  BY <1>1 DEF Ledger!vars

-----------------------------------------------------------------------------
(***************************************************************************)
(* The steps of a harvest.                                                  *)
(***************************************************************************)
\* A manager works on one task at a time.
LEMMA OthersUndisturbed ==
  ASSUME TypeOK, NEW m \in Managers, NEW t \in Tasks, t = cur[m],
         LeaveTask(m) \/ AbortHarvest(m) \/ (\E pc : Goto(m, pc)),
         \A u \in Tasks \ {t} : store'[u] = store[u]
  PROVE  \A u \in Tasks \ {t} : Undisturbed(u)
<1>1. \A n \in Managers \ {m} : hpc'[n] = hpc[n] /\ cur'[n] = cur[n] /\ due'[n] = due[n]
  BY DEF LeaveTask, AbortHarvest, Goto, TypeOK, HarvestTypeOK
<1>2. cur'[m] \in {t, NoTask} /\ NoTask \notin Tasks
  BY TasksAssumption DEF LeaveTask, AbortHarvest, Goto, TypeOK, HarvestTypeOK
<1>3. \A u \in Tasks \ {t} : ~ Claims(m, u) /\ ~ Claims(m, u)'
  BY <1>2 DEF Claims, Holds
<1>4. \A n \in Managers \ {m}, u \in Tasks : Claims(n, u)' <=> Claims(n, u)
  BY <1>1 DEF Claims, Holds, Unfired
<1>5. QED
  BY <1>1, <1>3, <1>4 DEF Undisturbed

LEMMA OnlyAffectsInHand ==
  ASSUME TypeOK, HolderInv, HolderInv', NEW m \in Managers, NEW t \in Tasks, t = cur[m],
         LeaveTask(m) \/ AbortHarvest(m) \/ (\E pc : Goto(m, pc)),
         \A u \in Tasks \ {t} : store'[u] = store[u] /\ fired'[u] = fired[u]
  PROVE  OnlyAffects(t)
BY OthersUndisturbed, UndisturbedPending DEF OnlyAffects

\* A calm step on the task in hand that writes no claimable document keeps its
\* occurrence, or gives it up.
LEMMA CalmLedger ==
  ASSUME TypeOK, TypeOK', SteadyInv, SteadyInv', NEW m \in Managers, NEW t \in Tasks, t = cur[m],
         LeaveTask(m) \/ AbortHarvest(m) \/ (\E pc : Goto(m, pc)),
         Calm, Unclaimable(t), \A u \in Tasks \ {t} : store'[u] = store[u]
  PROVE  [Ledger!Next]_(Ledger!vars)
<1>1. fired' = fired /\ HolderInv /\ HolderInv'
  BY DEF Calm, SteadyInv
<1>2. OnlyAffects(t)
  BY <1>1, OnlyAffectsInHand
<1>3. Pending(t)' = Pending(t) \/ Pending(t)' = NoTime
  <2>1. CASE store'[t].status = "waiting"
    <3>1. store'[t] = store[t]
      BY <2>1 DEF Unclaimable
    <3>2. QED
      BY <1>1, <2>1, <3>1, PendingBefore, PendingAfter
  <2>2. CASE store'[t].status # "waiting" /\ (\A n \in Managers : ~ Claims(n, t)')
    BY <1>1, <2>2, PendingAfter
  <2>3. ASSUME NEW n \in Managers, Claims(n, t)'
        PROVE  Pending(t)' = Pending(t)
    <3>1. Claims(n, t) /\ due'[n][t] = due[n][t]
      BY <2>3 DEF Claims, Calm
    <3>2. QED
      BY <1>1, <2>3, <3>1, PendingBefore, PendingAfter
  <2>4. QED
    BY <2>1, <2>2, <2>3
<1>4. QED
  BY <1>1, <1>2, <1>3, LedgerStep DEF TypeOK

LEMMA HarvestLedger ==
  ASSUME TypeOK, TypeOK', SteadyInv, SteadyInv', NEW m \in Managers,
         Harvest(m) \/ \E t \in Tasks : NextTask(m, t)
  PROVE  [Ledger!Next]_(Ledger!vars)
<1>1. store' = store /\ fired' = fired
  BY DEF Harvest, NextTask, storeVars
<1>2. \A n \in Managers \ {m} : hpc'[n] = hpc[n] /\ cur'[n] = cur[n] /\ due'[n] = due[n]
  <2>1. CASE Harvest(m)
    BY <2>1 DEF Harvest, harvestVars, TypeOK, HarvestTypeOK
  <2>2. CASE \E t \in Tasks : NextTask(m, t)
    BY <2>2 DEF NextTask, TypeOK, HarvestTypeOK
  <2>3. QED
    BY <2>1, <2>2
<1>3. ~ Unfired(m) /\ ~ Unfired(m)'
  BY DEF Harvest, NextTask, harvestVars, Unfired, TypeOK, HarvestTypeOK
<1>4. \A t \in Tasks : Undisturbed(t)
  <2>1. \A n \in Managers \ {m}, t \in Tasks : Claims(n, t)' <=> Claims(n, t)
    BY <1>2 DEF Claims, Holds, Unfired
  <2>2. QED
    BY <1>1, <1>2, <1>3, <2>1 DEF Undisturbed, Claims
<1>5. QED
  BY <1>1, <1>4, LedgerStutter DEF SteadyInv

LEMMA ClaimLedger ==
  ASSUME TypeOK, TypeOK', SteadyInv, SteadyInv', NEW m \in Managers, Claim(m)
  PROVE  [Ledger!Next]_(Ledger!vars)
<1>1. PICK t \in Tasks : t = cur[m]
  BY InHand DEF Claim
<1>2. /\ due[m][t] \in TaskDocs /\ Snapped(m, t) /\ hpc[m] = "claim" /\ fired' = fired
      /\ HolderInv /\ HolderInv'
  BY <1>1, InHand DEF Claim, SteadyInv
<1>3. CASE ~Claimable(t, Snapshot(m).key)
  <2>1. LeaveTask(m) /\ store' = store
    BY <1>1, <1>3 DEF Claim
  <2>2. QED
    BY <1>1, <1>2, <2>1, LeavingIsCalm, CalmLedger DEF Unclaimable
<1>4. CASE Claimable(t, Snapshot(m).key)
  <2>1. /\ store' = [store EXCEPT ![t].status = "running"]
        /\ Answered(m, "save")
        /\ store[t].status = "waiting" /\ store[t].key = due[m][t].key
    BY <1>1, <1>4 DEF Claim, Save, Claimable, Snapshot
  <2>2. store'[t].status = "running" /\ \A u \in Tasks \ {t} : store'[u] = store[u]
    BY <2>1 DEF TypeOK, StoreTypeOK, Docs, TaskDocs, Absent
  <2>3. OnlyAffects(t)
    BY <1>1, <1>2, <2>1, <2>2, OnlyAffectsInHand DEF Answered
  <2>4. \A n \in Managers : ~ Holds(n, t)
    BY <1>2, <2>1 DEF HolderInv
  <2>5. CASE Goto(m, "failed")
    <3>1. \A n \in Managers : ~ Claims(n, t)'
      BY <1>2, <2>4, <2>5, GotoIsCalm DEF Calm, Claims
    <3>2. Pending(t)' = NoTime
      BY <1>2, <2>2, <3>1, PendingAfter
    <3>3. QED
      BY <1>2, <2>3, <3>2, LedgerStep DEF TypeOK
  <2>6. CASE Goto(m, "save")
    <3>1. Claims(m, t)' /\ due' = due
      BY <1>1, <2>6 DEF Goto, Claims, Holds, Unfired, TypeOK, HarvestTypeOK
    <3>2. due[m][t].nextRunAt = store[t].nextRunAt
      BY <1>2, <2>1, KeysDecide DEF SteadyInv, SnapshotsInv, FiredInv
    <3>3. Pending(t)' = Pending(t)
      BY <1>2, <2>1, <3>1, <3>2, PendingBefore, PendingAfter
    <3>4. QED
      BY <1>2, <2>3, <3>3, LedgerStep DEF TypeOK
  <2>7. QED
    BY <2>1, <2>5, <2>6 DEF Answered
<1>5. QED
  BY <1>3, <1>4

LEMMA FireLedger ==
  ASSUME TypeOK, TypeOK', SteadyInv, SteadyInv', NEW m \in Managers, Fire(m)
  PROVE  [Ledger!Next]_(Ledger!vars)
<1>1. PICK t \in Tasks : t = cur[m]
  BY InHand DEF Fire
<1>2. /\ hpc[m] = "fire" /\ Claims(m, t) /\ Snapped(m, t) /\ store' = store
      /\ HolderInv /\ HolderInv' /\ Goto(m, "reread")
      /\ fired' = [fired EXCEPT ![t] = Append(@, due[m][t].nextRunAt)]
  BY <1>1, InHand DEF Fire, Snapshot, storeVars, Claims, Holds, Unfired, SteadyInv
<1>3. /\ fired'[t] = Append(fired[t], due[m][t].nextRunAt)
      /\ \A u \in Tasks \ {t} : fired'[u] = fired[u]
  BY <1>2 DEF TypeOK, StoreTypeOK
<1>4. OnlyAffects(t)
  BY <1>1, <1>2, <1>3, OnlyAffectsInHand
<1>5. Pending(t) = due[m][t].nextRunAt /\ Pending(t) # NoTime
  BY <1>2, PendingBefore DEF SteadyInv, SnapshotsInv, WellKeyed, NoTime
<1>6. Pending(t)' = NoTime
  <2>1. ~ Claims(m, t)'
    BY <1>2 DEF Goto, Claims, Unfired, TypeOK, HarvestTypeOK
  <2>2. \A n \in Managers \ {m} : ~ Holds(n, t)
    BY <1>2 DEF Claims, HolderInv
  <2>3. \A n \in Managers \ {m} : ~ Claims(n, t)'
    BY <1>2, <2>2 DEF Goto, Claims, Holds, TypeOK, HarvestTypeOK
  <2>4. store'[t].status # "waiting"
    BY <1>2 DEF Claims, HolderInv
  <2>5. QED
    BY <1>2, <2>1, <2>3, <2>4, PendingAfter
<1>7. QED
  BY <1>3, <1>4, <1>5, <1>6, LedgerStep DEF TypeOK

LEMMA FinalSaveLedger ==
  ASSUME TypeOK, TypeOK', SteadyInv, SteadyInv', NEW m \in Managers, FinalSave(m)
  PROVE  [Ledger!Next]_(Ledger!vars)
<1>1. PICK t \in Tasks : t = cur[m]
  BY InHand DEF FinalSave
<1>2. /\ hpc[m] = "finish" /\ Holds(m, t) /\ fired' = fired
      /\ HolderInv /\ HolderInv' /\ FiredInv'
      /\ LeaveTask(m) \/ Goto(m, "failed")
  BY <1>1 DEF FinalSave, Holds, SteadyInv
<1>3. \A u \in Tasks \ {t} : store'[u] = store[u]
  BY <1>1 DEF FinalSave, Save, TypeOK, StoreTypeOK
<1>4. OnlyAffects(t)
  BY <1>1, <1>2, <1>3, OnlyAffectsInHand
<1>5. Calm
  BY <1>2, LeavingIsCalm, GotoIsCalm
<1>6. \A n \in Managers : ~ Claims(n, t) /\ ~ Claims(n, t)'
  <2>1. \A n \in Managers : Holds(n, t) => n = m
    BY <1>2 DEF HolderInv
  <2>2. ~ Unfired(m)
    BY <1>2 DEF Unfired
  <2>3. QED
    BY <1>5, <2>1, <2>2 DEF Calm, Claims
<1>7. Pending(t) = NoTime
  <2>1. store[t].status # "waiting"
    BY <1>2 DEF HolderInv
  <2>2. QED
    BY <1>2, <1>6, <2>1, PendingBefore
<1>8. CASE store'[t].status # "waiting"
  BY <1>2, <1>4, <1>6, <1>8, PendingAfter, LedgerStep DEF TypeOK
<1>9. CASE store'[t].status = "waiting"
  <2>1. /\ store'[t].nextRunAt \in Nat
        /\ \A i \in DOMAIN fired[t] : fired[t][i] < store'[t].nextRunAt
    BY <1>2, <1>9 DEF FiredInv, WellKeyed
  <2>2. Pending(t)' = store'[t].nextRunAt
    BY <1>2, <1>9, PendingAfter
  <2>3. QED
    BY <1>2, <1>4, <1>7, <2>1, <2>2, LedgerStep DEF TypeOK
<1>10. QED
  BY <1>8, <1>9

LEMMA HarvestStepLedger ==
  ASSUME TypeOK, TypeOK', SteadyInv, SteadyInv', NEW m \in Managers, HarvestStep(m)
  PROVE  [Ledger!Next]_(Ledger!vars)
<1>1. CASE Harvest(m) \/ \E t \in Tasks : NextTask(m, t)
  BY <1>1, HarvestLedger
<1>2. CASE WakePaused(m)
  <2>1. Snapped(m, cur[m]) /\ cur[m] \in Tasks /\ due[m][cur[m]].status = "paused"
    BY <1>2, InHand DEF WakePaused, Snapshot
  <2>2. QED
    BY <2>1 DEF SteadyInv, SnapshotsInv
<1>3. CASE Claim(m)
  BY <1>3, ClaimLedger
<1>4. CASE SaveRunning(m)
  <2>1. /\ hpc[m] = "save" /\ fired' = fired /\ Answered(m, "fire")
        /\ store' = [store EXCEPT ![cur[m]] = [Snapshot(m) EXCEPT !.status = "running"]]
    BY <1>4 DEF SaveRunning, Save
  <2>2. Calm
    BY <2>1, GotoIsCalm DEF Answered
  <2>3. \A u \in Tasks : Unclaimable(u)
    BY <1>4, <2>1, SnapshotUnclaimable DEF SaveRunning
  <2>4. cur[m] \in Tasks /\ \A u \in Tasks \ {cur[m]} : store'[u] = store[u]
    BY <2>1, InHand DEF TypeOK, StoreTypeOK
  <2>5. QED
    BY <2>1, <2>2, <2>3, <2>4, CalmLedger DEF Answered
<1>5. CASE Fire(m)
  BY <1>5, FireLedger
<1>6. CASE Reread(m)
  <2>1. hpc[m] = "reread" /\ fired' = fired /\ store' = store /\ cur[m] \in Tasks
    BY <1>6, InHand DEF Reread, storeVars
  <2>2. Calm
    BY <1>6, <2>1, GotoIsCalm, LeavingIsCalm DEF Reread, Answered
  <2>3. QED
    BY <1>6, <2>1, <2>2, CalmLedger DEF Reread, Answered, Unclaimable
<1>7. CASE FinalSave(m)
  BY <1>7, FinalSaveLedger
<1>8. CASE LoseOperation(m)
  <2>1. /\ hpc[m] \notin {"idle", "pick"} /\ fired' = fired /\ store' = store
        /\ Goto(m, "failed")
    BY <1>8 DEF LoseOperation, storeVars
  <2>2. Calm /\ cur[m] \in Tasks
    BY <2>1, GotoIsCalm, InHand
  <2>3. QED
    BY <2>1, <2>2, CalmLedger DEF Unclaimable
<1>9. CASE SaveError(m)
  <2>1. /\ hpc[m] = "failed" /\ fired' = fired
        /\ LeaveTask(m) \/ AbortHarvest(m)
        /\ \/ UNCHANGED store
           \/ Save(cur[m], [Snapshot(m) EXCEPT !.status = "error"])
    BY <1>9 DEF SaveError
  <2>2. Calm /\ cur[m] \in Tasks
    BY <2>1, LeavingIsCalm, InHand
  <2>3. \A u \in Tasks : Unclaimable(u)
    <3>1. CASE UNCHANGED store
      BY <3>1 DEF Unclaimable
    <3>2. QED
      BY <2>1, <3>1, SnapshotUnclaimable
  <2>4. \A u \in Tasks \ {cur[m]} : store'[u] = store[u]
    BY <2>1, <2>2 DEF Save, TypeOK, StoreTypeOK
  <2>5. QED
    BY <2>1, <2>2, <2>3, <2>4, CalmLedger
<1>10. QED
  BY <1>1, <1>2, <1>3, <1>4, <1>5, <1>6, <1>7, <1>8, <1>9 DEF HarvestStep

-----------------------------------------------------------------------------
\* While its managers stay up, TriggerManager implements the ledger: each
\* occurrence is fired once, in order, or given up because the repository failed.
THEOREM Refinement == SteadySpec => LedgerSpec
<1>1. Init => Ledger!Init
  <2> SUFFICES ASSUME Init PROVE Ledger!Init
    OBVIOUS
  <2>1. /\ \A m \in Managers, t \in Tasks : ~ Claims(m, t)
        /\ HolderInv /\ FiredInv
    BY InitSteady DEF Init, Claims, Holds, SteadyInv
  <2>2. \A t \in Tasks : Pending(t) \in Nat \cup {NoTime}
    BY <2>1, PendingBefore DEF FiredInv, WellKeyed
  <2>3. QED
    BY <2>2 DEF Ledger!Init, Init
<1>2. ASSUME TypeOK, TypeOK', SteadyInv, SteadyInv', [SteadyNext]_vars
      PROVE  [Ledger!Next]_(Ledger!vars)
  <2>1. CASE Tick \/ UNCHANGED vars
    <3>1. fired' = fired /\ \A t \in Tasks : Undisturbed(t)
      BY <2>1 DEF Tick, vars, harvestVars, Undisturbed, Claims, Holds, Unfired
    <3>2. QED
      BY <1>2, <3>1, LedgerStutter DEF SteadyInv
  <2>2. CASE \E m \in Managers : HarvestStep(m)
    BY <1>2, <2>2, HarvestStepLedger
  <2>3. QED
    BY <1>2, <2>1, <2>2 DEF SteadyNext
<1>3. QED
  BY <1>1, <1>2, SteadyTypeCorrect, SteadyInvariant, PTL
     DEF SteadySpec, LedgerSpec, Ledger!Spec

-----------------------------------------------------------------------------
(***************************************************************************)
(* Proofs about TriggerManager with restarts, failures and administrative   *)
(* calls at any point: what a stale document can and cannot do.             *)
(***************************************************************************)

-----------------------------------------------------------------------------
(***************************************************************************)
(* The documents that are written.                                          *)
(***************************************************************************)
\* A document put in a state by the planner: it runs nothing, and waits for an
\* instant its key determines.
Planned(d) ==
  /\ d.status \in {"waiting", "completed", "paused"}
  /\ d.status = "waiting" => WellKeyed(d)

LEMMA PlannedIsKeyed == ASSUME NEW d, Planned(d) PROVE Keyed(d)
BY DEF Planned, Keyed, WellKeyed

LEMMA AbsentIsKeyed == Keyed(Absent)
BY DEF Keyed, Absent

LEMMA InitialStatePlanned ==
  ASSUME NEW doc \in Drafts, NEW at \in Int
  PROVE  LET d == InitialTriggerState(doc, at)
         IN  /\ Planned(d) /\ d.cond = doc.cond /\ d.created = doc.created
             /\ doc.enabled => d.status # "paused"
<1> DEFINE fresh == [doc EXCEPT !.runCount = 0, !.pausedUntil = NoTime]
           parked == [fresh EXCEPT !.status = "paused", !.nextRunAt = NoTime,
                                   !.key = NoKey]
           o == Upcoming(doc, at)
<1>1. fresh \in Drafts /\ fresh.cond = doc.cond /\ fresh.created = doc.created
  BY NullTypes DEF Drafts
<1>2. /\ Planned(Scheduled(fresh, o)) /\ Scheduled(fresh, o).status # "paused"
      /\ Scheduled(fresh, o).cond = doc.cond /\ Scheduled(fresh, o).created = doc.created
  <2>1. o.at \in Int /\ o.key \in KeySet
    BY UpcomingType
  <2> HIDE DEF fresh, o
  <2>2. Scheduled(fresh, o).cond = doc.cond /\ Scheduled(fresh, o).created = doc.created
    BY <1>1, <2>1, ScheduledType
  <2>3. /\ Scheduled(fresh, o).status \in {"waiting", "completed"}
        /\ Scheduled(fresh, o).status = "waiting" => WellKeyed(Scheduled(fresh, o))
    BY <1>1, ScheduledLater DEF o
  <2>4. QED
    BY <2>2, <2>3 DEF Planned
<1>3. /\ parked.status = "paused" /\ parked.cond = doc.cond
      /\ parked.created = doc.created
  BY <1>1 DEF Drafts
<1>4. InitialTriggerState(doc, at) =
        IF doc.enabled THEN Scheduled(fresh, o) ELSE parked
  BY DEF InitialTriggerState
<1>5. QED
  <2> HIDE DEF fresh, parked, o
  <2>1. QED
    BY <1>2, <1>3, <1>4 DEF Planned

LEMMA PreservingHistoryPlanned ==
  ASSUME NEW doc \in TaskDocs, NEW at \in Int
  PROVE  LET d == ReschedulePreservingHistory(doc, at)
         IN  /\ Planned(d) /\ d.cond = doc.cond /\ d.created = doc.created
             /\ doc.enabled => d.status # "paused"
<1> DEFINE e == InitialTriggerState(doc, at)
           d == ReschedulePreservingHistory(doc, at)
<1>1. e \in TaskDocs /\ doc \in Drafts
  BY TasksAreDrafts, InitialStateType
<1>2. /\ Planned(e) /\ e.cond = doc.cond /\ e.created = doc.created
      /\ doc.enabled => e.status # "paused"
  BY <1>1, InitialStatePlanned
<1>3. d = [e EXCEPT !.runCount = doc.runCount]
  BY DEF ReschedulePreservingHistory
<1>4. QED
  <2> HIDE DEF d, e
  <2>1. /\ d.status = e.status /\ d.cond = e.cond /\ d.created = e.created
        /\ d.nextRunAt = e.nextRunAt /\ d.key = e.key
    BY <1>1, <1>3 DEF TaskDocs
  <2>2. Planned(d) /\ d.cond = doc.cond /\ d.created = doc.created
    BY <1>2, <2>1 DEF Planned, WellKeyed
  <2>3. QED
    BY <1>2, <2>1, <2>2 DEF d

LEMMA ReschedulePlanned ==
  ASSUME NEW doc \in TaskDocs, NEW at \in Int
  PROVE  LET d == Reschedule(doc, at)
         IN  /\ Planned(d) /\ d.status # "paused"
             /\ d.cond = doc.cond /\ d.created = doc.created
<1>1. doc \in Drafts
  BY TasksAreDrafts
<1>2. QED
  BY <1>1, UpcomingType, ScheduledType, ScheduledLater DEF Reschedule, Planned

LEMMA NewTaskPlanned ==
  ASSUME NEW c \in Conditions, NEW at \in Nat
  PROVE  LET d == NewTask(c, at)
         IN  Planned(d) /\ d.status # "paused" /\ d.cond = c /\ d.created = at
<1> DEFINE blank == [Absent EXCEPT !.enabled = TRUE, !.cond = c, !.created = at]
<1>1. blank \in Drafts /\ blank.enabled = TRUE /\ blank.cond = c /\ blank.created = at
  BY NullTypes DEF Absent, Drafts
<1>2. NewTask(c, at) = InitialTriggerState(blank, at)
  BY DEF NewTask
<1>3. at \in Int
  OBVIOUS
<1>4. QED
  <2> HIDE DEF blank
  <2>1. QED
    BY <1>1, <1>2, <1>3, InitialStatePlanned

LEMMA AfterRunPlanned ==
  ASSUME NEW doc \in TaskDocs, NEW at \in Int
  PROVE  LET d == AfterTriggerRun(doc, at)
         IN  /\ Planned(d) /\ d.status # "paused"
             /\ d.status = "waiting" => d.nextRunAt > at /\ doc.cond.type # "once"
             /\ d.cond = doc.cond /\ d.created = doc.created
<1>1. AfterTriggerRun(doc, at).status = "waiting" => doc.cond.type # "once"
  BY DEF AfterTriggerRun, Scheduled, TaskDocs
<1>2. QED
  BY <1>1, AfterRunLater, AfterRunType DEF Planned

\* What start() saves keeps the instant of a task that is not in error, and
\* the key that goes with it.
LEMMA RestoredPlanned ==
  ASSUME NEW doc \in TaskDocs, NEW at \in Int, Keyed(doc),
         doc.status \in {"error", "running", "waiting"}
  PROVE  LET d == Restored(doc, at)
         IN  /\ Keyed(d) /\ d.status \in {"waiting", "completed"}
             /\ d.cond = doc.cond /\ d.created = doc.created
<1> DEFINE d == Restored(doc, at)
<1>1. CASE d = Reschedule(doc, at)
  BY <1>1, ReschedulePlanned, PlannedIsKeyed DEF Planned
<1>2. CASE d = [doc EXCEPT !.status = "waiting"] /\ doc.status # "error"
  BY <1>2 DEF Keyed, TaskDocs
<1>3. QED
  BY <1>1, <1>2 DEF Restored

\* A restart lets no once task go: its instant, come or not, is kept.
LEMMA RestoredKeepsOnce ==
  ASSUME NEW doc \in TaskDocs, NEW at \in Int, doc.cond.type = "once",
         doc.status \in {"running", "waiting"}, doc.nextRunAt # NoTime
  PROVE  Restored(doc, at) = [doc EXCEPT !.status = "waiting"]
BY DEF Restored, ResolveMisfire

LEMMA OutcomesKeyed ==
  ASSUME NEW doc \in TaskDocs, NEW at \in Nat, Keyed(doc), NEW d \in Outcomes(doc, at)
  PROVE  Keyed(d)
<1>0. at \in Int
  OBVIOUS
<1>1. ASSUME NEW e \in TaskDocs, Keyed(e), NEW f \in Switched(e, at) PROVE Keyed(f)
  <2> DEFINE on == [e EXCEPT !.enabled = TRUE]
  <2>1. on \in TaskDocs
    BY DEF TaskDocs
  <2>2. Keyed(ReschedulePreservingHistory(on, at))
    BY <1>0, <2>1, PreservingHistoryPlanned, PlannedIsKeyed
  <2>3. Keyed([e EXCEPT !.enabled = FALSE, !.status = "paused",
                        !.nextRunAt = NoTime, !.key = NoKey])
    BY DEF Keyed, TaskDocs
  <2>4. QED
    BY <1>1, <2>2, <2>3 DEF Switched
<1>2. ASSUME NEW e \in Redefined(doc, at) PROVE e \in TaskDocs /\ Keyed(e)
  <2>1. CASE e = doc
    BY <2>1
  <2>2. ASSUME NEW c \in Conditions,
               e = ReschedulePreservingHistory([doc EXCEPT !.cond = c], at)
        PROVE  e \in TaskDocs /\ Keyed(e)
    <3>1. [doc EXCEPT !.cond = c] \in TaskDocs
      BY DEF TaskDocs
    <3>2. QED
      BY <1>0, <2>2, <3>1, PreservingHistoryType, PreservingHistoryPlanned, PlannedIsKeyed
  <2>3. QED
    BY <2>1, <2>2 DEF Redefined
<1>3. CASE d \in Patched(doc, at)
  <2>1. PICK e \in Redefined(doc, at) : d \in Switched(e, at)
    BY <1>3 DEF Patched
  <2>2. QED
    BY <1>1, <1>2, <2>1
<1>4. CASE d \in Paused(doc, at)
  BY <1>4 DEF Paused, Keyed, TaskDocs
<1>5. CASE d \in Resumed(doc, at)
  BY <1>0, <1>5, PreservingHistoryPlanned, PlannedIsKeyed DEF Resumed
<1>6. CASE d = Absent
  BY <1>6, AbsentIsKeyed
<1>7. QED
  BY <1>3, <1>4, <1>5, <1>6 DEF Outcomes

-----------------------------------------------------------------------------
(***************************************************************************)
(* Every scheduled document carries the key of its instant.                 *)
(***************************************************************************)
\* Inside runTask a manager goes on with its snapshot, or lets go of it.
Stays(m) == \E pc : Goto(m, pc)
Leaves(m) == LeaveTask(m) \/ AbortHarvest(m)
Moves(m) == Leaves(m) \/ Stays(m)

LEMMA MovesDrop ==
  ASSUME TypeOK, NEW m \in Managers, Moves(m)
  PROVE  /\ now' = now
         /\ \A n \in Managers, t \in Tasks : due'[n][t] \in {due[n][t], Absent}
         /\ \A n \in Managers \ {m} :
              hpc'[n] = hpc[n] /\ cur'[n] = cur[n] /\ due'[n] = due[n]
         /\ LeaveTask(m) => due'[m] = [due[m] EXCEPT ![cur[m]] = Absent]
         /\ Leaves(m) => hpc'[m] \in {"idle", "pick"}
         /\ Stays(m) => due' = due /\ cur' = cur
<1>1. ASSUME LeaveTask(m) PROVE hpc'[m] \in {"idle", "pick"}
  BY <1>1 DEF LeaveTask, TypeOK, HarvestTypeOK
<1>2. CASE LeaveTask(m)
  <2>1. due'[m] = [due[m] EXCEPT ![cur[m]] = Absent]
    BY <1>2 DEF LeaveTask, TypeOK, HarvestTypeOK
  <2>2. \A n \in Managers \ {m} :
          hpc'[n] = hpc[n] /\ cur'[n] = cur[n] /\ due'[n] = due[n]
    BY <1>2 DEF LeaveTask, TypeOK, HarvestTypeOK
  <2>3. \A n \in Managers, t \in Tasks : due'[n][t] \in {due[n][t], Absent}
    BY <2>1, <2>2 DEF TypeOK, HarvestTypeOK
  <2>4. Stays(m) => due' = due /\ cur' = cur
    BY DEF Stays, Goto
  <2>5. QED
    BY <1>1, <1>2, <2>1, <2>2, <2>3, <2>4 DEF LeaveTask, Leaves, AbortHarvest
<1>3. CASE AbortHarvest(m)
  <2>1. \A n \in Managers, t \in Tasks : due'[n][t] \in {due[n][t], Absent}
    BY <1>3, NothingPauses DEF AbortHarvest, TypeOK, HarvestTypeOK
  <2>2. /\ hpc'[m] = "idle"
        /\ \A n \in Managers \ {m} :
             hpc'[n] = hpc[n] /\ cur'[n] = cur[n] /\ due'[n] = due[n]
    BY <1>3 DEF AbortHarvest, TypeOK, HarvestTypeOK
  <2>3. LeaveTask(m) => due'[m] = [due[m] EXCEPT ![cur[m]] = Absent]
    BY DEF LeaveTask, TypeOK, HarvestTypeOK
  <2>4. Stays(m) => due' = due /\ cur' = cur
    BY DEF Stays, Goto
  <2>5. QED
    BY <1>1, <1>3, <2>1, <2>2, <2>3, <2>4 DEF AbortHarvest, Leaves
<1>4. CASE Stays(m)
  <2>1. PICK pc : Goto(m, pc)
    BY <1>4 DEF Stays
  <2>2. \A n \in Managers \ {m} : hpc'[n] = hpc[n]
    BY <2>1 DEF Goto, TypeOK, HarvestTypeOK
  <2>3. LeaveTask(m) => due'[m] = [due[m] EXCEPT ![cur[m]] = Absent]
    BY DEF LeaveTask, TypeOK, HarvestTypeOK
  <2>4. AbortHarvest(m) => hpc'[m] = "idle"
    BY DEF AbortHarvest, TypeOK, HarvestTypeOK
  <2>5. QED
    BY <1>1, <2>1, <2>2, <2>3, <2>4 DEF Goto, Leaves
<1>5. QED
  BY <1>2, <1>3, <1>4 DEF Moves, Leaves

LEMMA MovesKeepCopies ==
  ASSUME TypeOK, CopiesInv, NEW m \in Managers,
         Leaves(m) \/ (Stays(m) /\ Snapshot(m).status = "waiting"),
         restoring' = restoring, call' = call, \A t \in Tasks : Keyed(store'[t])
  PROVE  CopiesInv'
<1>0. Moves(m)
  BY DEF Moves
<1>1. \A n \in Managers, t \in Tasks :
        /\ Keyed(due'[n][t])
        /\ due'[n][t] # Absent => due'[n][t].status \in {"waiting", "paused"}
        /\ due'[n][t].status = "waiting" => due'[n][t].nextRunAt <= now'[n]
  <2> SUFFICES ASSUME NEW n \in Managers, NEW t \in Tasks
               PROVE  /\ Keyed(due'[n][t])
                      /\ due'[n][t] # Absent => due'[n][t].status \in {"waiting", "paused"}
                      /\ due'[n][t].status = "waiting" => due'[n][t].nextRunAt <= now'[n]
    OBVIOUS
  <2>1. now' = now /\ due'[n][t] \in {due[n][t], Absent}
    BY <1>0, MovesDrop
  <2>2. Absent.status = "absent" /\ Keyed(Absent)
    BY AbsentIsKeyed DEF Absent
  <2>3. QED
    BY <2>1, <2>2 DEF CopiesInv
<1>2. \A n \in Managers :
        hpc'[n] \notin {"idle", "pick", "claim"} => due'[n][cur'[n]].status = "waiting"
  <2> SUFFICES ASSUME NEW n \in Managers, hpc'[n] \notin {"idle", "pick", "claim"}
               PROVE  due'[n][cur'[n]].status = "waiting"
    OBVIOUS
  <2>1. CASE n # m
    <3>1. hpc'[n] = hpc[n] /\ cur'[n] = cur[n] /\ due'[n] = due[n]
      BY <1>0, <2>1, MovesDrop
    <3>2. QED
      BY <3>1 DEF CopiesInv, Snapshot
  <2>2. CASE n = m
    <3>1. Stays(m) /\ Snapshot(m).status = "waiting"
      BY <1>0, <2>2, MovesDrop
    <3>2. due' = due /\ cur' = cur
      BY <1>0, <3>1, MovesDrop
    <3>3. QED
      BY <2>2, <3>1, <3>2 DEF Snapshot
  <2>3. QED
    BY <2>1, <2>2
<1>3. \A n \in Managers, t \in Tasks : Keyed(restoring'[n][t])
  BY DEF CopiesInv
<1>4. \A c \in Clients : Keyed(call'[c].doc)
  BY DEF CopiesInv
<1>5. QED
  BY <1>1, <1>2, <1>3, <1>4 DEF CopiesInv, Snapshot

LEMMA SaveKeyed ==
  ASSUME TypeOK, CopiesInv, NEW t \in Tasks, NEW d, Keyed(d), Save(t, d)
  PROVE  \A u \in Tasks : Keyed(store'[u])
BY DEF Save, TypeOK, StoreTypeOK, CopiesInv

LEMMA HarvestStepCopies ==
  ASSUME TypeOK, CopiesInv, NEW m \in Managers, HarvestStep(m)
  PROVE  CopiesInv'
<1>0. restoring' = restoring /\ call' = call
  BY DEF HarvestStep, Harvest, NextTask, WakePaused, Claim, SaveRunning, Fire,
         Reread, FinalSave, LoseOperation, SaveError, startVars
<1>h. ASSUME hpc[m] \notin {"idle", "pick"}
      PROVE  cur[m] \in Tasks /\ Snapshot(m) \in TaskDocs /\ now[m] \in Int
  BY <1>h, InHand DEF Snapshot
<1>w. ASSUME hpc[m] \notin {"idle", "pick", "claim"} PROVE Snapshot(m).status = "waiting"
  BY <1>w DEF CopiesInv
<1>1. CASE Harvest(m)
  <2>0. store' = store
    BY <1>1 DEF Harvest, storeVars
  <2>1. PICK at \in Readings :
          IF ListDue(at) = Nothing
            THEN UNCHANGED harvestVars
            ELSE /\ hpc' = [hpc EXCEPT ![m] = "pick"]
                 /\ due' = [due EXCEPT ![m] = ListDue(at)]
                 /\ now' = [now EXCEPT ![m] = at]
                 /\ UNCHANGED cur
    BY <1>1 DEF Harvest
  <2>2. CASE UNCHANGED harvestVars
    BY <1>0, <2>0, <2>2 DEF harvestVars, CopiesInv, Keyed, Snapshot
  <2>3. CASE ~ UNCHANGED harvestVars
    <3>1. /\ hpc' = [hpc EXCEPT ![m] = "pick"] /\ due' = [due EXCEPT ![m] = ListDue(at)]
          /\ now' = [now EXCEPT ![m] = at] /\ UNCHANGED cur
      BY <2>1, <2>3
    <3>2. \A t \in Tasks :
            /\ ListDue(at)[t] # Absent =>
                 /\ ListDue(at)[t] = store[t]
                 /\ store[t].status \in {"waiting", "paused"}
                 /\ store[t].status = "waiting" => store[t].nextRunAt <= at
      BY DEF ListDue, IsDue
    <3>3. \A n \in Managers, t \in Tasks :
            /\ Keyed(due'[n][t])
            /\ due'[n][t] # Absent => due'[n][t].status \in {"waiting", "paused"}
            /\ due'[n][t].status = "waiting" => due'[n][t].nextRunAt <= now'[n]
      <4> SUFFICES ASSUME NEW n \in Managers, NEW t \in Tasks
                   PROVE  /\ Keyed(due'[n][t])
                          /\ due'[n][t] # Absent => due'[n][t].status \in {"waiting", "paused"}
                          /\ due'[n][t].status = "waiting" => due'[n][t].nextRunAt <= now'[n]
        OBVIOUS
      <4>1. CASE n # m
        <5>1. due'[n] = due[n] /\ now'[n] = now[n]
          BY <3>1, <4>1 DEF TypeOK, HarvestTypeOK
        <5>2. QED
          BY <5>1 DEF CopiesInv
      <4>2. CASE n = m
        <5>1. due'[n][t] = ListDue(at)[t] /\ now'[n] = at
          BY <3>1, <4>2 DEF TypeOK, HarvestTypeOK
        <5>2. Absent.status = "absent" /\ Keyed(Absent)
          BY AbsentIsKeyed DEF Absent
        <5>3. Keyed(store[t])
          BY DEF CopiesInv
        <5>4. QED
          BY <3>2, <5>1, <5>2, <5>3
      <4>3. QED
        BY <4>1, <4>2
    <3>4. \A n \in Managers :
            hpc'[n] \notin {"idle", "pick", "claim"} => due'[n][cur'[n]].status = "waiting"
      BY <3>1 DEF TypeOK, HarvestTypeOK, CopiesInv, Snapshot
    <3>5. QED
      BY <1>0, <2>0, <3>3, <3>4 DEF CopiesInv, Snapshot
  <2>4. QED
    BY <2>2, <2>3
<1>2. ASSUME NEW t \in Tasks, NextTask(m, t)
      PROVE  CopiesInv'
  <2>1. \A n \in Managers : (hpc'[n] = hpc[n] /\ cur'[n] = cur[n]) \/ hpc'[n] = "claim"
    BY <1>2 DEF NextTask, TypeOK, HarvestTypeOK
  <2>2. QED
    BY <1>0, <1>2, <2>1 DEF NextTask, storeVars, CopiesInv, Snapshot
<1>3. CASE WakePaused(m)
  <2>1. hpc[m] = "claim" /\ Leaves(m)
    BY <1>3 DEF WakePaused, Leaves
  <2>2. Keyed(ReschedulePreservingHistory(Snapshot(m), now[m]))
    BY <1>h, <2>1, PreservingHistoryPlanned, PlannedIsKeyed
  <2>3. \A t \in Tasks : Keyed(store'[t])
    BY <1>3, <1>h, <2>1, <2>2, SaveKeyed DEF WakePaused, CopiesInv
  <2>4. QED
    BY <1>0, <1>3, <2>1, <2>3, MovesKeepCopies DEF WakePaused
<1>4. CASE Claim(m)
  <2>1. /\ hpc[m] = "claim" /\ Snapshot(m).status = "waiting"
        /\ Leaves(m) \/ Stays(m)
    BY <1>4 DEF Claim, Answered, Leaves, Stays
  <2>2. \A t \in Tasks : Keyed(store'[t])
    <3>1. CASE Claimable(cur[m], Snapshot(m).key)
      <4>1. cur[m] \in Tasks /\ store[cur[m]].status = "waiting" /\ Keyed(store[cur[m]])
        BY <1>h, <2>1, <3>1 DEF Claimable, CopiesInv
      <4>2. store[cur[m]] \in TaskDocs
        BY <4>1 DEF TypeOK, StoreTypeOK, Docs, Absent
      <4>3. Keyed([store[cur[m]] EXCEPT !.status = "running"])
        BY <4>1, <4>2 DEF Keyed, TaskDocs
      <4>4. QED
        BY <1>4, <3>1, <4>1, <4>3, SaveKeyed DEF Claim
    <3>2. CASE ~ Claimable(cur[m], Snapshot(m).key)
      BY <1>4, <3>2 DEF Claim, CopiesInv
    <3>3. QED
      BY <3>1, <3>2
  <2>3. QED
    BY <1>0, <2>1, <2>2, MovesKeepCopies
<1>5. CASE SaveRunning(m) \/ SaveError(m)
  <2>1. /\ hpc[m] \in {"save", "failed"}
        /\ Leaves(m) \/ Stays(m)
    BY <1>5 DEF SaveRunning, SaveError, Answered, Leaves, Stays
  <2>2. /\ Snapshot(m).status = "waiting" /\ Snapshot(m) \in TaskDocs /\ cur[m] \in Tasks
        /\ Keyed(Snapshot(m))
    BY <1>h, <1>w, <2>1 DEF CopiesInv, Snapshot
  <2>3. \A st \in {"running", "error"} : Keyed([Snapshot(m) EXCEPT !.status = st])
    BY <2>2 DEF Keyed, TaskDocs
  <2>4. \A t \in Tasks : Keyed(store'[t])
    BY <1>5, <2>2, <2>3, SaveKeyed DEF SaveRunning, SaveError, CopiesInv
  <2>5. QED
    BY <1>0, <2>1, <2>2, <2>4, MovesKeepCopies
<1>6. CASE Fire(m) \/ Reread(m) \/ LoseOperation(m)
  <2>1. /\ store' = store /\ hpc[m] \notin {"idle", "pick"}
        /\ Leaves(m) \/ Stays(m)
    BY <1>6 DEF Fire, Reread, LoseOperation, Answered, storeVars, Leaves, Stays
  <2>2. Snapshot(m).status = "waiting"
    BY <1>6, <1>w DEF Fire, Reread, LoseOperation
  <2>3. \A t \in Tasks : Keyed(store'[t])
    BY <2>1 DEF CopiesInv
  <2>4. QED
    BY <1>0, <2>1, <2>2, <2>3, MovesKeepCopies
<1>7. CASE FinalSave(m)
  <2>1. /\ hpc[m] = "finish" /\ Snapshot(m).status = "waiting"
        /\ Leaves(m) \/ Stays(m)
    BY <1>7, <1>w DEF FinalSave, Leaves, Stays
  <2>2. Keyed(AfterTriggerRun(Snapshot(m), now[m]))
    BY <1>h, <2>1, AfterRunPlanned, PlannedIsKeyed
  <2>3. \A t \in Tasks : Keyed(store'[t])
    BY <1>7, <1>h, <2>1, <2>2, SaveKeyed DEF FinalSave
  <2>4. QED
    BY <1>0, <2>1, <2>3, MovesKeepCopies
<1>8. QED
  BY <1>1, <1>2, <1>3, <1>4, <1>5, <1>6, <1>7 DEF HarvestStep

LEMMA LifecycleStepCopies ==
  ASSUME TypeOK, CopiesInv, NEW m \in Managers, LifecycleStep(m)
  PROVE  CopiesInv'
<1>1. CASE Start(m)
  BY <1>1 DEF Start, storeVars, harvestVars, CopiesInv, Keyed, Snapshot, TypeOK, StartTypeOK
<1>2. CASE StartDone(m) \/ Stop(m)
  BY <1>2 DEF StartDone, Stop, storeVars, harvestVars, CopiesInv, Keyed, Snapshot
<1>3. CASE Crash(m)
  <2>1. Leaves(m) /\ store' = store /\ call' = call
    BY <1>3 DEF Crash, Leaves, storeVars
  <2>2. \A n \in Managers, t \in Tasks : restoring'[n][t] \in {restoring[n][t], Absent}
    BY <1>3, NothingPauses DEF Crash, TypeOK, StartTypeOK
  <2>3. \A n \in Managers, t \in Tasks : Keyed(restoring'[n][t])
    BY <2>2, AbsentIsKeyed DEF CopiesInv
  <2>4. /\ \A n \in Managers, t \in Tasks : due'[n][t] \in {due[n][t], Absent}
        /\ now' = now
        /\ \A n \in Managers \ {m} :
             hpc'[n] = hpc[n] /\ cur'[n] = cur[n] /\ due'[n] = due[n]
        /\ hpc'[m] \in {"idle", "pick"}
    BY <2>1, MovesDrop DEF Moves
  <2>5. \A n \in Managers, t \in Tasks :
          /\ Keyed(due'[n][t])
          /\ due'[n][t] # Absent => due'[n][t].status \in {"waiting", "paused"}
          /\ due'[n][t].status = "waiting" => due'[n][t].nextRunAt <= now'[n]
    <3>1. Absent.status = "absent"
      BY DEF Absent
    <3>2. QED
      BY <2>4, <3>1, AbsentIsKeyed DEF CopiesInv
  <2>6. \A n \in Managers :
          hpc'[n] \notin {"idle", "pick", "claim"} => due'[n][cur'[n]].status = "waiting"
    BY <2>4 DEF CopiesInv, Snapshot
  <2>7. QED
    BY <2>1, <2>3, <2>5, <2>6 DEF CopiesInv, Snapshot
<1>4. ASSUME NEW t \in Tasks, RestoreTask(m, t)
      PROVE  CopiesInv'
  <2> DEFINE doc == restoring[m][t]
  <2>1. doc \in TaskDocs /\ startNow[m] \in Int /\ Keyed(doc)
    BY <1>4 DEF RestoreTask, TypeOK, StartTypeOK, Docs, CopiesInv
  <2>2. \A u \in Tasks : Keyed(store'[u])
    <3>1. CASE UNCHANGED store
      BY <3>1 DEF CopiesInv
    <3>2. CASE doc.status \in {"error", "running", "waiting"} /\ Save(t, Restored(doc, startNow[m]))
      <4> HIDE DEF doc
      <4>1. Keyed(Restored(doc, startNow[m]))
        BY <2>1, <3>2, RestoredPlanned
      <4>2. QED
        BY <3>2, <4>1, SaveKeyed
    <3>3. QED
      BY <1>4, <3>1, <3>2 DEF RestoreTask
  <2>3. \A n \in Managers, u \in Tasks : restoring'[n][u] \in {restoring[n][u], Absent}
    BY <1>4 DEF RestoreTask, TypeOK, StartTypeOK
  <2>4. \A n \in Managers, u \in Tasks : Keyed(restoring'[n][u])
    BY <2>3, AbsentIsKeyed DEF CopiesInv
  <2>5. QED
    BY <1>4, <2>2, <2>4 DEF RestoreTask, harvestVars, CopiesInv, Snapshot
<1>5. QED
  BY <1>1, <1>2, <1>3, <1>4 DEF LifecycleStep

LEMMA ClientStepCopies ==
  ASSUME TypeOK, CopiesInv, NEW c \in Clients, ClientStep(c)
  PROVE  CopiesInv'
<1>1. CASE EndCall(c)
  <2>1. \A t \in Tasks : store'[t] \in {store[t], call[c].doc}
    BY <1>1 DEF EndCall, Save, TypeOK, StoreTypeOK
  <2>2. \A d \in Clients : call'[d].doc \in {call[d].doc, Absent}
    BY <1>1 DEF EndCall, NoCall, TypeOK, StoreTypeOK
  <2>3. /\ \A t \in Tasks : Keyed(store'[t])
        /\ \A d \in Clients : Keyed(call'[d].doc)
    BY <2>1, <2>2, AbsentIsKeyed DEF CopiesInv
  <2>4. QED
    BY <1>1, <2>3 DEF EndCall, startVars, harvestVars, CopiesInv, Keyed, Snapshot
<1>2. ASSUME NEW t \in Tasks, NEW doc, Keyed(doc), BeginCall(c, t, doc)
      PROVE  CopiesInv'
  <2>1. \A d \in Clients : Keyed(call'[d].doc)
    BY <1>2 DEF BeginCall, TypeOK, StoreTypeOK, CopiesInv
  <2>2. QED
    BY <1>2, <2>1 DEF BeginCall, startVars, harvestVars, CopiesInv, Keyed, Snapshot
<1>3. ASSUME NEW t \in Tasks, Admin(c, t)
      PROVE  CopiesInv'
  <2>1. PICK at \in Readings : \E doc \in Outcomes(store[t], at) : BeginCall(c, t, doc)
    BY <1>3 DEF Admin
  <2>2. PICK doc \in Outcomes(store[t], at) : BeginCall(c, t, doc)
    BY <2>1
  <2>3. store[t] \in TaskDocs /\ at \in Nat /\ Keyed(store[t])
    BY <1>3, ReadingsType DEF Admin, TypeOK, StoreTypeOK, Docs, CopiesInv
  <2>4. Keyed(doc)
    BY <2>2, <2>3, OutcomesKeyed
  <2>5. QED
    BY <1>2, <2>2, <2>4
<1>4. ASSUME NEW t \in Tasks, Create(c, t)
      PROVE  CopiesInv'
  <2>1. PICK cond \in Conditions, at \in Readings : BeginCall(c, t, NewTask(cond, at))
    BY <1>4 DEF Create
  <2>2. at \in Nat
    BY ReadingsType DEF TypeOK, StoreTypeOK
  <2>3. Keyed(NewTask(cond, at))
    BY <2>2, NewTaskPlanned, PlannedIsKeyed
  <2>4. QED
    BY <1>2, <2>1, <2>3
<1>5. QED
  BY <1>1, <1>3, <1>4 DEF ClientStep

LEMMA CopiesInvariant == Spec => []CopiesInv
<1>1. Init => CopiesInv
  <2> SUFFICES ASSUME Init PROVE CopiesInv
    OBVIOUS
  <2>1. \A t \in Tasks : Keyed(store[t])
    BY NewTaskPlanned, PlannedIsKeyed, AbsentIsKeyed DEF Init
  <2>2. Absent.status = "absent" /\ \A t \in Tasks : Nothing[t] = Absent
    BY DEF Absent, Nothing
  <2>3. QED
    BY <2>1, <2>2, AbsentIsKeyed DEF Init, CopiesInv, NoCall
<1>2. ASSUME TypeOK, CopiesInv, [Next]_vars
      PROVE  CopiesInv'
  <2>1. CASE Tick \/ UNCHANGED vars
    BY <1>2, <2>1 DEF Tick, vars, startVars, harvestVars, CopiesInv, Keyed, Snapshot
  <2>2. QED
    BY <1>2, <2>1, HarvestStepCopies, LifecycleStepCopies, ClientStepCopies
       DEF Next, SteadyNext
<1>3. QED
  BY <1>1, <1>2, TypeCorrect, PTL DEF Spec

-----------------------------------------------------------------------------
(***************************************************************************)
(* A once task is not lost to a restart.                                    *)
(***************************************************************************)
LEMMA NewOnceWaits ==
  ASSUME NEW c \in Conditions
  PROVE  KeepsOnce(NewTask(c, 0), <<>>)
<1> DEFINE d == NewTask(c, 0)
<1>1. d.cond = c /\ d.created = 0 /\ Planned(d) /\ d.status # "paused"
  BY NewTaskPlanned
<1>2. ASSUME c.type = "once", c.at > 0 PROVE d.status = "waiting"
  <2> DEFINE blank == [Absent EXCEPT !.enabled = TRUE, !.cond = c, !.created = 0]
             fresh == [blank EXCEPT !.runCount = 0, !.pausedUntil = NoTime]
  <2>1. c.at \in Nat
    BY <1>2, ConditionsAssumption DEF ConditionTypeOK
  <2>2. blank.cond = c /\ blank.enabled = TRUE /\ fresh \in Drafts
    BY NullTypes DEF Absent, Drafts
  <2>3. Upcoming(blank, 0) = [at |-> c.at, key |-> Key("once", OnceAt)]
    BY <1>2, <2>1, <2>2 DEF Upcoming, NextOccurrence
  <2>4. Upcoming(blank, 0) # NoOccurrence
    BY <2>1, <2>3 DEF NoOccurrence, NoTime
  <2>5. d = Scheduled(fresh, Upcoming(blank, 0))
    BY <2>2 DEF NewTask, InitialTriggerState
  <2> HIDE DEF blank, fresh, d
  <2>6. QED
    BY <2>2, <2>4, <2>5 DEF Scheduled, Drafts
<1>3. QED
  <2> HIDE DEF d
  <2>1. OnceAhead(d) => d.status = "waiting"
    BY <1>1, <1>2, ConditionsAssumption DEF OnceAhead, ConditionTypeOK
  <2>2. d.status = "waiting" => d.nextRunAt # NoTime
    BY <1>1 DEF Planned, WellKeyed, NoTime
  <2>3. QED
    BY <2>1, <2>2 DEF KeepsOnce, d

\* Fired tasks stay fired.
LEMMA OnceGrows ==
  ASSUME NEW d, NEW log, NEW longer, KeepsOnce(d, log), log # <<>> => longer # <<>>
  PROVE  KeepsOnce(d, longer)
BY DEF KeepsOnce

LEMMA SaveOnce ==
  ASSUME TypeOK, NEW t \in Tasks, NEW d, Save(t, d), KeepsOnce(d, fired[t]),
         \A u \in Tasks : KeepsOnce(store[u], fired[u])
  PROVE  \A u \in Tasks : KeepsOnce(store'[u], fired[u])
BY DEF Save, TypeOK, StoreTypeOK

LEMMA MovesKeepOnce ==
  ASSUME TypeOK, OnceKept, NEW m \in Managers, Moves(m),
         hpc'[m] # "failed",
         hpc'[m] \in {"reread", "finish"} => fired[cur'[m]] # <<>>,
         restoring' = restoring, call' = call, fired' = fired,
         \A t \in Tasks : KeepsOnce(store'[t], fired[t])
  PROVE  OnceKept'
<1>1. \A n \in Managers, t \in Tasks : KeepsOnce(due'[n][t], fired[t])
  <2>1. \A n \in Managers, t \in Tasks : due'[n][t] \in {due[n][t], Absent}
    BY MovesDrop
  <2>2. QED
    BY <2>1 DEF OnceKept, KeepsOnce
<1>2. \A n \in Managers :
        /\ hpc'[n] # "failed"
        /\ hpc'[n] \in {"reread", "finish"} => fired[cur'[n]] # <<>>
  <2> SUFFICES ASSUME NEW n \in Managers, n # m
               PROVE  /\ hpc'[n] # "failed"
                      /\ hpc'[n] \in {"reread", "finish"} => fired[cur'[n]] # <<>>
    OBVIOUS
  <2>1. hpc'[n] = hpc[n] /\ cur'[n] = cur[n]
    BY MovesDrop
  <2>2. QED
    BY <2>1 DEF OnceKept
<1>3. QED
  BY <1>1, <1>2 DEF OnceKept

LEMMA HarvestStepOnce ==
  ASSUME TypeOK, CopiesInv, OnceKept, NEW m \in Managers, HarvestStep(m),
         calls = 0, faults = 0, faults' = 0
  PROVE  OnceKept'
<1>0. restoring' = restoring /\ call' = call
  BY DEF HarvestStep, Harvest, NextTask, WakePaused, Claim, SaveRunning, Fire,
         Reread, FinalSave, LoseOperation, SaveError, startVars
<1>f. ~ Fault
  BY DEF Fault
<1>h. ASSUME hpc[m] \notin {"idle", "pick"}
      PROVE  /\ cur[m] \in Tasks /\ Snapshot(m) \in TaskDocs /\ now[m] \in Int
             /\ Snapshot(m) # Absent /\ KeepsOnce(Snapshot(m), fired[cur[m]])
  BY <1>h, InHand, AbsentIsNoTask DEF Snapshot, OnceKept
<1>1. CASE Harvest(m)
  <2>0. store' = store /\ fired' = fired
    BY <1>1 DEF Harvest, storeVars
  <2>1. PICK at \in Readings :
          IF ListDue(at) = Nothing
            THEN UNCHANGED harvestVars
            ELSE /\ hpc' = [hpc EXCEPT ![m] = "pick"]
                 /\ due' = [due EXCEPT ![m] = ListDue(at)]
                 /\ now' = [now EXCEPT ![m] = at]
                 /\ UNCHANGED cur
    BY <1>1 DEF Harvest
  <2>2. CASE UNCHANGED harvestVars
    BY <1>0, <2>0, <2>2 DEF harvestVars, OnceKept
  <2>3. CASE ~ UNCHANGED harvestVars
    <3>1. hpc' = [hpc EXCEPT ![m] = "pick"] /\ due' = [due EXCEPT ![m] = ListDue(at)]
          /\ UNCHANGED cur
      BY <2>1, <2>3
    <3>2. \A n \in Managers, t \in Tasks : due'[n][t] \in {due[n][t], store[t], Absent}
      BY <3>1 DEF ListDue, TypeOK, HarvestTypeOK
    <3>3. \A n \in Managers, t \in Tasks : KeepsOnce(due'[n][t], fired[t])
      BY <3>2 DEF OnceKept, KeepsOnce
    <3>4. \A n \in Managers : hpc'[n] = hpc[n] \/ hpc'[n] = "pick"
      BY <3>1 DEF TypeOK, HarvestTypeOK
    <3>5. QED
      BY <1>0, <2>0, <3>1, <3>3, <3>4 DEF OnceKept
  <2>4. QED
    BY <2>2, <2>3
<1>2. ASSUME NEW t \in Tasks, NextTask(m, t)
      PROVE  OnceKept'
  <2>1. \A n \in Managers : (hpc'[n] = hpc[n] /\ cur'[n] = cur[n]) \/ hpc'[n] = "claim"
    BY <1>2 DEF NextTask, TypeOK, HarvestTypeOK
  <2>2. QED
    BY <1>0, <1>2, <2>1 DEF NextTask, storeVars, OnceKept
<1>3. CASE WakePaused(m)
  <2> DEFINE d == ReschedulePreservingHistory(Snapshot(m), now[m])
  <2>1. /\ hpc[m] = "claim" /\ Snapshot(m).status = "paused"
        /\ Leaves(m) /\ Moves(m) /\ Save(cur[m], d) /\ fired' = fired
    BY <1>3, <1>f DEF WakePaused, Leaves, Moves
  <2>2. d.cond = Snapshot(m).cond /\ d.created = Snapshot(m).created
    BY <1>h, <2>1, PreservingHistoryPlanned
  <2>3. KeepsOnce(d, fired[cur[m]])
    <3> HIDE DEF d
    <3>1. QED
      BY <1>h, <2>1, <2>2 DEF KeepsOnce, OnceAhead
  <2>4. \A t \in Tasks : KeepsOnce(store'[t], fired[t])
    BY <1>h, <2>1, <2>3, SaveOnce DEF OnceKept
  <2>5. hpc'[m] \in {"idle", "pick"}
    BY <2>1, MovesDrop
  <2>6. QED
    BY <1>0, <2>1, <2>4, <2>5, MovesKeepOnce
<1>4. CASE Claim(m)
  <2>1. hpc[m] = "claim" /\ fired' = fired
    BY <1>4 DEF Claim
  <2>2. CASE Claimable(cur[m], Snapshot(m).key)
    <3>1. /\ cur[m] \in Tasks /\ store[cur[m]].status = "waiting"
          /\ Save(cur[m], [store[cur[m]] EXCEPT !.status = "running"])
          /\ Goto(m, "save")
      BY <1>4, <1>f, <1>h, <2>1, <2>2 DEF Claim, Claimable, Answered
    <3>2. store[cur[m]] \in TaskDocs /\ store[cur[m]] # Absent
      BY <3>1, AbsentIsNoTask DEF TypeOK, StoreTypeOK, Docs, Absent
    <3>3. KeepsOnce(store[cur[m]], fired[cur[m]])
      BY <3>1 DEF OnceKept
    <3>4. KeepsOnce([store[cur[m]] EXCEPT !.status = "running"], fired[cur[m]])
      BY <3>1, <3>2, <3>3 DEF KeepsOnce, OnceAhead, TaskDocs
    <3>5. \A t \in Tasks : KeepsOnce(store'[t], fired[t])
      BY <3>1, <3>4, SaveOnce DEF OnceKept
    <3>6. Moves(m) /\ hpc'[m] = "save"
      BY <3>1 DEF Goto, Moves, Stays, TypeOK, HarvestTypeOK
    <3>7. QED
      BY <1>0, <2>1, <3>5, <3>6, MovesKeepOnce
  <2>3. CASE ~ Claimable(cur[m], Snapshot(m).key)
    <3>1. Leaves(m) /\ Moves(m) /\ store' = store
      BY <1>4, <2>3 DEF Claim, Leaves, Moves
    <3>2. hpc'[m] \in {"idle", "pick"}
      BY <3>1, MovesDrop
    <3>3. QED
      BY <1>0, <2>1, <3>1, <3>2, MovesKeepOnce DEF OnceKept
  <2>4. QED
    BY <2>2, <2>3
<1>5. CASE SaveRunning(m)
  <2>1. /\ hpc[m] = "save" /\ fired' = fired /\ Goto(m, "fire")
        /\ Save(cur[m], [Snapshot(m) EXCEPT !.status = "running"])
    BY <1>5, <1>f DEF SaveRunning, Answered
  <2>2. Snapshot(m).status = "waiting"
    BY <2>1 DEF CopiesInv
  <2>3. KeepsOnce([Snapshot(m) EXCEPT !.status = "running"], fired[cur[m]])
    BY <1>h, <2>1, <2>2 DEF KeepsOnce, OnceAhead, TaskDocs
  <2>4. \A t \in Tasks : KeepsOnce(store'[t], fired[t])
    BY <1>h, <2>1, <2>3, SaveOnce DEF OnceKept
  <2>5. Moves(m) /\ hpc'[m] = "fire"
    BY <2>1 DEF Goto, Moves, Stays, TypeOK, HarvestTypeOK
  <2>6. QED
    BY <1>0, <2>1, <2>4, <2>5, MovesKeepOnce
<1>6. CASE Fire(m)
  <2>1. cur[m] \in Tasks /\ Goto(m, "reread") /\ store' = store
    BY <1>6, <1>h DEF Fire, storeVars
  <2>2. \A t \in Tasks : fired[t] \in Seq(Int)
    BY DEF TypeOK, StoreTypeOK
  <2>3. Snapshot(m).nextRunAt \in Int
    BY <1>6, <1>h DEF Fire, TaskDocs
  <2>4. /\ fired'[cur[m]] = Append(fired[cur[m]], Snapshot(m).nextRunAt)
        /\ \A t \in Tasks \ {cur[m]} : fired'[t] = fired[t]
    BY <1>6, <2>1 DEF Fire, TypeOK, StoreTypeOK
  <2>5. fired'[cur[m]] # <<>>
    <3>1. fired[cur[m]] \in Seq(Int)
      BY <2>1, <2>2
    <3>2. Len(fired'[cur[m]]) = Len(fired[cur[m]]) + 1 /\ Len(fired[cur[m]]) \in Nat
      BY <2>3, <2>4, <3>1
    <3>3. Len(<< >>) = 0
      OBVIOUS
    <3>4. QED
      BY <3>2, <3>3
  <2>6. \A t \in Tasks : fired[t] # <<>> => fired'[t] # <<>>
    BY <2>4, <2>5
  <2>7. hpc'[m] = "reread" /\ \A n \in Managers \ {m} : hpc'[n] = hpc[n]
    BY <2>1 DEF Goto, TypeOK, HarvestTypeOK
  <2>8. /\ due' = due /\ cur' = cur
    BY <2>1 DEF Goto
  <2>9. \A n \in Managers :
          /\ hpc'[n] # "failed"
          /\ hpc'[n] \in {"reread", "finish"} => fired'[cur'[n]] # <<>>
    <3> SUFFICES ASSUME NEW n \in Managers
                 PROVE  /\ hpc'[n] # "failed"
                        /\ hpc'[n] \in {"reread", "finish"} => fired'[cur'[n]] # <<>>
      OBVIOUS
    <3>1. hpc[n] \in {"reread", "finish"} => cur[n] \in Tasks
      BY DEF TypeOK, TaskInHand
    <3>2. QED
      BY <2>5, <2>6, <2>7, <2>8, <3>1 DEF OnceKept
  <2>10. /\ \A t \in Tasks : KeepsOnce(store'[t], fired'[t])
         /\ \A n \in Managers, t \in Tasks :
              KeepsOnce(restoring'[n][t], fired'[t]) /\ KeepsOnce(due'[n][t], fired'[t])
    BY <1>0, <2>1, <2>6, <2>8, OnceGrows DEF OnceKept
  <2>11. QED
    BY <1>0, <2>9, <2>10 DEF OnceKept
<1>7. CASE Reread(m)
  <2>1. hpc[m] = "reread" /\ store' = store /\ fired' = fired
    BY <1>7 DEF Reread, storeVars
  <2>2. CASE Goto(m, "finish")
    <3>1. Moves(m) /\ hpc'[m] = "finish" /\ cur' = cur
      BY <2>2 DEF Goto, Moves, Stays, TypeOK, HarvestTypeOK
    <3>2. QED
      BY <1>0, <2>1, <3>1, MovesKeepOnce DEF OnceKept
  <2>3. CASE LeaveTask(m)
    <3>1. Leaves(m) /\ Moves(m)
      BY <2>3 DEF Leaves, Moves
    <3>2. hpc'[m] \in {"idle", "pick"}
      BY <3>1, MovesDrop
    <3>3. QED
      BY <1>0, <2>1, <3>1, <3>2, MovesKeepOnce DEF OnceKept
  <2>4. QED
    BY <1>7, <1>f, <2>2, <2>3 DEF Reread, Answered
<1>8. CASE FinalSave(m)
  <2> DEFINE d == AfterTriggerRun(Snapshot(m), now[m])
  <2>1. /\ hpc[m] = "finish" /\ fired' = fired /\ LeaveTask(m) /\ Save(cur[m], d)
    BY <1>8, <1>f DEF FinalSave
  <2>2. /\ d.cond = Snapshot(m).cond /\ d.status \in {"waiting", "completed"}
        /\ d.status = "waiting" => Snapshot(m).cond.type # "once"
    BY <1>h, <2>1, AfterRunPlanned DEF Planned
  <2>3. fired[cur[m]] # <<>>
    BY <2>1 DEF OnceKept
  <2>4. KeepsOnce(d, fired[cur[m]])
    <3> HIDE DEF d
    <3>1. QED
      BY <2>2, <2>3 DEF KeepsOnce, OnceAhead
  <2>5. \A t \in Tasks : KeepsOnce(store'[t], fired[t])
    BY <1>h, <2>1, <2>4, SaveOnce DEF OnceKept
  <2>6. Leaves(m) /\ Moves(m)
    BY <2>1 DEF Leaves, Moves
  <2>7. hpc'[m] \in {"idle", "pick"}
    BY <2>6, MovesDrop
  <2>8. QED
    BY <1>0, <2>1, <2>5, <2>6, <2>7, MovesKeepOnce
<1>9. CASE LoseOperation(m) \/ SaveError(m)
  BY <1>9, <1>f DEF LoseOperation, SaveError, OnceKept
<1>10. QED
  BY <1>1, <1>2, <1>3, <1>4, <1>5, <1>6, <1>7, <1>8, <1>9 DEF HarvestStep

LEMMA LifecycleStepOnce ==
  ASSUME TypeOK, CopiesInv, OnceKept, NEW m \in Managers, LifecycleStep(m)
  PROVE  OnceKept'
<1>0. fired' = fired /\ call' = call
  BY DEF LifecycleStep, Start, StartDone, Stop, Crash, RestoreTask
<1>1. CASE Start(m)
  BY <1>1 DEF Start, storeVars, harvestVars, OnceKept, TypeOK, StartTypeOK
<1>2. CASE StartDone(m) \/ Stop(m)
  BY <1>2 DEF StartDone, Stop, storeVars, harvestVars, OnceKept
<1>3. CASE Crash(m)
  <2>1. Leaves(m) /\ Moves(m) /\ store' = store
    BY <1>3 DEF Crash, Leaves, Moves, storeVars
  <2>2. /\ \A n \in Managers, t \in Tasks : due'[n][t] \in {due[n][t], Absent}
        /\ \A n \in Managers \ {m} : hpc'[n] = hpc[n] /\ cur'[n] = cur[n]
        /\ hpc'[m] \in {"idle", "pick"}
    BY <2>1, MovesDrop
  <2>3. \A n \in Managers, t \in Tasks : restoring'[n][t] \in {restoring[n][t], Absent}
    BY <1>3, NothingPauses DEF Crash, TypeOK, StartTypeOK
  <2>4. \A n \in Managers, t \in Tasks :
          KeepsOnce(restoring'[n][t], fired[t]) /\ KeepsOnce(due'[n][t], fired[t])
    BY <2>2, <2>3 DEF OnceKept, KeepsOnce
  <2>5. QED
    BY <1>0, <2>1, <2>2, <2>4 DEF OnceKept
<1>4. ASSUME NEW t \in Tasks, RestoreTask(m, t)
      PROVE  OnceKept'
  <2> DEFINE doc == restoring[m][t]
             d == Restored(doc, startNow[m])
  <2>1. /\ doc \in TaskDocs /\ doc # Absent /\ startNow[m] \in Int
        /\ Keyed(doc) /\ KeepsOnce(doc, fired[t])
    BY <1>4 DEF RestoreTask, TypeOK, StartTypeOK, Docs, CopiesInv, OnceKept
  <2>2. \A u \in Tasks : KeepsOnce(store'[u], fired[u])
    <3>1. CASE UNCHANGED store
      BY <3>1 DEF OnceKept
    <3>2. CASE doc.status \in {"error", "running", "waiting"} /\ Save(t, d)
      <4>1. d.cond = doc.cond /\ d.created = doc.created
        BY <2>1, <3>2, RestoredPlanned
      <4>2. OnceAhead(doc) => d = [doc EXCEPT !.status = "waiting"]
        BY <2>1, <3>2, RestoredKeepsOnce DEF KeepsOnce, OnceAhead
      <4>3. KeepsOnce(d, fired[t])
        <5> HIDE DEF doc, d
        <5>1. QED
          BY <2>1, <3>2, <4>1, <4>2 DEF KeepsOnce, OnceAhead, TaskDocs
      <4>4. QED
        BY <3>2, <4>3, SaveOnce DEF OnceKept
    <3>3. QED
      BY <1>4, <3>1, <3>2 DEF RestoreTask
  <2>3. \A n \in Managers, u \in Tasks : restoring'[n][u] \in {restoring[n][u], Absent}
    BY <1>4 DEF RestoreTask, TypeOK, StartTypeOK
  <2>4. \A n \in Managers, u \in Tasks : KeepsOnce(restoring'[n][u], fired[u])
    BY <2>3 DEF OnceKept, KeepsOnce
  <2>5. QED
    BY <1>0, <1>4, <2>2, <2>4 DEF RestoreTask, harvestVars, OnceKept
<1>5. QED
  BY <1>1, <1>2, <1>3, <1>4 DEF LifecycleStep

\* The budget of failures and calls is only ever spent.
LEMMA BudgetsGrow ==
  ASSUME TypeOK, [Next]_vars
  PROVE  /\ starts <= starts' /\ calls <= calls' /\ faults <= faults'
         /\ starts' \in Nat /\ calls' \in Nat /\ faults' \in Nat
<1>0. starts \in Nat /\ calls \in Nat /\ faults \in Nat
  BY DEF TypeOK, StoreTypeOK
<1>1. CASE Tick \/ UNCHANGED vars
  BY <1>0, <1>1 DEF Tick, vars, bounds
<1>2. ASSUME NEW m \in Managers, HarvestStep(m)
      PROVE  starts' = starts /\ calls' = calls /\ faults' \in {faults, faults + 1}
  BY <1>0, <1>2 DEF HarvestStep, Harvest, NextTask, WakePaused, Claim, SaveRunning, Fire,
         Reread, FinalSave, LoseOperation, SaveError, Answered, Fault, bounds
<1>3. ASSUME NEW m \in Managers, LifecycleStep(m)
      PROVE  starts' \in {starts, starts + 1} /\ calls' = calls /\ faults' = faults
  BY <1>0, <1>3 DEF LifecycleStep, Start, StartDone, Stop, Crash, RestoreTask, bounds
<1>4. ASSUME NEW c \in Clients, ClientStep(c)
      PROVE  starts' = starts /\ calls' \in {calls, calls + 1} /\ faults' = faults
  BY <1>0, <1>4 DEF ClientStep, EndCall, Admin, Create, BeginCall, bounds
<1>5. QED
  BY <1>0, <1>1, <1>2, <1>3, <1>4 DEF Next, SteadyNext

LEMMA OnceInvariant == Spec => []OnceInv
<1>1. Init => OnceInv
  <2> SUFFICES ASSUME Init PROVE OnceKept
    BY DEF OnceInv
  <2>1. KeepsOnce(Absent, <<>>)
    BY DEF KeepsOnce
  <2>2. \A t \in Tasks : KeepsOnce(store[t], <<>>)
    BY <2>1, NewOnceWaits DEF Init
  <2>3. \A t \in Tasks : Nothing[t] = Absent
    BY DEF Nothing
  <2>4. QED
    BY <2>1, <2>2, <2>3 DEF Init, OnceKept
<1>2. ASSUME TypeOK, CopiesInv, OnceInv, [Next]_vars
      PROVE  OnceInv'
  <2> SUFFICES ASSUME calls' = 0, faults' = 0 PROVE OnceKept'
    BY DEF OnceInv
  <2>1. calls = 0 /\ faults = 0 /\ OnceKept
    BY <1>2, BudgetsGrow DEF OnceInv, TypeOK, StoreTypeOK
  <2>2. CASE Tick \/ UNCHANGED vars
    BY <2>1, <2>2 DEF Tick, vars, startVars, harvestVars, OnceKept
  <2>3. ASSUME NEW c \in Clients, ClientStep(c) PROVE FALSE
    <3>1. CASE EndCall(c)
      BY <2>1, <3>1 DEF EndCall, OnceKept
    <3>2. CASE \E t \in Tasks : Admin(c, t) \/ Create(c, t)
      BY <2>1, <3>2 DEF Admin, Create, BeginCall
    <3>3. QED
      BY <2>3, <3>1, <3>2 DEF ClientStep
  <2>4. QED
    BY <1>2, <2>1, <2>2, <2>3, HarvestStepOnce, LifecycleStepOnce DEF Next, SteadyNext
<1>3. QED
  BY <1>1, <1>2, TypeCorrect, CopiesInvariant, PTL DEF Spec

\* A once task created ahead of its instant is not completed unfired, by any
\* number of managers that crash and restart at any point, however late: the
\* misfire policy catches up on it, and a stale write keeps its instant.
THEOREM OnceFires == Spec => []OnceIsNotLost
<1>1. OnceInv => OnceIsNotLost
  BY DEF OnceInv, OnceKept, KeepsOnce, OnceIsNotLost, Absent
<1>2. QED
  BY <1>1, OnceInvariant, PTL

-----------------------------------------------------------------------------
(***************************************************************************)
(* Every run takes a copy of the task: the runs there were and the copies   *)
(* that may still run are counted together, and a step only turns copies    *)
(* into runs and into other copies.                                         *)
(***************************************************************************)
\* What a set has at most after some elements were exchanged for others.
LEMMA Exchange ==
  ASSUME NEW S, IsFiniteSet(S), NEW A, A \subseteq S, NEW B, IsFiniteSet(B),
         NEW T, T \subseteq (S \ A) \cup B
  PROVE  /\ IsFiniteSet(T) /\ Cardinality(T) \in Nat
         /\ Cardinality(T) <= Cardinality(S) - Cardinality(A) + Cardinality(B)
<1>1. IsFiniteSet(A) /\ IsFiniteSet(S \ A)
  BY FS_Subset
<1>2. /\ (S \ A) \cap A = {} /\ (S \ A) \cup A = S
  OBVIOUS
<1>3. Cardinality(S) = Cardinality(S \ A) + Cardinality(A)
  <2>1. Cardinality(S) =
          Cardinality(S \ A) + Cardinality(A) - Cardinality((S \ A) \cap A)
    BY <1>1, <1>2, FS_Union
  <2>2. Cardinality((S \ A) \cap A) = 0
    BY <1>2, FS_EmptySet
  <2>3. Cardinality(S \ A) \in Nat /\ Cardinality(A) \in Nat
    BY <1>1, FS_CardinalityType
  <2>4. QED
    BY <2>1, <2>2, <2>3
<1>4. /\ IsFiniteSet((S \ A) \cup B)
      /\ Cardinality((S \ A) \cup B) <= Cardinality(S \ A) + Cardinality(B)
  <2>1. IsFiniteSet((S \ A) \cap B)
    BY <1>1, FS_Subset
  <2>2. Cardinality((S \ A) \cap B) \in Nat
    BY <2>1, FS_CardinalityType
  <2>3. /\ IsFiniteSet((S \ A) \cup B)
        /\ Cardinality((S \ A) \cup B) =
             Cardinality(S \ A) + Cardinality(B) - Cardinality((S \ A) \cap B)
    BY <1>1, FS_Union
  <2>4. Cardinality(S \ A) \in Nat /\ Cardinality(B) \in Nat
    BY <1>1, FS_CardinalityType
  <2>5. QED
    BY <2>2, <2>3, <2>4
<1>5. IsFiniteSet(T) /\ Cardinality(T) <= Cardinality((S \ A) \cup B)
  BY <1>4, FS_Subset
<1>6. /\ Cardinality(S) \in Nat /\ Cardinality(A) \in Nat /\ Cardinality(B) \in Nat
      /\ Cardinality(T) \in Nat /\ Cardinality(S \ A) \in Nat
      /\ Cardinality((S \ A) \cup B) \in Nat
  BY <1>1, <1>4, <1>5, FS_CardinalityType
<1>7. QED
  BY <1>3, <1>4, <1>5, <1>6

\* One element is exchanged for another, or none is added.
Exchanged(S, T) ==
  T \subseteq S \/ \E a \in S : \E b : T \subseteq (S \ {a}) \cup {b}

LEMMA ExchangedKeeps ==
  ASSUME NEW S, IsFiniteSet(S), NEW T, Exchanged(S, T)
  PROVE  IsFiniteSet(T) /\ Cardinality(T) \in Nat /\ Cardinality(T) <= Cardinality(S)
<1>1. Cardinality(S) \in Nat
  BY FS_CardinalityType
<1>2. CASE T \subseteq S
  BY <1>2, FS_Subset, FS_CardinalityType
<1>3. ASSUME NEW a \in S, NEW b, T \subseteq (S \ {a}) \cup {b}
      PROVE  IsFiniteSet(T) /\ Cardinality(T) \in Nat /\ Cardinality(T) <= Cardinality(S)
  <2>1. /\ IsFiniteSet({b}) /\ Cardinality({b}) = 1 /\ Cardinality({a}) = 1
        /\ {a} \subseteq S
    BY FS_Singleton
  <2>2. /\ IsFiniteSet(T) /\ Cardinality(T) \in Nat
        /\ Cardinality(T) <= Cardinality(S) - Cardinality({a}) + Cardinality({b})
    BY <1>3, <2>1, Exchange
  <2>3. QED
    BY <1>1, <2>1, <2>2
<1>4. QED
  BY <1>2, <1>3 DEF Exchanged

\* As many tagged copies as there are managers.
LEMMA ManagerCopies ==
  ASSUME NEW c
  PROVE  LET A == {<<"written", x>> : x \in {c} \X Managers}
             B == {<<"woken", m>> : m \in Managers}
         IN  /\ IsFiniteSet(A) /\ Cardinality(A) = Cardinality(Managers)
             /\ IsFiniteSet(B) /\ Cardinality(B) = Cardinality(Managers)
             /\ Cardinality(Managers) \in Nat \ {0}
<1> DEFINE A == {<<"written", x>> : x \in {c} \X Managers}
           B == {<<"woken", m>> : m \in Managers}
           f == [m \in Managers |-> << "written", << c, m >> >>]
           g == [m \in Managers |-> << "woken", m >>]
<1>0. IsFiniteSet(Managers) /\ Cardinality(Managers) \in Nat /\ Cardinality(Managers) # 0
  BY ManagersAssumption, FS_CardinalityType, FS_EmptySet
<1>1. f \in Bijection(Managers, A)
  <2>1. f \in [Managers -> A]
    OBVIOUS
  <2>2. \A m, n \in Managers : f[m] = f[n] => m = n
    OBVIOUS
  <2>3. \A a \in A : \E m \in Managers : f[m] = a
    OBVIOUS
  <2>4. QED
    BY <2>1, <2>2, <2>3 DEF Bijection, Injection, Surjection, IsInjective
<1>2. g \in Bijection(Managers, B)
  <2>1. g \in [Managers -> B]
    OBVIOUS
  <2>2. \A m, n \in Managers : g[m] = g[n] => m = n
    OBVIOUS
  <2>3. \A a \in B : \E m \in Managers : g[m] = a
    OBVIOUS
  <2>4. QED
    BY <2>1, <2>2, <2>3 DEF Bijection, Injection, Surjection, IsInjective
<1>3. QED
  BY <1>0, <1>1, <1>2, FS_Bijection DEF ExistsBijection

\* What a move of one manager does to the copies in the managers' hands.
LEMMA MovesHold ==
  ASSUME TypeOK, NEW m \in Managers, Moves(m), NEW t \in Tasks, NEW k \in Int
  PROVE  /\ \A n \in Managers \ {m} : HeldFor(n, t, k)' <=> HeldFor(n, t, k)
         /\ Leaves(m) => ~ HeldFor(m, t, k)'
         /\ t # cur[m] => ~ HeldFor(m, t, k)'
<1>1. \A n \in Managers \ {m} : HeldFor(n, t, k)' <=> HeldFor(n, t, k)
  BY MovesDrop DEF HeldFor, Snapshot
<1>2. Leaves(m) => ~ HeldFor(m, t, k)'
  BY MovesDrop DEF HeldFor
<1>3. ASSUME t # cur[m], Stays(m) PROVE ~ HeldFor(m, t, k)'
  BY <1>3, MovesDrop DEF HeldFor
<1>4. QED
  BY <1>1, <1>2, <1>3 DEF Moves

LEMMA MovesWake ==
  ASSUME TypeOK, NEW m \in Managers, Moves(m), NEW t \in Tasks,
         store'[t].status # "paused" \/ store'[t] = store[t]
  PROVE  Waking(t)' \subseteq Waking(t)
<1>1. \A n \in Managers : due'[n][t] \in {due[n][t], Absent}
  BY MovesDrop
<1>2. Absent.status # "paused"
  BY DEF Absent
<1>3. QED
  BY <1>1, <1>2 DEF Waking

\* A move that schedules and runs nothing adds no copy.
LEMMA MovesShrink ==
  ASSUME TypeOK, NEW m \in Managers, Moves(m), NEW t \in Tasks, NEW k \in Int,
         restoring' = restoring, call' = call, fired'[t] = fired[t],
         store'[t].status \notin {"waiting", "paused"} \/ store'[t] = store[t],
         HeldFor(m, t, k)' => HeldFor(m, t, k)
  PROVE  Exchanged(Runs(t, k), Runs(t, k)')
<1>1. Waking(t)' \subseteq Waking(t)
  BY MovesWake
<1>2. Holding(t, k)' \subseteq Holding(t, k)
  BY MovesHold DEF Holding
<1>3. Scheduling(t, k)' \subseteq Scheduling(t, k)
  BY DEF Scheduling
<1>4. Ran(t, k)' = Ran(t, k) /\ Restoring(t)' = Restoring(t) /\ Writing(t)' = Writing(t)
  BY DEF Ran, Restoring, Writing
<1>5. QED
  BY <1>1, <1>2, <1>3, <1>4 DEF Runs, Exchanged

\* A move that turns the copy x into the schedule of the task.
LEMMA MovesSchedule ==
  ASSUME TypeOK, NEW m \in Managers, Moves(m), NEW t \in Tasks, NEW k \in Int,
         restoring' = restoring, call' = call, fired'[t] = fired[t],
         store'[t].status # "paused", ~ HeldFor(m, t, k)',
         NEW x, x \in Runs(t, k),
         x \notin Runs(t, k)' \ {<< "scheduled", NoTask >>}
  PROVE  Exchanged(Runs(t, k), Runs(t, k)')
<1>1. Waking(t)' \subseteq Waking(t)
  BY MovesWake
<1>2. Holding(t, k)' \subseteq Holding(t, k)
  BY MovesHold DEF Holding
<1>3. Scheduling(t, k)' \subseteq {<<"scheduled", NoTask>>}
  BY DEF Scheduling
<1>4. Ran(t, k)' = Ran(t, k) /\ Restoring(t)' = Restoring(t) /\ Writing(t)' = Writing(t)
  BY DEF Ran, Restoring, Writing
<1>5. Runs(t, k)' \subseteq (Runs(t, k) \ {x}) \cup {<<"scheduled", NoTask>>}
  BY <1>1, <1>2, <1>3, <1>4 DEF Runs
<1>6. QED
  BY <1>5 DEF Exchanged

\* The copies are told apart by their tags, before and after a step.
Counted(m, t, k) ==
  /\ HeldFor(m, t, k) <=> << "held", m >> \in Runs(t, k)
  /\ (store[t].status = "paused" \/ due[m][t].status = "paused")
       <=> << "woken", m >> \in Runs(t, k)
  /\ restoring[m][t] # Absent <=> << "restored", m >> \in Runs(t, k)
  /\ (/\ store[t].status = "waiting"
      /\ store[t].cond.type = "once" \/ store[t].nextRunAt <= k)
       <=> << "scheduled", NoTask >> \in Runs(t, k)

LEMMA CopiesCounted ==
  ASSUME NEW m \in Managers, NEW t \in Tasks, NEW k \in Int
  PROVE  Counted(m, t, k) /\ Counted(m, t, k)'
<1>1. Counted(m, t, k)
  BY DEF Counted, Runs, Ran, Scheduling, Holding, Restoring, Waking, Writing
<1>2. Counted(m, t, k)'
  BY DEF Counted, Runs, Ran, Scheduling, Holding, Restoring, Waking, Writing
<1>3. QED
  BY <1>1, <1>2

LEMMA HarvestRuns ==
  ASSUME TypeOK, NEW m \in Managers, Harvest(m), NEW t \in Tasks, NEW k \in Int
  PROVE  Exchanged(Runs(t, k), Runs(t, k)')
<1>0. /\ store' = store /\ fired' = fired /\ restoring' = restoring /\ call' = call
  BY DEF Harvest, storeVars, startVars
<1>1. PICK at \in Readings :
        IF ListDue(at) = Nothing
          THEN UNCHANGED harvestVars
          ELSE /\ hpc' = [hpc EXCEPT ![m] = "pick"]
               /\ due' = [due EXCEPT ![m] = ListDue(at)]
               /\ now' = [now EXCEPT ![m] = at]
               /\ UNCHANGED cur
  BY DEF Harvest
<1>2. CASE UNCHANGED harvestVars
  BY <1>0, <1>2 DEF harvestVars, Exchanged, Runs, Ran, Scheduling, Holding, HeldFor,
                    Snapshot, Restoring, Waking, Writing
<1>3. CASE ~ UNCHANGED harvestVars
  <2>1. /\ hpc' = [hpc EXCEPT ![m] = "pick"] /\ due' = [due EXCEPT ![m] = ListDue(at)]
        /\ UNCHANGED cur
    BY <1>1, <1>3
  <2>2. \A n \in Managers \ {m} : hpc'[n] = hpc[n] /\ due'[n] = due[n]
    BY <2>1 DEF TypeOK, HarvestTypeOK
  <2>3. hpc'[m] = "pick" /\ due'[m][t] \in {store[t], Absent}
    BY <2>1 DEF TypeOK, HarvestTypeOK, ListDue
  <2>4. \A n \in Managers : HeldFor(n, t, k)' => HeldFor(n, t, k)
    BY <2>1, <2>2, <2>3 DEF HeldFor, Snapshot
  <2>5. \A n \in Managers : due'[n][t].status = "paused" =>
                              store[t].status = "paused" \/ due[n][t].status = "paused"
    BY <2>2, <2>3 DEF Absent
  <2>6. /\ Holding(t, k)' \subseteq Holding(t, k) /\ Waking(t)' \subseteq Waking(t)
    BY <1>0, <2>4, <2>5 DEF Holding, Waking
  <2>7. /\ Ran(t, k)' = Ran(t, k) /\ Restoring(t)' = Restoring(t)
        /\ Writing(t)' = Writing(t) /\ Scheduling(t, k)' = Scheduling(t, k)
    BY <1>0 DEF Ran, Restoring, Writing, Scheduling
  <2>8. QED
    BY <2>6, <2>7 DEF Runs, Exchanged
<1>4. QED
  BY <1>2, <1>3

LEMMA NextTaskRuns ==
  ASSUME TypeOK, NEW m \in Managers, NEW u \in Tasks, NextTask(m, u),
         NEW t \in Tasks, NEW k \in Int
  PROVE  Exchanged(Runs(t, k), Runs(t, k)')
<1>0. /\ store' = store /\ fired' = fired /\ restoring' = restoring /\ call' = call
      /\ due' = due
  BY DEF NextTask, storeVars, startVars
<1>1. /\ hpc'[m] = "claim"
      /\ \A n \in Managers \ {m} : hpc'[n] = hpc[n] /\ cur'[n] = cur[n]
  BY DEF NextTask, TypeOK, HarvestTypeOK
<1>2. \A n \in Managers : HeldFor(n, t, k)' => HeldFor(n, t, k)
  BY <1>0, <1>1 DEF HeldFor, Snapshot
<1>3. /\ Holding(t, k)' \subseteq Holding(t, k) /\ Waking(t)' = Waking(t)
      /\ Ran(t, k)' = Ran(t, k) /\ Restoring(t)' = Restoring(t)
      /\ Writing(t)' = Writing(t) /\ Scheduling(t, k)' = Scheduling(t, k)
  BY <1>0, <1>2 DEF Holding, Waking, Ran, Restoring, Writing, Scheduling
<1>4. QED
  BY <1>3 DEF Runs, Exchanged

\* The end of a pause: the harvested snapshot becomes the schedule.
LEMMA WakePausedRuns ==
  ASSUME TypeOK, WritersPause, NEW m \in Managers, WakePaused(m),
         NEW t \in Tasks, NEW k \in Int
  PROVE  Exchanged(Runs(t, k), Runs(t, k)')
<1> DEFINE d == ReschedulePreservingHistory(Snapshot(m), now[m])
<1>0. /\ fired' = fired /\ restoring' = restoring /\ call' = call
      /\ hpc[m] = "claim" /\ due[m][cur[m]].status = "paused"
      /\ Leaves(m) /\ Moves(m)
  BY DEF WakePaused, startVars, Leaves, Moves, Snapshot
<1>1. ~ HeldFor(m, t, k)'
  BY <1>0, MovesHold
<1>2. CASE store'[t] = store[t]
  BY <1>0, <1>1, <1>2, MovesShrink
<1>3. CASE Save(cur[m], d) /\ LeaveTask(m) /\ t = cur[m]
  <2>1. /\ Snapshot(m) \in TaskDocs /\ now[m] \in Int /\ Snapshot(m).enabled
    BY <1>0, InHand DEF Snapshot, Snapped, WritersPause
  <2>2. d.status # "paused"
    BY <2>1, PreservingHistoryPlanned
  <2>3. store'[t] = d
    BY <1>3 DEF Save, TypeOK, StoreTypeOK
  <2>4. store'[t].status # "paused"
    BY <2>2, <2>3
  <2>5. due'[m][t] = Absent /\ Absent.status # "paused"
    <3>1. due'[m] = [due[m] EXCEPT ![cur[m]] = Absent]
      BY <1>0, <1>3, MovesDrop
    <3>2. due[m] \in [Tasks -> Docs]
      BY DEF TypeOK, HarvestTypeOK
    <3>3. QED
      BY <1>3, <3>1, <3>2 DEF Absent
  <2>6. << "woken", m >> \in Runs(t, k)
    BY <1>0, <1>3, CopiesCounted DEF Counted
  <2>7. << "woken", m >> \notin Runs(t, k)'
    BY <2>4, <2>5, CopiesCounted DEF Counted
  <2>8. QED
    BY <1>0, <1>1, <2>4, <2>6, <2>7, MovesSchedule
<1>4. QED
  BY <1>2, <1>3 DEF WakePaused, Save, TypeOK, StoreTypeOK

\* The claim: the schedule becomes the claimant's.  The keys agree, so the
\* snapshot is of the scheduled instant, unless the task is a once task.
LEMMA ClaimRuns ==
  ASSUME TypeOK, CopiesInv, NEW m \in Managers, Claim(m), NEW t \in Tasks, NEW k \in Int
  PROVE  Exchanged(Runs(t, k), Runs(t, k)')
<1>0. /\ fired' = fired /\ restoring' = restoring /\ call' = call
      /\ hpc[m] = "claim" /\ due[m][cur[m]].status = "waiting" /\ cur[m] \in Tasks
  BY InHand DEF Claim, startVars, Snapshot
<1>1. CASE LeaveTask(m) /\ store' = store
  <2>1. Leaves(m) /\ Moves(m)
    BY <1>1 DEF Leaves, Moves
  <2>2. ~ HeldFor(m, t, k)'
    BY <2>1, MovesHold
  <2>3. QED
    BY <1>0, <1>1, <2>1, <2>2, MovesShrink
<1>2. CASE /\ Claimable(cur[m], Snapshot(m).key)
           /\ Save(cur[m], [store[cur[m]] EXCEPT !.status = "running"])
           /\ Stays(m)
  <2>1. Moves(m) /\ due' = due /\ cur' = cur
    BY <1>2, MovesDrop DEF Moves
  <2>2. /\ store[cur[m]].status = "waiting" /\ store[cur[m]].key = due[m][cur[m]].key
        /\ store[cur[m]] \in TaskDocs
    BY <1>0, <1>2 DEF Claimable, Snapshot, TypeOK, StoreTypeOK, Docs, Absent
  <2>3. IF t = cur[m] THEN store'[t].status = "running" ELSE store'[t] = store[t]
    BY <1>0, <1>2, <2>2 DEF Save, TypeOK, StoreTypeOK, TaskDocs
  <2>4. CASE ~ HeldFor(m, t, k)'
    BY <1>0, <2>1, <2>3, <2>4, MovesShrink
  <2>5. CASE HeldFor(m, t, k)'
    <3>1. t = cur[m]
      BY <2>1, <2>5, MovesHold
    <3>2. due[m][t].nextRunAt <= k
      <4>1. due[m][t].nextRunAt \in Int
        BY <1>0, <3>1, InHand DEF TaskDocs
      <4>2. due'[m][cur'[m]] = due[m][t]
        BY <2>1, <3>1
      <4>3. due'[m][cur'[m]].nextRunAt <= k \/ due'[m][cur'[m]].nextRunAt < k
        BY <2>5 DEF HeldFor, Snapshot
      <4>4. QED
        BY <4>1, <4>2, <4>3
    <3>3. store[t].cond.type = "once" \/ store[t].nextRunAt = due[m][t].nextRunAt
      <4>1. Keyed(store[t]) /\ Keyed(due[m][t])
        BY DEF CopiesInv
      <4>2. /\ store[t].key = KeyAt(store[t].cond, store[t].nextRunAt)
            /\ due[m][t].key = KeyAt(due[m][t].cond, due[m][t].nextRunAt)
        BY <1>0, <2>2, <3>1, <4>1 DEF Keyed
      <4>3. \A a, b, x, y : << a, x >> = << b, y >> => a = b /\ x = y
        OBVIOUS
      <4>4. KeyAt(store[t].cond, store[t].nextRunAt)
              = KeyAt(due[m][t].cond, due[m][t].nextRunAt)
        BY <2>2, <3>1, <4>2
      <4>5. QED
        BY <4>3, <4>4 DEF KeyAt, Key
    <3>4. << "scheduled", NoTask >> \in Runs(t, k)
      BY <2>2, <3>1, <3>2, <3>3, CopiesCounted DEF Counted
    <3>5. Scheduling(t, k)' = {} /\ store'[t].status # "paused"
      BY <2>3, <3>1 DEF Scheduling
    <3>6. Waking(t)' \subseteq Waking(t)
      BY <2>1, <3>5, MovesWake
    <3>7. Holding(t, k)' \subseteq Holding(t, k) \cup {<< "held", m >>}
      BY <2>1, MovesHold DEF Holding
    <3>8. Ran(t, k)' = Ran(t, k) /\ Restoring(t)' = Restoring(t) /\ Writing(t)' = Writing(t)
      BY <1>0 DEF Ran, Restoring, Writing
    <3>9. Runs(t, k)' \subseteq
            (Runs(t, k) \ {<< "scheduled", NoTask >>}) \cup {<< "held", m >>}
      BY <3>5, <3>6, <3>7, <3>8
         DEF Runs, Ran, Scheduling, Holding, Restoring, Waking, Writing
    <3>10. QED
      BY <3>4, <3>9 DEF Exchanged
  <2>6. QED
    BY <2>4, <2>5
<1>3. QED
  BY <1>1, <1>2 DEF Claim, Answered, Stays

\* The steps in between schedule nothing and run nothing.
LEMMA QuietRuns ==
  ASSUME TypeOK, NEW m \in Managers,
         SaveRunning(m) \/ Reread(m) \/ LoseOperation(m) \/ SaveError(m),
         NEW t \in Tasks, NEW k \in Int
  PROVE  Exchanged(Runs(t, k), Runs(t, k)')
<1>0. fired' = fired /\ restoring' = restoring /\ call' = call
  BY DEF SaveRunning, Reread, LoseOperation, SaveError, startVars
<1>h. /\ cur[m] \in Tasks /\ Snapshot(m) \in TaskDocs
  <2>1. hpc[m] \notin {"idle", "pick"}
    BY DEF SaveRunning, Reread, LoseOperation, SaveError
  <2>2. QED
    BY <2>1, InHand DEF Snapshot
<1>1. store'[t].status \in {"running", "error"} \/ store'[t] = store[t]
  <2>1. \A st \in {"running", "error"} : [Snapshot(m) EXCEPT !.status = st].status = st
    BY <1>h DEF TaskDocs
  <2>2. CASE store' = store
    BY <2>2
  <2>3. ASSUME NEW st \in {"running", "error"},
               Save(cur[m], [Snapshot(m) EXCEPT !.status = st])
        PROVE  store'[t].status \in {"running", "error"} \/ store'[t] = store[t]
    BY <2>1, <2>3 DEF Save, TypeOK, StoreTypeOK
  <2>4. QED
    BY <2>2, <2>3 DEF SaveRunning, Reread, LoseOperation, SaveError, storeVars
<1>2. CASE Leaves(m)
  <2>1. Moves(m) /\ ~ HeldFor(m, t, k)'
    BY <1>2, MovesHold DEF Moves
  <2>2. QED
    BY <1>0, <1>1, <2>1, MovesShrink
<1>3. ASSUME NEW pc, Goto(m, pc),
             \/ pc = "failed"
             \/ pc = "fire" /\ hpc[m] = "save"
             \/ pc = "finish" /\ hpc[m] = "reread"
      PROVE  Exchanged(Runs(t, k), Runs(t, k)')
  <2>1. Moves(m) /\ hpc'[m] = pc /\ due' = due /\ cur' = cur
    BY <1>3 DEF Goto, Moves, Stays, TypeOK, HarvestTypeOK
  <2>2. HeldFor(m, t, k)' => HeldFor(m, t, k)
    BY <1>3, <2>1 DEF HeldFor, Snapshot
  <2>3. QED
    BY <1>0, <1>1, <2>1, <2>2, MovesShrink
<1>4. QED
  BY <1>2, <1>3 DEF SaveRunning, Reread, LoseOperation, SaveError, Answered, Leaves

\* A run: the claimant's copy becomes a run for its instant.
LEMMA FireRuns ==
  ASSUME TypeOK, NEW m \in Managers, Fire(m), NEW t \in Tasks, NEW k \in Int
  PROVE  Exchanged(Runs(t, k), Runs(t, k)')
<1>0. /\ store' = store /\ restoring' = restoring /\ call' = call /\ hpc[m] = "fire"
      /\ Goto(m, "reread") /\ Moves(m) /\ due' = due /\ cur' = cur /\ cur[m] \in Tasks
  BY InHand DEF Fire, storeVars, startVars, Goto, Moves, Stays
<1>1. hpc'[m] = "reread"
  BY <1>0 DEF Goto, TypeOK, HarvestTypeOK
<1>2. CASE t # cur[m]
  <2>1. ~ HeldFor(m, t, k)' /\ fired'[t] = fired[t]
    BY <1>0, <1>2, MovesHold DEF Fire, TypeOK, StoreTypeOK
  <2>2. QED
    BY <1>0, <2>1, MovesShrink
<1>3. CASE t = cur[m]
  <2> DEFINE at == due[m][t].nextRunAt
             new == Len(fired[t]) + 1
  <2>1. at \in Int
    BY <1>0, <1>3, InHand DEF TaskDocs
  <2>2. fired[t] \in Seq(Int) /\ fired'[t] = Append(fired[t], at)
    BY <1>0, <1>3 DEF Fire, Snapshot, TypeOK, StoreTypeOK
  <2>3. /\ DOMAIN fired'[t] = DOMAIN fired[t] \cup {new}
        /\ \A i \in DOMAIN fired[t] : fired'[t][i] = fired[t][i]
        /\ fired'[t][new] = at /\ new \notin DOMAIN fired[t]
    <3> HIDE DEF at
    <3>1. QED
      BY <2>1, <2>2
  <2>4. /\ Scheduling(t, k)' = Scheduling(t, k) /\ Waking(t)' = Waking(t)
        /\ Restoring(t)' = Restoring(t) /\ Writing(t)' = Writing(t)
    BY <1>0 DEF Scheduling, Waking, Restoring, Writing
  <2>5. CASE at = k
    <3>1. Ran(t, k)' \subseteq Ran(t, k) \cup {<< "ran", new >>}
      <4> HIDE DEF new, at
      <4>1. QED
        BY <2>3 DEF Ran
    <3>2. HeldFor(m, t, k) /\ ~ HeldFor(m, t, k)'
      BY <1>0, <1>1, <1>3, <2>1, <2>5 DEF HeldFor, Snapshot
    <3>3. << "held", m >> \in Runs(t, k)
      BY <3>2, CopiesCounted DEF Counted
    <3>4. Holding(t, k)' \subseteq Holding(t, k) \ {<< "held", m >>}
      BY <1>0, <3>2, MovesHold DEF Holding
    <3>5. Runs(t, k)' \subseteq (Runs(t, k) \ {<< "held", m >>}) \cup {<< "ran", new >>}
      <4> HIDE DEF new
      <4>1. QED
        BY <2>4, <3>1, <3>4
           DEF Runs, Ran, Scheduling, Holding, Restoring, Waking, Writing
    <3>6. QED
      BY <3>3, <3>5 DEF Exchanged
  <2>6. CASE at # k
    <3>1. Ran(t, k)' = Ran(t, k)
      <4> HIDE DEF new, at
      <4>1. QED
        BY <2>3, <2>6 DEF Ran
    <3>2. HeldFor(m, t, k)' => HeldFor(m, t, k)
      BY <1>0, <1>1, <1>3, <2>1 DEF HeldFor, Snapshot
    <3>3. Holding(t, k)' \subseteq Holding(t, k)
      BY <1>0, <3>2, MovesHold DEF Holding
    <3>4. QED
      BY <2>4, <3>1, <3>3 DEF Runs, Exchanged
  <2>7. QED
    BY <2>5, <2>6
<1>4. QED
  BY <1>2, <1>3

\* The end of a run: the copy in hand becomes the schedule of a later instant.
LEMMA FinalSaveRuns ==
  ASSUME TypeOK, CopiesInv, NEW m \in Managers, FinalSave(m), NEW t \in Tasks, NEW k \in Int
  PROVE  Exchanged(Runs(t, k), Runs(t, k)')
<1> DEFINE d == AfterTriggerRun(due[m][cur[m]], now[m])
<1>0. /\ fired' = fired /\ restoring' = restoring /\ call' = call /\ hpc[m] = "finish"
      /\ cur[m] \in Tasks /\ due[m][cur[m]] \in TaskDocs /\ now[m] \in Int
      /\ Save(cur[m], d)
  BY InHand DEF FinalSave, startVars, Snapshot
<1>1. Moves(m) /\ ~ HeldFor(m, t, k)'
  <2>1. CASE LeaveTask(m)
    BY <2>1, MovesHold DEF Leaves, Moves
  <2>2. CASE Goto(m, "failed")
    <3>1. Moves(m) /\ hpc'[m] = "failed"
      BY <2>2 DEF Goto, Moves, Stays, TypeOK, HarvestTypeOK
    <3>2. QED
      BY <3>1 DEF HeldFor
  <2>3. QED
    BY <2>1, <2>2 DEF FinalSave
<1>2. CASE t # cur[m]
  <2>1. store'[t] = store[t]
    BY <1>0, <1>2 DEF Save, TypeOK, StoreTypeOK
  <2>2. QED
    BY <1>0, <1>1, <2>1, MovesShrink
<1>3. CASE t = cur[m]
  <2>1. store'[t] = d
    BY <1>0, <1>3 DEF Save, TypeOK, StoreTypeOK
  <2>2. /\ Planned(d) /\ d.status # "paused"
        /\ d.status = "waiting" => d.nextRunAt > now[m] /\ due[m][t].cond.type # "once"
    BY <1>0, <1>3, AfterRunPlanned
  <2>3. due[m][t].status = "waiting" /\ due[m][t].nextRunAt <= now[m]
    BY <1>0, <1>3 DEF CopiesInv, Snapshot
  <2>4. CASE d.status = "waiting"
    <3>1. /\ d.nextRunAt \in Int /\ due[m][t].nextRunAt \in Int
          /\ due[m][t].nextRunAt < d.nextRunAt
      BY <1>0, <1>3, <2>2, <2>3, <2>4 DEF Planned, WellKeyed, TaskDocs
    <3>2. CASE d.nextRunAt <= k
      <4>1. HeldFor(m, t, k)
        <5> HIDE DEF d
        <5>1. QED
          BY <1>0, <1>3, <2>2, <2>4, <3>1, <3>2 DEF HeldFor, Snapshot
      <4>2. << "held", m >> \in Runs(t, k) /\ << "held", m >> \notin Runs(t, k)'
        BY <1>1, <4>1, CopiesCounted DEF Counted
      <4>3. QED
        BY <1>0, <1>1, <2>1, <2>2, <4>2, MovesSchedule
    <3>3. CASE d.nextRunAt > k
      <4>1. d.cond.type # "once"
        BY <1>0, <1>3, <2>2, <2>4, AfterRunPlanned
      <4>2. Scheduling(t, k)' = {}
        <5> HIDE DEF d
        <5>1. QED
          BY <2>1, <3>1, <3>3, <4>1 DEF Scheduling
      <4>3. Waking(t)' \subseteq Waking(t) /\ Holding(t, k)' \subseteq Holding(t, k)
        BY <1>1, <2>1, <2>2, MovesWake, MovesHold DEF Holding
      <4>4. /\ Ran(t, k)' = Ran(t, k) /\ Restoring(t)' = Restoring(t)
            /\ Writing(t)' = Writing(t)
        BY <1>0 DEF Ran, Restoring, Writing
      <4>5. QED
        BY <4>2, <4>3, <4>4 DEF Runs, Exchanged
    <3>4. QED
      BY <3>1, <3>2, <3>3
  <2>5. CASE d.status # "waiting"
    BY <1>0, <1>1, <2>1, <2>2, <2>5, MovesShrink
  <2>6. QED
    BY <2>4, <2>5
<1>4. QED
  BY <1>2, <1>3

LEMMA HarvestStepRuns ==
  ASSUME TypeOK, CopiesInv, WritersPause, NEW m \in Managers, HarvestStep(m),
         NEW t \in Tasks, NEW k \in Int
  PROVE  Exchanged(Runs(t, k), Runs(t, k)')
BY HarvestRuns, NextTaskRuns, WakePausedRuns, ClaimRuns, FireRuns, FinalSaveRuns,
   QuietRuns DEF HarvestStep

\* A restore turns a document read at the start into the schedule.
LEMMA RestoreRuns ==
  ASSUME TypeOK, CopiesInv, NEW m \in Managers, NEW u \in Tasks, RestoreTask(m, u),
         NEW t \in Tasks, NEW k \in Int
  PROVE  Exchanged(Runs(t, k), Runs(t, k)')
<1>0. /\ fired' = fired /\ call' = call /\ hpc' = hpc /\ due' = due /\ cur' = cur
      /\ restoring[m][u] # Absent
      /\ restoring' = [restoring EXCEPT ![m][u] = Absent]
  BY DEF RestoreTask, harvestVars
<1>1. /\ \A n \in Managers, v \in Tasks :
           restoring'[n][v] = IF n = m /\ v = u THEN Absent ELSE restoring[n][v]
  BY <1>0 DEF TypeOK, StartTypeOK
<1>2. /\ Ran(t, k)' = Ran(t, k) /\ Writing(t)' = Writing(t)
      /\ Holding(t, k)' = Holding(t, k) /\ Restoring(t)' \subseteq Restoring(t)
  BY <1>0, <1>1 DEF Ran, Writing, Holding, HeldFor, Snapshot, Restoring
<1>3. CASE store'[t] = store[t]
  <2>1. Scheduling(t, k)' = Scheduling(t, k) /\ Waking(t)' = Waking(t)
    BY <1>0, <1>3 DEF Scheduling, Waking
  <2>2. QED
    BY <1>2, <2>1 DEF Runs, Exchanged
<1>4. CASE /\ t = u /\ restoring[m][u].status \in {"error", "running", "waiting"}
           /\ Save(u, Restored(restoring[m][u], startNow[m]))
  <2>1. restoring[m][u] \in TaskDocs /\ startNow[m] \in Int /\ Keyed(restoring[m][u])
    BY <1>0 DEF TypeOK, StartTypeOK, Docs, CopiesInv
  <2>2. store'[t].status \in {"waiting", "completed"}
    BY <1>4, <2>1, RestoredPlanned DEF Save, TypeOK, StoreTypeOK
  <2>3. Waking(t)' \subseteq Waking(t)
    BY <1>0, <2>2 DEF Waking
  <2>4. Scheduling(t, k)' \subseteq {<< "scheduled", NoTask >>}
    BY DEF Scheduling
  <2>5. /\ << "restored", m >> \in Runs(t, k)
        /\ << "restored", m >> \notin Runs(t, k)'
    <3>1. restoring[m][t] # Absent /\ restoring'[m][t] = Absent
      BY <1>0, <1>1, <1>4
    <3>2. Absent' = Absent
      BY DEF Absent
    <3>3. QED
      BY <3>1, <3>2, CopiesCounted DEF Counted
  <2>6. Runs(t, k)' \subseteq
          (Runs(t, k) \ {<< "restored", m >>}) \cup {<< "scheduled", NoTask >>}
    BY <1>2, <2>3, <2>4, <2>5 DEF Runs
  <2>7. QED
    BY <2>5, <2>6 DEF Exchanged
<1>5. QED
  BY <1>3, <1>4 DEF RestoreTask, Save, TypeOK, StoreTypeOK

Allowance == 1 + starts + calls * Cardinality(Managers)

LEMMA AllowanceType ==
  ASSUME TypeOK
  PROVE  Allowance \in Nat /\ Cardinality(Managers) \in Nat \ {0}
<1>1. Cardinality(Managers) \in Nat \ {0}
  BY ManagersAssumption, FS_CardinalityType, FS_EmptySet
<1>2. starts \in Nat /\ calls \in Nat
  BY DEF TypeOK, StoreTypeOK
<1>3. calls * Cardinality(Managers) \in Nat
  BY <1>1, <1>2
<1>4. QED
  BY <1>1, <1>2, <1>3 DEF Allowance

\* A start adds the documents it reads: one copy of each task.
LEMMA LifecycleStepRuns ==
  ASSUME TypeOK, CopiesInv, NEW m \in Managers, LifecycleStep(m), NEW t \in Tasks,
         NEW k \in Int, IsFiniteSet(Runs(t, k)), Cardinality(Runs(t, k)) <= Allowance
  PROVE  IsFiniteSet(Runs(t, k)') /\ Cardinality(Runs(t, k)') <= Allowance'
<1>0. /\ starts \in Nat /\ calls \in Nat /\ Cardinality(Managers) \in Nat
      /\ Cardinality(Runs(t, k)) \in Nat /\ calls * Cardinality(Managers) \in Nat
  BY AllowanceType, FS_CardinalityType DEF TypeOK, StoreTypeOK
<1>1. CASE Start(m)
  <2>1. /\ store' = store /\ fired' = fired /\ call' = call /\ hpc' = hpc /\ due' = due
        /\ cur' = cur /\ starts' = starts + 1 /\ calls' = calls
        /\ \A n \in Managers \ {m} : restoring'[n] = restoring[n]
    BY <1>1 DEF Start, storeVars, harvestVars, TypeOK, StartTypeOK
  <2>2. Restoring(t)' \subseteq Restoring(t) \cup {<< "restored", m >>}
    BY <2>1 DEF Restoring
  <2>3. /\ Ran(t, k)' = Ran(t, k) /\ Writing(t)' = Writing(t) /\ Waking(t)' = Waking(t)
        /\ Scheduling(t, k)' = Scheduling(t, k) /\ Holding(t, k)' = Holding(t, k)
    BY <2>1 DEF Ran, Writing, Waking, Scheduling, Holding, HeldFor, Snapshot
  <2>4. Runs(t, k)' \subseteq (Runs(t, k) \ {}) \cup {<< "restored", m >>}
    BY <2>2, <2>3 DEF Runs
  <2>5. /\ IsFiniteSet(Runs(t, k)') /\ Cardinality(Runs(t, k)') \in Nat
        /\ Cardinality(Runs(t, k)') <=
             Cardinality(Runs(t, k)) - Cardinality({}) + Cardinality({<< "restored", m >>})
    <3>1. IsFiniteSet({<< "restored", m >>}) /\ {} \subseteq Runs(t, k)
      BY FS_Singleton
    <3>2. QED
      BY <2>4, <3>1, Exchange
  <2>6. Cardinality({}) = 0 /\ Cardinality({<< "restored", m >>}) = 1
    BY FS_Singleton, FS_EmptySet
  <2>7. QED
    BY <1>0, <2>1, <2>5, <2>6 DEF Allowance
<1>2. CASE ~ Start(m)
  <2>1. Exchanged(Runs(t, k), Runs(t, k)')
    <3>1. CASE StartDone(m) \/ Stop(m)
      <4>1. /\ store' = store /\ fired' = fired /\ call' = call /\ hpc' = hpc
            /\ due' = due /\ cur' = cur /\ restoring' = restoring
        BY <3>1 DEF StartDone, Stop, storeVars, harvestVars
      <4>2. /\ Ran(t, k)' = Ran(t, k) /\ Writing(t)' = Writing(t)
            /\ Waking(t)' = Waking(t) /\ Scheduling(t, k)' = Scheduling(t, k)
            /\ Holding(t, k)' = Holding(t, k) /\ Restoring(t)' = Restoring(t)
        BY <4>1 DEF Ran, Writing, Waking, Scheduling, Holding, HeldFor, Snapshot, Restoring
      <4>3. QED
        BY <4>2 DEF Runs, Exchanged
    <3>2. CASE Crash(m)
      <4>1. Leaves(m) /\ Moves(m) /\ store' = store /\ fired' = fired /\ call' = call
        BY <3>2 DEF Crash, Leaves, Moves, storeVars
      <4>2. Waking(t)' \subseteq Waking(t) /\ Holding(t, k)' \subseteq Holding(t, k)
        BY <4>1, MovesWake, MovesHold DEF Holding
      <4>3. \A n \in Managers : restoring'[n][t] \in {restoring[n][t], Absent}
        BY <3>2, NothingPauses DEF Crash, TypeOK, StartTypeOK
      <4>4. Restoring(t)' \subseteq Restoring(t)
        BY <4>3 DEF Restoring
      <4>5. /\ Ran(t, k)' = Ran(t, k) /\ Writing(t)' = Writing(t)
            /\ Scheduling(t, k)' = Scheduling(t, k)
        BY <4>1 DEF Ran, Writing, Scheduling
      <4>6. QED
        BY <4>2, <4>4, <4>5 DEF Runs, Exchanged
    <3>3. CASE \E u \in Tasks : RestoreTask(m, u)
      BY <3>3, RestoreRuns
    <3>4. QED
      BY <1>2, <3>1, <3>2, <3>3 DEF LifecycleStep
  <2>2. starts' = starts /\ calls' = calls
    BY <1>2 DEF LifecycleStep, StartDone, Stop, Crash, RestoreTask, bounds
  <2>3. QED
    BY <1>0, <2>1, <2>2, ExchangedKeeps DEF Allowance
<1>3. QED
  BY <1>1, <1>2

\* A call under way stands for as many copies as there are managers: what it
\* writes is one schedule, or a pause that each of them may end.
LEMMA EndCallRuns ==
  ASSUME TypeOK, NEW c \in Clients, EndCall(c), NEW t \in Tasks,
         NEW k \in Int, IsFiniteSet(Runs(t, k))
  PROVE  /\ IsFiniteSet(Runs(t, k)') /\ Cardinality(Runs(t, k)') \in Nat
         /\ Cardinality(Runs(t, k)') <= Cardinality(Runs(t, k))
<1>0. /\ fired' = fired /\ restoring' = restoring /\ hpc' = hpc /\ due' = due /\ cur' = cur
      /\ \A d \in Clients \ {c} : call'[d] = call[d]
      /\ call'[c].id = NoTask /\ Save(call[c].id, call[c].doc)
  BY DEF EndCall, startVars, harvestVars, NoCall, TypeOK, StoreTypeOK
<1>1. /\ Ran(t, k)' = Ran(t, k) /\ Holding(t, k)' = Holding(t, k)
      /\ Restoring(t)' = Restoring(t) /\ Writing(t)' \subseteq Writing(t)
  BY <1>0, TasksAssumption DEF Ran, Holding, HeldFor, Snapshot, Restoring, Writing
<1>2. CASE call[c].id # t
  <2>1. store'[t] = store[t]
    BY <1>0, <1>2 DEF Save, TypeOK, StoreTypeOK
  <2>2. Scheduling(t, k)' = Scheduling(t, k) /\ Waking(t)' = Waking(t)
    BY <1>0, <2>1 DEF Scheduling, Waking
  <2>3. Exchanged(Runs(t, k), Runs(t, k)')
    BY <1>1, <2>2 DEF Runs, Exchanged
  <2>4. QED
    BY <2>3, ExchangedKeeps
<1>3. CASE call[c].id = t
  <2> DEFINE A == {<< "written", x >> : x \in {c} \X Managers}
             B == {<< "woken", n >> : n \in Managers}
             S == {<< "scheduled", NoTask >>}
  <2>1. A \subseteq Writing(t) /\ A \subseteq Runs(t, k)
    BY <1>3 DEF Runs, Writing
  <2>2. Writing(t)' \subseteq Writing(t) \ A
    BY <1>0, <1>3, TasksAssumption DEF Writing
  <2>3. store'[t] = call[c].doc
    BY <1>0, <1>3 DEF Save, TypeOK, StoreTypeOK
  <2>4. /\ IsFiniteSet(A) /\ Cardinality(A) = Cardinality(Managers)
        /\ IsFiniteSet(B) /\ Cardinality(B) = Cardinality(Managers)
        /\ IsFiniteSet(S) /\ Cardinality(S) = 1
        /\ Cardinality(Managers) \in Nat \ {0}
    BY ManagerCopies, FS_Singleton
  <2>5. Cardinality(Runs(t, k)) \in Nat
    BY FS_CardinalityType
  <2>6. CASE store'[t].status = "paused"
    <3>1. Scheduling(t, k)' = {} /\ Waking(t)' \subseteq B
      BY <2>6 DEF Scheduling, Waking
    <3>2. Runs(t, k)' \subseteq (Runs(t, k) \ A) \cup B
      BY <1>1, <2>2, <3>1 DEF Runs, Ran, Scheduling, Holding, Restoring, Waking, Writing
    <3>3. /\ IsFiniteSet(Runs(t, k)') /\ Cardinality(Runs(t, k)') \in Nat
          /\ Cardinality(Runs(t, k)') <=
               Cardinality(Runs(t, k)) - Cardinality(A) + Cardinality(B)
      <4> HIDE DEF A, B
      <4>1. QED
        BY <2>1, <2>4, <3>2, Exchange
    <3>4. QED
      <4> HIDE DEF A, B
      <4>1. QED
        BY <2>4, <2>5, <3>3
  <2>7. CASE store'[t].status # "paused"
    <3>1. Scheduling(t, k)' \subseteq S /\ Waking(t)' \subseteq Waking(t)
      BY <1>0, <2>7 DEF Scheduling, Waking
    <3>2. Runs(t, k)' \subseteq (Runs(t, k) \ A) \cup S
      BY <1>1, <2>2, <3>1 DEF Runs, Ran, Scheduling, Holding, Restoring, Waking, Writing
    <3>3. /\ IsFiniteSet(Runs(t, k)') /\ Cardinality(Runs(t, k)') \in Nat
          /\ Cardinality(Runs(t, k)') <=
               Cardinality(Runs(t, k)) - Cardinality(A) + Cardinality(S)
      <4> HIDE DEF A, S
      <4>1. QED
        BY <2>1, <2>4, <3>2, Exchange
    <3>4. QED
      <4> HIDE DEF A, S
      <4>1. QED
        BY <2>4, <2>5, <3>3
  <2>8. QED
    BY <2>6, <2>7
<1>4. QED
  BY <1>2, <1>3

LEMMA BeginCallRuns ==
  ASSUME TypeOK, NEW c \in Clients, NEW u, NEW doc, BeginCall(c, u, doc), NEW t \in Tasks,
         NEW k \in Int, IsFiniteSet(Runs(t, k)), Cardinality(Runs(t, k)) <= Allowance
  PROVE  IsFiniteSet(Runs(t, k)') /\ Cardinality(Runs(t, k)') <= Allowance'
<1> DEFINE A == {<< "written", x >> : x \in {c} \X Managers}
<1>0. /\ store' = store /\ fired' = fired /\ restoring' = restoring /\ hpc' = hpc
      /\ due' = due /\ cur' = cur /\ starts' = starts /\ calls' = calls + 1
      /\ \A d \in Clients \ {c} : call'[d] = call[d]
  BY DEF BeginCall, startVars, harvestVars, TypeOK, StoreTypeOK
<1>1. /\ Ran(t, k)' = Ran(t, k) /\ Holding(t, k)' = Holding(t, k)
      /\ Restoring(t)' = Restoring(t) /\ Waking(t)' = Waking(t)
      /\ Scheduling(t, k)' = Scheduling(t, k)
  BY <1>0 DEF Ran, Holding, HeldFor, Snapshot, Restoring, Waking, Scheduling
<1>2. Writing(t)' \subseteq Writing(t) \cup A
  BY <1>0 DEF Writing
<1>3. Runs(t, k)' \subseteq (Runs(t, k) \ {}) \cup A
  BY <1>1, <1>2 DEF Runs
<1>4. /\ IsFiniteSet(A) /\ Cardinality(A) = Cardinality(Managers)
      /\ Cardinality(Managers) \in Nat \ {0}
  BY ManagerCopies
<1>5. /\ IsFiniteSet(Runs(t, k)') /\ Cardinality(Runs(t, k)') \in Nat
      /\ Cardinality(Runs(t, k)') <=
           Cardinality(Runs(t, k)) - Cardinality({}) + Cardinality(A)
  <2> HIDE DEF A
  <2>1. {} \subseteq Runs(t, k)
    OBVIOUS
  <2>2. QED
    BY <1>3, <1>4, <2>1, Exchange
<1>6. /\ Cardinality({}) = 0 /\ Cardinality(Runs(t, k)) \in Nat
  BY FS_EmptySet, FS_CardinalityType
<1>7. starts \in Nat /\ calls \in Nat
  BY DEF TypeOK, StoreTypeOK
<1>8. (calls + 1) * Cardinality(Managers) =
        calls * Cardinality(Managers) + Cardinality(Managers)
  BY <1>4, <1>7
<1>9. calls * Cardinality(Managers) \in Nat
  BY <1>4, <1>7
<1>10. QED
  <2> HIDE DEF A
  <2>1. Cardinality(Runs(t, k)') <= Cardinality(Runs(t, k)) + Cardinality(Managers)
    BY <1>4, <1>5, <1>6
  <2>2. Allowance' = Allowance + Cardinality(Managers)
    BY <1>0, <1>4, <1>7, <1>8, <1>9 DEF Allowance
  <2>3. QED
    BY <1>4, <1>5, <1>6, <2>1, <2>2, AllowanceType

LEMMA InitRuns == Init => RunsBounded(Int)
<1> SUFFICES ASSUME Init, NEW t \in Tasks, NEW k \in Int
             PROVE  IsFiniteSet(Runs(t, k)) /\ Cardinality(Runs(t, k)) <= Allowance
  BY DEF RunsBounded, Allowance
<1>1. store[t].status # "paused"
  BY NewTaskPlanned DEF Init, Absent
<1>2. /\ \A n \in Managers : Nothing[t] = Absent /\ restoring[n][t] = Absent
                             /\ due[n][t] = Absent /\ hpc[n] = "idle"
      /\ Absent.status = "absent" /\ fired[t] = << >>
  BY DEF Init, Nothing, Absent
<1>3. \A c \in Clients : call[c].id # t
  BY TasksAssumption DEF Init, NoCall
<1>4. Runs(t, k) \subseteq {<< "scheduled", NoTask >>}
  BY <1>1, <1>2, <1>3
     DEF Runs, Ran, Scheduling, Holding, HeldFor, Restoring, Waking, Writing
<1>5. /\ IsFiniteSet({<< "scheduled", NoTask >>})
      /\ Cardinality({<< "scheduled", NoTask >>}) = 1
  BY FS_Singleton
<1>6. IsFiniteSet(Runs(t, k)) /\ Cardinality(Runs(t, k)) <= 1
  BY <1>4, <1>5, FS_Subset
<1>7. Allowance = 1
  <2>1. Cardinality(Managers) \in Nat
    BY ManagersAssumption, FS_CardinalityType
  <2>2. 0 * Cardinality(Managers) = 0
    BY <2>1
  <2>3. QED
    BY <2>2 DEF Init, Allowance
<1>8. QED
  BY <1>6, <1>7

LEMMA RunsInvariant == Spec => []RunsBounded(Int)
<1>1. ASSUME TypeOK, CopiesInv, WritersPause, RunsBounded(Int), [Next]_vars
      PROVE  RunsBounded(Int)'
  <2> SUFFICES ASSUME NEW t \in Tasks, NEW k \in Int
               PROVE  /\ IsFiniteSet(Runs(t, k)')
                      /\ Cardinality(Runs(t, k)') <= Allowance'
    BY DEF RunsBounded, Allowance
  <2>0. /\ IsFiniteSet(Runs(t, k)) /\ Cardinality(Runs(t, k)) <= Allowance
        /\ Cardinality(Runs(t, k)) \in Nat /\ Allowance \in Nat
    BY <1>1, FS_CardinalityType, AllowanceType DEF RunsBounded, Allowance
  <2>1. ASSUME Exchanged(Runs(t, k), Runs(t, k)'), starts' = starts, calls' = calls
        PROVE  IsFiniteSet(Runs(t, k)') /\ Cardinality(Runs(t, k)') <= Allowance'
    BY <2>0, <2>1, ExchangedKeeps DEF Allowance
  <2>2. CASE Tick \/ UNCHANGED vars
    <3>1. Runs(t, k)' = Runs(t, k) /\ starts' = starts /\ calls' = calls
      BY <2>2 DEF Tick, vars, startVars, harvestVars, bounds, Runs, Ran, Scheduling, Holding,
                  HeldFor, Snapshot, Restoring, Waking, Writing
    <3>2. QED
      BY <2>1, <3>1 DEF Exchanged
  <2>3. ASSUME NEW m \in Managers, HarvestStep(m)
        PROVE  IsFiniteSet(Runs(t, k)') /\ Cardinality(Runs(t, k)') <= Allowance'
    <3>1. starts' = starts /\ calls' = calls
      BY <2>3 DEF HarvestStep, Harvest, NextTask, WakePaused, Claim, SaveRunning, Fire,
                  Reread, FinalSave, LoseOperation, SaveError, Answered, Fault, bounds
    <3>2. QED
      BY <1>1, <2>1, <2>3, <3>1, HarvestStepRuns
  <2>4. ASSUME NEW m \in Managers, LifecycleStep(m)
        PROVE  IsFiniteSet(Runs(t, k)') /\ Cardinality(Runs(t, k)') <= Allowance'
    BY <1>1, <2>0, <2>4, LifecycleStepRuns
  <2>5. ASSUME NEW c \in Clients, ClientStep(c)
        PROVE  IsFiniteSet(Runs(t, k)') /\ Cardinality(Runs(t, k)') <= Allowance'
    <3>1. CASE EndCall(c)
      <4>1. starts' = starts /\ calls' = calls
        BY <3>1 DEF EndCall, bounds
      <4>2. QED
        BY <1>1, <2>0, <3>1, <4>1, EndCallRuns DEF Allowance
    <3>2. ASSUME NEW u \in Tasks, NEW doc, BeginCall(c, u, doc)
          PROVE  IsFiniteSet(Runs(t, k)') /\ Cardinality(Runs(t, k)') <= Allowance'
      BY <1>1, <2>0, <3>2, BeginCallRuns
    <3>3. QED
      BY <2>5, <3>1, <3>2 DEF ClientStep, Admin, Create
  <2>6. QED
    BY <1>1, <2>2, <2>3, <2>4, <2>5 DEF Next, SteadyNext
<1>2. QED
  BY <1>1, InitRuns, TypeCorrect, CopiesInvariant, WritersPauseInvariant, PTL DEF Spec

\* However starts, crashes, failures, stale writes and calls interleave, a task
\* is fired for one instant at most once, and once more for every start and for
\* every call and manager.
THEOREM RefiresAreBounded == Spec => []RefiresBounded
<1>1. ASSUME TypeOK, RunsBounded(Int) PROVE RefiresBounded
  <2> SUFFICES ASSUME NEW t \in Tasks, NEW j \in DOMAIN fired[t]
               PROVE  Cardinality({i \in DOMAIN fired[t] : fired[t][i] = fired[t][j]})
                        <= 1 + starts + calls * Cardinality(Managers)
    BY DEF RefiresBounded
  <2> DEFINE k == fired[t][j]
             I == {i \in DOMAIN fired[t] : fired[t][i] = k}
             f == [i \in I |-> << "ran", i >>]
  <2>1. fired[t] \in Seq(Int) /\ k \in Int
    BY <1>1 DEF TypeOK, StoreTypeOK
  <2>2. /\ IsFiniteSet(Runs(t, k)) /\ Cardinality(Runs(t, k)) <= Allowance
        /\ Cardinality(Runs(t, k)) \in Nat /\ Allowance \in Nat
    <3> HIDE DEF k
    <3>1. QED
      BY <1>1, <2>1, FS_CardinalityType, AllowanceType DEF RunsBounded, Allowance
  <2>3. f \in Injection(I, Runs(t, k))
    <3>1. f \in [I -> Runs(t, k)]
      BY DEF Runs, Ran
    <3>2. \A a, b \in I : f[a] = f[b] => a = b
      OBVIOUS
    <3>3. QED
      <4> HIDE DEF f, I
      <4>1. QED
        BY <3>1, <3>2 DEF Injection, IsInjective
  <2>4. /\ IsFiniteSet(I) /\ Cardinality(I) <= Cardinality(Runs(t, k))
    <3> HIDE DEF f, I, k
    <3>1. QED
      BY <2>2, <2>3, FS_Injection
  <2>5. Cardinality(I) \in Nat
    BY <2>4, FS_CardinalityType
  <2>6. QED
    <3>1. Cardinality(I) <= Allowance
      BY <2>2, <2>4, <2>5
    <3>2. QED
      BY <3>1 DEF Allowance
<1>2. QED
  BY <1>1, RunsInvariant, TypeCorrect, PTL
=============================================================================
