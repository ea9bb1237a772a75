--------------------------- MODULE TriggerPlanner ---------------------------
(***************************************************************************)
(* The time arithmetic of scheduled triggers (trigger/src/trigger-planner)  *)
(* over the task document of core/src/types/trigger-task.  Everything here  *)
(* is a function of a document and a clock reading.                         *)
(*                                                                          *)
(* One time unit is one minute.  A document is flat: the definition (cond,  *)
(* enabled, created) and the fields of its state that decide anything.      *)
(* lastRunAt and lastError are diagnostics nothing reads, and are left out. *)
(***************************************************************************)
EXTENDS Integers

CONSTANTS
  Conditions,   \* the normalised trigger conditions tasks may carry
  Grace         \* resolveMisfire's 60_000 ms, in time units

NoTime == -1    \* null, for an instant
OnceAt == -2    \* the missing instant in the key of a once task

(***************************************************************************)
(* occurrenceKey: "<id>:once", "<id>:interval:<at>" or "<id>:cron:<i>:<at>".*)
(* Keys are compared within one task only, so the id is dropped; an         *)
(* instant determines the index of the cron expression that matches first.  *)
(***************************************************************************)
Key(type, at) == <<type, at>>
NoKey == Key("none", NoTime)

ConditionTypeOK(c) ==
  \/ c.type = "once" /\ c.at \in Nat
  \/ /\ c.type = "interval"
     /\ c.every \in Nat \ {0}
     /\ c.anchor \in Nat \cup {NoTime}
     /\ c.misfire \in {"skip", "fire_once"}
  \/ /\ c.type = "cron"
     /\ c.instants \in SUBSET Nat
     /\ c.misfire \in {"skip", "fire_once"}

ASSUME ConditionsAssumption == \A c \in Conditions : ConditionTypeOK(c)
ASSUME GraceAssumption == Grace \in Nat \ {0}

-----------------------------------------------------------------------------
NoOccurrence == [at |-> NoTime, key |-> NoKey]
Occurrence(type, at) == [at |-> at, key |-> Key(type, at)]

\* The anchor of an interval: anchorAt, or the creation of the task.
Anchor(c, created) == IF c.anchor = NoTime THEN created ELSE c.anchor

Earliest(S) == CHOOSE t \in S : \A u \in S : t <= u

\* Mutant: the last grid point up to `after` (the + 1 is dropped).
GridIndexAtOrBefore(c, after, created) ==
  (after - Anchor(c, created)) \div c.every

\* Index of the first grid point anchor + index * every after `after`.
GridIndex(c, after, created) ==
  LET next == ((after - Anchor(c, created)) \div c.every) + 1
  IN  IF next < 0 THEN 0 ELSE next

(***************************************************************************)
(* computeNextOccurrence.  The instants a cron condition's expressions      *)
(* match are its field `instants` (cron-parser decides them).               *)
(***************************************************************************)
NextOccurrence(c, after, created) ==
  CASE c.type = "once" ->
         IF c.at <= after
           THEN NoOccurrence
           ELSE [at |-> c.at, key |-> Key("once", OnceAt)]
    [] c.type = "interval" ->
         Occurrence("interval",
                    Anchor(c, created) + GridIndex(c, after, created) * c.every)
    [] c.type = "cron" ->
         LET later == {t \in c.instants : t > after}
         IN  IF later = {} THEN NoOccurrence
                           ELSE Occurrence("cron", Earliest(later))

Upcoming(doc, now) == NextOccurrence(doc.cond, now, doc.created)

-----------------------------------------------------------------------------
\* A document put on an occurrence, or completed when there is none.
Scheduled(doc, occ) ==
  [doc EXCEPT !.status = IF occ = NoOccurrence THEN "completed" ELSE "waiting",
              !.nextRunAt = occ.at,
              !.key = occ.key]

\* initialTriggerState: the state of a task created, enabled or rescheduled.
InitialTriggerState(doc, now) ==
  LET fresh == [doc EXCEPT !.runCount = 0, !.pausedUntil = NoTime]
  IN  IF doc.enabled
        THEN Scheduled(fresh, Upcoming(doc, now))
        ELSE [fresh EXCEPT !.status = "paused",
                           !.nextRunAt = NoTime,
                           !.key = NoKey]

\* Mutant: the run that completes a once task is not counted.
AfterTriggerRunUncounted(doc, now) ==
  IF doc.cond.type = "once"
    THEN Scheduled(doc, NoOccurrence)
    ELSE Scheduled([doc EXCEPT !.runCount = @ + 1], Upcoming(doc, now))

\* afterTriggerRun: the state after a run that began at `now`.
AfterTriggerRun(doc, now) ==
  Scheduled([doc EXCEPT !.runCount = @ + 1],
            IF doc.cond.type = "once" THEN NoOccurrence ELSE Upcoming(doc, now))

\* Mutant: once tasks are skipped like the others.
ResolveMisfireSkipsOnce(c, scheduledAt, now) ==
  IF now - scheduledAt < Grace \/ (c.type # "once" /\ c.misfire = "fire_once")
    THEN "fire" ELSE "skip"

\* resolveMisfire: what a restart does with an occurrence already due.
ResolveMisfire(c, scheduledAt, now) ==
  IF \/ now - scheduledAt < Grace
     \/ c.type = "once"
     \/ c.misfire = "fire_once"
    THEN "fire" ELSE "skip"
=============================================================================
