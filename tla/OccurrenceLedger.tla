-------------------------- MODULE OccurrenceLedger --------------------------
(***************************************************************************)
(* What scheduled triggers promise while their managers stay up: a task is  *)
(* on at most one occurrence at a time, an occurrence is fired at most once,*)
(* and occurrences are fired in the order of their instants (doc comment of *)
(* occurrenceKey, core/src/types/trigger-task.ts: the same occurrence runs  *)
(* only once).                                                              *)
(***************************************************************************)
EXTENDS Integers, Sequences

CONSTANTS Tasks, NoTime

VARIABLES
  next,   \* the instant each task is to be fired for, or NoTime
  log     \* the instants it has been fired for

vars == <<next, log>>

Init ==
  /\ next \in [Tasks -> Nat \cup {NoTime}]
  /\ log = [t \in Tasks |-> <<>>]

Fire(t) ==
  /\ next[t] # NoTime
  /\ log' = [log EXCEPT ![t] = Append(@, next[t])]
  /\ next' = [next EXCEPT ![t] = NoTime]

\* A new occurrence lies after everything already fired.
Reschedule(t) ==
  /\ next[t] = NoTime
  /\ next'[t] \in Nat
  /\ \A i \in DOMAIN log[t] : log[t][i] < next'[t]
  /\ next' = [next EXCEPT ![t] = next'[t]]
  /\ UNCHANGED log

\* The repository failed: the task ends in error without firing.
GiveUp(t) ==
  /\ next' = [next EXCEPT ![t] = NoTime]
  /\ UNCHANGED log

Next == \E t \in Tasks : Fire(t) \/ Reschedule(t) \/ GiveUp(t)

Spec == Init /\ [][Next]_vars
=============================================================================
