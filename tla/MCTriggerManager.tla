-------------------------- MODULE MCTriggerManager --------------------------
(***************************************************************************)
(* Instances of TriggerManager for TLC.                                     *)
(***************************************************************************)
EXTENDS TriggerManager

CONSTANTS m1, m2, c1, t1, t2

Every1 == [type |-> "interval", every |-> 1, anchor |-> NoTime, misfire |-> "skip"]
Once1 == [type |-> "once", at |-> 1]
Once2 == [type |-> "once", at |-> 2]
Cron13 == [type |-> "cron", instants |-> {1, 3}, misfire |-> "skip"]

SteadyConditions == {Every1, Once2, Cron13}
FullConditions == {Every1, Once2}
RestartConditions == {Every1, Once1}
OneOwner == [t \in Tasks |-> "owner"]
=============================================================================
