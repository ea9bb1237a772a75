------------------------- MODULE MCStimulusRuntime -------------------------
(***************************************************************************)
(* Instances of StimulusRuntime for TLC: two group chats, a life present in *)
(* both and one present in the first only.                                  *)
(***************************************************************************)
EXTENDS StimulusRuntime

CONSTANTS g1, g2, both, own, msg1, msg2, wake1, sys1, sys2

InGroups == [s \in Stimuli |-> IF s \in {msg2, sys2} THEN g2 ELSE g1]
InstantFirst == [s \in Stimuli |-> IF s = wake1 THEN 0 ELSE 1]
Residents == [h \in Habitats |-> IF h = g1 THEN <<both, own>> ELSE <<both>>]
WakesOwn == [s \in Wakes |-> own]
=============================================================================
