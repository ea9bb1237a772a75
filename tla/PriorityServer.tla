--------------------------- MODULE PriorityServer ---------------------------
(***************************************************************************)
(* What the runtime promises about the stimuli of a habitat                 *)
(* (docs/elysia-ai-architecture.md 3.2): they are served one at a time, the *)
(* lowest priority value first, first come first served among equals, the   *)
(* one being served is never preempted, habitats are independent, and a     *)
(* habitat is not idle while one of its stimuli waits.                      *)
(***************************************************************************)
EXTENDS Integers

CONSTANTS Stimuli, Habitats, None, HabitatOf, Priority

VARIABLES
  ticket,    \* order of acceptance, 0 for a stimulus not accepted yet
  accepted,  \* how many were accepted
  waiting,   \* habitat -> accepted stimuli not served yet
  serving    \* habitat -> the stimulus being served, or None

vars == <<ticket, accepted, waiting, serving>>

\* s goes before t.
Before(s, t) ==
  Priority[s] < Priority[t] \/ (Priority[s] = Priority[t] /\ ticket[s] < ticket[t])

Init ==
  /\ ticket = [s \in Stimuli |-> 0]
  /\ accepted = 0
  /\ waiting = [h \in Habitats |-> {}]
  /\ serving = [h \in Habitats |-> None]

Accept(s) ==
  /\ ticket[s] = 0
  /\ accepted' = accepted + 1
  /\ ticket' = [ticket EXCEPT ![s] = accepted + 1]
  /\ IF serving[HabitatOf[s]] = None
       THEN serving' = [serving EXCEPT ![HabitatOf[s]] = s] /\ UNCHANGED waiting
       ELSE waiting' = [waiting EXCEPT ![HabitatOf[s]] = @ \cup {s}] /\ UNCHANGED serving

\* The habitat is done with a stimulus, and turns to the next one in order.
Turn(h) ==
  /\ serving[h] # None
  /\ \/ /\ waiting[h] = {}
        /\ serving' = [serving EXCEPT ![h] = None]
        /\ UNCHANGED waiting
     \/ \E s \in waiting[h] :
          /\ \A t \in waiting[h] \ {s} : Before(s, t)
          /\ serving' = [serving EXCEPT ![h] = s]
          /\ waiting' = [waiting EXCEPT ![h] = @ \ {s}]
  /\ UNCHANGED <<ticket, accepted>>

Next == (\E s \in Stimuli : Accept(s)) \/ (\E h \in Habitats : Turn(h))

Spec == Init /\ [][Next]_vars
=============================================================================
