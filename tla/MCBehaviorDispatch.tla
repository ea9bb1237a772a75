------------------------- MODULE MCBehaviorDispatch -------------------------
(* Instances of BehaviorDispatch. *)
EXTENDS BehaviorDispatch

CONSTANTS mention1, mention2, help1, help2, l1, l2, h1, h2, author,
          help, wakeUp, greet

\* h1 is shared by two lives; in h2 only scheduled triggers wake.
MCHabitatOf == [m \in Messages |-> h1]
MCLivesOf == [h \in Habitats |-> IF h = h1 THEN <<l1, l2>> ELSE <<l1>>]
MCActorOf == [m \in Messages |-> author]

\* help2 also matches the rule that greets, when the command has not cooled down.
MCCommandOf == [m \in Messages |-> IF m \in {help1, help2} THEN help ELSE None]
MCRulesOf ==
  [m \in Messages |-> CASE m \in {mention1, mention2} -> <<wakeUp>>
                        [] m = help2 -> <<greet>>
                        [] OTHER -> <<>>]

CommandGap == [c \in Commands |-> 2]
CommandFree == [c \in Commands |-> 0]
RuleTwo == [r \in Rules |-> 2]
RuleFree == [r \in Rules |-> 0]
=============================================================================
