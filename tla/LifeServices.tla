---------------------------- MODULE LifeServices ----------------------------
(***************************************************************************)
(* What a life remembers, does and says: the memory service, the execution *)
(* of plans with the bond service, the turns of wake-ups, and the rounds   *)
(* of a tool loop on the wire.  They share no state, so a behaviour        *)
(* follows one of them and the others stay as they began; the counters of  *)
(* calls and failures serve whichever it is.                               *)
(***************************************************************************)
EXTENDS Integers, SequencesExt

CONSTANTS
  None, Life,
  Chats,                               \* where the life works and remembers
  Backends, CandidateLimit, ContextLimit, AiSelector,
  Told, Recalled, Consolidations, Cap, MaxEntries, MaxCalls,         \* MemoryService
  PlansOf, Policies, Asked, MaxBonds, MaxPlans,                      \* BehaviorExecution
  TurnChats, LivesOf, AnswersOf, MaxRounds, MaxSegments, DefaultWindow,
  MemoryLimit, MaxHistory, MaxChannels, MaxWakes, MaxArrivals,       \* WakeTurn
  Protocols, Openings, MaxBlocks, MaxPerAnswer,                      \* ToolConversation
  MaxFaults

VARIABLES
  part,                                              \* what a behaviour follows
  backend, calls, faults,
  store, saved, work, told, revivals, leaked,        \* MemoryService
  bonds, made, asking, answered, disturbed, stray,   \* BondService
  policy, memoryUp, exec, listening, report,         \* BehaviorExecution
  bot, turn, history, channels, seen, created, sending, wakes,  \* WakeTurn
  talk, asked, phase, blocks                         \* ToolConversation

memoryVars == <<store, saved, work, told, revivals, leaked>>
planVars == <<bonds, made, asking, answered, disturbed, stray,
              policy, memoryUp, exec, listening, report>>
wakeVars == <<bot, turn, history, channels, seen, created, sending, wakes>>
talkVars == <<talk, asked, phase, blocks>>
vars == <<part, backend, calls, faults, memoryVars, planVars, wakeVars, talkVars>>

Memory == INSTANCE MemoryService WITH RequestsOf <- Told, ContextRequests <- Recalled
Plans == INSTANCE BehaviorExecution WITH ContextRequests <- Asked, MaxCalls <- MaxPlans
Turns == INSTANCE WakeTurn WITH Chats <- TurnChats, MaxEntries <- MaxHistory
Talks == INSTANCE ToolConversation

(***************************************************************************)
(* Assumptions.                                                            *)
(***************************************************************************)
ASSUME LimitsAssumption ==
  /\ \A limit \in {CandidateLimit, ContextLimit, Cap, MaxEntries, MaxCalls, MaxBonds,
                   MaxPlans, DefaultWindow, MemoryLimit, MaxWakes, MaxArrivals, MaxBlocks,
                   MaxPerAnswer, MaxFaults} :
       limit \in Nat
  /\ \A limit \in {MaxRounds, MaxSegments, MaxHistory, MaxChannels} : limit \in Nat \ {0}
  /\ AiSelector \in BOOLEAN

\* None is not a request; and what a memory is asked to be kept of a stimulus is
\* asked in its chat, with who and where the stimulus came from.
ASSUME RequestsAssumption ==
  /\ \A r \in Memory!Requests : r # None /\ r.imp \in 0..100
  /\ \A c, d \in Chats : \A r \in Told[c] : \A s \in Told[d] :
       r.stim = s.stim /\ r.stim # None =>
         /\ c = d
         /\ << r.actor, r.habitat, r.thread, r.event, r.news >>
              = << s.actor, s.habitat, s.thread, s.event, s.news >>

\* A plan asks for actions of four types, each at most once, and its bond update
\* suggests a scale from 0 to 100; None is nobody, and no one's name.
ASSUME PlansAssumption ==
  /\ \A c \in Chats : \A p \in PlansOf[c] :
       /\ p.does \subseteq {"dialogue", "memory-update", "bond-update", "homeostasis-update"}
       /\ p.bond.suggestion \in 0..100
  /\ \A q \in Asked : None \notin Plans!Named(q)

\* A model answers with a sequence of tool calls.
ASSUME AnswersAssumption ==
  \A c \in TurnChats : AnswersOf[c] \subseteq Seq(Turns!Calls)

-----------------------------------------------------------------------------
Init ==
  /\ part \in {"memory", "plans", "turns", "talks"}
  /\ Memory!Init /\ Plans!Init /\ Turns!Init /\ Talks!ConversationInit

Next ==
  /\ UNCHANGED part
  /\ \/ part = "memory" /\ Memory!Next /\ UNCHANGED <<planVars, wakeVars, talkVars>>
     \/ part = "plans" /\ Plans!Next /\ UNCHANGED <<memoryVars, wakeVars, talkVars>>
     \/ part = "turns" /\ Turns!Next /\ UNCHANGED <<backend, calls, memoryVars, planVars, talkVars>>
     \/ /\ part = "talks" /\ Talks!ConversationNext
        /\ UNCHANGED <<backend, calls, faults, memoryVars, planVars, wakeVars>>

Spec == Init /\ [][Next]_vars
-----------------------------------------------------------------------------
\* Type correctness of the services.
TypeOK ==
  /\ part = "memory" => Memory!TypeOK
  /\ part = "plans" => Plans!TypeOK
  /\ part = "turns" => Turns!TypeOK

\* Memory: the limit holds at rest, what was told stays stored, one memory per
\* source; and no context, of memories or of bonds, shows what its reader may not
\* see or did not ask about (see MemoryService and BondService).
CapAtRest == Memory!CapAtRest
ToldIsStored == Memory!ToldIsStored
OneActivePerSource == Memory!OneActivePerSource
ContextKeepsVisibility == Memory!ContextKeepsVisibility /\ Plans!ContextNamesAsked

\* Plans: reports that tell what failed and listeners that end with their
\* action, exact bonds (see BehaviorExecution and BondService).
ReportedAsItWent == Plans!ReportedAsItWent
BondsExact == Plans!BondsExact

\* Wake-ups: well-formed requests, a history that tells what was said, and outputs
\* sent once and in order, which fail to be sent only where nothing leads to the
\* chat (see WakeTurn).
RequestsWellFormed == Turns!RequestsWellFormed
HistoryTellsWhatWasSaid == Turns!HistoryTellsWhatWasSaid
SentOnceInOrder == Turns!SentOnceInOrder /\ Turns!NowhereToGo

\* Conversations on the wire: requests any provider can take, and the one that the
\* Responses API does not get (see ToolConversation).
RequestsFaithful == Talks!RequestsFaithful
ResponsesPaired == Talks!ResponsesPaired
=============================================================================
