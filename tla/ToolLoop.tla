------------------------------ MODULE ToolLoop ------------------------------
(***************************************************************************)
(* The tool loop of a wake-up: rounds of a model that calls tools           *)
(* (brain/src/tool-loop.ts, brain/src/index.ts), the tools it decides its   *)
(* output with (behavior/src/tools.ts) and what comes of them.  Operators   *)
(* over the record of one loop; WakeTurn runs the loops.                    *)
(***************************************************************************)
EXTENDS Integers, SequencesExt

CONSTANTS
  MaxRounds,       \* model calls of one loop
  MaxSegments,     \* messages one loop may send
  DefaultWindow    \* messages of a brain request that asks for no window of its own

\* Messages: an assistant message knows how many tools it calls, the result of a
\* tool which of these calls it answers.
System == [role |-> "system"]
User == [role |-> "user"]
Assistant(n) == [role |-> "assistant", calls |-> n]
Result(i) == [role |-> "tool", call |-> i]

\* What a tool call does to the loop.  "other" stands for get_event_history,
\* add_reaction, the trigger tool, an empty reply, a tool the model invented and
\* one that throws: each has a result and no part in the output.
Calls == {"send_reply", "stay_silent", "other"}

NewLoop(messages) ==
  [messages |-> messages, round |-> 0, segments |-> <<>>, silent |-> FALSE, stop |-> "none"]

\* Mutant: the loop leaves the window of messages to the brain.
DefaultOfBrain(messages) ==
  SubSeq(messages, IF Len(messages) > DefaultWindow THEN Len(messages) - DefaultWindow + 1 ELSE 1,
         Len(messages))

\* The window of a loop is 0, which is none.
InWindow(messages) == messages

\* Persona, memories and bonds make one system message; the budget cuts texts
\* short, and drops none.
SystemPrompt == <<System>>

\* What the brain asks the model gateway.
Request(messages) == SystemPrompt \o InWindow(messages)

\* stripLeadingSystem of what a provider echoes: the request and its answer.
Echo(messages, calls) == Tail(Append(Request(messages), Assistant(Len(calls))))

\* Mutant: replies are not counted.
DecideUnbounded(loop, call) ==
  CASE call = "send_reply" -> [loop EXCEPT !.silent = FALSE, !.segments = Append(@, Len(@) + 1)]
    [] call = "stay_silent" -> [loop EXCEPT !.silent = TRUE]
    [] OTHER -> loop

\* execute() of the output tools; a text is the number of its segment.
Decide(loop, call) ==
  CASE call = "send_reply" /\ Len(loop.segments) < MaxSegments ->
         [loop EXCEPT !.silent = FALSE, !.segments = Append(@, Len(@) + 1)]
    [] call = "stay_silent" -> [loop EXCEPT !.silent = TRUE]
    [] OTHER -> loop

\* One round: the model answers with tool calls, each is executed and its result
\* appended; an answer without calls is the last.
Round(loop, calls) ==
  LET asked == [loop EXCEPT !.round = @ + 1, !.messages = Echo(@, calls)]
      after[i \in 0..Len(calls)] ==
        IF i = 0 THEN asked
        ELSE [Decide(after[i - 1], calls[i]) EXCEPT !.messages = Append(@, Result(i))]
  IN  [after[Len(calls)] EXCEPT !.stop = IF calls = <<>> THEN "completed"
                                         ELSE IF asked.round = MaxRounds THEN "max-rounds"
                                         ELSE "none"]

\* resolveWakeOutput: what is said, nothing if the last decision was silence.
Output(loop) == IF loop.silent THEN <<>> ELSE loop.segments

\* One system message in front, and every assistant message with tool calls
\* followed by the results of exactly these calls, in order.
WellFormed(request) ==
  /\ \A i \in 1..Len(request) : request[i] = System <=> i = 1
  /\ \A i \in 1..Len(request) :
       /\ request[i].role = "assistant" =>
            \A k \in 1..request[i].calls : i + k <= Len(request) /\ request[i + k] = Result(k)
       /\ request[i].role = "tool" =>
            LET a == i - request[i].call
            IN  a >= 1 /\ request[a].role = "assistant" /\ request[a].calls >= request[i].call
=============================================================================
