--------------------------- MODULE AnthropicStream ---------------------------
(***************************************************************************)
(* AnthropicStreamDecoder of @elysia-ai/protocol-anthropic.  A wire event  *)
(* has a type, given in its JSON or by the event: field in front of it.    *)
(* Thinking, signatures and citations are passed on like texts and are     *)
(* left out; blocks are numbered, and a tool call is one of them.          *)
(***************************************************************************)
EXTENDS Naturals, Sequences

Out(type, index, value) == [type |-> type, choice |-> 0, index |-> index, value |-> value]

\* No message_start has told its usage yet.
NoUsage == [input |-> 0, output |-> 0]

NewDecoder ==
  [terminal |-> FALSE,
   blocks |-> <<>>,     \* the blocks started: [index, tool, args]
   usage |-> NoUsage]   \* lastUsage

BlockAt(d, index) ==
  CHOOSE i \in 0..Len(d.blocks) :
    \/ i > 0 /\ d.blocks[i].index = index
    \/ i = 0 /\ \A j \in DOMAIN d.blocks : d.blocks[j].index # index

Step(d, events) == [decoder |-> d, events |-> events]

BlockStart(d, wire) ==
  Step([d EXCEPT !.blocks = Append(@, [index |-> wire.index, tool |-> wire.tool, args |-> <<>>])],
       <<Out(IF wire.tool THEN "added" ELSE "part", wire.index, <<>>)>>)

\* Arguments are added up in their block and passed on.
BlockDelta(d, wire) ==
  LET i == BlockAt(d, wire.index)
  IN IF wire.value = <<>> THEN Step(d, <<>>)
     ELSE IF wire.delta = "text_delta" THEN Step(d, <<Out("text", wire.index, wire.value)>>)
     ELSE Step(IF i = 0 THEN d ELSE [d EXCEPT !.blocks[i].args = @ \o wire.value],
               <<Out("args", wire.index, wire.value)>>)

BlockStop(d, wire) ==
  LET i == BlockAt(d, wire.index)
      tool == i # 0 /\ d.blocks[i].tool
  IN Step(d, (IF tool THEN <<Out("argsDone", wire.index, d.blocks[i].args)>> ELSE <<>>)
             \o <<Out("itemDone", wire.index, <<>>)>>)

\* message_start tells the input tokens, message_delta the output tokens so far:
\* what it lacks is taken from what was told last.
Merged(d, usage) ==
  [input |-> IF usage.input = 0 THEN d.usage.input ELSE usage.input, output |-> usage.output]

MessageStart(d, wire) ==
  Step([d EXCEPT !.usage = wire.usage],
       <<Out("created", 0, <<>>), Out("usage", 0, <<wire.usage>>)>>)

\* A stop_reason completes the response.
MessageDelta(d, wire) ==
  LET usage == Merged(d, wire.usage)
      stops == wire.finish # "none"
  IN Step([d EXCEPT !.usage = usage, !.terminal = @ \/ stops],
          <<Out("usage", 0, <<usage>>)>> \o (IF stops THEN <<Out("completed", 0, <<>>)>> ELSE <<>>))

\* message_stop and [DONE] complete a response only if nothing else did.
\* Mutant: they always do.
CompleteAgain(d) == Step([d EXCEPT !.terminal = TRUE], <<Out("completed", 0, <<>>)>>)
Complete(d) ==
  Step([d EXCEPT !.terminal = TRUE], IF d.terminal THEN <<>> ELSE <<Out("completed", 0, <<>>)>>)

Error(d) == Step([d EXCEPT !.terminal = TRUE], <<Out("failed", 0, <<>>)>>)

Decode(d, wire) ==
  CASE wire.type = "message_start" -> MessageStart(d, wire)
    [] wire.type = "content_block_start" -> BlockStart(d, wire)
    [] wire.type = "content_block_delta" -> BlockDelta(d, wire)
    [] wire.type = "content_block_stop" -> BlockStop(d, wire)
    [] wire.type = "message_delta" -> MessageDelta(d, wire)
    [] wire.type \in {"message_stop", "[DONE]"} -> Complete(d)
    [] wire.type = "error" -> Error(d)
    [] wire.type = "ping" -> Step(d, <<>>)
=============================================================================
