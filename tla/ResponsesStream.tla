--------------------------- MODULE ResponsesStream ---------------------------
(***************************************************************************)
(* ResponsesStreamDecoder of @elysia-ai/protocol-responses.  The wire      *)
(* events are what the other decoders produce, so most are passed on under *)
(* their own type: a wire event is [type, index, value], a typed one the   *)
(* decoder does not know included.  Nothing is remembered but the end.     *)
(***************************************************************************)
EXTENDS Naturals, Sequences

Out(type, index, value) == [type |-> type, choice |-> 0, index |-> index, value |-> value]

NewDecoder == [terminal |-> FALSE]

Step(d, events) == [decoder |-> d, events |-> events]
Ended(d, events) == Step([d EXCEPT !.terminal = TRUE], events)

Failures == {"response.failed", "response.incomplete", "error"}

Decode(d, wire) ==
  CASE wire.type = "[DONE]" ->
         Ended(d, IF d.terminal THEN <<>> ELSE <<Out("completed", 0, <<>>)>>)
    [] wire.type \in Failures -> Ended(d, <<Out("failed", 0, <<>>)>>)
    [] wire.type = "response.completed" ->
         Ended(d, <<Out("usage", 0, wire.value), Out("completed", 0, <<>>)>>)
    [] wire.type = "response.output_text.delta" -> Step(d, <<Out("text", wire.index, wire.value)>>)
    [] wire.type = "response.function_call_arguments.delta" ->
         Step(d, <<Out("args", wire.index, wire.value)>>)
    [] wire.type = "response.function_call_arguments.done" ->
         Step(d, <<Out("argsDone", wire.index, wire.value)>>)
    [] wire.type = "response.output_item.added" -> Step(d, <<Out("added", wire.index, <<>>)>>)
    [] wire.type = "response.output_item.done" ->
         Step(d, <<Out("itemDone", wire.index, wire.value)>>)
    [] OTHER -> IF wire.type = "" THEN Step(d, <<>>)
                ELSE Step(d, <<Out("other", wire.index, wire.value)>>)
=============================================================================
