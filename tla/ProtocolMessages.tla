-------------------------- MODULE ProtocolMessages --------------------------
(***************************************************************************)
(* A conversation on its way to a model and back: the messages of the tool *)
(* loop become a request of one of the protocols (maheshvara-bridge.ts and *)
(* encode.ts of four packages), and the answer becomes a text and tool     *)
(* calls again (decode.ts, extract-tool-calls.ts).                         *)
(*                                                                         *)
(* A text is a sequence of tokens.  Requests of all protocols have one     *)
(* form: messages of a role and blocks; a Responses item is a message with *)
(* one block.  What a block has not is left empty.                         *)
(***************************************************************************)
EXTENDS Integers, SequencesExt

\* The ids of tool calls: none, one an upstream gave, the name of the function, one
\* an encoder made up from the position of the call.
NoId == <<"none">>
Given(k) == <<"given", k>>
Named(name) == <<"name", name>>
Synthesized(message, call) == <<"synthesized", message, call>>

\* The arguments of a call: none, an empty text, {}, a JSON object, a text that is
\* no JSON.
NoArgs == <<"none">>
EmptyText == <<"">>
EmptyObject == <<"{}">>
Json(k) == <<"json", k>>
Broken(k) == <<"broken", k>>

Message(role, text, calls, callId) ==
  [role |-> role, text |-> text, calls |-> calls, callId |-> callId]

Block(kind, id, name, args, value) ==
  [kind |-> kind, id |-> id, name |-> name, args |-> args, value |-> value]
TextBlock(text) == Block("text", NoId, "", NoArgs, text)

(***************************************************************************)
(* Requests.                                                               *)
(***************************************************************************)
\* The bridge: the result of a tool is one part, which alone carries the id of its
\* call; an empty text is no part at all.
Bridge(m) ==
  IF m.role = "tool"
  THEN [role |-> "tool", calls |-> <<>>,
        parts |-> <<[type |-> "tool_output", id |-> m.callId, value |-> m.text]>>]
  ELSE [role |-> m.role, calls |-> m.calls,
        parts |-> IF m.text = <<>> THEN <<>>
                  ELSE <<[type |-> "text", id |-> NoId, value |-> m.text]>>]

PartsOf(m, type) == SelectSeq(m.parts, LAMBDA part : part.type = type)
Texts(m) == [i \in DOMAIN PartsOf(m, "text") |-> TextBlock(PartsOf(m, "text")[i].value)]

\* An id for the wire, and the ids that had to be made up (the mutant: all of them);
\* messages and calls are counted from 0.
EnsureId(call, message, k) == IF call.id = NoId THEN Synthesized(message - 1, k - 1) ELSE call.id
MadeUpForAll(calls, message) ==
  [j \in DOMAIN calls |-> EnsureId(calls[j], message, j)]
MadeUp(calls, message) ==
  LET lacking == SelectSeq([k \in DOMAIN calls |-> k], LAMBDA k : calls[k].id = NoId)
  IN  [j \in DOMAIN lacking |-> Synthesized(message - 1, lacking[j] - 1)]

\* Arguments as text, whatever they are, and as the object they stand for.
\* An empty text is not parsed.
AsText(args) == IF args \in {NoArgs, EmptyText} THEN EmptyObject ELSE args
AsObject(args) == IF args = NoArgs \/ args[1] = "broken" THEN EmptyObject ELSE args

\* A message of the same role as the last one is made part of it.
Merge(wire, role, blocks) ==
  IF blocks = <<>> THEN wire
  ELSE IF wire # <<>> /\ Last(wire).role = role
       THEN [wire EXCEPT ![Len(wire)].blocks = @ \o blocks]
       ELSE Append(wire, [role |-> role, blocks |-> blocks])

\* Chat Completions: a message, then one for each result; a result without an id
\* takes the oldest id that was made up.
ChatMessage(acc, i, m) ==
  LET calls == [k \in DOMAIN m.calls |->
                  Block("call", EnsureId(m.calls[k], i, k), m.calls[k].name,
                        AsText(m.calls[k].args), <<>>)]
      blocks == Texts(m) \o calls
      Result(a, part) ==
        LET taken == part.id = NoId /\ a.queue # <<>>
        IN  [wire |-> Append(a.wire, [role |-> "tool",
                        blocks |-> <<Block("result", IF taken THEN Head(a.queue) ELSE part.id,
                                           "", NoArgs, part.value)>>]),
             queue |-> IF taken THEN Tail(a.queue) ELSE a.queue]
  IN  FoldLeft(Result,
        [wire |-> IF blocks = <<>> THEN acc.wire
                  ELSE Append(acc.wire, [role |-> m.role, blocks |-> blocks]),
         queue |-> acc.queue \o MadeUp(m.calls, i)],
        PartsOf(m, "tool_output"))

\* Anthropic: results belong to the user, without an id they are left out; an id
\* is made up from the number of blocks before the call.
AnthropicMessage(acc, i, m) ==
  LET results == SelectSeq(PartsOf(m, "tool_output"), LAMBDA part : part.id # NoId)
      before == Texts(m) \o [j \in DOMAIN results |->
                  Block("result", results[j].id, "", NoArgs, results[j].value)]
      calls == [k \in DOMAIN m.calls |->
                  Block("call", EnsureId(m.calls[k], i, Len(before) + k), m.calls[k].name,
                        AsObject(m.calls[k].args), <<>>)]
  IN  IF m.role = "system" THEN acc
      ELSE [acc EXCEPT !.wire =
              Merge(@, IF m.role = "tool" THEN "user" ELSE m.role, before \o calls)]

\* The user begins.
ConversationStart == <<[role |-> "user", blocks |-> <<TextBlock(<<>>)>>]>>
FromUser(wire) ==
  IF wire # <<>> /\ wire[1].role # "user" THEN ConversationStart \o wire ELSE wire

\* Gemini: a result names the function, which is that of the last call with its id;
\* there may be none.  An id that is the name is left out of the result, never of
\* the call.
NamesOf(messages) ==
  LET calls == SelectSeq(FlattenSeq([i \in DOMAIN messages |-> messages[i].calls]),
                         LAMBDA call : call.id # NoId)
  IN  [id \in {calls[k].id : k \in DOMAIN calls} |->
         calls[SelectLastInSeq(calls, LAMBDA call : call.id = id)].name]

GeminiMessage(acc, m, names) ==
  LET outputs == PartsOf(m, "tool_output")
      results == [j \in DOMAIN outputs |->
                    LET id == outputs[j].id
                    IN  Block("result", IF id = Named(names[id]) THEN NoId ELSE id,
                              names[id], NoArgs, outputs[j].value)]
      calls == [k \in DOMAIN m.calls |->
                  Block("call", m.calls[k].id, m.calls[k].name, AsObject(m.calls[k].args), <<>>)]
      role == CASE m.role = "assistant" -> "model" [] m.role = "tool" -> "user" [] OTHER -> m.role
  IN  IF m.role = "system" \/ acc.failed THEN acc
      ELSE IF \E j \in DOMAIN outputs : outputs[j].id \notin DOMAIN names
           THEN [acc EXCEPT !.failed = TRUE]
           ELSE [acc EXCEPT !.wire = Merge(@, role, Texts(m) \o results \o calls)]

\* Responses: the id of a result is looked for in the message, where the bridge
\* does not put it; a result that finds no id made up becomes something the user said.
ResponsesMessage(acc, i, m) ==
  LET Item(block) == [role |-> "item", blocks |-> <<block>>]
      calls == [k \in DOMAIN m.calls |->
                  Item(Block("call", EnsureId(m.calls[k], i, k), m.calls[k].name,
                             AsText(m.calls[k].args), <<>>))]
      text == IF Texts(m) = <<>> THEN <<>> ELSE <<[role |-> m.role, blocks |-> Texts(m)]>>
      output == PartsOf(m, "tool_output")[1].value
  IN  CASE m.role = "system" -> acc
        [] m.role = "tool" /\ acc.queue # <<>> ->
             [acc EXCEPT !.wire = Append(@, Item(Block("result", Head(acc.queue), "", NoArgs, output))),
                         !.queue = Tail(@)]
        [] m.role = "tool" /\ acc.queue = <<>> ->
             [acc EXCEPT !.wire = Append(@, [role |-> "user", blocks |-> <<TextBlock(output)>>])]
        [] OTHER -> [acc EXCEPT !.wire = @ \o text \o calls, !.queue = @ \o MadeUp(m.calls, i)]

\* Where the system messages have a place of their own.
Instructions(messages) ==
  FlattenSeq([i \in DOMAIN messages |->
                IF messages[i].role = "system" THEN messages[i].text ELSE <<>>])

\* The messages in the form of a protocol; the shape of a custom one is this too.
Shaped(protocol, talk) ==
  LET messages == [i \in DOMAIN talk |-> Bridge(talk[i])]
      names == NamesOf(messages)
      Step(acc, i) ==
        LET m == messages[i]
        IN  CASE protocol = "chat" -> ChatMessage(acc, i, m) @@ acc
              [] protocol = "anthropic" -> AnthropicMessage(acc, i, m)
              [] protocol = "gemini" -> GeminiMessage(acc, m, names)
              [] protocol = "responses" -> ResponsesMessage(acc, i, m)
      done == FoldLeft(Step, [wire |-> <<>>, queue |-> <<>>, failed |-> FALSE],
                       [i \in DOMAIN messages |-> i])
  IN  [wire |-> IF protocol = "anthropic" THEN FromUser(done.wire) ELSE done.wire,
       failed |-> done.failed]

Encode(protocol, talk) ==
  LET shaped == Shaped(protocol, talk)
  IN  [protocol |-> protocol,
       system |-> IF protocol = "chat" THEN <<>> ELSE Instructions(talk),
       wire |-> shaped.wire,
       failed |-> shaped.failed \/ (protocol = "gemini" /\ shaped.wire = <<>>)]

(***************************************************************************)
(* Answers: what the upstream says, in the order it says it, becomes       *)
(* output items.                                                           *)
(***************************************************************************)
MessageItem(parts) == [type |-> "message", parts |-> parts, call |-> <<>>]
Reasoning == [type |-> "reasoning", parts |-> <<>>, call |-> <<>>]
CallItem(call) == [type |-> "function_call", parts |-> <<>>, call |-> <<call>>]

OfKind(answer, kinds) == SelectSeq(answer, LAMBDA b : b.kind \in kinds)
CallOf(b) == [id |-> b.id, name |-> b.name, args |-> b.args]
\* Missing arguments are an empty text for Chat Completions.
TextCall(b) == [CallOf(b) EXCEPT !.args = IF @ = NoArgs THEN EmptyText ELSE @]
\* JSON.stringify of an object, which there always is.
Stringified(b) == [CallOf(b) EXCEPT !.args = AsText(@)]

ItemsOf(answer, Call(_)) ==
  [i \in DOMAIN answer |->
     CASE answer[i].kind = "call" -> CallItem(Call(answer[i]))
       [] answer[i].kind = "thought" -> Reasoning
       [] OTHER -> MessageItem(<<answer[i]>>)]

\* Chat Completions has the thoughts, one message and the calls, of the first choice.
ChatItems(answer) ==
  ItemsOf(OfKind(answer, {"thought"}), TextCall)
    \o <<MessageItem(OfKind(answer, {"text", "refusal"}))>>
    \o ItemsOf(OfKind(answer, {"call"}), TextCall)

\* Anthropic: a message ends where a thought or a call comes.
AnthropicItems(answer) ==
  LET Take(acc, b) ==
        IF b.kind \in {"thought", "call"} THEN Append(acc, ItemsOf(<<b>>, Stringified)[1])
        ELSE IF acc # <<>> /\ Last(acc).type = "message"
             THEN [acc EXCEPT ![Len(acc)].parts = Append(@, b)]
             ELSE Append(acc, MessageItem(<<b>>))
  IN  FoldLeft(Take, <<>>, answer)

\* Gemini: one message of all texts in front, if there are any.
GeminiItems(answer) ==
  LET said == OfKind(answer, {"text"})
  IN  (IF said = <<>> THEN <<>> ELSE <<MessageItem(said)>>)
        \o ItemsOf(OfKind(answer, {"thought", "call"}), Stringified)

\* Responses has items already; a call without a call_id goes by that of its item.
Itemised(b) == [CallOf(b) EXCEPT !.id = IF @ = NoId THEN Given(b.value[1]) ELSE @]
ResponsesItems(answer) == ItemsOf(answer, Itemised)

Items(protocol, answer) ==
  CASE protocol = "chat" -> ChatItems(answer) [] protocol = "anthropic" -> AnthropicItems(answer)
    [] protocol = "gemini" -> GeminiItems(answer) [] protocol = "responses" -> ResponsesItems(answer)

\* The text of all messages, and all calls.
MessageText(items) ==
  FlattenSeq([i \in DOMAIN items |->
    FlattenSeq([j \in DOMAIN items[i].parts |->
      IF items[i].parts[j].kind = "text" THEN items[i].parts[j].value ELSE <<>>])])
ToolCalls(items) == FlattenSeq([i \in DOMAIN items |-> items[i].call])

\* The assistant message a provider adds to what it was asked.
Decode(protocol, answer) ==
  LET items == Items(protocol, answer)
  IN  Message("assistant", MessageText(items), ToolCalls(items), NoId)
=============================================================================
