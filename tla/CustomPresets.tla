---------------------------- MODULE CustomPresets ----------------------------
(***************************************************************************)
(* Protocols as data: the engine of protocol-custom with its four presets, *)
(* each a description of one of the built-in protocols.  A preset has the  *)
(* messages shaped by the encoder of that protocol, puts fields of the     *)
(* request where its body has them, and finds text and tool calls in the   *)
(* answer by paths, filters and aliases.                                   *)
(***************************************************************************)
EXTENDS ProtocolMessages

\* A field of the request in the body; an empty one may be left out.
Leaf(field, omitIfEmpty) == [field |-> field, omitIfEmpty |-> omitIfEmpty]
Match(path, op, value) == [path |-> path, op |-> op, value |-> value]

ChatPreset == [
  shape |-> "chat", body |-> "messages" :> Leaf("messages", FALSE),
  messages |-> "messages", system |-> "",
  textPath |-> "message.content", textFilter |-> {}, toolCallsPath |-> "message.tool_calls",
  reasoningPath |-> "message.reasoning_content", reasoningFilter |-> {},
  ids |-> <<"id", "call_id">>]

AnthropicPreset == [
  shape |-> "anthropic",
  body |-> "messages" :> Leaf("messages", FALSE) @@ "system" :> Leaf("instructions", TRUE),
  messages |-> "messages", system |-> "system",
  textPath |-> "content", textFilter |-> {Match("type", "equals", "text")},
  reasoningPath |-> "content", reasoningFilter |-> {Match("type", "equals", "thinking")},
  toolCallsPath |-> "content", ids |-> <<"id">>]

GeminiPreset == [
  shape |-> "gemini",
  body |-> "contents" :> Leaf("messages", FALSE)
           @@ "systemInstruction" :> Leaf("instructions", FALSE),
  messages |-> "contents", system |-> "systemInstruction",
  textPath |-> "parts",
  textFilter |-> {Match("thought", "isFalse", ""), Match("functionCall", "isNull", "")},
  reasoningPath |-> "parts", reasoningFilter |-> {Match("thought", "isTrue", "")},
  toolCallsPath |-> "parts", ids |-> <<"functionCall.name">>]

ResponsesPreset == [
  shape |-> "responses",
  body |-> "input" :> Leaf("input_items", FALSE) @@ "instructions" :> Leaf("instructions", TRUE),
  messages |-> "input", system |-> "instructions",
  textPath |-> "output", textFilter |-> {Match("type", "equals", "message")},
  reasoningPath |-> "output", reasoningFilter |-> {Match("type", "equals", "reasoning")},
  toolCallsPath |-> "output", ids |-> <<"id", "call_id">>]

Presets ==
  "openai-chat" :> ChatPreset @@ "anthropic-messages" :> AnthropicPreset
    @@ "gemini-generate" :> GeminiPreset @@ "openai-responses" :> ResponsesPreset

ShapeOf(protocol) == IF protocol \in DOMAIN Presets THEN Presets[protocol].shape ELSE protocol

(***************************************************************************)
(* Requests.                                                               *)
(***************************************************************************)
\* The fields of the request, the messages in the preset's shape.  The bridge sets
\* no instructions: the system text is a message, which only one shape keeps.
Context(shaped) ==
  "messages" :> shaped.wire @@ "input_items" :> shaped.wire @@ "instructions" :> <<>>

\* The body with its fields filled in; then the empty ones are taken out again.
Rendered(body, context) ==
  [path \in {p \in DOMAIN body : ~(body[p].omitIfEmpty /\ context[body[p].field] = <<>>)} |->
     context[body[path].field]]

Render(protocol, talk) ==
  LET preset == Presets[protocol]
      shaped == Shaped(preset.shape, talk)
      body == Rendered(preset.body, Context(shaped))
  IN  [protocol |-> protocol,
       system |-> IF preset.system \in DOMAIN body THEN body[preset.system] ELSE <<>>,
       wire |-> body[preset.messages], failed |-> shaped.failed]

(***************************************************************************)
(* Answers.                                                                *)
(***************************************************************************)
\* What the elements of an answer are told apart by: in Gemini by which fields a
\* part has, elsewhere by a type.
Element(shape, b) ==
  IF shape = "gemini"
  THEN CASE b.kind = "thought" -> "thought" :> "true"
         [] b.kind = "call" -> "functionCall" :> b.name
         [] OTHER -> <<>>
  ELSE "type" :> CASE b.kind = "thought" /\ shape = "anthropic" -> "thinking"
                   [] b.kind = "thought" /\ shape # "anthropic" -> "reasoning"
                   [] b.kind = "call" -> "call"
                   [] b.kind \in {"text", "refusal"} /\ shape = "responses" -> "message"
                   [] OTHER -> b.kind

\* What is not there is not true, and nothing else.
Holds(element, match) ==
  LET found == match.path \in DOMAIN element
  IN  CASE match.op = "isNull" -> ~found
        [] match.op = "isFalse" -> ~found \/ element[match.path] # "true"
        [] match.op = "isTrue" -> found /\ element[match.path] = "true"
        [] match.op = "equals" -> found /\ element[match.path] = match.value

\* The blocks under a path: Chat Completions has a field for each kind, the others
\* have everything in one place.
At(answer, path) ==
  CASE path = "message.content" -> OfKind(answer, {"text"})
    [] path = "message.reasoning_content" -> OfKind(answer, {"thought"})
    [] path = "message.tool_calls" -> OfKind(answer, {"call"})
    [] OTHER -> answer

\* Where an object has none of the keys of a text, its JSON is the text.
JsonOf(value) == [i \in DOMAIN value |-> -value[i]]
TextOf(b) == IF b.kind = "refusal" THEN JsonOf(b.value) ELSE b.value

Filtered(shape, answer, path, filter) ==
  SelectSeq(At(answer, path), LAMBDA b : \A match \in filter : Holds(Element(shape, b), match))

TextAt(shape, answer, path, filter) ==
  LET blocks == Filtered(shape, answer, path, filter)
  IN  FlattenSeq([i \in DOMAIN blocks |-> TextOf(blocks[i])])

\* The id of a call: the first alias that is there, or else its place in the list.
OfItem(k) == <<"item", k>>
Placed(i) == <<"place", i>>

IdsOn(shape, b) ==
  (IF shape = "gemini" THEN "functionCall.name" :> Named(b.name)
   ELSE IF shape = "responses" THEN "id" :> OfItem(b.value[1]) ELSE <<>>)
  @@ (IF b.id = NoId THEN <<>>
      ELSE IF shape = "responses" THEN "call_id" :> b.id ELSE "id" :> b.id)

IdOf(preset, b, i) ==
  LET there == SelectSeq(preset.ids, LAMBDA key : key \in DOMAIN IdsOn(preset.shape, b))
  IN  IF there = <<>> THEN Placed(i - 1) ELSE IdsOn(preset.shape, b)[Head(there)]

\* A text that is no JSON is made a JSON string.
Quoted(k) == <<"quoted", k>>
JsonText(args) ==
  CASE args \in {NoArgs, EmptyObject} -> EmptyObject
    [] args[1] = "broken" -> Quoted(args[2]) [] OTHER -> args

\* What has no name is no call, but counts for the places.
CallsAt(preset, answer) ==
  LET list == At(answer, preset.toolCallsPath)
      named == SelectSeq([i \in DOMAIN list |-> i], LAMBDA i : list[i].kind = "call")
  IN  [j \in DOMAIN named |->
         LET b == list[named[j]]
         IN  [id |-> IdOf(preset, b, named[j]), name |-> b.name, args |-> JsonText(b.args)]]

MapAnswer(protocol, answer) ==
  LET preset == Presets[protocol]
      Found(path, filter) == TextAt(preset.shape, answer, path, filter)
  IN  [text |-> Found(preset.textPath, preset.textFilter),
       reasoning |-> Found(preset.reasoningPath, preset.reasoningFilter),
       calls |-> CallsAt(preset, answer)]

\* An answer in which nothing is found is an error.
Understood(protocol, answer) ==
  protocol \in DOMAIN Presets =>
    LET found == MapAnswer(protocol, answer)
    IN  found.text # <<>> \/ found.reasoning # <<>> \/ found.calls # <<>>

-----------------------------------------------------------------------------
\* Any provider: a built-in protocol, or a custom one.
EncodeFor(protocol, talk) ==
  IF protocol \in DOMAIN Presets THEN Render(protocol, talk) ELSE Encode(protocol, talk)

DecodeFor(protocol, answer) ==
  IF protocol \notin DOMAIN Presets THEN Decode(protocol, answer)
  ELSE LET found == MapAnswer(protocol, answer)
       IN  Message("assistant", found.text, found.calls, NoId)
=============================================================================
