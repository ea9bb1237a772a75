--------------------------- MODULE ProtocolStreams ---------------------------
(***************************************************************************)
(* A model's answer on its way: an upstream says it piece by piece in the  *)
(* events of its protocol, the events are framed as server-sent events,    *)
(* the transport cuts them into chunks wherever it likes, and the parser   *)
(* and the decoder of the protocol turn the chunks into stream events.     *)
(*                                                                         *)
(* What the upstream meant is kept in `said`; tokens are numbered as they  *)
(* are said, so that one lost, repeated or displaced shows.                *)
(***************************************************************************)
EXTENDS Naturals, Sequences, FiniteSets, SequencesExt

CONSTANTS
  Upstreams,   \* the upstreams to consider: <<protocol, how it frames its events>>
  MaxSaid,     \* tokens of one answer, of texts and arguments together
  ChoiceIds,   \* the choices of an answer where a protocol has several
  Tools,       \* the tool calls of one choice
  MaxCalled    \* and of all its choices together

Sse == INSTANCE SseParser
Chat == INSTANCE ChatStream
Anthropic == INSTANCE AnthropicStream
Gemini == INSTANCE GeminiStream
Responses == INSTANCE ResponsesStream
Custom == INSTANCE CustomStream

VARIABLES
  protocol, style,
  config,    \* the configuration of a custom protocol
  said,      \* what the upstream said: [text, args, begun, called, stopped, finished, ...]
  wire,      \* the symbols under way
  stream,    \* "open", or "cut" when the connection ended
  parser, decoder,
  out,       \* the stream events, in order
  torn       \* did a text arrive that is no JSON?

streamVars == <<protocol, style, config, said, wire, stream, parser, decoder, out, torn>>

Slots == ChoiceIds \X Tools

\* Only two of the protocols know several choices.
ChoicesOf(p) == IF p \in {"chat", "gemini"} THEN ChoiceIds ELSE {0}

NewDecoder(p) ==
  CASE p = "chat" -> Chat!NewDecoder [] p = "anthropic" -> Anthropic!NewDecoder
    [] p = "gemini" -> Gemini!NewDecoder [] p = "responses" -> Responses!NewDecoder
    [] p = "custom" -> Custom!NewDecoder

StreamInit ==
  /\ \E up \in Upstreams : protocol = up[1] /\ style = up[2]
  /\ config \in [mode : {"delta", "cumulative"}, framed : BOOLEAN, ends : SUBSET {"stop", "error"}]
  /\ ~config.framed => config.ends = {}
  /\ protocol # "custom" => config = [mode |-> "delta", framed |-> FALSE, ends |-> {}]
  /\ said = [text |-> [c \in ChoiceIds |-> <<>>], args |-> [s \in Slots |-> <<>>],
             begun |-> {}, called |-> <<>>, stopped |-> {}, finished |-> {}, late |-> FALSE,
             broken |-> {}, failed |-> 0, marked |-> FALSE, tokens |-> 0, input |-> 0]
  /\ wire = <<>> /\ stream = "open" /\ out = <<>> /\ torn = FALSE
  /\ parser = Sse!NewParser /\ decoder = NewDecoder(protocol)

(***************************************************************************)
(* The upstream's side: the wire event for each thing it says.             *)
(***************************************************************************)
ChatChoice(c) == [index |-> c, form |-> "delta", content |-> <<>>, reasoning |-> <<>>,
                  tools |-> <<>>, finish |-> "none"]
ChatChunk(choice) == [type |-> "chunk", choices |-> <<choice>>]
GeminiChunk(c, parts, finish) ==
  [type |-> "chunk", blocked |-> FALSE,
   candidates |-> <<[index |-> c, parts |-> parts, finish |-> finish]>>]
CustomFrame(type) ==
  [type |-> type, text |-> <<>>, tool |-> Custom!NoTool, error |-> FALSE, finish |-> FALSE]

\* A custom upstream says what is new or all there is, as its configuration has it.
Shown(all, new) == IF config.mode = "cumulative" THEN all ELSE new

TextWire(c, new, all) ==
  CASE protocol = "chat" -> ChatChunk([ChatChoice(c) EXCEPT !.content = new])
    [] protocol = "anthropic" ->
         [type |-> "content_block_delta", index |-> 0, delta |-> "text_delta", value |-> new]
    [] protocol = "gemini" ->
         GeminiChunk(c, <<[kind |-> "text", value |-> new, id |-> Gemini!NoId]>>, "none")
    [] protocol = "responses" -> [type |-> "response.output_text.delta", index |-> 0, value |-> new]
    [] protocol = "custom" -> [CustomFrame("text") EXCEPT !.text = Shown(all, new)]

\* The call of a tool begins: its identity, without arguments.  A Gemini upstream
\* sends a call whole, the second one with an id of its own; a custom one may send
\* it whole, or with the empty text for its arguments.
CallForms == IF protocol = "custom" THEN {"none", "text", "json"} ELSE
             IF protocol = "gemini" THEN {"json"} ELSE {"none"}
CallWire(c, t, form, args) ==
  CASE protocol = "chat" ->
         ChatChunk([ChatChoice(c) EXCEPT !.tools = <<[index |-> t, args |-> <<>>]>>])
    [] protocol = "anthropic" -> [type |-> "content_block_start", index |-> t, tool |-> TRUE]
    [] protocol = "gemini" ->
         GeminiChunk(c, <<[kind |-> "functionCall", value |-> args,
                           id |-> IF t = 1 THEN Gemini!NoId ELSE <<"call", t>>]>>, "none")
    [] protocol = "responses" -> [type |-> "response.output_item.added", index |-> t, value |-> <<>>]
    [] protocol = "custom" ->
         [CustomFrame("tool") EXCEPT !.tool =
            [index |-> t, id |-> t, form |-> form, args |-> args]]

\* More arguments.  A custom upstream may repeat whose they are, and what it sends
\* may be JSON by itself or not.
ArgsForms == IF protocol = "custom" THEN {"text", "json"} ELSE {"text"}
ArgsWire(c, t, new, all, again, form) ==
  CASE protocol = "chat" ->
         ChatChunk([ChatChoice(c) EXCEPT !.tools = <<[index |-> t, args |-> new]>>])
    [] protocol = "anthropic" ->
         [type |-> "content_block_delta", index |-> t, delta |-> "input_json_delta", value |-> new]
    [] protocol = "responses" ->
         [type |-> "response.function_call_arguments.delta", index |-> t, value |-> new]
    [] protocol = "custom" ->
         [CustomFrame("tool") EXCEPT !.tool =
            [index |-> t, id |-> IF again THEN t ELSE Custom!NoId, form |-> form,
             args |-> Shown(all, new)]]

StopWire(t, all) ==
  CASE protocol = "anthropic" -> [type |-> "content_block_stop", index |-> t]
    [] protocol = "responses" ->
         [type |-> "response.function_call_arguments.done", index |-> t, value |-> all]

\* The reason a choice ends with, or that it failed.  A custom upstream may give a
\* reason with its failure, and leave it out where the frame is terminal.
FinishWire(c, failed, reason) ==
  CASE protocol = "chat" ->
         ChatChunk([ChatChoice(c) EXCEPT !.finish = IF failed THEN "error" ELSE "stop"])
    [] protocol = "anthropic" ->
         IF failed THEN [type |-> "error"]
         ELSE [type |-> "message_delta", finish |-> "end_turn", usage |-> [input |-> 0, output |-> 7]]
    [] protocol = "gemini" ->
         IF failed THEN [type |-> "chunk", blocked |-> TRUE, candidates |-> <<>>]
         ELSE GeminiChunk(c, <<>>, "STOP")
    [] protocol = "responses" ->
         IF failed THEN [type |-> "response.incomplete"]
         ELSE [type |-> "response.completed", value |-> <<>>]
    [] protocol = "custom" ->
         [CustomFrame(IF failed THEN "error" ELSE "stop") EXCEPT !.error = failed, !.finish = reason]

\* What means nothing: a ping, or an event of a type nobody knows.
IdleWire ==
  CASE protocol = "chat" -> [type |-> "chunk", choices |-> <<>>]
    [] protocol = "anthropic" -> [type |-> "ping"]
    [] protocol = "gemini" -> [type |-> "chunk", blocked |-> FALSE, candidates |-> <<>>]
    [] protocol = "responses" -> [type |-> "response.queued", index |-> 0, value |-> <<>>]
    [] protocol = "custom" -> CustomFrame("other")

MarkWire == [type |-> IF protocol = "anthropic" THEN "message_stop" ELSE "[DONE]"]

\* Framed as server-sent events: after a comment and with an event: field, with
\* CRLF, its text on two data lines (but not the mark), or bare.
Framed(w) ==
  CASE style = "named" -> <<Sse!Comment, Sse!Lf, Sse!Field("event"), Sse!Lf, Sse!Field("data"),
                            Sse!Piece(w, 1, 1), Sse!Lf, Sse!Lf>>
    [] style = "crlf" -> <<Sse!Field("data"), Sse!Piece(w, 1, 1), Sse!Cr, Sse!Lf, Sse!Cr, Sse!Lf>>
    [] style = "two lines" /\ w # MarkWire -> <<Sse!Field("data"), Sse!Piece(w, 1, 2), Sse!Lf,
                                Sse!Field("data"), Sse!Piece(w, 2, 2), Sse!Lf, Sse!Lf>>
    [] style = "bare" \/ (style = "two lines" /\ w = MarkWire) -> <<Sse!Piece(w, 1, 1), Sse!Lf>>

-----------------------------------------------------------------------------
\* The upstream speaks when everything it said is under way.
Speak(w, told) ==
  /\ wire' = Framed(w) /\ said' = told
  /\ UNCHANGED <<protocol, style, config, stream, parser, decoder, out, torn>>

Able(c) == stream = "open" /\ wire = <<>> /\ ~said.marked /\ c \in ChoicesOf(protocol) \ said.finished

\* A choice is begun; late, if all that had begun before it were over.
Begun(c) ==
  [said EXCEPT !.begun = @ \cup {c},
               !.late = @ \/ (said.begun # {} /\ said.begun \subseteq said.finished)]

Say(c) ==
  /\ Able(c) /\ said.tokens < MaxSaid
  /\ LET new == <<said.tokens + 1>>  all == said.text[c] \o new
     IN Speak(TextWire(c, new, all), [Begun(c) EXCEPT !.text[c] = all, !.tokens = @ + 1])

CallTool(c, t) ==
  /\ Able(c) /\ ~Contains(said.called, <<c, t>>) /\ Len(said.called) < MaxCalled
  /\ \E form \in CallForms :
       LET args == IF form = "json" THEN <<said.tokens + 1>> ELSE <<>>
       IN /\ said.tokens + Len(args) <= MaxSaid
          /\ Speak(CallWire(c, t, form, args),
               [Begun(c) EXCEPT !.called = Append(@, <<c, t>>), !.args[<<c, t>>] = args,
                                !.broken = @ \cup (IF form = "json" THEN {} ELSE {<<c, t>>}),
                                !.tokens = @ + Len(args)])

Argue(c, t) ==
  /\ Able(c) /\ protocol # "gemini" /\ said.tokens < MaxSaid
  /\ Contains(said.called, <<c, t>>) /\ <<c, t>> \notin said.stopped
  /\ \E form \in ArgsForms, again \in BOOLEAN :
       /\ again => protocol = "custom"
       /\ LET new == <<said.tokens + 1>>  all == said.args[<<c, t>>] \o new
          IN Speak(ArgsWire(c, t, new, all, again, form),
                   [said EXCEPT !.args[<<c, t>>] = all, !.tokens = @ + 1,
                                !.broken = @ \cup (IF form = "json" /\ again THEN {} ELSE {<<c, t>>})])

StopTool(c, t) ==
  /\ Able(c) /\ protocol \in {"anthropic", "responses"}
  /\ Contains(said.called, <<c, t>>) /\ <<c, t>> \notin said.stopped
  /\ Speak(StopWire(t, said.args[<<c, t>>]), [said EXCEPT !.stopped = @ \cup {<<c, t>>}])

\* A Chat Completions upstream ends a choice with all of it once more, and maybe
\* with a token it had not said before.
Recite(c, more) ==
  /\ Able(c) /\ protocol = "chat" /\ said.tokens + Len(more) <= MaxSaid
  /\ LET text == said.text[c] \o more
         tools == SelectSeq(said.called, LAMBDA s : s[1] = c)
     IN Speak(ChatChunk([ChatChoice(c) EXCEPT
                !.form = "message", !.content = text, !.finish = "stop",
                !.tools = [i \in DOMAIN tools |-> [index |-> tools[i][2], args |-> said.args[tools[i]]]]]),
              [Begun(c) EXCEPT !.text[c] = text, !.tokens = @ + Len(more), !.finished = @ \cup {c}])

FinishChoice(c, failed, reason) ==
  /\ Able(c)
  /\ reason = ~failed \/ (protocol = "custom" /\ (failed \/ "stop" \in config.ends))
  /\ Speak(FinishWire(c, failed, reason),
       [Begun(c) EXCEPT !.finished = IF failed /\ protocol # "chat" THEN ChoiceIds ELSE @ \cup {c},
                        !.failed = @ + (IF failed THEN 1 ELSE 0)])

\* An Anthropic upstream may begin with the tokens it was sent.
Start ==
  /\ stream = "open" /\ protocol = "anthropic" /\ wire = <<>> /\ said.begun = {} /\ out = <<>>
  /\ ~said.marked
  /\ Speak([type |-> "message_start", usage |-> [input |-> 5, output |-> 1]],
           [said EXCEPT !.input = 5])

Idle == stream = "open" /\ ~said.marked /\ wire = <<>> /\ out = <<>> /\ Speak(IdleWire, said)

\* The last mark, whether or not everything was said.
Mark ==
  /\ stream = "open" /\ wire = <<>> /\ ~said.marked
  /\ Speak(MarkWire, [said EXCEPT !.marked = TRUE])

(***************************************************************************)
(* The transport and the reader.                                           *)
(***************************************************************************)
\* JSON.parse of the data, which fails on half a text.
Whole(data) == data = <<>> \/ Len(data) = data[1].of

DecodeOne(d, w) ==
  CASE protocol = "chat" -> Chat!Decode(d, w) [] protocol = "anthropic" -> Anthropic!Decode(d, w)
    [] protocol = "gemini" -> Gemini!Decode(d, w) [] protocol = "responses" -> Responses!Decode(d, w)
    [] protocol = "custom" -> Custom!Decode(d, config, w)

\* The reader hands every event to the decoder; empty data is nothing.
Told(acc, r) == [acc EXCEPT !.decoder = r.decoder, !.out = @ \o r.events]
Handed(acc, event) ==
  IF event.data = <<>> \/ acc.torn THEN acc
  ELSE IF ~Whole(event.data) THEN [acc EXCEPT !.torn = TRUE]
  ELSE Told(acc, DecodeOne(acc.decoder, event.data[1].wire))

Reader == [decoder |-> decoder, out |-> out, torn |-> torn]
Read(parsed) ==
  /\ parser' = parsed.parser
  /\ \E r \in {FoldLeft(Handed, Reader, parsed.events)} :
       decoder' = r.decoder /\ out' = r.out /\ torn' = r.torn

\* A chunk of n symbols arrives.
Chunk(n) ==
  /\ wire # <<>> /\ n \in DOMAIN wire /\ stream # "cut"
  /\ \E parsed \in {Sse!Push(parser, SubSeq(wire, 1, n))} : Read(parsed)
  /\ wire' = SubSeq(wire, n + 1, Len(wire))
  /\ UNCHANGED <<protocol, style, config, said, stream>>

\* The connection ends, and what was under way is lost.
Cut ==
  /\ stream # "cut" /\ stream' = "cut"
  /\ \E parsed \in {Sse!End(parser)} : Read(parsed)
  /\ wire' = <<>>
  /\ UNCHANGED <<protocol, style, config, said>>

StreamNext ==
  \/ \E c \in ChoiceIds :
       \/ Say(c)
       \/ \E t \in Tools : CallTool(c, t) \/ Argue(c, t) \/ StopTool(c, t)
       \/ Recite(c, <<>>) \/ Recite(c, <<said.tokens + 1>>)
       \/ \E failed, reason \in BOOLEAN : FinishChoice(c, failed, reason)
  \/ Start \/ Idle \/ Mark \/ Cut
  \/ \E n \in 1..Len(wire) : Chunk(n)

(***************************************************************************)
(* Properties.                                                             *)
(***************************************************************************)
Heard(type, c, i) ==
  SelectSeq(out, LAMBDA e : e.type = type /\ e.choice = c /\ (i = e.index \/ type = "text"))
Values(events) == FlattenSeq([i \in DOMAIN events |-> events[i].value])

\* Everything the upstream said has arrived.
Arrived == wire = <<>> /\ stream # "cut"

TextOnce ==
  \A c \in ChoiceIds :
    LET heard == Values(Heard("text", c, 0))
    IN IsPrefix(heard, said.text[c]) /\ (Arrived => heard = said.text[c])

\* The calls whose arguments a custom configuration without frames cannot read: one
\* frame of theirs at least had no arguments or no id, or was no JSON by itself.
Unreadable == IF protocol = "custom" /\ ~config.framed THEN said.broken ELSE {}

\* Where a protocol numbers calls its own way, they come in the order they began.
IndexOf(c, t) ==
  IF protocol # "custom" THEN t
  ELSE SelectInSeq(said.called, LAMBDA s : s = <<c, t>>)

ArgumentsOnce ==
  protocol # "gemini" =>
    \A s \in Slots \ Unreadable :
      LET heard == Values(Heard("args", s[1], IndexOf(s[1], s[2])))
          done == Heard("argsDone", s[1], IndexOf(s[1], s[2]))
      IN /\ IsPrefix(heard, said.args[s]) /\ (Arrived => heard = said.args[s])
         /\ \A i \in DOMAIN done : done[i].value = said.args[s]

\* The calls of Gemini are whole; no two of them share an id.
CallsWhole ==
  protocol = "gemini" =>
    /\ \A c \in ChoiceIds :
         LET done == SelectSeq(out, LAMBDA e : e.type = "argsDone" /\ e.choice = c)
             called == SelectSeq(said.called, LAMBDA s : s[1] = c)
         IN \A i \in DOMAIN done : done[i].value = said.args[called[i]]
    /\ \A i, j \in DOMAIN out :
         out[i].type = "added" /\ out[j].type = "added" /\ out[i].id = out[j].id
           => i = j \/ out[i].id[1] = "call"

\* Once Anthropic has told the input tokens, every usage has them.
UsageWhole ==
  protocol = "anthropic" =>
    \A i \in DOMAIN out : out[i].type = "usage" => out[i].value[1].input = said.input

\* Nothing said is lost, repeated or displaced: wherever the chunks end, whatever
\* the framing, whether a protocol sends what is new, all so far or a snapshot at
\* the end, the texts and arguments put together from the stream events are a
\* prefix of what the upstream said, and all of it once it has arrived; and the
\* usage told at the beginning is still in the usage told at the end.
StreamFaithful ==
  TextOnce /\ ArgumentsOnce /\ CallsWhole /\ UsageWhole /\ (stream # "cut" => ~torn)

Completed(c) == SelectSeq(out, LAMBDA e : e.type = "completed" /\ e.choice = c)
Failures == SelectSeq(out, LAMBDA e : e.type = "failed")

\* After a failure nothing is told complete, though other choices of a Chat
\* Completions stream go on; over a custom protocol the same frame or the mark may
\* complete what failed, but a failure is never told of what was complete.
FailureLast ==
  \A i, j \in DOMAIN out :
    out[i].type = "failed" /\ out[j].type = "completed" =>
      CASE protocol \in {"anthropic", "gemini", "responses"} -> j < i
        [] protocol = "custom" -> i < j
        [] OTHER -> out[i].choice # out[j].choice

\* The end is told as it was: a choice is completed at most once (once more by the
\* mark of a custom stream), and only if the upstream ended it or marked the stream
\* as over; a failure is told for each the upstream had, and for
\* no other reason than that a Chat Completions stream was marked [DONE] before
\* a choice had its finish_reason (which is told unless that choice only began when
\* all others were over); no such choice is called complete; and once the mark has
\* arrived, the stream was told to be over.
StreamEndsHonestly ==
  LET unfinished == protocol = "chat" /\ said.marked /\ ~(said.begun \subseteq said.finished)
  IN /\ \A c \in ChoiceIds :
          /\ Len(Completed(c)) <= IF protocol = "custom" /\ said.marked THEN 2 ELSE 1
          /\ Completed(c) # <<>> => c \in said.finished \/ said.marked
     /\ FailureLast
     /\ Len(Failures) <= said.failed + (IF unfinished THEN 1 ELSE 0)
     /\ Arrived => Len(Failures) = said.failed + (IF unfinished /\ ~said.late THEN 1 ELSE 0)
     /\ unfinished => \A c \in said.begun \ said.finished : Completed(c) = <<>>
     /\ Arrived /\ said.marked => \E i \in DOMAIN out : out[i].type \in {"completed", "failed"}
=============================================================================
