----------------------------- MODULE ChatStream -----------------------------
(***************************************************************************)
(* ChatCompletionsStreamDecoder of @elysia-ai/protocol-openai.             *)
(*                                                                         *)
(* A wire event is [DONE], or a chunk of choices: [index, form, content,   *)
(* reasoning, tools, finish], where form is "delta" for what is new and    *)
(* "message" for a snapshot of everything, and a tool is [index, args].    *)
(* Texts are sequences of tokens.  Ids, models, roles, refusals, audio and *)
(* signatures are passed on as they come and are left out.                 *)
(***************************************************************************)
EXTENDS Naturals, Sequences, SequencesExt

\* What a decoder emits: [type, choice, index, value].
Out(type, choice, index, value) ==
  [type |-> type, choice |-> choice, index |-> index, value |-> value]

\* What is told of no choice in particular.
NoChoice == 99

NewDecoder ==
  [terminal |-> FALSE, seen |-> {}, finished |-> {}, reasoned |-> {},
   text |-> <<>>,   \* <<choice, text streamed so far>>, one for each choice
   tools |-> <<>>]  \* toolOrder with the states: [choice, index, args]

\* What was streamed of the text of a choice, and the same with new text.
TextOf(d, c) ==
  LET i == SelectInSeq(d.text, LAMBDA t : t[1] = c) IN IF i = 0 THEN <<>> ELSE d.text[i][2]
WithText(d, c, text) ==
  [d EXCEPT !.text = Append(SelectSeq(@, LAMBDA t : t[1] # c), <<c, text>>)]

\* Mutant: the text of a snapshot is always emitted.
SnapshotWhole(streamed, text) == text

\* snapshotTextSuffix(): only what is missing, nothing when the texts disagree.
SnapshotSuffix(streamed, text) ==
  IF IsPrefix(streamed, text) THEN SubSeq(text, Len(streamed) + 1, Len(text)) ELSE <<>>

Content(acc, c, text, snapshot) ==
  LET streamed == TextOf(acc.d, c)
      new == IF snapshot THEN SnapshotSuffix(streamed, text) ELSE text
  IN IF new = <<>> THEN acc
     ELSE [acc EXCEPT !.d = WithText(@, c, streamed \o new),
                      !.events = Append(@, Out("text", c, 0, new))]

Reasoning(acc, c, text, snapshot) ==
  IF text = <<>> \/ (snapshot /\ c \in acc.d.reasoned) THEN acc
  ELSE [acc EXCEPT !.d.reasoned = @ \cup {c},
                   !.events = Append(@, Out("reasoning", c, 0, text))]

ToolAt(d, c, index) ==
  SelectInSeq(d.tools, LAMBDA t : t.choice = c /\ t.index = index)

\* decodeToolCalls(), one tool: it is announced when it is first seen; arguments
\* are added up, those of a snapshot replace what differs.
Tool(acc, c, tool, snapshot) ==
  LET known == ToolAt(acc.d, c, tool.index) # 0
      d == IF known THEN acc.d
           ELSE [acc.d EXCEPT !.tools =
                   Append(@, [choice |-> c, index |-> tool.index, args |-> <<>>])]
      events == IF known THEN acc.events
                ELSE Append(acc.events, Out("added", c, tool.index, <<>>))
      i == ToolAt(d, c, tool.index)
  IN IF tool.args = <<>> \/ (snapshot /\ d.tools[i].args = tool.args)
     THEN [acc EXCEPT !.d = d, !.events = events]
     ELSE IF snapshot
     THEN [acc EXCEPT !.d = [d EXCEPT !.tools[i].args = tool.args],
                      !.events = Append(events, Out("argsDone", c, tool.index, tool.args))]
     ELSE [acc EXCEPT !.d = [d EXCEPT !.tools[i].args = @ \o tool.args],
                      !.events = Append(events, Out("args", c, tool.index, tool.args))]

\* The tools of choice c are flushed when it finishes.
FlushedTools(d, c) == SelectSeq(d.tools, LAMBDA t : t.choice = c /\ t.args # <<>>)

\* finish_reason "error" is a failure and flushes nothing.
Finished(acc, c, finish) ==
  LET d == [acc.d EXCEPT !.finished = @ \cup {c}]
      tools == FlushedTools(d, c)
  IN IF finish = "none" THEN acc
     ELSE IF finish = "error"
     THEN [acc EXCEPT !.d = d, !.last = Append(@, Out("failed", c, 0, <<>>))]
     ELSE [acc EXCEPT !.d = d,
             !.last = @ \o [i \in DOMAIN tools |->
                              Out("argsDone", c, tools[i].index, tools[i].args)]
                        \o <<Out("completed", c, 0, <<>>)>>]

\* One choice of a chunk.  What ends a choice comes after all the chunk holds.
Choice(acc, choice) ==
  LET c == choice.index
      snapshot == choice.form = "message"
      seen == [acc EXCEPT !.d.seen = @ \cup {c}]
      said == Reasoning(Content(seen, c, choice.content, snapshot), c, choice.reasoning, snapshot)
  IN Finished(FoldLeft(LAMBDA a, t : Tool(a, c, t, snapshot), said, choice.tools), c, choice.finish)

AllFinished(d) == d.seen # {} /\ d.seen \subseteq d.finished

\* [DONE] does not stand for the finish_reason of a choice that has none.
DoneMark(d) ==
  [decoder |-> [d EXCEPT !.terminal = TRUE],
   events |-> IF d.terminal THEN <<>>
              ELSE IF d.seen # {} /\ ~AllFinished(d) THEN <<Out("failed", NoChoice, 0, <<>>)>>
              ELSE <<Out("completed", NoChoice, 0, <<>>)>>]

Chunk(r) == [decoder |-> [r.d EXCEPT !.terminal = @ \/ AllFinished(r.d)],
             events |-> r.events \o r.last]

Decode(d, wire) ==
  IF wire.type = "[DONE]" THEN DoneMark(d)
  ELSE Chunk(FoldLeft(Choice, [d |-> d, events |-> <<>>, last |-> <<>>], wire.choices))
=============================================================================
