---------------------------- MODULE CustomStream ----------------------------
(***************************************************************************)
(* CustomProtocolStreamDecoder of @elysia-ai/protocol-custom: a decoder    *)
(* that a configuration describes.  Of the configuration, [mode, framed,   *)
(* ends]: whether texts and arguments come as what is new ("delta") or as  *)
(* all so far ("cumulative"); whether frames are told apart by their event,*)
(* the frame of a tool having a tool rule; and which frames are terminal.  *)
(*                                                                         *)
(* A wire event is [DONE] or [type, text, tool, error, finish], the fields *)
(* as the mapping of its frame finds them.  A tool is [index, id, form,    *)
(* args]: its id and name are both there or both missing (then a frame     *)
(* before it has told which tool the index is), and the form of its        *)
(* arguments is "none", "json" (JSON by itself) or "text" (a string that   *)
(* is not, as most fragments).                                             *)
(***************************************************************************)
EXTENDS Naturals, Sequences, SequencesExt

Out(type, index, value) == [type |-> type, choice |-> 0, index |-> index, value |-> value]

\* The frame an event is, by its name: the configuration knows four, and an event
\* of no frame is skipped.
FrameOf(config, wire) ==
  IF ~config.framed THEN "any"
  ELSE IF wire.type \in {"text", "tool", "stop", "error"} THEN wire.type ELSE "none"

NoId == 0
NoTool == [index |-> 0, id |-> NoId, form |-> "none", args |-> <<>>]

NewDecoder ==
  [terminal |-> FALSE,
   text |-> <<>>,        \* previousText
   args |-> <<>>,        \* previousArguments: <<id, arguments>>
   slots |-> <<>>,       \* toolSlot: the ids, each at its slot
   identities |-> <<>>]  \* frameTools: <<index, id>>

Lookup(pairs, key, default) ==
  LET i == SelectInSeq(pairs, LAMBDA p : p[1] = key) IN IF i = 0 THEN default ELSE pairs[i][2]
With(pairs, key, value) == Append(SelectSeq(pairs, LAMBDA p : p[1] # key), <<key, value>>)

\* streamDelta(): what a cumulative value adds to the one before it; one that
\* does not go on from it is taken whole.
Delta(before, current, mode) ==
  IF mode # "cumulative" THEN current
  ELSE IF IsPrefix(before, current) THEN SubSeq(current, Len(before) + 1, Len(current))
  ELSE current

\* buildFrameToolItem(): the identity of an index is the one told first, and
\* arguments are taken as they are.
Identified(d, tool) ==
  LET id == IF tool.id # NoId THEN tool.id ELSE Lookup(d.identities, tool.index, NoId)
      known == Lookup(d.identities, tool.index, NoId) # NoId
  IN [id |-> id, args |-> tool.args,
      d |-> IF known \/ id = NoId THEN d
            ELSE [d EXCEPT !.identities = With(@, tool.index, id)]]

\* customToolCallWithAliases(), where no frame has a tool rule: nobody remembers
\* who an index is; missing arguments become {}, and what is no JSON a JSON string.
Quote == 1000
Braces == 1001
Mapped(d, tool) ==
  [id |-> tool.id, d |-> d,
   args |-> CASE tool.form = "none" -> <<Braces>> [] tool.form = "json" -> tool.args
              [] tool.form = "text" -> <<Quote>> \o tool.args \o <<Quote>>]

\* A tool call: announced when its id is new, at a slot of its own.
ToolEvents(d, id, args, mode) ==
  LET known == Contains(d.slots, id)
      slots == IF known THEN d.slots ELSE Append(d.slots, id)
      slot == SelectInSeq(slots, LAMBDA s : s = id)
      new == Delta(Lookup(d.args, id, <<>>), args, mode)
  IN [d |-> [d EXCEPT !.slots = slots, !.args = IF args = <<>> THEN @ ELSE With(@, id, args)],
      events |-> (IF known THEN <<>> ELSE <<Out("added", slot, <<>>)>>)
                 \o (IF args = <<>> \/ new = <<>> THEN <<>> ELSE <<Out("args", slot, new)>>)]

\* contentPartEvents(): a text, if the mapping finds one.
Texts(d, text, mode) ==
  LET new == Delta(d.text, text, mode)
  IN [d |-> [d EXCEPT !.text = IF text = <<>> THEN @ ELSE text],
      events |-> IF text = <<>> \/ new = <<>> THEN <<>> ELSE <<Out("text", 0, new)>>]

\* buildContentEvents() of one frame: an error, or else a text and a tool call if
\* it is known whose.
After(events, r) == [d |-> r.d, events |-> events \o r.events]
Content(d, config, wire) ==
  LET who == IF config.framed THEN Identified(d, wire.tool) ELSE Mapped(d, wire.tool)
      texts == Texts(who.d, wire.text, config.mode)
  IN IF wire.error THEN [d |-> who.d, events |-> <<Out("failed", 0, <<>>)>>]
     ELSE IF who.id = NoId THEN texts
     ELSE After(texts.events, ToolEvents(texts.d, who.id, who.args, config.mode))

\* The end of a frame: the response is completed where the mapping finds a reason
\* to finish, or the frame is terminal, whatever else was in it.
Framed(r, failed, ends) ==
  [decoder |-> [r.d EXCEPT !.terminal = @ \/ failed \/ ends],
   events |-> r.events \o (IF ends THEN <<Out("completed", 0, <<>>)>> ELSE <<>>)]
Decode(d, config, wire) ==
  IF wire.type = "[DONE]"
  THEN [decoder |-> [d EXCEPT !.terminal = TRUE], events |-> <<Out("completed", 0, <<>>)>>]
  ELSE IF FrameOf(config, wire) = "none" THEN [decoder |-> d, events |-> <<>>]
  ELSE Framed(Content(d, config, wire), wire.error,
              wire.finish \/ FrameOf(config, wire) \in config.ends)
=============================================================================
