---------------------------- MODULE GeminiStream ----------------------------
(***************************************************************************)
(* GeminiStreamDecoder of @elysia-ai/protocol-gemini.  A wire event is     *)
(* [DONE] or a chunk of candidates: [index, parts, finish], without any if *)
(* the prompt was blocked.  A part is [kind, value, id]: a text, a whole   *)
(* function call (with an id of its own or none) or anything else, which   *)
(* is passed on.                                                           *)
(***************************************************************************)
EXTENDS Naturals, Sequences, SequencesExt

Out(type, choice, index, id, value) ==
  [type |-> type, choice |-> choice, index |-> index, id |-> id, value |-> value]

\* What is told of no choice in particular.
NoChoice == 99

\* The n-th id made up for a call that has none.
NoId == <<"none", 0>>
Synthetic(n) == <<"call_syn", n>>

NewDecoder ==
  [terminal |-> FALSE, seen |-> {}, finished |-> {},
   nextCall |-> 0,                       \* nextSyntheticCallID
   nextPart |-> <<>>]                    \* <<choice, nextPartIndex>>

PartIndex(d, c) ==
  LET i == SelectInSeq(d.nextPart, LAMBDA t : t[1] = c) IN IF i = 0 THEN 0 ELSE d.nextPart[i][2]
WithPart(d, c, n) ==
  [d EXCEPT !.nextPart = Append(SelectSeq(@, LAMBDA t : t[1] # c), <<c, n>>)]

CallId(d, part) == IF part.id # NoId THEN part.id ELSE Synthetic(d.nextCall)

\* One part of choice c: the index goes on from chunk to chunk.
Part(acc, c, part) ==
  LET n == PartIndex(acc.d, c)
      d == WithPart(acc.d, c, n + 1)
      id == CallId(d, part)
  IN CASE part.kind = "text" ->
            [d |-> d, events |-> IF part.value = <<>> THEN acc.events
                                 ELSE Append(acc.events, Out("text", c, n, NoId, part.value))]
       [] part.kind = "functionCall" ->
            [d |-> [d EXCEPT !.nextCall = @ + 1],
             events |-> acc.events \o <<Out("added", c, n, id, <<>>),
                                        Out("argsDone", c, n, id, part.value)>>]
       [] OTHER -> [d |-> d, events |-> Append(acc.events, Out("part", c, n, NoId, part.value))]

Finished(r, c) == [d |-> [r.d EXCEPT !.finished = @ \cup {c}],
                   events |-> Append(r.events, Out("completed", c, 0, NoId, <<>>))]
Ended(r, c, finish) == IF finish = "none" THEN r ELSE Finished(r, c)

Candidate(acc, candidate) ==
  LET c == candidate.index
  IN Ended(FoldLeft(LAMBDA a, p : Part(a, c, p), [acc EXCEPT !.d.seen = @ \cup {c}],
                    candidate.parts),
           c, candidate.finish)

AllFinished(d) == d.seen # {} /\ d.seen \subseteq d.finished

\* Without any candidate: the prompt was blocked.
Blocked(wire) == wire.candidates = <<>> /\ wire.blocked

Chunk(r, blocked) ==
  [decoder |-> [r.d EXCEPT !.terminal = @ \/ AllFinished(r.d) \/ blocked],
   events |-> r.events \o
     (IF blocked THEN <<Out("failed", NoChoice, 0, NoId, <<>>)>> ELSE <<>>)]

Decode(d, wire) ==
  IF wire.type = "[DONE]"
  THEN [decoder |-> [d EXCEPT !.terminal = TRUE],
        events |-> IF d.terminal THEN <<>> ELSE <<Out("completed", NoChoice, 0, NoId, <<>>)>>]
  ELSE Chunk(FoldLeft(Candidate, [d |-> d, events |-> <<>>], wire.candidates), Blocked(wire))
=============================================================================
