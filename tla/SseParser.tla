----------------------------- MODULE SseParser -----------------------------
(***************************************************************************)
(* SSEParser of @elysia-ai/maheshvara: it is fed a stream of server-sent   *)
(* events in chunks that may end anywhere and returns the events complete  *)
(* so far.                                                                 *)
(*                                                                         *)
(* A stream is a sequence of symbols: Lf, Cr, the name of a field with its *)
(* colon, a comment, or a piece of the JSON text of a wire event (a text   *)
(* may be spread over several data lines).  An event is [named, data]: was *)
(* there an event: field, and the pieces of its data lines.                *)
(***************************************************************************)
EXTENDS Naturals, Sequences, SequencesExt

Lf == [k |-> "lf"]
Cr == [k |-> "cr"]
Comment == [k |-> "comment"]
Field(name) == [k |-> "field", name |-> name]
\* Piece n of the `of` pieces of the text of a wire event.
Piece(wire, n, of) == [k |-> "text", wire |-> wire, n |-> n, of |-> of]

NewParser == [buffer |-> <<>>, named |-> FALSE, data |-> <<>>, hasFields |-> FALSE]

\* emitPending(): nothing without a field.
Pending(p) ==
  IF p.hasFields \/ p.data # <<>> THEN <<[named |-> p.named, data |-> p.data]>> ELSE <<>>

Flushed(p) == [p EXCEPT !.named = FALSE, !.data = <<>>, !.hasFields = FALSE]

\* The Cr at the end of a line is not part of it.
Stripped(raw) == IF raw # <<>> /\ Last(raw) = Cr THEN Front(raw) ELSE raw

\* A whole JSON text, which is what a server that knows no fields sends.
IsJson(line) == Len(line) = 1 /\ line[1].k = "text" /\ line[1].of = 1

\* processLine(): the parser and the events after one line.
ProcessLine(p, raw) ==
  LET line == Stripped(raw)
      first == Head(line)
      took(data) == [p EXCEPT !.data = @ \o data, !.hasFields = TRUE]
  IN IF line = <<>> THEN [parser |-> Flushed(p), events |-> Pending(p)]
     ELSE IF first = Comment THEN [parser |-> p, events |-> <<>>]
     ELSE IF first = Field("event")
       THEN [parser |-> [p EXCEPT !.named = TRUE, !.hasFields = TRUE], events |-> <<>>]
     ELSE IF first = Field("data") THEN [parser |-> took(Tail(line)), events |-> <<>>]
     ELSE IF first.k = "field"      \* id and retry
       THEN [parser |-> [p EXCEPT !.hasFields = TRUE], events |-> <<>>]
     ELSE IF ~p.hasFields /\ IsJson(line)
       THEN [parser |-> Flushed(p), events |-> Pending(took(line))]
     ELSE [parser |-> took(line), events |-> <<>>]

\* push(): every Lf ends a line, the rest stays in the buffer.
Push(parser, chunk) ==
  FoldLeft(LAMBDA acc, symbol :
      IF symbol # Lf THEN [acc EXCEPT !.parser.buffer = Append(@, symbol)]
      ELSE LET r == ProcessLine(acc.parser, acc.parser.buffer)
           IN [parser |-> [r.parser EXCEPT !.buffer = <<>>], events |-> acc.events \o r.events],
    [parser |-> parser, events |-> <<>>], chunk)

\* end(): the last line may lack its Lf, the last event its empty line.
End(p) ==
  LET r == IF p.buffer = <<>> THEN [parser |-> p, events |-> <<>>]
           ELSE ProcessLine(p, p.buffer)
  IN [parser |-> [Flushed(r.parser) EXCEPT !.buffer = <<>>],
      events |-> r.events \o Pending(r.parser)]
=============================================================================
