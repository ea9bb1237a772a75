-------------------------- MODULE ToolConversation --------------------------
(***************************************************************************)
(* The rounds of a tool loop as a model provider sees them: what the life  *)
(* asks is encoded for the protocol of the provider, maybe again for that  *)
(* of a fallback, and the answer is decoded, its tools are executed and    *)
(* everything is asked once more, maybe of a provider of another protocol. *)
(* Tokens, arguments and given ids are numbered in the order they appear.  *)
(***************************************************************************)
EXTENDS CustomPresets, FiniteSets

CONSTANTS
  Protocols,
  Openings,    \* what was said before: sequences of <<role, tokens>>
  MaxBlocks,   \* blocks of all answers together
  MaxPerAnswer \* and of one

VARIABLES
  talk,        \* the messages of the loop, the system message in front
  asked,       \* the last request: a result of Encode, or none (<<>>)
  phase,       \* "ask", "asked" or "over"
  blocks       \* blocks there were in the answers

conversationVars == <<talk, asked, phase, blocks>>

ConversationInit ==
  /\ \E o \in Openings :
       talk = [i \in DOMAIN o |-> Message(o[i][1], o[i][2], <<>>, NoId)]
  /\ asked = <<>> /\ phase = "ask" /\ blocks = 0

\* A provider encodes the conversation, which may fail.
Ask(protocol) ==
  /\ phase = "ask"
  /\ asked' = <<EncodeFor(protocol, talk)>>
  /\ phase' = "asked"
  /\ UNCHANGED <<talk, blocks>>

\* A call fails, and leaves nothing behind for the fallback that is asked next.
Fail ==
  /\ phase = "asked"
  /\ asked' = <<>> /\ phase' = "ask"
  /\ UNCHANGED <<talk, blocks>>

\* Tokens of a text; calls with and without id, with and without arguments; what
\* the user is not shown.
Kinds == {"text", "thought", "refusal", "call", "bare call", "broken call", "idless call"}
Sayable(protocol) ==
  LET shape == ShapeOf(protocol)
  IN  CASE shape = "chat" -> Kinds
        [] shape = "anthropic" -> {"text", "thought", "call", "bare call"}
        [] shape = "gemini" -> {"text", "thought", "call", "bare call", "idless call"}
        [] shape = "responses" -> Kinds \ {"thought"}

Token == 100
Thought == 150
AnswerBlock(kind, k) ==
  CASE kind \in {"text", "refusal"} -> Block(kind, NoId, "", NoArgs, <<Token + k>>)
    [] kind = "thought" -> Block(kind, NoId, "", NoArgs, <<Thought + k>>)
    [] OTHER -> Block("call", IF kind = "idless call" THEN NoId ELSE Given(k),
                      IF k % 2 = 0 THEN "f" ELSE "g",
                      CASE kind = "bare call" -> NoArgs [] kind = "broken call" -> Broken(k)
                        [] OTHER -> Json(k),
                      <<k>>)

\* The result of a tool is told with the id of its call.
Results(calls, first) ==
  [k \in DOMAIN calls |-> Message("tool", <<2 * Token + first + k>>, <<>>, calls[k].id)]

\* The upstream answers and the tools are executed; without calls the loop is over.
Answer(kinds) ==
  LET answer == [k \in DOMAIN kinds |-> AnswerBlock(kinds[k], blocks + k)]
      said == DecodeFor(asked[1].protocol, answer)
  IN  /\ phase = "asked" /\ ~asked[1].failed
      /\ Understood(asked[1].protocol, answer)
      /\ talk' = Append(talk, said) \o Results(said.calls, blocks)
      /\ blocks' = blocks + Len(kinds)
      /\ asked' = <<>>
      /\ phase' = IF said.calls = <<>> THEN "over" ELSE "ask"

ConversationNext ==
  \/ \E protocol \in Protocols : Ask(protocol)
  \/ Fail
  \/ /\ phase = "asked"
     /\ \E n \in 0..MaxPerAnswer : \E kinds \in [1..n -> Sayable(asked[1].protocol)] :
          blocks + n <= MaxBlocks /\ Answer(kinds)

(***************************************************************************)
(* Properties.                                                             *)
(***************************************************************************)
All(seqs) == FlattenSeq(seqs)
CallsTold == All([i \in DOMAIN talk |-> talk[i].calls])
ResultsTold == SelectSeq(talk, LAMBDA m : m.role = "tool")
TextsTold == All([i \in DOMAIN talk |-> IF talk[i].role = "tool" THEN <<>> ELSE talk[i].text])

\* The blocks of a kind in a request, each with the message it is in.
Sent(request, kind) ==
  All([i \in DOMAIN request.wire |->
    LET of == SelectSeq(request.wire[i].blocks, LAMBDA b : b.kind = kind)
    IN  [j \in DOMAIN of |-> [at |-> i, block |-> of[j]]]])

\* A result answers a call by its id; a Gemini result without an id answers the call
\* whose id is the name of the function.
AnswersCall(result, call, shape) ==
  IF shape = "gemini" /\ result.id = NoId THEN call.id = Named(result.name)
  ELSE result.id = call.id

\* Every call has an id of its own and is answered, later and by that id, by its own
\* result; where roles alternate, by the very next message.
Paired(request) ==
  LET calls == Sent(request, "call")  results == Sent(request, "result")
      shape == ShapeOf(request.protocol)
  IN  /\ Len(calls) = Len(CallsTold) /\ Len(results) = Len(ResultsTold)
      /\ \A k \in DOMAIN results :
           /\ results[k].block.value = ResultsTold[k].text
           /\ AnswersCall(results[k].block, calls[k].block, shape)
           /\ results[k].at > calls[k].at
           /\ shape \in {"anthropic", "gemini"} => results[k].at = calls[k].at + 1
           /\ shape = "gemini" => results[k].block.name = calls[k].block.name
      /\ \A j, k \in DOMAIN calls : calls[j].block.id = calls[k].block.id => j = k

\* Nothing that was said is lost, repeated or displaced, nothing that was only
\* thought is said, and JSON arguments arrive as they were.  A preset has a place
\* for the system text which nobody fills, unless its shape keeps it as a message.
Whole(request) ==
  LET texts == Sent(request, "text")  calls == Sent(request, "call")
      told == request.system \o All([k \in DOMAIN texts |-> texts[k].block.value])
      lost == IF request.protocol \in DOMAIN Presets /\ ShapeOf(request.protocol) # "chat"
              THEN Instructions(talk) ELSE <<>>
  IN  /\ lost \o SelectSeq(told, LAMBDA t : t < 2 * Token) = TextsTold
      /\ \A i \in DOMAIN TextsTold : TextsTold[i] < Thought
      /\ \A k \in DOMAIN CallsTold :
           CallsTold[k].args[1] = "json" => calls[k].block.args = CallsTold[k].args

\* Roles alternate where they must, and Anthropic's user begins.
Alternating(request) ==
  LET shape == ShapeOf(request.protocol)
  IN  /\ shape \in {"anthropic", "gemini"} =>
           \A i \in 1..Len(request.wire) - 1 : request.wire[i].role # request.wire[i + 1].role
      /\ shape = "anthropic" /\ request.wire # <<>> => request.wire[1].role = "user"

\* Which calls were given an id, and whether no two were given the same.
WithId == SelectSeq(CallsTold, LAMBDA call : call.id # NoId)
AllHaveIds == WithId = CallsTold
IdsDiffer == IsInjective([k \in DOMAIN WithId |-> WithId[k].id])

\* Whatever a model of one protocol said, a provider of any other gets it as a
\* request it can take: each tool result answers its own call, nothing said or
\* passed to a tool is lost or displaced, no thought is said, and roles alternate.
\* Calls whose ids the upstream left out are paired over Chat Completions only; a
\* custom preset may give two calls the same id (a place in the answer, or the name
\* of the function), and loses the system text; what becomes of results over
\* Responses is the matter of ResponsesPaired.
RequestsFaithful ==
  asked # <<>> =>
    LET request == asked[1]
        shape == ShapeOf(request.protocol)
    IN  /\ request.failed => shape = "gemini" /\ ~AllHaveIds
        /\ ~request.failed =>
             /\ Whole(request) /\ Alternating(request)
             /\ (shape = "chat" \/ (shape \in {"anthropic", "gemini"} /\ AllHaveIds))
                  /\ IdsDiffer
                => Paired(request)

\* A request of the Responses API tells which call each tool result belongs to.
ResponsesPaired ==
  asked # <<>> /\ asked[1].protocol = "responses" => Paired(asked[1])
=============================================================================
