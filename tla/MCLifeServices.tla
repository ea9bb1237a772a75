--------------------------- MODULE MCLifeServices ---------------------------
(***************************************************************************)
(* Model checking of LifeServices.                                         *)
(***************************************************************************)
EXTENDS LifeServices, TLC

CONSTANTS c1, c2, c3, a1, a2, g1, g2, t1, s1, s2

TwoChats == {c1, c2}
ThreeChats == {c1, c2, c3}
BothBackends == {"memory", "mongo"}
BothPolicies == {"continue", "stop-on-critical"}
EveryProtocol ==
  {"chat", "anthropic", "gemini", "responses",
   "openai-chat", "anthropic-messages", "gemini-generate", "openai-responses"}

(***************************************************************************)
(* Memory: one message told twice (the second time it matters more), one   *)
(* in a thread, one told in private, and the news.                         *)
(***************************************************************************)
From(s, a) == [stim |-> s, actor |-> a, habitat |-> None, thread |-> None, event |-> None,
               news |-> FALSE, imp |-> 20]
OneMessage == [From(s1, a1) EXCEPT !.habitat = g1]
ToldAgain == [OneMessage EXCEPT !.imp = 80]
InThread == [From(s2, a2) EXCEPT !.habitat = g1, !.thread = t1]
InPrivate == From(None, a2)
News == [From(None, None) EXCEPT !.news = TRUE, !.imp = 80]
Consolidated == {None}
FromTwoChats == c1 :> {OneMessage, ToldAgain, News} @@ c2 :> {InThread, InPrivate}
InGroup == {[actor |-> a1, habitat |-> g1, thread |-> None, text |-> TRUE]}

(***************************************************************************)
(* Plans: the same person is met in two chats; in the first one the life   *)
(* is also woken by a timer, which is about nobody, and once has nothing   *)
(* to do.                                                                  *)
(***************************************************************************)
About(a, g) == [actor |-> a, habitat |-> g, kind |-> None, sentiment |-> None, suggestion |-> 50]
Updates == {"memory-update", "bond-update", "homeostasis-update"}
Met == [does |-> Updates, bond |-> [About(a1, g1) EXCEPT !.sentiment = "positive"]]
Timer == [does |-> Updates, bond |-> About(None, g1)]
Nothing == [does |-> {}, bond |-> About(None, None)]
MetElsewhere ==
  [does |-> Updates \cup {"dialogue"},
   bond |-> [About(a1, g2) EXCEPT !.sentiment = "negative", !.suggestion = 100]]
PlansInChats == c1 :> {Met, Timer, Nothing} @@ c2 :> {MetElsewhere}
AskedAbout == {[actor |-> a1, habitat |-> g2, thread |-> None],
          [actor |-> None, habitat |-> None, thread |-> None]}

(***************************************************************************)
(* Wake-ups: in the first chat a model answers with up to two tool calls;  *)
(* in the second one it says one thing; the third one is only heard of.    *)
(***************************************************************************)
Single == {<<"send_reply">>, <<"stay_silent">>, <<"other">>}
Pairs == {<<"send_reply", "send_reply">>, <<"send_reply", "stay_silent">>,
          <<"stay_silent", "send_reply">>, <<"other", "stay_silent">>}
Answers == c1 :> {<<>>} \cup Single \cup Pairs @@ c2 :> {<<"send_reply">>} @@ c3 :> {}
InTwoChats == c1 :> {Life} @@ c2 :> {Life} @@ c3 :> {}

(***************************************************************************)
(* Conversations: a life that spoke first and two messages since; one      *)
(* where it said nothing, without a system text.                           *)
(***************************************************************************)
Opened == {
  <<<<"system", <<1>>>>, <<"assistant", <<2>>>>, <<"user", <<3>>>>, <<"user", <<4>>>>>>,
  <<<<"user", <<1>>>>, <<"assistant", <<>>>>, <<"user", <<2>>>>>>}

-----------------------------------------------------------------------------
\* The services a behaviour does not follow begin in one way.
Start ==
  /\ Init
  /\ part # "talks" => Len(talk) = 3
  /\ part # "plans" => policy = "continue" /\ memoryUp
  /\ part # "turns" => bot
  /\ part \in {"turns", "talks"} => backend = "memory"

FollowedSpec == Start /\ [][Next]_vars
=============================================================================
