----------------------------- MODULE MCPlatform -----------------------------
(***************************************************************************)
(* What the services stand on: the kernel's event bus and pipeline, the    *)
(* protocols' streams, and the observatory that listens to the bus.  They  *)
(* share no state, so a behaviour follows one of them and the others stay  *)
(* as they began.                                                          *)
(***************************************************************************)
EXTENDS EventBus, StimulusPipeline, Observatory, TLC

CONSTANTS
  Upstreams, MaxSaid, MaxCalled, ChoiceIds, Tools

VARIABLES
  part,  \* the part a behaviour follows
  protocol, style, config, said, wire, stream, parser, decoder, out, torn  \* ProtocolStreams

Streams == INSTANCE ProtocolStreams

streamVars == <<protocol, style, config, said, wire, stream, parser, decoder, out, torn>>
vars == <<part, busVars, pipelineVars, streamVars, observatoryVars>>

\* The seven stages of the core and, lexically among them, those of two plugins.
MCNames == <<"audit", "behavior.decide", "behavior.execute", "cognition",
             "dialogue", "emotion", "perception", "sender", "stimulus.received">>
Stage(name, after, before) == [name |-> name, after |-> after, before |-> before]
MCCore == {
  Stage("stimulus.received", {}, {}),
  Stage("perception", {"stimulus.received"}, {}),
  Stage("cognition", {"perception"}, {}),
  Stage("behavior.decide", {"cognition"}, {}),
  Stage("behavior.execute", {"behavior.decide"}, {}),
  Stage("dialogue", {"behavior.execute"}, {}),
  Stage("sender", {"dialogue"}, {})}
Hook(stage, owner, priority, isolate) ==
  [stage |-> stage, owner |-> owner, priority |-> priority, isolate |-> isolate]
MCCoreHooks == <<Hook("perception", "core", 2, FALSE), Hook("cognition", "core", 2, FALSE)>>
\* One plugin puts a stage between perception and cognition.  The other audits
\* what perception got, before anyone else: its stage comes after all others, and
\* in an upgraded form (the third) it wants to come first as well: a cycle.
MCPlugins == <<
  [stage |-> Stage("emotion", {"perception"}, {"cognition"}),
   hook  |-> Hook("emotion", "emotion", 2, TRUE)],
  [stage |-> Stage("audit", {"dialogue"}, {}),
   hook  |-> Hook("perception", "audit", 1, TRUE)],
  [stage |-> Stage("audit", {"dialogue"}, {"perception"}),
   hook  |-> Hook("audit", "audit2", 2, FALSE)]>>

\* Every protocol, and every framing with one of them at least.
MCUpstreams == {
  <<"chat", "bare">>, <<"anthropic", "named">>, <<"gemini", "crlf">>,
  <<"responses", "two lines">>, <<"custom", "crlf">>}

\* One call may move on to a second slot, the other one is for a slot that leads to
\* a provider or, asked for nobody, to none.
MCRequests ==
  "first" :> {[about |-> <<"s1">>, slots |-> 2]}
  @@ "second" :> {[about |-> <<"s2">>, slots |-> 1], [about |-> <<>>, slots |-> 0]}
MCErrors == {
  [code |-> "http-429", class |-> "rate_limit", retryable |-> TRUE],
  [code |-> "SyntaxError", class |-> "", retryable |-> FALSE]}
Event(name, at, component) ==
  [name |-> name, at |-> at, meta |-> [diagnostics |-> <<>>, component |-> component]]
MCAmbient == {
  Event(<<"runtime", "trace", "completed">>, "stimulusId" :> <<"s1">>, ""),
  Event(<<"brain", "failed">>, "request.metadata.sourceStimulusIds" :> <<"s2">>, ""),
  Event(Repository("initialized"), <<>>, "memory"),
  Event(Repository("fallback-to-memory"), <<>>, "memory"),
  Event(RepositoryFailed("write"), <<>>, "trigger-task")}

Init ==
  /\ part \in {"bus", "pipeline", "streams", "observatory"}
  /\ BusInit /\ PipelineInit /\ Streams!StreamInit /\ ObservatoryInit
  /\ part # "streams" => protocol = "gemini"

Next ==
  /\ UNCHANGED part
  /\ \/ part = "bus" /\ BusNext /\ UNCHANGED <<pipelineVars, streamVars, observatoryVars>>
     \/ part = "pipeline" /\ PipelineNext /\ UNCHANGED <<busVars, streamVars, observatoryVars>>
     \/ /\ part = "streams" /\ Streams!StreamNext
        /\ UNCHANGED <<busVars, pipelineVars, observatoryVars>>
     \/ /\ part = "observatory" /\ ObservatoryNext
        /\ UNCHANGED <<busVars, pipelineVars, streamVars>>

Spec == Init /\ [][Next]_vars

\* Nothing said is lost, repeated or displaced between an upstream and the stream
\* events of its decoder, see ProtocolStreams.
StreamFaithful == part = "streams" => Streams!StreamFaithful

\* The end of a stream is told as it was, see ProtocolStreams.
StreamEndsHonestly == part = "streams" => Streams!StreamEndsHonestly
=============================================================================
