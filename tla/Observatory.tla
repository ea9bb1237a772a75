----------------------------- MODULE Observatory -----------------------------
(***************************************************************************)
(* What the observatory shows of the events it hears: ObservatoryStore and *)
(* DefaultObservatoryService of @elysia-ai/observatory, fed by the bus.    *)
(*                                                                         *)
(* Model calls are the events with the most to tell: a call emits          *)
(* gateway.requested and, at its end, gateway.responded or gateway.failed  *)
(* with the diagnostics it collected meanwhile; any number of them are     *)
(* under way, with other events between theirs.  The other events come as  *)
(* they please.  ModelGateway has the breaker and the routing themselves.  *)
(***************************************************************************)
EXTENDS Integers, FiniteSets, SequencesExt, Filters

CONSTANTS
  Ambient,     \* events of other components, [name, at, meta]
  Calls,       \* model calls
  RequestsOf,  \* what each call may ask for: the stimuli it is for, its candidates
  Errors,      \* what an attempt fails with, [code, class, retryable]
  MaxRetries,  \* retries of one candidate
  MaxRecords,  \* config.maxRecords, of the events and of the traces
  MaxItems,    \* how much of an array sanitizeValue keeps: 20 in the code
  RecentLimit, \* recentFailureLimit
  MaxHeard     \* bound: how many events are emitted

Absent == ""
NoDetail == [diagnostics |-> <<>>, component |-> Absent]

Repository(what) == <<"repository", what>>
RepositoryFailed(what) == <<"repository", what, "failed">>

\* A store keeps something.  Only the gateway emits the gateway's events; a repository
\* is told of when it is set up, replaced, or fails (that of the triggers only then).
\* An error always has a code: the name of its class, if no other.
StoreAssumption ==
  /\ MaxRecords \in Nat \ {0} /\ MaxItems \in Nat /\ RecentLimit \in Nat \ {0}
  /\ IsFiniteSet(Calls)
ASSUME StoreAssumption
EventAssumption ==
  \A event \in Ambient :
    /\ event.name \in Seq(STRING) /\ event.name # <<>> /\ Head(event.name) # "gateway"
    /\ Head(event.name) = "repository" =>
         event.name \in {Repository("initialized"), Repository("fallback-to-memory"),
                        RepositoryFailed("query"), RepositoryFailed("write")}
ASSUME EventAssumption
ErrorAssumption == \A error \in Errors : error.code # Absent
ASSUME ErrorAssumption

VARIABLES
  records,    \* store.records
  byStimulus, \* store.byStimulus
  traceRing,  \* service.traces
  calls,      \* the model calls
  heard,      \* history: every record made
  completed,  \* history: every trace completed
  cleared     \* history: how many events had been heard when clear() was called

observatoryVars == <<records, byStimulus, traceRing, calls, heard, completed, cleared>>

(***************************************************************************)
(* A record of an event.  A name is the sequence of its segments, a        *)
(* payload the function of its paths to the strings found there.           *)
(***************************************************************************)
Kinds == {"runtime", "life", "stimulus", "projection", "perception", "cognition",
          "behavior", "body", "dialogue", "brain", "gateway", "sender", "memory",
          "bond", "homeostasis", "repository"}
Statuses == {"starting", "started", "stopping", "stopped", "loaded", "completed",
             "failed", "received", "selected", "planned", "created", "generated",
             "requested", "responded", "sent", "skipped", "retrieved", "updated",
             "consolidated", "initialized", "recorded", "routed", "fired"}
StimulusPaths == <<
  "stimulusId", "stimulus.id", "task.sourceStimulusIds",
  "request.metadata.sourceStimulusIds", "response.metadata.sourceStimulusIds",
  "task.target.sourceStimulusId", "task.payload.sourceStimulusId", "plan.stimulusId",
  "action.payload.request.stimulusId", "instruction.stimulusId", "request.stimulusId",
  "result.state.metadata.lastHomeostasisUpdateSource.stimulusId">>

KindFromEvent(name) == IF Head(name) \in Kinds THEN Head(name) ELSE "runtime"
StatusFromEvent(name) == IF Last(name) \in Statuses THEN Last(name) ELSE "completed"

\* The first string of each path, and of the paths the first that has one.
FirstString(strings) ==
  IF \E i \in DOMAIN strings : strings[i] # Absent
    THEN strings[CHOOSE i \in DOMAIN strings :
                   strings[i] # Absent /\ \A j \in 1..(i - 1) : strings[j] = Absent]
    ELSE Absent
StringAt(at, path) == IF path \in DOMAIN at THEN FirstString(at[path]) ELSE Absent
ExtractStimulusId(at) ==
  FirstString([i \in DOMAIN StimulusPaths |-> StringAt(at, StimulusPaths[i])])

Record(event) ==
  [name |-> event.name, kind |-> KindFromEvent(event.name),
   status |-> StatusFromEvent(event.name),
   stimulus |-> ExtractStimulusId(event.at), meta |-> event.meta]

(***************************************************************************)
(* ObservatoryStore.                                                       *)
(***************************************************************************)
ListOf(index, s) == IF s \in DOMAIN index THEN index[s] ELSE <<>>

\* A list that becomes empty is deleted.
WithList(index, s, list) ==
  [t \in {t \in DOMAIN index \cup {s} : t = s => list # <<>>} |->
     IF t = s THEN list ELSE index[t]]

Listed(index, r) ==
  IF r.stimulus = Absent THEN index
  ELSE WithList(index, r.stimulus, Append(ListOf(index, r.stimulus), r))

\* Mutant: what leaves the ring leaves its list at the wrong end.
UnlistedLatest(index, r) ==
  IF r.stimulus \notin DOMAIN index THEN index
  ELSE WithList(index, r.stimulus, Front(index[r.stimulus]))

Unlisted(index, r) ==
  IF r.stimulus \notin DOMAIN index THEN index
  ELSE WithList(index, r.stimulus, Tail(index[r.stimulus]))

AppendRecord(r) ==
  IF Len(records) + 1 > MaxRecords
    THEN /\ records' = Tail(Append(records, r))
         /\ byStimulus' = Unlisted(Listed(byStimulus, r), Head(Append(records, r)))
    ELSE /\ records' = Append(records, r)
         /\ byStimulus' = Listed(byStimulus, r)

LastOf(n, seq) == IF Len(seq) <= n THEN seq ELSE SubSeq(seq, Len(seq) - n + 1, Len(seq))

\* A query keeps the last `limit` of the records that pass its test.
Query(matched, limit) == LastOf(limit, Only(records, matched))
GetTraceByStimulusId(s) == ListOf(byStimulus, s)

(***************************************************************************)
(* Events.  The handler of onAny records an event as soon as it is emitted.*)
(***************************************************************************)
Heard(event) ==
  /\ Len(heard) < MaxHeard
  /\ AppendRecord(Record(event))
  /\ heard' = Append(heard, Record(event))

IsTrace(event) == event.name = <<"runtime", "trace", "completed">>

RecordTrace(event) ==
  IF IsTrace(event)
    THEN /\ traceRing' = LastOf(MaxRecords, Append(traceRing, ExtractStimulusId(event.at)))
         /\ completed' = Append(completed, ExtractStimulusId(event.at))
    ELSE UNCHANGED <<traceRing, completed>>

\* A component tells of its repository's replacement after it was set up.
InTurn(event) ==
  event.name = Repository("fallback-to-memory") =>
    \E i \in DOMAIN heard : /\ heard[i].name = Repository("initialized")
                           /\ heard[i].meta.component = event.meta.component

Observe(event) ==
  /\ InTurn(event)
  /\ RecordTrace(event) /\ Heard(event)
  /\ UNCHANGED <<calls, cleared>>

\* clear() empties the store; the traces stay.
Clear ==
  /\ records # <<>>
  /\ records' = <<>> /\ byStimulus' = <<>>
  /\ cleared' = Len(heard)
  /\ UNCHANGED <<traceRing, calls, heard, completed>>

(***************************************************************************)
(* A model call and its diagnostics.  Its candidates are counted from 1; a *)
(* request for a slot nobody configured has none that leads to a provider. *)
(***************************************************************************)
NoCall == [pc |-> "idle", about |-> <<>>, slots |-> 0, slot |-> 0, tried |-> 0,
           attempts |-> <<>>, code |-> Absent]

Gateway(status) == <<"gateway", status>>
GatewayEvent(status, about, diagnostics) ==
  [name |-> Gateway(status),
   at |-> [path \in {"request.metadata.sourceStimulusIds"} |-> about],
   meta |-> [NoDetail EXCEPT !.diagnostics = diagnostics]]

Attempt(code, class) == [code |-> code, class |-> class]

\* sanitizeValue keeps the head of an array; what it redacts or sums up, nobody here
\* asks for.
Sanitized(items) == IF Len(items) <= MaxItems THEN items ELSE SubSeq(items, 1, MaxItems)

\* The diagnostics as they are recorded.  (A sequence of one record, as NoDetail has
\* the empty one.)
Finalized(call) ==
  <<[provider |-> call.slot, failedOver |-> call.slot > 1,
     retryCount |-> IF call.attempts = <<>> THEN 0 ELSE Len(call.attempts) - 1,
     code |-> call.code, attempts |-> Sanitized(call.attempts)]>>

\* execute() of a call that waits in `pc`; a request without a route throws what
\* the router threw, and no event tells of its end.
Request(c, about, slots) ==
  /\ calls[c] = NoCall
  /\ calls' = [calls EXCEPT ![c] =
       [NoCall EXCEPT !.pc = IF slots = 0 THEN "thrown" ELSE "trying",
                      !.about = about, !.slots = slots, !.slot = 1]]
  /\ Heard(GatewayEvent("requested", about, <<>>))
  /\ UNCHANGED <<traceRing, completed, cleared>>

Ended(c, status, call) ==
  /\ calls' = [calls EXCEPT ![c] = [call EXCEPT !.pc = status]]
  /\ Heard(GatewayEvent(status, call.about, Finalized(call)))
  /\ UNCHANGED <<traceRing, completed, cleared>>

Tried(call, code, class) ==
  [call EXCEPT !.attempts = Append(@, Attempt(code, class)), !.tried = @ + 1]
Failed(call, code, class) == [Tried(call, code, class) EXCEPT !.code = code]

Respond(c) ==
  /\ calls[c].pc = "trying"
  /\ Ended(c, "responded", Tried(calls[c], Absent, Absent))

\* The next attempt at the same provider, or the first one at the next.
Again(c, call) ==
  /\ calls' = [calls EXCEPT ![c] = call]
  /\ UNCHANGED <<records, byStimulus, traceRing, heard, completed, cleared>>

Retry(c, error) ==
  /\ calls[c].pc = "trying" /\ error.retryable /\ calls[c].tried < MaxRetries
  /\ Again(c, Failed(calls[c], error.code, error.class))

\* shouldFallback: a retryable error, or an open circuit, which is met before any
\* attempt and counts as one in the diagnostics.
FailAt(c, call, fallback) ==
  IF fallback /\ call.slot < call.slots
    THEN Again(c, [call EXCEPT !.slot = @ + 1, !.tried = 0])
    ELSE Ended(c, "failed", call)

GiveUp(c, error) ==
  /\ calls[c].pc = "trying" /\ (error.retryable => calls[c].tried = MaxRetries)
  /\ FailAt(c, Failed(calls[c], error.code, error.class), error.retryable)

CircuitOpen(c) ==
  /\ calls[c].pc = "trying" /\ calls[c].tried = 0
  /\ FailAt(c, Failed(calls[c], "circuit-open", Absent), TRUE)

(***************************************************************************)
(* Analytics: counters over every record the store holds.                  *)
(***************************************************************************)
Shown == ToSet(records)
Named(name) == {r \in Shown : r.name = name}
Count(S) == Len(Only(records, S))

\* incrementCounter, for every record of the domain and what is read from it.
Tally(key) ==
  [k \in {key[r] : r \in DOMAIN key} \ {Absent} |-> Count({r \in DOMAIN key : key[r] = k})]

Diagnosed == {r \in Shown : r.kind = "gateway" /\ r.meta.diagnostics # <<>>}
Diagnosis(r) == r.meta.diagnostics[1]
Failures == Named(Gateway("failed"))

Met(code, attempts) == \E i \in DOMAIN attempts : attempts[i].code = code

\* Of the attempts that are left, the last one decides: a class that is not there
\* ends the search as well, since it is not the empty string.
ErrorClass(d) == IF d.attempts = <<>> THEN Absent ELSE Last(d.attempts).class

GatewayAnalytics ==
  [requests |-> Count(Named(Gateway("requested"))),
   responses |-> Count(Named(Gateway("responded"))),
   failures |-> Count(Failures),
   failedOver |-> Count({r \in Diagnosed : Diagnosis(r).failedOver}),
   circuitOpen |-> Count({r \in Diagnosed : Met("circuit-open", Diagnosis(r).attempts)}),
   byErrorCode |-> Tally([r \in Failures |-> Diagnosis(r).code]),
   byErrorClass |-> Tally([r \in Failures |-> ErrorClass(Diagnosis(r))])]

RepositoryAnalytics ==
  [initialized |-> Count(Named(Repository("initialized"))),
   fallback |-> Count(Named(Repository("fallback-to-memory"))),
   queryFailures |-> Count(Named(RepositoryFailed("query"))),
   writeFailures |-> Count(Named(RepositoryFailed("write"))),
   byComponent |-> Tally([r \in {r \in Shown : r.kind = "repository"} |-> r.meta.component])]

\* createSnapshot and createOperationalSnapshot.
Troubles == {r \in Shown : r.status = "failed"}
FailureCount == Count(Troubles)
RecentFailures == Query(Troubles, RecentLimit)
LoadedComponents ==
  {r.kind : r \in {r \in Shown : r.kind \in {"memory", "bond", "runtime"}}}
    \cup {"gateway" : r \in Named(Gateway("responded"))}
    \cup {IF r.meta.component = Absent THEN "repository" ELSE r.meta.component :
            r \in Named(Repository("initialized"))}

-----------------------------------------------------------------------------
ObservatoryInit ==
  /\ records = <<>> /\ byStimulus = <<>> /\ traceRing = <<>>
  /\ calls = [c \in Calls |-> NoCall]
  /\ heard = <<>> /\ completed = <<>> /\ cleared = 0

ObservatoryNext ==
  \/ \E event \in Ambient : Observe(event)
  \/ Clear
  \/ \E c \in Calls :
       \/ \E request \in RequestsOf[c] : Request(c, request.about, request.slots)
       \/ Respond(c) \/ CircuitOpen(c)
       \/ \E error \in Errors : Retry(c, error) \/ GiveUp(c, error)

ObservatorySpec == ObservatoryInit /\ [][ObservatoryNext]_observatoryVars

(***************************************************************************)
(* Properties.                                                             *)
(***************************************************************************)
\* The lists of the stimuli are the ring, told apart, in order and without rests of
\* what left it; ring and traces are the last that happened since they began.
StoreExact ==
  /\ records = LastOf(MaxRecords, SubSeq(heard, cleared + 1, Len(heard)))
  /\ DOMAIN byStimulus = {r.stimulus : r \in Shown} \ {Absent}
  /\ \A s \in DOMAIN byStimulus :
       GetTraceByStimulusId(s) = Query({r \in Shown : r.stimulus = s}, MaxRecords)
  /\ traceRing = LastOf(MaxRecords, completed)

CallsIn(pcs) == {c \in Calls : calls[c].pc \in pcs}
Requested == Calls \ CallsIn({"idle"})
Reported == CallsIn({"responded", "failed"})
LastAttempt(c) == Last(calls[c].attempts)

\* While the ring holds everything, the counters are those of the calls themselves,
\* whatever else was heard between their events.  What an attempt was like is seen
\* of a call that made no more of them than are kept.
CallsAccounted ==
  LET shown == GatewayAnalytics
      failed == CallsIn({"failed"})
  IN /\ shown.requests = Cardinality(Requested)
     /\ shown.responses = Cardinality(CallsIn({"responded"}))
     /\ shown.failures = Cardinality(failed)
     /\ shown.failedOver = Cardinality({c \in Reported : calls[c].slot > 1})
     /\ DOMAIN shown.byErrorCode = {LastAttempt(c).code : c \in failed}
     /\ \A code \in DOMAIN shown.byErrorCode :
          shown.byErrorCode[code] = Cardinality({c \in failed : LastAttempt(c).code = code})
     /\ (\A c \in Reported : Len(calls[c].attempts) <= MaxItems) =>
          /\ shown.circuitOpen =
               Cardinality({c \in Reported : Met("circuit-open", calls[c].attempts)})
          /\ DOMAIN shown.byErrorClass = {LastAttempt(c).class : c \in failed} \ {Absent}
          /\ \A class \in DOMAIN shown.byErrorClass :
               shown.byErrorClass[class] =
                 Cardinality({c \in failed : LastAttempt(c).class = class})

\* A stimulus' trace has every event of its calls; no failure goes unseen, and whose
\* repository is counted is listed, or it is one that failed.
TracesAccounted ==
  /\ \A s \in DOMAIN byStimulus :
       Len(Only(byStimulus[s], {r \in Shown : r.kind = "gateway"}))
         = Cardinality({c \in Requested : FirstString(calls[c].about) = s})
             + Cardinality({c \in Reported : FirstString(calls[c].about) = s})
  /\ FailureCount >= Cardinality(CallsIn({"failed"}))
  /\ Len(RecentFailures) = IF FailureCount <= RecentLimit THEN FailureCount ELSE RecentLimit
  /\ \A component \in DOMAIN RepositoryAnalytics.byComponent :
       \/ component \in LoadedComponents
       \/ \E r \in Troubles : r.kind = "repository" /\ r.meta.component = component

\* ObservatoryStore, DefaultObservatoryService: what is shown is what was heard.  The
\* lists by stimulus never drift from the ring, however its head is evicted and the
\* store cleared; and as long as nothing has left it, the analytics agree with what
\* the model calls really did, with events of several calls interleaved.
ObservedAsItWent ==
  /\ StoreExact
  /\ Len(heard) <= MaxRecords /\ cleared = 0 => CallsAccounted /\ TracesAccounted
=============================================================================
