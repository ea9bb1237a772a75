-------------------------- MODULE BehaviorDispatch --------------------------
(***************************************************************************)
(* The dispatch of the behavior plugin (behavior/src/index.ts): what a life *)
(* does about a message.  Three layers are asked in turn: the commands, the *)
(* instant rules, and the batcher, which collects the rest per life and     *)
(* habitat and wakes the life once for the lot.  A wake-up goes back to the *)
(* runtime as a synthetic stimulus, whose turn at the decide stage builds   *)
(* the prompt.                                                              *)
(*                                                                          *)
(* A habitat serves its stimuli one at a time, urgent ones first, and each  *)
(* stimulus for its lives in turn, as StimulusRuntime has it.  Time is      *)
(* counted in periods of the interval timer that drives the batchers.       *)
(***************************************************************************)
EXTENDS Integers, Sequences, FiniteSets, SequencesExt, Filters

CONSTANTS
  Messages, None,
  Habitats, HabitatOf, Lives, LivesOf,
  Actors, ActorOf,
  Commands, CommandOf, GlobalGap, UserGap,  \* alias hits by permitted authors
  Rules, RulesOf, Texts, RuleGap,           \* matching rules in order; the send-text ones
  Quiet, MaxWait, DensityWindow, Density, MaxBatch,
  MaxScopes, MaxPacks, InjectPacks,
  MaxTime, MaxScheduled  \* bounds of the model

ASSUME MessagesAssumption ==
  /\ None \notin Messages \cup Commands
  /\ HabitatOf \in [Messages -> Habitats] /\ ActorOf \in [Messages -> Actors]
  /\ LivesOf \in [Habitats -> Seq(Lives)]
  /\ \A h \in Habitats : IsInjective(LivesOf[h])
ASSUME LayersAssumption ==
  /\ CommandOf \in [Messages -> Commands \cup {None}]
  /\ GlobalGap \in [Commands -> Nat] /\ UserGap \in [Commands -> Nat]
  /\ RulesOf \in [Messages -> Seq(Rules)] /\ Texts \subseteq Rules
  /\ RuleGap \in [Rules -> Nat]
ASSUME LimitsAssumption ==
  /\ {Quiet, MaxWait, DensityWindow, Density, MaxBatch, InjectPacks} \subseteq Nat
  /\ MaxScopes \in Nat \ {0} /\ MaxPacks \in Nat \ {0}
  /\ MaxTime \in Nat /\ MaxScheduled \in Nat

Scopes == Lives \X Habitats

VARIABLES
  clock,
  stamp,       \* timestamp of a message, 0 before it arrives
  inbox,       \* habitat -> stimuli waiting in the runtime's queue
  serving,     \* habitat -> the stimulus in the pipeline, and the lives to come
  consumed,    \* messages whose metadata says dispatchConsumed
  globalLast, userLast, ruleLast,  \* cooldowns: the last time, 0 for never
  scopes,      \* keys of the cache of scopes, the least recently used first
  batch,       \* scope -> its AdaptiveBatcher
  packs,       \* scope -> its EventsPackMemory, by wake-up
  sending,     \* direct replies on their way to the platform
  wakes,       \* wake-ups so far: the n-th is the synthetic stimulus n
  heard,       \* <<l, m>>: the cognition of l has recorded m
  scheduled,   \* wake-ups of scheduled triggers so far
  replies,     \* history: direct replies per message
  lost         \* history: <<l, m>> forgotten with the scope they waited in

dispatchVars == <<consumed, globalLast, userLast, ruleLast>>
scopeVars == <<scopes, batch, packs>>
vars == <<clock, stamp, inbox, serving, dispatchVars, scopeVars, sending, wakes,
          heard, scheduled, replies, lost>>

-----------------------------------------------------------------------------
OfMessage(m) == [msg |-> m, wake |-> 0]
OfWake(n) == [msg |-> None, wake |-> n]

\* `since` is history: when the first event was pushed, by the model's clock.
NoBatch == [events |-> <<>>, start |-> 0, last |-> 0, window |-> <<>>, since |-> 0]

\* `shown` are the packs in the prompt, `built` how often it was assembled.
NewWake(k, source, events) ==
  [life |-> k[1], habitat |-> k[2], source |-> source, events |-> events,
   shown |-> <<>>, built |-> 0]

Init ==
  /\ clock = 1
  /\ stamp = [m \in Messages |-> 0]
  /\ inbox = [h \in Habitats |-> <<>>]
  /\ serving = [h \in Habitats |-> [entry |-> OfWake(0), rest |-> <<>>]]
  /\ consumed = {}
  /\ globalLast = [c \in Commands |-> 0]
  /\ userLast = [x \in Commands \X Actors |-> 0]
  /\ ruleLast = [x \in Rules \X Habitats |-> 0]
  /\ scopes = <<>>
  /\ batch = [k \in Scopes |-> NoBatch] /\ packs = [k \in Scopes |-> <<>>]
  /\ sending = {} /\ wakes = <<>> /\ heard = {} /\ scheduled = 0
  /\ replies = [m \in Messages |-> 0] /\ lost = {}

-----------------------------------------------------------------------------
(***************************************************************************)
(* Scopes: a bounded cache that forgets the least recently used one.        *)
(***************************************************************************)
\* Mutant: the cache grows beyond its limit.
TouchedOnly(k) == Append(Only(scopes, Scopes \ {k}), k)

Touched(k) ==
  LET keys == Append(Only(scopes, Scopes \ {k}), k)
  IN  IF Len(keys) > MaxScopes THEN Tail(keys) ELSE keys

Forgotten(k) == ToSet(scopes) \ ToSet(Touched(k))

Events(k) == ToSet(batch[k].events)

\* getScope(): what is left of the batches and packs when k is in the cache.
Enter(k) ==
  /\ scopes' = Touched(k)
  /\ lost' = lost \cup UNION {{x[1]} \X Events(x) : x \in Forgotten(k)}

Batches(k) == [x \in Scopes |-> IF x \in Forgotten(k) THEN NoBatch ELSE batch[x]]
Packs(k) == [x \in Scopes |-> IF x \in Forgotten(k) THEN <<>> ELSE packs[x]]

Latest(seq, n) == IF Len(seq) > n THEN SubSeq(seq, Len(seq) - n + 1, Len(seq)) ELSE seq

-----------------------------------------------------------------------------
(***************************************************************************)
(* fireTrigger(): the pack is recorded, the synthetic stimulus queued.      *)
(***************************************************************************)
Urgent(e) == e.wake # 0 /\ wakes[e.wake].source = "instant"

Queued(q, n, source) ==
  LET ahead == {e \in ToSet(q) : source = "instant" => Urgent(e)}
  IN  Only(q, ahead) \o <<OfWake(n)>> \o Only(q, ToSet(q) \ ahead)

\* An empty snapshot of the life's events is not recorded.
HasHeard(k) == \E x \in heard' : x[1] = k[1] /\ HabitatOf[x[2]] = k[2]

Fire(k, source, events) ==
  LET n == Len(wakes) + 1
  IN  /\ wakes' = Append(wakes, NewWake(k, source, events))
      /\ inbox' = [inbox EXCEPT ![k[2]] = Queued(@, n, source)]
      /\ packs' = IF HasHeard(k)
                    THEN [Packs(k) EXCEPT ![k] = Latest(Append(@, n), MaxPacks)]
                    ELSE Packs(k)

\* A scheduled trigger is due, for a life in a habitat it perceives.
Scheduled(k) ==
  /\ scheduled < MaxScheduled
  /\ k[1] \in ToSet(LivesOf[k[2]])
  /\ scheduled' = scheduled + 1
  /\ Enter(k)
  /\ batch' = Batches(k)
  /\ UNCHANGED heard
  /\ Fire(k, "scheduled", <<>>)
  /\ UNCHANGED <<clock, stamp, serving, dispatchVars, sending, replies>>

-----------------------------------------------------------------------------
(***************************************************************************)
(* The batcher.                                                             *)
(***************************************************************************)
\* Mutant: the longest wait is measured from the last event.
DueSinceLast(k, now) ==
  /\ batch[k].events # <<>>
  /\ \/ MaxWait > 0 /\ now - batch[k].last >= MaxWait
     \/ now - batch[k].last >= Quiet

Due(k, now) ==
  /\ batch[k].events # <<>>
  /\ \/ MaxWait > 0 /\ now - batch[k].start >= MaxWait
     \/ now - batch[k].last >= Quiet

\* The batchers due at the next call of the interval timer, in the cache's order,
\* and the wake-up of each.
Ready == {k \in Scopes : Due(k, clock + 1)}
Firing == Only(scopes, Ready)
IdOf(k) == Len(wakes) + CHOOSE i \in DOMAIN Firing : Firing[i] = k
FiringIn(h) == Only(Firing, Lives \X {h})

\* The interval timer: the due batchers fire, one after the other.
Tick ==
  /\ clock < MaxTime
  /\ clock' = clock + 1
  /\ scopes' = Only(scopes, Scopes \ Ready) \o Firing
  /\ batch' = [k \in Scopes |-> IF k \in Ready THEN NoBatch ELSE batch[k]]
  /\ packs' = [k \in Scopes |->
                 IF k \in Ready THEN Latest(Append(packs[k], IdOf(k)), MaxPacks)
                                ELSE packs[k]]
  /\ wakes' = wakes \o
              [i \in DOMAIN Firing |->
                 NewWake(Firing[i], "batcher", batch[Firing[i]].events)]
  /\ inbox' = [h \in Habitats |-> inbox[h] \o
                 [i \in DOMAIN FiringIn(h) |-> OfWake(IdOf(FiringIn(h)[i]))]]
  /\ UNCHANGED <<stamp, serving, dispatchVars, sending, heard, scheduled, replies, lost>>

Pushed(b, m) ==
  LET t == stamp[m]
      first == b.events = <<>>
  IN  [events |-> Append(b.events, m),
       start |-> IF first THEN t ELSE b.start,
       last |-> t,
       window |-> Only(Append(b.window, t), {x \in Nat : x > t - DensityWindow}),
       since |-> IF first THEN clock ELSE b.since]

Overfull(b) ==
  \/ MaxBatch > 0 /\ Len(b.events) >= MaxBatch
  \/ Density > 0 /\ Len(b.window) >= Density

\* Mutant: the batch is emptied before its events are taken.
CollectLosing(k, m) ==
  LET b == Pushed(Batches(k)[k], m)
  IN  /\ Enter(k)
      /\ IF Overfull(b)
           THEN /\ Fire(k, "batcher", <<>>)
                /\ batch' = [Batches(k) EXCEPT ![k] = NoBatch]
           ELSE /\ batch' = [Batches(k) EXCEPT ![k] = b]
                /\ packs' = Packs(k)
                /\ UNCHANGED <<inbox, wakes>>
      /\ UNCHANGED <<dispatchVars, sending, replies>>

\* Mutant: the batch is not emptied when it fires.
CollectKeeping(k, m) ==
  LET b == Pushed(Batches(k)[k], m)
  IN  /\ Enter(k)
      /\ batch' = [Batches(k) EXCEPT ![k] = b]
      /\ IF Overfull(b)
           THEN Fire(k, "batcher", b.events)
           ELSE packs' = Packs(k) /\ UNCHANGED <<inbox, wakes>>
      /\ UNCHANGED <<dispatchVars, sending, replies>>

\* The third layer: push().  A full or dense batch fires at once.
Collect(k, m) ==
  LET b == Pushed(Batches(k)[k], m)
  IN  /\ Enter(k)
      /\ IF Overfull(b)
           THEN /\ Fire(k, "batcher", b.events)
                /\ batch' = [Batches(k) EXCEPT ![k] = NoBatch]
           ELSE /\ batch' = [Batches(k) EXCEPT ![k] = b]
                /\ packs' = Packs(k)
                /\ UNCHANGED <<inbox, wakes>>
      /\ UNCHANGED <<dispatchVars, sending, replies>>

-----------------------------------------------------------------------------
(***************************************************************************)
(* Commands and instant rules.                                              *)
(***************************************************************************)
Cooled(last, gap) == last = 0 \/ clock - last >= gap

Commanded(m) ==
  LET c == CommandOf[m]
  IN  c # None /\ Cooled(globalLast[c], GlobalGap[c])
               /\ Cooled(userLast[<<c, ActorOf[m]>>], UserGap[c])

\* The rules that match and have cooled down; the first one counts.
Matching(k, m) ==
  Only(RulesOf[m], {r \in Rules : Cooled(ruleLast[<<r, k[2]>>], RuleGap[r])})

Reply(m, rule) ==
  /\ sending' = sending \cup {[msg |-> m, rule |-> rule]}
  /\ replies' = [replies EXCEPT ![m] = @ + 1]

\* The first layer.
Command(k, m) ==
  /\ Commanded(m)
  /\ globalLast' = [globalLast EXCEPT ![CommandOf[m]] = clock]
  /\ userLast' = [userLast EXCEPT ![<<CommandOf[m], ActorOf[m]>>] = clock]
  /\ consumed' = consumed \cup {m}
  /\ Reply(m, None)
  /\ UNCHANGED <<ruleLast, scopeVars, inbox, wakes, lost>>

\* The second layer: a rule that wakes the life, ...
InstantWake(k, m) ==
  /\ ~Commanded(m) /\ Matching(k, m) # <<>> /\ Head(Matching(k, m)) \notin Texts
  /\ ruleLast' = [ruleLast EXCEPT ![<<Head(Matching(k, m)), k[2]>>] = clock]
  /\ Enter(k)
  /\ batch' = Batches(k)
  /\ Fire(k, "instant", <<m>>)
  /\ UNCHANGED <<consumed, globalLast, userLast, sending, replies>>

\* Mutant: the message is not marked before the reply is out.
InstantTextUnmarked(k, m) ==
  /\ ~Commanded(m) /\ Matching(k, m) # <<>> /\ Head(Matching(k, m)) \in Texts
  /\ Reply(m, Head(Matching(k, m)))
  /\ UNCHANGED <<dispatchVars, scopeVars, inbox, wakes, lost>>

\* ... or one that replies with a template.
InstantText(k, m) ==
  /\ ~Commanded(m) /\ Matching(k, m) # <<>> /\ Head(Matching(k, m)) \in Texts
  /\ consumed' = consumed \cup {m}
  /\ Reply(m, Head(Matching(k, m)))
  /\ UNCHANGED <<globalLast, userLast, ruleLast, scopeVars, inbox, wakes, lost>>

\* A reply is out or has failed; one that is out uses up the rule's cooldown.
ReplyEnds(x) ==
  /\ x \in sending
  /\ sending' = sending \ {x}
  /\ \/ UNCHANGED ruleLast
     \/ /\ x.rule # None
        /\ ruleLast' = [ruleLast EXCEPT ![<<x.rule, HabitatOf[x.msg]>>] = clock]
  /\ UNCHANGED <<clock, stamp, inbox, serving, consumed, globalLast, userLast, scopeVars,
                 wakes, heard, scheduled, replies, lost>>

-----------------------------------------------------------------------------
(***************************************************************************)
(* The life phase of a stimulus, up to the decide stage.                    *)
(***************************************************************************)
\* ingestForLife(), after cognition has recorded the message.
Ingest(k, m) ==
  /\ heard' = heard \cup {<<k[1], m>>}
  /\ \/ m \in consumed /\ UNCHANGED <<dispatchVars, scopeVars, inbox, wakes, sending,
                                      replies, lost>>
     \/ /\ m \notin consumed
        /\ \/ Command(k, m)
           \/ InstantWake(k, m)
           \/ InstantText(k, m)
           \/ ~Commanded(m) /\ Matching(k, m) = <<>> /\ Collect(k, m)

\* buildWakeMessage(): the latest pack is taken for the wake-up's own.
Shown(seq) ==
  LET taken == Latest(seq, InjectPacks + 1)
  IN  IF InjectPacks = 0 \/ taken = <<>> THEN <<>> ELSE Front(taken)

\* buildWakeArtifact(), for the life the wake-up is for.
Build(k, n) ==
  IF wakes[n].life # k[1]
    THEN UNCHANGED <<scopeVars, wakes, lost>>
    ELSE /\ Enter(k)
         /\ batch' = Batches(k) /\ packs' = Packs(k)
         /\ wakes' = [wakes EXCEPT ![n].built = @ + 1, ![n].shown = Shown(Packs(k)[k])]

\* The decide stage for the next life of the stimulus being served.
Decide(h) ==
  LET entry == serving[h].entry
      k == <<Head(serving[h].rest), h>>
  IN  /\ serving[h].rest # <<>>
      /\ serving' = [serving EXCEPT ![h].rest = Tail(@)]
      /\ IF entry.wake = 0
           THEN Ingest(k, entry.msg)
           ELSE Build(k, entry.wake) /\ UNCHANGED <<dispatchVars, inbox, sending, heard,
                                                    replies>>
      /\ UNCHANGED <<clock, stamp, scheduled>>

Arrive(m) ==
  /\ stamp[m] = 0
  /\ stamp' = [stamp EXCEPT ![m] = clock]
  /\ inbox' = [inbox EXCEPT ![HabitatOf[m]] = Append(@, OfMessage(m))]
  /\ UNCHANGED <<clock, serving, dispatchVars, scopeVars, sending, wakes, heard, scheduled,
                 replies, lost>>

\* The runtime is done with a stimulus, and takes the next one up.
Take(h) ==
  /\ serving[h].rest = <<>> /\ inbox[h] # <<>>
  /\ serving' = [serving EXCEPT ![h] = [entry |-> Head(inbox[h]), rest |-> LivesOf[h]]]
  /\ inbox' = [inbox EXCEPT ![h] = Tail(@)]
  /\ UNCHANGED <<clock, stamp, dispatchVars, scopeVars, sending, wakes, heard, scheduled,
                 replies, lost>>

Next ==
  \/ Tick
  \/ \E m \in Messages : Arrive(m)
  \/ \E h \in Habitats : Take(h) \/ Decide(h)
  \/ \E x \in sending : ReplyEnds(x)
  \/ \E k \in Scopes : Scheduled(k)

Spec == Init /\ [][Next]_vars

-----------------------------------------------------------------------------
Entries == [msg : Messages, wake : {0}] \cup [msg : {None}, wake : Nat]

\* Every variable has its type; the cache has distinct keys within its limit,
\* and nothing is kept for a scope outside it.
TypeOK ==
  /\ clock \in Nat /\ scheduled \in 0..MaxScheduled
  /\ stamp \in [Messages -> Nat] /\ replies \in [Messages -> Nat]
  /\ inbox \in [Habitats -> Seq(Entries)]
  /\ serving \in [Habitats -> [entry : Entries, rest : Seq(Lives)]]
  /\ consumed \subseteq Messages
  /\ globalLast \in [Commands -> Nat] /\ userLast \in [Commands \X Actors -> Nat]
  /\ ruleLast \in [Rules \X Habitats -> Nat]
  /\ scopes \in Seq(Scopes) /\ Len(scopes) <= MaxScopes /\ IsInjective(scopes)
  /\ batch \in [Scopes -> [events : Seq(Messages), start : Nat, last : Nat,
                           window : Seq(Nat), since : Nat]]
  /\ packs \in [Scopes -> Seq(Nat)]
  /\ \A k \in Scopes \ ToSet(scopes) : batch[k] = NoBatch /\ packs[k] = <<>>
  /\ sending \subseteq [msg : Messages, rule : Rules \cup {None}]
  /\ heard \subseteq Lives \X Messages /\ lost \subseteq Lives \X Messages
  /\ wakes \in Seq([life : Lives, habitat : Habitats,
                    source : {"instant", "batcher", "scheduled"},
                    events : Seq(Messages), shown : Seq(Nat), built : Nat])

\* The wake-ups of a life for a message.
WakesFor(l, m) == {n \in DOMAIN wakes : wakes[n].life = l /\ m \in ToSet(wakes[n].events)}

\* A life is woken for a message at most once, by whichever layer, never while
\* the message still waits in a batch, and the prompt is assembled once.
WokenOnce ==
  /\ \A n \in DOMAIN wakes : wakes[n].built <= 1
  /\ \A l \in Lives, m \in Messages :
       /\ Cardinality(WakesFor(l, m)) <= 1
       /\ WakesFor(l, m) # {} => m \notin Events(<<l, HabitatOf[m]>>)

\* However many lives perceive a message, it is directly replied to once.
RepliedOnce == \A m \in Messages : replies[m] <= 1

\* What a life has perceived was replied to, or woke the life, or still waits
\* to; only the eviction of a scope lets go of it.
NothingForgotten ==
  \A x \in heard :
    \/ x[2] \in consumed
    \/ WakesFor(x[1], x[2]) # {}
    \/ x[2] \in Events(<<x[1], HabitatOf[x[2]]>>)
    \/ x \in lost

\* However lively the chat, a batch fires within the longest wait of its first
\* event's push (batcher.ts, max-wait), by a platform clock that agrees.
WaitsBounded ==
  \A k \in Scopes :
    MaxWait > 0 /\ batch[k].events # <<>> => clock - batch[k].since < MaxWait

-----------------------------------------------------------------------------
(***************************************************************************)
(* The inductive invariant behind WokenOnce, NothingForgotten and           *)
(* WaitsBounded: what is still to be served has had no effect yet, and what *)
(* a life was woken for or waits to be woken for, it has perceived.         *)
(***************************************************************************)
\* A stimulus of this habitat that exists.
Known(h, e) ==
  \/ /\ e.wake = 0 /\ e.msg \in Messages
     /\ HabitatOf[e.msg] = h /\ stamp[e.msg] # 0
  \/ /\ e.msg = None /\ e.wake \in DOMAIN wakes
     /\ wakes[e.wake].habitat = h

\* For this life, it has not been at the decide stage yet.
Ahead(l, e) ==
  IF e.wake = 0 THEN <<l, e.msg>> \notin heard
                ELSE wakes[e.wake].life = l => wakes[e.wake].built = 0

\* A stimulus is queued once, and is at the decide stage once for each life.
InTurn(h) ==
  /\ \/ serving[h].entry = OfWake(0) /\ serving[h].rest = <<>>
     \/ Known(h, serving[h].entry)
  /\ IsInjective(serving[h].rest)
  /\ \A l \in ToSet(serving[h].rest) : Ahead(l, serving[h].entry)
  /\ IsInjective(inbox[h])
  /\ \A e \in ToSet(inbox[h]) :
       Known(h, e) /\ e # serving[h].entry /\ \A l \in Lives : Ahead(l, e)

ServedInTurn == \A h \in Habitats : InTurn(h)

\* No message is in two wake-ups of a life, or in one and in a batch.
WokenForHeard ==
  /\ \A x \in heard : stamp[x[2]] # 0
  /\ \A k \in Scopes : \A m \in Events(k) :
       HabitatOf[m] = k[2] /\ <<k[1], m>> \in heard /\ WakesFor(k[1], m) = {}
  /\ \A n \in DOMAIN wakes :
       /\ wakes[n].built <= 1
       /\ \A m \in ToSet(wakes[n].events) :
            <<wakes[n].life, m>> \in heard /\ WakesFor(wakes[n].life, m) = {n}

\* The batcher's clock is the stamp of its first event, never later than its push.
WaitsTimed ==
  /\ clock > 0 /\ \A m \in Messages : stamp[m] <= clock
  /\ \A k \in Scopes :
       batch[k].events # <<>> =>
         /\ batch[k].start <= batch[k].since /\ batch[k].since <= clock
         /\ MaxWait > 0 => clock - batch[k].since < MaxWait

-----------------------------------------------------------------------------
\* behavior/src/index.ts, ingestForLife(): commands and instant wake-ups take
\* effect once per stimulus, the lives after the first one skip it.
InstantOnce ==
  \A m \in Messages :
    Cardinality({n \in DOMAIN wakes :
                   wakes[n].source = "instant" /\ m \in ToSet(wakes[n].events)}) <= 1

=============================================================================
