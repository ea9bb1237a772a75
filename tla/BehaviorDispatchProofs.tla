----------------------- MODULE BehaviorDispatchProofs -----------------------
(***************************************************************************)
(* Theorems about the dispatch of the behavior plugin (BehaviorDispatch),  *)
(* for every number of messages, lives, habitats, commands and rules, and  *)
(* every limit: one reply, one wake-up, nothing forgotten, no long wait.   *)
(*                                                                         *)
(* The inductive invariant DispatchInv says that what is queued has had no *)
(* effect on anyone (ServedInTurn), that what waits in a batch or is in a  *)
(* wake-up was heard, and is in one of them only (WokenForHeard), and that *)
(* the batcher's clock agrees with the model's (WaitsTimed).  The steps    *)
(* are summed up by what they add to the queues (Grown) and what they move *)
(* from the batches to the wake-ups (Moved, Minded).                       *)
(***************************************************************************)
EXTENDS BehaviorDispatch, FilterProofs, FiniteSetTheorems, TLAPS

\* What nobody has consumed, nobody has replied to.
Unanswered ==
  /\ replies \in [Messages -> Nat]
  /\ \A m \in Messages : replies[m] <= IF m \in consumed THEN 1 ELSE 0

\* A life that replies consumes the message in the same step.
LEMMA ReplyConsumes ==
  ASSUME Unanswered, NEW m, NEW rule, m \notin consumed,
         Reply(m, rule), consumed' = consumed \cup {m}
  PROVE  Unanswered'
  <1>1. replies' = [replies EXCEPT ![m] = @ + 1]
    BY DEF Reply
  <1>2. CASE m \in Messages
    BY <1>1, <1>2 DEF Unanswered
  <1>3. CASE m \notin Messages
    BY <1>1, <1>3 DEF Unanswered
  <1>4. QED
    BY <1>2, <1>3

\* The three layers: only the first and the second one reply.
LEMMA IngestKeeps ==
  ASSUME Unanswered, NEW k, NEW m, Ingest(k, m)
  PROVE  Unanswered'
  <1>1. CASE UNCHANGED <<consumed, replies>>
    BY <1>1 DEF Unanswered
  <1>2. CASE m \notin consumed /\ Command(k, m)
    BY <1>2, ReplyConsumes DEF Command
  <1>3. CASE m \notin consumed /\ InstantText(k, m)
    BY <1>3, ReplyConsumes DEF InstantText
  <1>4. InstantWake(k, m) => UNCHANGED <<consumed, replies>>
    BY DEF InstantWake
  <1>5. Collect(k, m) => UNCHANGED <<consumed, replies>>
    BY DEF Collect, dispatchVars
  <1>6. QED
    BY <1>1, <1>2, <1>3, <1>4, <1>5 DEF Ingest, dispatchVars

\* behavior/src/index.ts, ingestForLife(): however many lives perceive a message, at
\* most one of them replies to it directly, by a command or by a rule.
THEOREM OneReply == Spec => []RepliedOnce
  <1>1. Init => Unanswered
    BY DEF Init, Unanswered
  <1>2. Unanswered /\ [Next]_vars => Unanswered'
    <2>. SUFFICES ASSUME Unanswered, [Next]_vars
                  PROVE  Unanswered'
      OBVIOUS
    <2>1. CASE UNCHANGED <<consumed, replies>>
      BY <2>1 DEF Unanswered
    <2>2. Tick => UNCHANGED <<consumed, replies>>
      BY DEF Tick, dispatchVars
    <2>3. ASSUME NEW m \in Messages, Arrive(m)
          PROVE  UNCHANGED <<consumed, replies>>
      BY <2>3 DEF Arrive, dispatchVars
    <2>4. ASSUME NEW h \in Habitats, Take(h)
          PROVE  UNCHANGED <<consumed, replies>>
      BY <2>4 DEF Take, dispatchVars
    <2>5. ASSUME NEW h \in Habitats, Decide(h)
          PROVE  Unanswered'
      <3>1. \/ \E k, m : Ingest(k, m)
            \/ UNCHANGED <<consumed, replies>>
        BY <2>5 DEF Decide, dispatchVars
      <3>2. QED
        BY <2>1, <3>1, IngestKeeps
    <2>6. ASSUME NEW x \in sending, ReplyEnds(x)
          PROVE  UNCHANGED <<consumed, replies>>
      BY <2>6 DEF ReplyEnds
    <2>7. ASSUME NEW k \in Scopes, Scheduled(k)
          PROVE  UNCHANGED <<consumed, replies>>
      BY <2>7 DEF Scheduled, dispatchVars
    <2>8. UNCHANGED vars => UNCHANGED <<consumed, replies>>
      BY DEF vars, dispatchVars
    <2>9. QED
      BY <2>1, <2>2, <2>3, <2>4, <2>5, <2>6, <2>7, <2>8 DEF Next
  <1>3. Unanswered => RepliedOnce
    BY DEF Unanswered, RepliedOnce
  <1>4. QED
    BY <1>1, <1>2, <1>3, PTL DEF Spec

-----------------------------------------------------------------------------
(***************************************************************************)
(* What entering a scope, firing a wake-up and the interval timer do to     *)
(* the cache, the batches, the packs, the wake-ups and the queues.          *)
(***************************************************************************)
BatchSet == [events : Seq(Messages), start : Nat, last : Nat, window : Seq(Nat), since : Nat]

WakeSet == [life : Lives, habitat : Habitats, source : {"instant", "batcher", "scheduled"},
            events : Seq(Messages), shown : Seq(Nat), built : Nat]

LEMMA NoBatchType == NoBatch \in BatchSet /\ NoBatch.events = << >>
BY DEF NoBatch, BatchSet

LEMMA OfWakeIs == \A n : OfWake(n).msg = None /\ OfWake(n).wake = n
BY DEF OfWake

LEMMA LatestType ==
  ASSUME NEW seq \in Seq(Nat), NEW n \in Nat
  PROVE  Latest(seq, n) \in Seq(Nat)
BY DEF Latest

LEMMA TouchedFacts ==
  ASSUME TypeOK, NEW k \in Scopes
  PROVE  /\ Touched(k) \in Seq(Scopes) /\ Len(Touched(k)) <= MaxScopes
         /\ IsInjective(Touched(k)) /\ k \in ToSet(Touched(k))
<1> DEFINE a == Only(scopes, Scopes \ {k})
           keys == Append(a, k)
<1>1. /\ a \in Seq(Scopes) /\ Len(a) <= Len(scopes) /\ IsInjective(a) /\ k \notin ToSet(a)
      /\ Len(scopes) <= MaxScopes /\ Len(scopes) \in Nat /\ MaxScopes \in Nat \ {0}
  BY OnlyFacts, LimitsAssumption DEF TypeOK
<1> HIDE DEF a
<1>2. /\ keys \in Seq(Scopes) /\ Len(keys) = Len(a) + 1 /\ IsInjective(keys)
      /\ k \in ToSet(keys)
  BY <1>1, AppendFacts
<1>3. Len(a) \in Nat /\ (Len(a) # 0 => Head(keys) = a[1] /\ a[1] \in ToSet(a))
  BY <1>1 DEF ToSet
<1>4. CASE Len(keys) > MaxScopes
  <2>1. Len(a) # 0 /\ Head(keys) # k
    BY <1>1, <1>2, <1>3, <1>4
  <2> HIDE DEF keys
  <2>2. keys # << >>
    BY <1>2, <1>3
  <2>3. /\ Tail(keys) \in Seq(Scopes) /\ Len(Tail(keys)) = Len(keys) - 1
        /\ IsInjective(Tail(keys)) /\ k \in ToSet(Tail(keys))
    BY <1>2, <2>1, <2>2, TailFacts
  <2>4. Touched(k) = Tail(keys)
    BY <1>4 DEF Touched, keys, a
  <2>5. QED
    BY <1>1, <1>2, <1>3, <2>3, <2>4
<1>5. CASE ~ (Len(keys) > MaxScopes)
  <2>1. Touched(k) = keys
    BY <1>5 DEF Touched, a
  <2> HIDE DEF keys
  <2>2. QED
    BY <1>1, <1>2, <1>3, <1>5, <2>1
<1>6. QED
  BY <1>4, <1>5

\* Nothing is kept for a scope outside the cache.
CacheOnly(B, Q) == \A x \in Scopes \ ToSet(scopes') : B[x] = NoBatch /\ Q[x] = << >>

LEMMA EnterFacts ==
  ASSUME TypeOK, NEW k \in Scopes, Enter(k)
  PROVE  /\ scopes' \in Seq(Scopes) /\ Len(scopes') <= MaxScopes /\ IsInjective(scopes')
         /\ k \in ToSet(scopes')
         /\ Batches(k) \in [Scopes -> BatchSet] /\ Packs(k) \in [Scopes -> Seq(Nat)]
         /\ CacheOnly(Batches(k), Packs(k))
         /\ lost' \subseteq Lives \X Messages /\ lost \subseteq lost'
         /\ Batches(k)[k] = batch[k]
         /\ \A x \in Scopes : \/ Batches(k)[x] = batch[x]
                              \/ /\ Batches(k)[x] = NoBatch
                                 /\ \A m \in Events(x) : << x[1], m >> \in lost'
<1>1. /\ scopes' = Touched(k) /\ scopes' \in Seq(Scopes) /\ Len(scopes') <= MaxScopes
      /\ IsInjective(scopes') /\ k \in ToSet(scopes')
  BY TouchedFacts DEF Enter
<1>2. Forgotten(k) \subseteq Scopes /\ k \notin Forgotten(k)
  BY <1>1 DEF Forgotten, TypeOK, ToSet
<1>3. batch \in [Scopes -> BatchSet] /\ packs \in [Scopes -> Seq(Nat)]
  BY DEF TypeOK, BatchSet
<1>4. Batches(k) \in [Scopes -> BatchSet] /\ Packs(k) \in [Scopes -> Seq(Nat)]
  BY <1>3, NoBatchType DEF Batches, Packs
<1>5. CacheOnly(Batches(k), Packs(k))
  BY <1>1 DEF CacheOnly, Batches, Packs, Forgotten, TypeOK
<1>6. \A x \in Scopes : \A m \in Events(x) : m \in Messages
  BY <1>3 DEF Events, ToSet, BatchSet
<1>7. lost' \subseteq Lives \X Messages /\ lost \subseteq lost'
  <2>1. \A x \in Scopes : x[1] \in Lives
    BY DEF Scopes
  <2>2. ASSUME NEW x \in Forgotten(k)
        PROVE  {x[1]} \X Events(x) \subseteq Lives \X Messages
    BY <1>2, <1>6, <2>1
  <2>3. UNION {{x[1]} \X Events(x) : x \in Forgotten(k)} \subseteq Lives \X Messages
    BY <2>2
  <2>4. QED
    BY <2>3 DEF Enter, TypeOK
<1>8. \A x \in Scopes : \/ Batches(k)[x] = batch[x]
                        \/ /\ Batches(k)[x] = NoBatch
                           /\ \A m \in Events(x) : << x[1], m >> \in lost'
  <2> SUFFICES ASSUME NEW x \in Forgotten(k), NEW m \in Events(x)
               PROVE  << x[1], m >> \in lost'
    BY DEF Batches
  <2>1. << x[1], m >> \in {x[1]} \X Events(x)
    OBVIOUS
  <2>2. QED
    BY <2>1 DEF Enter
<1>9. QED
  BY <1>1, <1>2, <1>4, <1>5, <1>7, <1>8 DEF Batches

\* The wake-ups there were stay; the new ones are queued in their habitat.
Grown ==
  /\ wakes' \in Seq(WakeSet) /\ Len(wakes) <= Len(wakes')
  /\ \A n \in DOMAIN wakes : wakes'[n] = wakes[n]
  /\ \A n \in DOMAIN wakes' \ DOMAIN wakes : wakes'[n].built = 0
  /\ inbox' \in [Habitats -> Seq(Entries)]
  /\ \A h \in Habitats :
       /\ IsInjective(inbox'[h])
       /\ \A e \in ToSet(inbox'[h]) :
            \/ e \in ToSet(inbox[h])
            \/ /\ e.msg = None /\ e.wake \in DOMAIN wakes' \ DOMAIN wakes
               /\ wakes'[e.wake].habitat = h

LEMMA NothingGrows ==
  ASSUME TypeOK, ServedInTurn, inbox' = inbox, wakes' = wakes
  PROVE  Grown
BY DEF Grown, TypeOK, ServedInTurn, InTurn, WakeSet

LEMMA WakeTyped ==
  ASSUME NEW k \in Scopes, NEW source \in {"instant", "batcher", "scheduled"},
         NEW events \in Seq(Messages)
  PROVE  /\ NewWake(k, source, events) \in WakeSet
         /\ NewWake(k, source, events).built = 0
         /\ NewWake(k, source, events).events = events
         /\ NewWake(k, source, events).life = k[1]
         /\ NewWake(k, source, events).habitat = k[2]
BY DEF NewWake, WakeSet, Scopes

\* A queue takes a new entry up once, wherever it stands in it.
LEMMA QueuedFacts ==
  ASSUME NEW q \in Seq(Entries), IsInjective(q), NEW n \in Nat, NEW source,
         OfWake(n) \notin ToSet(q)
  PROVE  /\ Queued(q, n, source) \in Seq(Entries) /\ IsInjective(Queued(q, n, source))
         /\ ToSet(Queued(q, n, source)) \subseteq ToSet(q) \cup {OfWake(n)}
<1> DEFINE ahead == {e \in ToSet(q) : source = "instant" => Urgent(e)}
           a == Only(q, ahead)
           b == Only(q, ToSet(q) \ ahead)
           o == OfWake(n)
<1>1. /\ a \in Seq(Entries) /\ IsInjective(a)
      /\ \A x : x \in ToSet(a) <=> x \in ToSet(q) /\ x \in ahead
  BY OnlyFacts
<1>2. /\ b \in Seq(Entries) /\ IsInjective(b)
      /\ \A x : x \in ToSet(b) <=> x \in ToSet(q) /\ x \in ToSet(q) \ ahead
  BY OnlyFacts
<1>3. o \in Entries /\ o \notin ToSet(q)
  BY DEF OfWake, Entries
<1>4. Queued(q, n, source) = (a \o << o >>) \o b
  BY DEF Queued
<1> HIDE DEF ahead, a, b, o
<1>5. /\ Append(a, o) \in Seq(Entries) /\ IsInjective(Append(a, o))
      /\ \A x : x \in ToSet(Append(a, o)) <=> x \in ToSet(a) \/ x = o
  BY <1>1, <1>3, AppendFacts
<1>6. a \o << o >> = Append(a, o)
  BY <1>1, <1>3
<1>7. \A x \in ToSet(Append(a, o)) : x \notin ToSet(b)
  BY <1>1, <1>2, <1>3, <1>5
<1>8. /\ Append(a, o) \o b \in Seq(Entries) /\ IsInjective(Append(a, o) \o b)
      /\ \A x : x \in ToSet(Append(a, o) \o b) <=> x \in ToSet(Append(a, o)) \/ x \in ToSet(b)
  BY <1>2, <1>5, <1>7, ConcatFacts
<1>9. QED
  BY <1>1, <1>2, <1>4, <1>5, <1>6, <1>8 DEF o

\* What is pushed stays in the batch until it fires.
LEMMA PushedType ==
  ASSUME TypeOK, NEW b \in BatchSet, NEW m \in Messages
  PROVE  /\ Pushed(b, m) \in BatchSet
         /\ Pushed(b, m).events = Append(b.events, m) /\ Pushed(b, m).events # << >>
         /\ ToSet(Pushed(b, m).events) = ToSet(b.events) \cup {m}
<1>1. /\ b.events \in Seq(Messages) /\ b.start \in Nat /\ b.last \in Nat
      /\ b.window \in Seq(Nat) /\ b.since \in Nat
  BY DEF BatchSet
<1>2. stamp[m] \in Nat /\ clock \in Nat
  BY DEF TypeOK
<1>3. Append(b.window, stamp[m]) \in Seq(Nat)
  BY <1>1, <1>2
<1>4. Only(Append(b.window, stamp[m]), {x \in Nat : x > stamp[m] - DensityWindow}) \in Seq(Nat)
  BY <1>3, OnlyFacts
<1>5. Append(b.events, m) \in Seq(Messages) /\ Append(b.events, m) # << >>
  <2> DEFINE e == b.events
  <2>1. e \in Seq(Messages)
    BY <1>1
  <2> HIDE DEF e
  <2>2. Append(e, m) \in Seq(Messages)
    BY <2>1
  <2>3. Len(Append(e, m)) = Len(e) + 1 /\ Len(e) \in Nat /\ Len(<< >>) = 0
    BY <2>1
  <2>4. QED
    BY <2>2, <2>3 DEF e
<1>6. Pushed(b, m) \in BatchSet /\ Pushed(b, m).events = Append(b.events, m)
  BY <1>1, <1>2, <1>4, <1>5 DEF Pushed, BatchSet
<1>7. ToSet(Append(b.events, m)) = ToSet(b.events) \cup {m}
  <2> DEFINE e == b.events
  <2>1. /\ DOMAIN Append(e, m) = 1..(Len(e) + 1) /\ DOMAIN e = 1..Len(e) /\ Len(e) \in Nat
        /\ \A i \in 1..Len(e) : Append(e, m)[i] = e[i]
        /\ Append(e, m)[Len(e) + 1] = m
    BY <1>1
  <2> HIDE DEF e
  <2>2. \A i : i \in 1..(Len(e) + 1) <=> i \in 1..Len(e) \/ i = Len(e) + 1
    BY <2>1
  <2>3. QED
    BY <2>1, <2>2 DEF ToSet, e
<1>8. QED
  BY <1>5, <1>6, <1>7

\* A wake-up is fired: it is the next one, and queued in its habitat.
LEMMA FireFacts ==
  ASSUME TypeOK, ServedInTurn, NEW k \in Scopes,
         NEW source \in {"instant", "batcher", "scheduled"}, NEW events \in Seq(Messages),
         Enter(k), Fire(k, source, events)
  PROVE  /\ Grown /\ Len(wakes') = Len(wakes) + 1
         /\ wakes'[Len(wakes) + 1] = NewWake(k, source, events)
         /\ packs' \in [Scopes -> Seq(Nat)]
         /\ \A x \in Scopes \ ToSet(scopes') : packs'[x] = << >>
<1> DEFINE n == Len(wakes) + 1
           w == NewWake(k, source, events)
<1>1. wakes \in Seq(WakeSet) /\ Len(wakes) \in Nat /\ n \in Nat \ {0}
  BY DEF TypeOK, WakeSet
<1>2. w \in WakeSet /\ w.built = 0 /\ w.habitat = k[2] /\ wakes' = Append(wakes, w)
  BY WakeTyped DEF Fire
<1> HIDE DEF w
<1>3. /\ wakes' \in Seq(WakeSet) /\ Len(wakes') = n /\ wakes'[n] = w
      /\ \A i \in DOMAIN wakes : wakes'[i] = wakes[i]
      /\ DOMAIN wakes' \ DOMAIN wakes = {n}
  BY <1>1, <1>2
<1>4. k[2] \in Habitats /\ inbox \in [Habitats -> Seq(Entries)]
  BY DEF Scopes, TypeOK
<1>5. \A h \in Habitats : OfWake(n) \notin ToSet(inbox[h])
  <2> SUFFICES ASSUME NEW h \in Habitats, OfWake(n) \in ToSet(inbox[h])
               PROVE  FALSE
    OBVIOUS
  <2>1. Known(h, OfWake(n))
    BY DEF ServedInTurn, InTurn
  <2>2. n \in DOMAIN wakes
    BY <1>1, <2>1 DEF Known, OfWake
  <2>3. QED
    BY <1>1, <2>2
<1>6. /\ inbox' = [inbox EXCEPT ![k[2]] = Queued(inbox[k[2]], n, source)]
      /\ Queued(inbox[k[2]], n, source) \in Seq(Entries)
      /\ IsInjective(Queued(inbox[k[2]], n, source))
      /\ ToSet(Queued(inbox[k[2]], n, source)) \subseteq ToSet(inbox[k[2]]) \cup {OfWake(n)}
  BY <1>1, <1>4, <1>5, QueuedFacts DEF Fire, ServedInTurn, InTurn
<1>7. inbox' \in [Habitats -> Seq(Entries)]
  BY <1>4, <1>6
<1>8. \A h \in Habitats :
        /\ IsInjective(inbox'[h])
        /\ \A e \in ToSet(inbox'[h]) :
             \/ e \in ToSet(inbox[h])
             \/ e = OfWake(n) /\ h = k[2]
  BY <1>4, <1>6 DEF ServedInTurn, InTurn
<1>9. Grown
  <2>1. OfWake(n).msg = None /\ OfWake(n).wake = n
    BY DEF OfWake
  <2>2. \A h \in Habitats : \A e \in ToSet(inbox'[h]) :
          \/ e \in ToSet(inbox[h])
          \/ /\ e.msg = None /\ e.wake \in DOMAIN wakes' \ DOMAIN wakes
             /\ wakes'[e.wake].habitat = h
    BY <1>2, <1>3, <1>8, <2>1
  <2>3. QED
    BY <1>1, <1>2, <1>3, <1>7, <1>8, <2>2 DEF Grown
<1>10. /\ packs' \in [Scopes -> Seq(Nat)]
       /\ \A x \in Scopes \ ToSet(scopes') : packs'[x] = << >>
  <2>1. /\ Packs(k) \in [Scopes -> Seq(Nat)] /\ k \in ToSet(scopes')
        /\ \A x \in Scopes \ ToSet(scopes') : Packs(k)[x] = << >>
    BY EnterFacts DEF CacheOnly
  <2>2. Latest(Append(Packs(k)[k], n), MaxPacks) \in Seq(Nat)
    <3>1. Append(Packs(k)[k], n) \in Seq(Nat) /\ MaxPacks \in Nat
      BY <1>1, <2>1, LimitsAssumption
    <3>2. QED
      BY <3>1, LatestType
  <2>3. \/ packs' = [Packs(k) EXCEPT ![k] = Latest(Append(Packs(k)[k], n), MaxPacks)]
        \/ packs' = Packs(k)
    BY DEF Fire
  <2>4. QED
    BY <2>1, <2>2, <2>3
<1>11. QED
  BY <1>3, <1>9, <1>10 DEF w

\* The batchers that are due are all in the cache, and each fires once.
LEMMA FiringFacts ==
  ASSUME TypeOK
  PROVE  /\ Firing \in Seq(Scopes) /\ IsInjective(Firing)
         /\ Ready \subseteq Scopes
         /\ \A k : k \in ToSet(Firing) <=> k \in Ready
         /\ \A k \in Ready : /\ batch[k].events # << >> /\ k \in ToSet(scopes)
                             /\ IdOf(k) - Len(wakes) \in DOMAIN Firing
                             /\ Firing[IdOf(k) - Len(wakes)] = k
                             /\ IdOf(k) \in Nat /\ IdOf(k) > Len(wakes)
<1>1. /\ Firing \in Seq(Scopes) /\ IsInjective(Firing)
      /\ \A k : k \in ToSet(Firing) <=> k \in ToSet(scopes) /\ k \in Ready
  BY OnlyFacts DEF Firing, TypeOK
<1>2. Ready \subseteq Scopes /\ \A k \in Ready : batch[k].events # << >>
  BY DEF Ready, Due
<1>3. \A k \in Ready : k \in ToSet(scopes)
  BY <1>2, NoBatchType DEF TypeOK
<1>4. wakes \in Seq(WakeSet) /\ Len(wakes) \in Nat
  BY DEF TypeOK, WakeSet
<1>5. ASSUME NEW k \in Ready
      PROVE  /\ IdOf(k) - Len(wakes) \in DOMAIN Firing /\ Firing[IdOf(k) - Len(wakes)] = k
             /\ IdOf(k) \in Nat /\ IdOf(k) > Len(wakes)
  <2> DEFINE i == CHOOSE i \in DOMAIN Firing : Firing[i] = k
  <2>1. \E j \in DOMAIN Firing : Firing[j] = k
    BY <1>1, <1>3 DEF ToSet
  <2>2. i \in DOMAIN Firing /\ Firing[i] = k
    BY <2>1
  <2>3. IdOf(k) = Len(wakes) + i
    BY DEF IdOf
  <2>4. i \in Nat \ {0}
    BY <1>1, <2>2
  <2> HIDE DEF i
  <2>5. QED
    BY <1>4, <2>2, <2>3, <2>4
<1>6. QED
  BY <1>1, <1>2, <1>3, <1>5

LEMMA TickFacts ==
  ASSUME TypeOK, ServedInTurn, Tick
  PROVE  /\ Grown
         /\ \A n \in DOMAIN wakes' \ DOMAIN wakes :
              \E k \in Ready : n = IdOf(k) /\ wakes'[n] = NewWake(k, "batcher", batch[k].events)
         /\ \A k \in Ready : /\ IdOf(k) \in DOMAIN wakes'
                             /\ wakes'[IdOf(k)] = NewWake(k, "batcher", batch[k].events)
         /\ scopes' \in Seq(Scopes) /\ Len(scopes') <= MaxScopes /\ IsInjective(scopes')
         /\ batch' \in [Scopes -> BatchSet] /\ packs' \in [Scopes -> Seq(Nat)]
         /\ CacheOnly(batch', packs')
<1> DEFINE new == [i \in DOMAIN Firing |-> NewWake(Firing[i], "batcher", batch[Firing[i]].events)]
<1>1. /\ Firing \in Seq(Scopes) /\ IsInjective(Firing) /\ Ready \subseteq Scopes
      /\ DOMAIN Firing = 1..Len(Firing) /\ Len(Firing) \in Nat
      /\ \A k : k \in ToSet(Firing) <=> k \in Ready
  BY FiringFacts
<1>2. /\ wakes \in Seq(WakeSet) /\ Len(wakes) \in Nat /\ batch \in [Scopes -> BatchSet]
      /\ DOMAIN wakes = 1..Len(wakes) /\ packs \in [Scopes -> Seq(Nat)]
      /\ inbox \in [Habitats -> Seq(Entries)] /\ scopes \in Seq(Scopes)
      /\ IsInjective(scopes) /\ Len(scopes) <= MaxScopes
  BY DEF TypeOK, WakeSet, BatchSet
<1>3. \A k \in Scopes : NewWake(k, "batcher", batch[k].events) \in WakeSet
                        /\ NewWake(k, "batcher", batch[k].events).built = 0
                        /\ NewWake(k, "batcher", batch[k].events).habitat = k[2]
  <2>1. \A k \in Scopes : batch[k].events \in Seq(Messages)
    BY <1>2 DEF BatchSet
  <2>2. QED
    BY <2>1, WakeTyped
<1>4. new \in Seq(WakeSet) /\ Len(new) = Len(Firing)
  <2>1. new \in [1..Len(Firing) -> WakeSet]
    BY <1>1, <1>3
  <2>2. QED
    BY <1>1, <2>1
<1>5. \A i \in DOMAIN Firing : new[i] = NewWake(Firing[i], "batcher", batch[Firing[i]].events)
  OBVIOUS
<1> HIDE DEF new
<1>6. /\ wakes' \in Seq(WakeSet) /\ Len(wakes') = Len(wakes) + Len(Firing)
      /\ \A i \in DOMAIN wakes : wakes'[i] = wakes[i]
      /\ DOMAIN wakes' = 1..(Len(wakes) + Len(Firing))
      /\ \A i \in 1..Len(Firing) : wakes'[Len(wakes) + i] = new[i]
  <2>1. wakes' = wakes \o new
    BY DEF Tick, new
  <2>2. QED
    <3>1. /\ wakes \o new \in Seq(WakeSet) /\ DOMAIN (wakes \o new) = 1..(Len(wakes) + Len(new))
          /\ Len(wakes \o new) = Len(wakes) + Len(new)
          /\ \A i \in 1..Len(wakes) : (wakes \o new)[i] = wakes[i]
          /\ \A i \in 1..Len(new) : (wakes \o new)[Len(wakes) + i] = new[i]
      <4>1. wakes \in Seq(WakeSet) /\ new \in Seq(WakeSet)
        BY <1>2, <1>4
      <4>2. QED
        BY <4>1, ConcatAt
    <3>2. QED
      BY <1>2, <1>4, <2>1, <3>1
<1>7. ASSUME NEW k \in Ready
      PROVE  /\ IdOf(k) \in DOMAIN wakes' \ DOMAIN wakes
             /\ wakes'[IdOf(k)] = NewWake(k, "batcher", batch[k].events)
  <2>1. /\ IdOf(k) - Len(wakes) \in 1..Len(Firing) /\ Firing[IdOf(k) - Len(wakes)] = k
        /\ IdOf(k) \in Nat /\ IdOf(k) > Len(wakes)
    BY <1>1, FiringFacts
  <2>2. Len(wakes) + (IdOf(k) - Len(wakes)) = IdOf(k)
    BY <1>2, <2>1
  <2>3. wakes'[IdOf(k)] = new[IdOf(k) - Len(wakes)]
    BY <1>6, <2>1, <2>2
  <2>4. IdOf(k) \in 1..(Len(wakes) + Len(Firing)) /\ IdOf(k) \notin 1..Len(wakes)
    BY <1>1, <1>2, <2>1
  <2>5. QED
    BY <1>1, <1>2, <1>5, <1>6, <2>1, <2>3, <2>4
<1>8. ASSUME NEW n \in DOMAIN wakes' \ DOMAIN wakes
      PROVE  \E k \in Ready : n = IdOf(k)
  <2>1. n - Len(wakes) \in 1..Len(Firing) /\ n \in Nat
    BY <1>1, <1>2, <1>6
  <2> DEFINE k == Firing[n - Len(wakes)]
  <2>2. k \in Ready
    BY <1>1, <2>1 DEF ToSet
  <2>3. /\ IdOf(k) - Len(wakes) \in 1..Len(Firing) /\ Firing[IdOf(k) - Len(wakes)] = k
        /\ IdOf(k) \in Nat
    BY <1>1, <2>2, FiringFacts
  <2>4. IdOf(k) - Len(wakes) = n - Len(wakes)
    BY <1>1, <2>1, <2>3 DEF IsInjective
  <2>5. n = IdOf(k)
    BY <1>2, <2>1, <2>3, <2>4
  <2>6. QED
    BY <2>2, <2>5
<1>9. ASSUME NEW h \in Habitats
      PROVE  /\ inbox'[h] \in Seq(Entries) /\ IsInjective(inbox'[h])
             /\ \A e \in ToSet(inbox'[h]) :
                  \/ e \in ToSet(inbox[h])
                  \/ \E k \in Ready : k[2] = h /\ e = OfWake(IdOf(k))
  <2> DEFINE here == FiringIn(h)
             q == [i \in DOMAIN here |-> OfWake(IdOf(here[i]))]
  <2>1. /\ here \in Seq(Scopes) /\ IsInjective(here)
        /\ \A k : k \in ToSet(here) <=> k \in Ready /\ k \in Lives \X {h}
    BY <1>1, OnlyFacts DEF FiringIn
  <2> HIDE DEF here
  <2>2. /\ DOMAIN here = 1..Len(here) /\ Len(here) \in Nat
        /\ \A i \in 1..Len(here) : here[i] \in Ready /\ here[i][2] = h
    BY <2>1 DEF ToSet
  <2>3. \A i \in 1..Len(here) : OfWake(IdOf(here[i])) \in Entries
    BY <2>2, FiringFacts DEF OfWake, Entries
  <2>4. q \in [1..Len(here) -> Entries]
    BY <2>2, <2>3
  <2>5. q \in Seq(Entries) /\ DOMAIN q = 1..Len(here)
    BY <2>2, <2>4
  <2>6. \A i \in 1..Len(here) : q[i] = OfWake(IdOf(here[i]))
    BY <2>2
  <2>7. inbox'[h] = inbox[h] \o q
    BY DEF Tick, here
  <2> HIDE DEF q
  <2>8. ASSUME NEW i \in 1..Len(here), NEW j \in 1..Len(here), q[i] = q[j]
        PROVE  i = j
    <3>1. IdOf(here[i]) = IdOf(here[j])
      <4>1. q[i] = OfWake(IdOf(here[i])) /\ q[j] = OfWake(IdOf(here[j]))
        BY <2>6
      <4>2. /\ OfWake(IdOf(here[i])).wake = IdOf(here[i])
            /\ OfWake(IdOf(here[j])).wake = IdOf(here[j])
        BY OfWakeIs
      <4>3. QED
        BY <2>8, <4>1, <4>2
    <3>2. here[i] = here[j]
      BY <2>2, <3>1, FiringFacts
    <3>3. QED
      BY <2>1, <2>2, <3>2 DEF IsInjective
  <2>9. IsInjective(q)
    BY <2>5, <2>8 DEF IsInjective
  <2>10. \A e \in ToSet(q) : \E k \in Ready : k[2] = h /\ e = OfWake(IdOf(k))
    BY <2>2, <2>5, <2>6 DEF ToSet
  <2>11. \A e \in ToSet(inbox[h]) : e \notin ToSet(q)
    <3> SUFFICES ASSUME NEW e \in ToSet(inbox[h]), e \in ToSet(q)
                 PROVE  FALSE
      OBVIOUS
    <3>1. PICK k \in Ready : e = OfWake(IdOf(k))
      BY <2>10
    <3>2. IdOf(k) \in Nat /\ IdOf(k) > Len(wakes)
      BY FiringFacts
    <3>3. Known(h, e) /\ e.wake = IdOf(k)
      BY <3>1 DEF ServedInTurn, InTurn, OfWake
    <3>4. QED
      BY <1>2, <3>2, <3>3 DEF Known
  <2>12. inbox[h] \in Seq(Entries) /\ IsInjective(inbox[h])
    BY <1>2 DEF ServedInTurn, InTurn
  <2>13. /\ inbox[h] \o q \in Seq(Entries) /\ IsInjective(inbox[h] \o q)
         /\ \A x : x \in ToSet(inbox[h] \o q) <=> x \in ToSet(inbox[h]) \/ x \in ToSet(q)
    BY <2>5, <2>9, <2>11, <2>12, ConcatFacts
  <2>14. QED
    BY <2>7, <2>10, <2>13
<1>10. Grown
  <2>1. inbox' \in [Habitats -> Seq(Entries)]
    <3>1. inbox' = [h \in Habitats |-> inbox'[h]]
      BY DEF Tick
    <3>2. QED
      BY <1>9, <3>1
  <2>2. \A n \in DOMAIN wakes' \ DOMAIN wakes : wakes'[n].built = 0
    BY <1>1, <1>3, <1>7, <1>8
  <2>3. ASSUME NEW h \in Habitats, NEW e \in ToSet(inbox'[h])
        PROVE  \/ e \in ToSet(inbox[h])
               \/ /\ e.msg = None /\ e.wake \in DOMAIN wakes' \ DOMAIN wakes
                  /\ wakes'[e.wake].habitat = h
    <3>1. CASE e \in ToSet(inbox[h])
      BY <3>1
    <3>2. ASSUME NEW k \in Ready, k[2] = h, e = OfWake(IdOf(k))
          PROVE  /\ e.msg = None /\ e.wake \in DOMAIN wakes' \ DOMAIN wakes
                 /\ wakes'[e.wake].habitat = h
      <4>1. e.msg = None /\ e.wake = IdOf(k)
        BY <3>2 DEF OfWake
      <4>2. wakes'[IdOf(k)].habitat = h
        BY <1>1, <1>3, <1>7, <3>2
      <4>3. QED
        BY <1>7, <4>1, <4>2
    <3>3. QED
      BY <1>9, <3>1, <3>2
  <2>4. Len(wakes) <= Len(wakes')
    BY <1>1, <1>2, <1>6
  <2>5. QED
    BY <1>6, <1>9, <2>1, <2>2, <2>3, <2>4 DEF Grown
<1>11. /\ scopes' \in Seq(Scopes) /\ Len(scopes') <= MaxScopes /\ IsInjective(scopes')
       /\ \A k : k \in ToSet(scopes') <=> k \in ToSet(scopes)
  <2> DEFINE a == Only(scopes, Scopes \ Ready)
  <2>1. /\ a \in Seq(Scopes) /\ IsInjective(a)
        /\ \A k : k \in ToSet(a) <=> k \in ToSet(scopes) /\ k \in Scopes \ Ready
    BY <1>2, OnlyFacts
  <2>2. Len(a) + Len(Firing) = Len(scopes)
    <3>1. \A x \in Scopes : x \in Scopes \ Ready <=> x \notin Ready
      OBVIOUS
    <3>2. scopes \in Seq(Scopes)
      BY <1>2
    <3>3. Len(Only(scopes, Scopes \ Ready)) + Len(Only(scopes, Ready)) = Len(scopes)
      BY <3>1, <3>2, OnlySplits
    <3>4. QED
      BY <3>3 DEF Firing
  <2>3. scopes' = a \o Firing
    BY DEF Tick
  <2> HIDE DEF a
  <2>4. \A k \in ToSet(a) : k \notin ToSet(Firing)
    BY <1>1, <2>1
  <2>5. /\ a \o Firing \in Seq(Scopes) /\ IsInjective(a \o Firing)
        /\ Len(a \o Firing) = Len(a) + Len(Firing)
        /\ \A k : k \in ToSet(a \o Firing) <=> k \in ToSet(a) \/ k \in ToSet(Firing)
    BY <1>1, <2>1, <2>4, ConcatFacts
  <2>6. \A k \in ToSet(scopes) : k \in Scopes
    BY <1>2 DEF ToSet
  <2>7. \A k \in Ready : k \in ToSet(scopes)
    BY FiringFacts
  <2>8. QED
    BY <1>1, <1>2, <2>1, <2>2, <2>3, <2>5, <2>6, <2>7
<1>12. batch' \in [Scopes -> BatchSet] /\ packs' \in [Scopes -> Seq(Nat)]
  <2>1. \A k \in Ready : Latest(Append(packs[k], IdOf(k)), MaxPacks) \in Seq(Nat)
    <3>1. \A k \in Ready : Append(packs[k], IdOf(k)) \in Seq(Nat) /\ MaxPacks \in Nat
      BY <1>1, <1>2, FiringFacts, LimitsAssumption
    <3>2. QED
      BY <3>1, LatestType
  <2>2. QED
    BY <1>2, <2>1, NoBatchType DEF Tick
<1>13. CacheOnly(batch', packs')
  <2> SUFFICES ASSUME NEW x \in Scopes, x \notin ToSet(scopes)
               PROVE  batch'[x] = NoBatch /\ packs'[x] = << >>
    BY <1>11 DEF CacheOnly
  <2>1. x \notin Ready
    BY FiringFacts
  <2>2. QED
    BY <2>1 DEF Tick, TypeOK
<1>14. QED
  BY <1>7, <1>8, <1>10, <1>11, <1>12, <1>13

-----------------------------------------------------------------------------
(***************************************************************************)
(* Type correctness, by the parts of the state an action disturbs.          *)
(***************************************************************************)
ClockTyped ==
  /\ clock \in Nat /\ scheduled \in 0..MaxScheduled /\ stamp \in [Messages -> Nat]

QueuesTyped ==
  /\ inbox \in [Habitats -> Seq(Entries)]
  /\ serving \in [Habitats -> [entry : Entries, rest : Seq(Lives)]]
  /\ wakes \in Seq(WakeSet)

LayersTyped ==
  /\ consumed \subseteq Messages /\ replies \in [Messages -> Nat]
  /\ globalLast \in [Commands -> Nat] /\ userLast \in [Commands \X Actors -> Nat]
  /\ ruleLast \in [Rules \X Habitats -> Nat]
  /\ sending \subseteq [msg : Messages, rule : Rules \cup {None}]
  /\ heard \subseteq Lives \X Messages /\ lost \subseteq Lives \X Messages

CacheTyped ==
  /\ scopes \in Seq(Scopes) /\ Len(scopes) <= MaxScopes /\ IsInjective(scopes)
  /\ batch \in [Scopes -> BatchSet] /\ packs \in [Scopes -> Seq(Nat)]
  /\ \A k \in Scopes \ ToSet(scopes) : batch[k] = NoBatch /\ packs[k] = << >>

LEMMA TypeParts ==
  /\ TypeOK <=> ClockTyped /\ QueuesTyped /\ LayersTyped /\ CacheTyped
  /\ TypeOK' <=> ClockTyped' /\ QueuesTyped' /\ LayersTyped' /\ CacheTyped'
<1>1. TypeOK <=> ClockTyped /\ QueuesTyped /\ LayersTyped /\ CacheTyped
  BY DEF TypeOK, ClockTyped, QueuesTyped, LayersTyped, CacheTyped, WakeSet, BatchSet
<1>2. TypeOK' <=> ClockTyped' /\ QueuesTyped' /\ LayersTyped' /\ CacheTyped'
  BY DEF TypeOK, ClockTyped, QueuesTyped, LayersTyped, CacheTyped, WakeSet, BatchSet
<1>3. QED
  BY <1>1, <1>2

LEMMA InitType == Init => TypeOK
<1> SUFFICES ASSUME Init PROVE TypeOK
  OBVIOUS
<1>1. ClockTyped /\ LayersTyped
  BY LimitsAssumption DEF Init, ClockTyped, LayersTyped
<1>2. QueuesTyped
  <2>1. OfWake(0) \in Entries
    BY DEF OfWake, Entries
  <2>2. QED
    BY <2>1 DEF Init, QueuesTyped
<1>3. CacheTyped
  <2>1. << >> \in Seq(Scopes) /\ Len(<< >>) = 0 /\ IsInjective(<< >>)
    BY DEF IsInjective
  <2>2. QED
    BY <2>1, NoBatchType, LimitsAssumption DEF Init, CacheTyped
<1>4. QED
  BY <1>1, <1>2, <1>3, TypeParts

\* The first rule that matches is a rule of the message.
LEMMA MatchingType ==
  ASSUME NEW k, NEW m \in Messages, Matching(k, m) # << >>
  PROVE  Head(Matching(k, m)) \in Rules
<1>1. RulesOf[m] \in Seq(Rules)
  BY LayersAssumption
<1>2. Matching(k, m) \in Seq(Rules)
  BY <1>1, OnlyFacts DEF Matching
<1>3. QED
  BY <1>2

LEMMA ScheduledType ==
  ASSUME TypeOK, ServedInTurn, NEW k \in Scopes, Scheduled(k)
  PROVE  TypeOK' /\ Grown
<1>1. Enter(k) /\ Fire(k, "scheduled", << >>) /\ << >> \in Seq(Messages)
  BY DEF Scheduled
<1>2. /\ Grown /\ packs' \in [Scopes -> Seq(Nat)]
      /\ \A x \in Scopes \ ToSet(scopes') : packs'[x] = << >>
  BY <1>1, FireFacts
<1>3. ClockTyped'
  BY LimitsAssumption DEF Scheduled, TypeOK, ClockTyped
<1>4. QueuesTyped'
  BY <1>2 DEF Scheduled, Grown, TypeOK, QueuesTyped
<1>5. LayersTyped'
  BY <1>1, EnterFacts DEF Scheduled, TypeOK, LayersTyped, dispatchVars
<1>6. CacheTyped'
  BY <1>1, <1>2, EnterFacts DEF Scheduled, CacheTyped, CacheOnly
<1>7. QED
  BY <1>2, <1>3, <1>4, <1>5, <1>6, TypeParts

LEMMA TickType ==
  ASSUME TypeOK, ServedInTurn, Tick
  PROVE  TypeOK'
<1>1. ClockTyped' /\ LayersTyped'
  BY DEF Tick, TypeOK, ClockTyped, LayersTyped, dispatchVars
<1>2. QueuesTyped'
  BY TickFacts DEF Tick, Grown, TypeOK, QueuesTyped
<1>3. CacheTyped'
  BY TickFacts DEF CacheTyped, CacheOnly
<1>4. QED
  BY <1>1, <1>2, <1>3, TypeParts

\* A message that is ingested leaves the layers and the cache well-typed.
LEMMA ReplyType ==
  ASSUME TypeOK, NEW m \in Messages, NEW rule \in Rules \cup {None}, Reply(m, rule)
  PROVE  /\ sending' \subseteq [msg : Messages, rule : Rules \cup {None}]
         /\ replies' \in [Messages -> Nat]
BY DEF Reply, TypeOK

LEMMA CollectType ==
  ASSUME TypeOK, ServedInTurn, NEW k \in Scopes, NEW m \in Messages, Collect(k, m)
  PROVE  /\ CacheTyped' /\ Grown
         /\ lost' \subseteq Lives \X Messages
<1> DEFINE b == Pushed(Batches(k)[k], m)
<1>1. Enter(k)
  BY DEF Collect
<1>2. b \in BatchSet /\ b.events \in Seq(Messages)
  <2>1. Batches(k)[k] \in BatchSet
    BY <1>1, EnterFacts
  <2>2. QED
    BY <2>1, PushedType DEF BatchSet
<1>3. /\ scopes' \in Seq(Scopes) /\ Len(scopes') <= MaxScopes /\ IsInjective(scopes')
      /\ k \in ToSet(scopes') /\ Batches(k) \in [Scopes -> BatchSet]
      /\ Packs(k) \in [Scopes -> Seq(Nat)] /\ CacheOnly(Batches(k), Packs(k))
      /\ lost' \subseteq Lives \X Messages
  BY <1>1, EnterFacts
<1> HIDE DEF b
<1>4. CASE Overfull(b)
  <2>1. Fire(k, "batcher", b.events) /\ batch' = [Batches(k) EXCEPT ![k] = NoBatch]
    BY <1>4 DEF Collect, b
  <2>2. /\ Grown /\ packs' \in [Scopes -> Seq(Nat)]
        /\ \A x \in Scopes \ ToSet(scopes') : packs'[x] = << >>
    BY <1>1, <1>2, <2>1, FireFacts
  <2>3. QED
    BY <1>3, <2>1, <2>2, NoBatchType DEF CacheTyped, CacheOnly
<1>5. CASE ~ Overfull(b)
  <2>1. /\ batch' = [Batches(k) EXCEPT ![k] = b] /\ packs' = Packs(k)
        /\ inbox' = inbox /\ wakes' = wakes
    BY <1>5 DEF Collect, b
  <2>2. QED
    BY <1>2, <1>3, <2>1, NothingGrows DEF CacheTyped, CacheOnly
<1>6. QED
  BY <1>4, <1>5

LEMMA InstantWakeType ==
  ASSUME TypeOK, ServedInTurn, NEW k \in Scopes, NEW m \in Messages, InstantWake(k, m)
  PROVE  /\ CacheTyped' /\ Grown
         /\ lost' \subseteq Lives \X Messages /\ ruleLast' \in [Rules \X Habitats -> Nat]
<1>1. Enter(k) /\ Fire(k, "instant", << m >>) /\ batch' = Batches(k) /\ << m >> \in Seq(Messages)
  BY DEF InstantWake
<1>2. /\ Grown /\ packs' \in [Scopes -> Seq(Nat)]
      /\ \A x \in Scopes \ ToSet(scopes') : packs'[x] = << >>
  BY <1>1, FireFacts
<1>3. CacheTyped' /\ lost' \subseteq Lives \X Messages
  BY <1>1, <1>2, EnterFacts DEF CacheTyped, CacheOnly
<1>4. ruleLast' \in [Rules \X Habitats -> Nat]
  BY DEF InstantWake, TypeOK
<1>5. QED
  BY <1>2, <1>3, <1>4

LEMMA IngestType ==
  ASSUME TypeOK, ServedInTurn, NEW k \in Scopes, NEW m \in Messages, Ingest(k, m)
  PROVE  LayersTyped' /\ CacheTyped' /\ Grown
<1>0. LayersTyped /\ CacheTyped
  BY TypeParts
<1>1. heard' \subseteq Lives \X Messages
  BY DEF Ingest, TypeOK, Scopes
<1>2. CASE UNCHANGED << dispatchVars, scopeVars, inbox, wakes, sending, replies, lost >>
  BY <1>0, <1>1, <1>2, NothingGrows DEF dispatchVars, scopeVars, LayersTyped, CacheTyped
<1>3. CASE Command(k, m)
  <2>1. /\ UNCHANGED << ruleLast, scopeVars, inbox, wakes, lost >> /\ Reply(m, None)
        /\ consumed' = consumed \cup {m} /\ CommandOf[m] # None
        /\ globalLast' = [globalLast EXCEPT ![CommandOf[m]] = clock]
        /\ userLast' = [userLast EXCEPT ![<< CommandOf[m], ActorOf[m] >>] = clock]
    BY <1>3 DEF Command, Commanded
  <2>2. clock \in Nat
    BY DEF TypeOK
  <2>3. QED
    BY <1>0, <1>1, <2>1, <2>2, ReplyType, NothingGrows
       DEF LayersTyped, CacheTyped, scopeVars
<1>4. CASE InstantWake(k, m)
  <2>1. UNCHANGED << consumed, globalLast, userLast, sending, replies >>
    BY <1>4 DEF InstantWake
  <2>2. QED
    BY <1>0, <1>1, <1>4, <2>1, InstantWakeType DEF LayersTyped
<1>5. CASE InstantText(k, m)
  <2>1. /\ UNCHANGED << globalLast, userLast, ruleLast, scopeVars, inbox, wakes, lost >>
        /\ consumed' = consumed \cup {m} /\ Reply(m, Head(Matching(k, m)))
        /\ Head(Matching(k, m)) \in Rules
    BY <1>5, MatchingType DEF InstantText
  <2>2. QED
    BY <1>0, <1>1, <2>1, ReplyType, NothingGrows DEF LayersTyped, CacheTyped, scopeVars
<1>6. CASE Collect(k, m)
  <2>1. UNCHANGED << dispatchVars, sending, replies >>
    BY <1>6 DEF Collect
  <2>2. QED
    BY <1>0, <1>1, <1>6, <2>1, CollectType DEF LayersTyped, dispatchVars
<1>7. QED
  BY <1>2, <1>3, <1>4, <1>5, <1>6 DEF Ingest

\* A wake-up at the decide stage: only its prompt changes.
LEMMA BuildFacts ==
  ASSUME TypeOK, NEW k \in Scopes, NEW n \in DOMAIN wakes, Build(k, n)
  PROVE  /\ CacheTyped' /\ lost' \subseteq Lives \X Messages
         /\ wakes' \in Seq(WakeSet) /\ Len(wakes') = Len(wakes) /\ DOMAIN wakes' = DOMAIN wakes
         /\ \A i \in DOMAIN wakes :
              /\ wakes'[i].life = wakes[i].life /\ wakes'[i].habitat = wakes[i].habitat
              /\ wakes'[i].events = wakes[i].events
              /\ i # n \/ wakes[n].life # k[1] => wakes'[i].built = wakes[i].built
         /\ wakes[n].life = k[1] => wakes'[n].built = wakes[n].built + 1
<1>1. wakes \in Seq(WakeSet) /\ CacheTyped /\ LayersTyped
  BY TypeParts DEF QueuesTyped
<1>2. CASE wakes[n].life # k[1]
  BY <1>1, <1>2 DEF Build, scopeVars, CacheTyped, LayersTyped
<1>3. CASE wakes[n].life = k[1]
  <2>1. /\ Enter(k) /\ batch' = Batches(k) /\ packs' = Packs(k)
        /\ wakes' = [wakes EXCEPT ![n].built = @ + 1, ![n].shown = Shown(Packs(k)[k])]
    BY <1>3 DEF Build
  <2>2. CacheTyped' /\ lost' \subseteq Lives \X Messages /\ Packs(k)[k] \in Seq(Nat)
    BY <2>1, EnterFacts DEF CacheTyped, CacheOnly
  <2>3. Shown(Packs(k)[k]) \in Seq(Nat)
    <3>1. Latest(Packs(k)[k], InjectPacks + 1) \in Seq(Nat)
      <4>1. InjectPacks + 1 \in Nat
        BY LimitsAssumption
      <4>2. QED
        BY <2>2, <4>1, LatestType
    <3>2. QED
      BY <3>1 DEF Shown, Front
  <2>4. /\ wakes[n] \in WakeSet
        /\ [wakes[n] EXCEPT !.built = wakes[n].built + 1, !.shown = Shown(Packs(k)[k])] \in WakeSet
    <3>1. wakes[n] \in WakeSet
      BY <1>1
    <3>2. wakes[n].built + 1 \in Nat
      BY <3>1 DEF WakeSet
    <3>3. QED
      BY <2>3, <3>1, <3>2 DEF WakeSet
  <2>5. wakes' = [wakes EXCEPT ![n] =
                    [wakes[n] EXCEPT !.built = wakes[n].built + 1, !.shown = Shown(Packs(k)[k])]]
    BY <1>1, <2>1, <2>4 DEF WakeSet
  <2>6. /\ wakes' \in Seq(WakeSet) /\ Len(wakes') = Len(wakes) /\ DOMAIN wakes' = DOMAIN wakes
        /\ \A i \in DOMAIN wakes : i # n => wakes'[i] = wakes[i]
        /\ wakes'[n] = [wakes[n] EXCEPT !.built = wakes[n].built + 1,
                                        !.shown = Shown(Packs(k)[k])]
    BY <1>1, <2>4, <2>5
  <2>7. /\ wakes'[n].life = wakes[n].life /\ wakes'[n].habitat = wakes[n].habitat
        /\ wakes'[n].events = wakes[n].events /\ wakes'[n].built = wakes[n].built + 1
    BY <2>4, <2>6 DEF WakeSet
  <2>8. QED
    BY <1>3, <2>2, <2>6, <2>7
<1>4. QED
  BY <1>2, <1>3

\* What is served for a life next, and what serving it leaves to be served.
LEMMA DecideFacts ==
  ASSUME TypeOK, ServedInTurn, NEW h \in Habitats, Decide(h)
  PROVE  LET entry == serving[h].entry
             l == Head(serving[h].rest)
         IN  /\ << l, h >> \in Scopes /\ l \in ToSet(serving[h].rest) /\ Ahead(l, entry)
             /\ serving' \in [Habitats -> [entry : Entries, rest : Seq(Lives)]]
             /\ serving'[h].entry = entry
             /\ IsInjective(serving'[h].rest) /\ l \notin ToSet(serving'[h].rest)
             /\ ToSet(serving'[h].rest) \subseteq ToSet(serving[h].rest)
             /\ \A g \in Habitats \ {h} : serving'[g] = serving[g]
             /\ Known(h, entry)
             /\ \/ /\ entry.wake = 0 /\ entry.msg \in Messages /\ HabitatOf[entry.msg] = h
                   /\ stamp[entry.msg] # 0 /\ << l, entry.msg >> \notin heard
                   /\ Ingest(<< l, h >>, entry.msg)
                \/ /\ entry.wake # 0 /\ entry.wake \in DOMAIN wakes
                   /\ Build(<< l, h >>, entry.wake)
                   /\ UNCHANGED << dispatchVars, inbox, sending, heard, replies >>
             /\ UNCHANGED << clock, stamp, scheduled >>
<1> DEFINE entry == serving[h].entry
           rest == serving[h].rest
           l == Head(rest)
<1>1. /\ rest \in Seq(Lives) /\ entry \in Entries /\ IsInjective(rest) /\ rest # << >>
      /\ serving[h] = [entry |-> entry, rest |-> rest]
  BY DEF TypeOK, ServedInTurn, InTurn, Decide
<1> HIDE DEF rest
<1>2. /\ l \in Lives /\ l \in ToSet(rest) /\ Tail(rest) \in Seq(Lives)
      /\ IsInjective(Tail(rest)) /\ l \notin ToSet(Tail(rest))
      /\ ToSet(Tail(rest)) \subseteq ToSet(rest)
  BY <1>1, TailFacts
<1>3. Ahead(l, entry) /\ Known(h, entry)
  BY <1>1, <1>2 DEF ServedInTurn, InTurn, rest
<1>4. /\ serving \in [Habitats -> [entry : Entries, rest : Seq(Lives)]]
      /\ serving' = [serving EXCEPT ![h].rest = Tail(rest)]
  BY DEF Decide, rest, TypeOK
<1>5. /\ serving' \in [Habitats -> [entry : Entries, rest : Seq(Lives)]]
      /\ serving'[h].entry = entry /\ serving'[h].rest = Tail(rest)
      /\ \A g \in Habitats \ {h} : serving'[g] = serving[g]
  <2> DEFINE served == [serving[h] EXCEPT !.rest = Tail(rest)]
  <2>1. serving[h] \in [entry : Entries, rest : Seq(Lives)]
    BY <1>4
  <2>2. /\ served \in [entry : Entries, rest : Seq(Lives)]
        /\ served.entry = entry /\ served.rest = Tail(rest)
    BY <1>2, <2>1
  <2>3. serving' = [serving EXCEPT ![h] = served]
    BY <1>4
  <2> HIDE DEF served, entry
  <2>4. QED
    BY <1>4, <2>2, <2>3
<1>6. \/ /\ entry.wake = 0 /\ entry.msg \in Messages /\ HabitatOf[entry.msg] = h
         /\ stamp[entry.msg] # 0 /\ << l, entry.msg >> \notin heard
         /\ Ingest(<< l, h >>, entry.msg)
      \/ /\ entry.wake # 0 /\ entry.wake \in DOMAIN wakes
         /\ Build(<< l, h >>, entry.wake)
         /\ UNCHANGED << dispatchVars, inbox, sending, heard, replies >>
  <2>1. CASE entry.wake = 0
    <3>1. Ingest(<< l, h >>, entry.msg)
      BY <2>1 DEF Decide, rest
    <3>2. 0 \notin DOMAIN wakes
      BY DEF TypeOK
    <3>3. QED
      BY <1>3, <2>1, <3>1, <3>2 DEF Known, Ahead
  <2>2. CASE entry.wake # 0
    <3>1. /\ Build(<< l, h >>, entry.wake)
          /\ UNCHANGED << dispatchVars, inbox, sending, heard, replies >>
      BY <2>2 DEF Decide, rest
    <3>2. QED
      BY <1>3, <2>2, <3>1 DEF Known
  <2>3. QED
    BY <2>1, <2>2
<1>7. << l, h >> \in Scopes
  BY <1>2 DEF Scopes
<1>8. UNCHANGED << clock, stamp, scheduled >>
  BY DEF Decide
<1>9. QED
  BY <1>2, <1>3, <1>5, <1>6, <1>7, <1>8 DEF rest

LEMMA DecideType ==
  ASSUME TypeOK, ServedInTurn, NEW h \in Habitats, Decide(h)
  PROVE  TypeOK'
<1> DEFINE entry == serving[h].entry
           k == << Head(serving[h].rest), h >>
<1>1. /\ k \in Scopes /\ serving' \in [Habitats -> [entry : Entries, rest : Seq(Lives)]]
      /\ UNCHANGED << clock, stamp, scheduled >>
      /\ \/ entry.msg \in Messages /\ Ingest(k, entry.msg)
         \/ /\ entry.wake \in DOMAIN wakes /\ Build(k, entry.wake)
            /\ UNCHANGED << dispatchVars, inbox, sending, heard, replies >>
  BY DecideFacts
<1> HIDE DEF k, entry
<1>2. ClockTyped'
  BY <1>1, TypeParts DEF ClockTyped
<1>3. CASE entry.msg \in Messages /\ Ingest(k, entry.msg)
  <2>1. LayersTyped' /\ CacheTyped' /\ Grown
    BY <1>1, <1>3, IngestType
  <2>2. QueuesTyped'
    BY <1>1, <2>1 DEF Grown, QueuesTyped
  <2>3. QED
    BY <1>2, <2>1, <2>2, TypeParts
<1>4. CASE /\ entry.wake \in DOMAIN wakes /\ Build(k, entry.wake)
           /\ UNCHANGED << dispatchVars, inbox, sending, heard, replies >>
  <2>1. /\ CacheTyped' /\ lost' \subseteq Lives \X Messages /\ wakes' \in Seq(WakeSet)
    BY <1>1, <1>4, BuildFacts
  <2>2. QueuesTyped' /\ LayersTyped'
    BY <1>1, <1>4, <2>1, TypeParts DEF QueuesTyped, LayersTyped, dispatchVars
  <2>3. QED
    BY <1>2, <2>1, <2>2, TypeParts
<1>5. QED
  BY <1>1, <1>3, <1>4

LEMMA ArriveType ==
  ASSUME TypeOK, NEW m \in Messages, Arrive(m)
  PROVE  TypeOK'
<1>1. /\ UNCHANGED << clock, serving, dispatchVars, scopeVars, sending, wakes, heard, scheduled,
                      replies, lost >>
      /\ stamp' = [stamp EXCEPT ![m] = clock]
      /\ inbox' = [inbox EXCEPT ![HabitatOf[m]] = Append(@, OfMessage(m))]
  BY DEF Arrive
<1>2. OfMessage(m) \in Entries /\ HabitatOf[m] \in Habitats
  BY MessagesAssumption DEF OfMessage, Entries
<1>3. ClockTyped /\ QueuesTyped /\ LayersTyped /\ CacheTyped
  BY TypeParts
<1>4. ClockTyped' /\ QueuesTyped'
  BY <1>1, <1>2, <1>3 DEF ClockTyped, QueuesTyped
<1>5. LayersTyped' /\ CacheTyped'
  BY <1>1, <1>3 DEF LayersTyped, CacheTyped, dispatchVars, scopeVars
<1>6. QED
  BY <1>4, <1>5, TypeParts

LEMMA TakeType ==
  ASSUME TypeOK, NEW h \in Habitats, Take(h)
  PROVE  TypeOK'
<1>1. /\ UNCHANGED << clock, stamp, dispatchVars, scopeVars, sending, wakes, heard, scheduled,
                      replies, lost >>
      /\ serving' = [serving EXCEPT ![h] = [entry |-> Head(inbox[h]), rest |-> LivesOf[h]]]
      /\ inbox' = [inbox EXCEPT ![h] = Tail(@)] /\ inbox[h] # << >>
  BY DEF Take
<1>2. ClockTyped /\ QueuesTyped /\ LayersTyped /\ CacheTyped
  BY TypeParts
<1>3. inbox[h] \in Seq(Entries) /\ LivesOf[h] \in Seq(Lives)
  BY <1>2, MessagesAssumption DEF QueuesTyped
<1>4. Head(inbox[h]) \in Entries /\ Tail(inbox[h]) \in Seq(Entries)
  BY <1>1, <1>3
<1>5. QueuesTyped'
  BY <1>1, <1>2, <1>3, <1>4 DEF QueuesTyped
<1>6. ClockTyped' /\ LayersTyped' /\ CacheTyped'
  BY <1>1, <1>2 DEF ClockTyped, LayersTyped, CacheTyped, dispatchVars, scopeVars
<1>7. QED
  BY <1>5, <1>6, TypeParts

LEMMA ReplyEndsType ==
  ASSUME TypeOK, NEW x \in sending, ReplyEnds(x)
  PROVE  TypeOK'
<1>1. ClockTyped /\ QueuesTyped /\ LayersTyped /\ CacheTyped
  BY TypeParts
<1>2. /\ UNCHANGED << clock, stamp, inbox, serving, consumed, globalLast, userLast, scopeVars,
                      wakes, heard, scheduled, replies, lost >>
      /\ sending' = sending \ {x}
      /\ \/ ruleLast' = ruleLast
         \/ /\ x.rule # None
            /\ ruleLast' = [ruleLast EXCEPT ![<< x.rule, HabitatOf[x.msg] >>] = clock]
  BY DEF ReplyEnds
<1>3. /\ x.rule \in Rules \cup {None} /\ HabitatOf[x.msg] \in Habitats /\ clock \in Nat
      /\ ruleLast \in [Rules \X Habitats -> Nat]
  BY <1>1, MessagesAssumption DEF LayersTyped, ClockTyped
<1>4. ruleLast' \in [Rules \X Habitats -> Nat]
  BY <1>2, <1>3
<1>5. ClockTyped' /\ QueuesTyped' /\ CacheTyped'
  BY <1>1, <1>2 DEF ClockTyped, QueuesTyped, CacheTyped, scopeVars
<1>6. LayersTyped'
  BY <1>1, <1>2, <1>4 DEF LayersTyped
<1>7. QED
  BY <1>5, <1>6, TypeParts

LEMMA StutterType ==
  ASSUME TypeOK, UNCHANGED vars
  PROVE  TypeOK'
BY DEF TypeOK, vars, dispatchVars, scopeVars

-----------------------------------------------------------------------------
(***************************************************************************)
(* Every stimulus is served once for each life.                             *)
(***************************************************************************)
LEMMA KnownStays ==
  ASSUME TypeOK, NEW h, NEW e, Known(h, e),
         \A m \in Messages : stamp[m] # 0 => stamp'[m] # 0,
         DOMAIN wakes \subseteq DOMAIN wakes',
         \A n \in DOMAIN wakes : wakes'[n].habitat = wakes[n].habitat
  PROVE  Known(h, e)'
BY DEF Known

LEMMA GrownDomain ==
  ASSUME TypeOK, Grown
  PROVE  /\ DOMAIN wakes \subseteq DOMAIN wakes'
         /\ \A n \in DOMAIN wakes : wakes'[n] = wakes[n]
         /\ 0 \notin DOMAIN wakes' /\ DOMAIN wakes' = 1..Len(wakes')
         /\ DOMAIN wakes = 1..Len(wakes) /\ Len(wakes) \in Nat /\ Len(wakes') \in Nat
BY DEF Grown, TypeOK

\* Two stimuli that are messages differ in the message.
LEMMA EntriesDiffer ==
  ASSUME NEW e \in Entries, NEW f \in Entries, e.wake = f.wake, e.msg = f.msg
  PROVE  e = f
BY DEF Entries

\* What is queued stays as it was served to nobody, when wake-ups are added and a
\* message that is being served is heard.
LEMMA QueueGrows ==
  ASSUME TypeOK, ServedInTurn, Grown, stamp' = stamp, NEW h \in Habitats,
         \A x \in heard' \ heard :
           serving[HabitatOf[x[2]]].entry.msg = x[2] /\ serving[HabitatOf[x[2]]].entry.wake = 0,
         serving'[h].entry = serving[h].entry
  PROVE  /\ IsInjective(inbox'[h])
         /\ \A e \in ToSet(inbox'[h]) :
              Known(h, e)' /\ e # serving'[h].entry /\ \A l \in Lives : Ahead(l, e)'
<1>1. /\ DOMAIN wakes \subseteq DOMAIN wakes' /\ 0 \notin DOMAIN wakes'
      /\ \A n \in DOMAIN wakes : wakes'[n] = wakes[n]
  BY GrownDomain
<1>2. IsInjective(inbox'[h])
  BY DEF Grown
<1>3. /\ serving[h].entry \in Entries
      /\ serving[h].entry = OfWake(0) \/ Known(h, serving[h].entry)
  BY DEF ServedInTurn, InTurn, TypeOK
<1>4. ASSUME NEW e \in ToSet(inbox[h])
      PROVE  Known(h, e)' /\ e # serving'[h].entry /\ \A l \in Lives : Ahead(l, e)'
  <2>1. Known(h, e) /\ e # serving[h].entry /\ \A l \in Lives : Ahead(l, e)
    BY DEF ServedInTurn, InTurn
  <2>2. Known(h, e)'
    BY <1>1, <2>1, KnownStays
  <2>3. e \in Entries
    BY DEF TypeOK, ToSet
  <2>4. ASSUME NEW l \in Lives
        PROVE  Ahead(l, e)'
    <3>1. Ahead(l, e)
      BY <2>1
    <3>2. CASE e.wake = 0
      <4>1. e.msg \in Messages /\ HabitatOf[e.msg] = h
        BY <1>1, <2>1, <3>2 DEF Known
      <4>2. << l, e.msg >> \notin heard
        BY <3>1, <3>2 DEF Ahead
      <4>3. ASSUME << l, e.msg >> \in heard' PROVE FALSE
        <5>1. serving[h].entry.msg = e.msg /\ serving[h].entry.wake = 0
          BY <4>1, <4>2, <4>3
        <5>2. QED
          BY <1>3, <2>1, <2>3, <3>2, <5>1, EntriesDiffer
      <4>4. QED
        BY <3>2, <4>3 DEF Ahead
    <3>3. CASE e.wake # 0
      BY <1>1, <2>1, <3>1, <3>3 DEF Ahead, Known
    <3>4. QED
      BY <3>2, <3>3
  <2>5. QED
    BY <2>1, <2>2, <2>4
<1>5. ASSUME NEW e \in ToSet(inbox'[h]), e.msg = None, e.wake \in DOMAIN wakes' \ DOMAIN wakes,
             wakes'[e.wake].habitat = h
      PROVE  Known(h, e)' /\ e # serving'[h].entry /\ \A l \in Lives : Ahead(l, e)'
  <2>1. Known(h, e)'
    BY <1>5 DEF Known
  <2>2. e.wake # 0 /\ wakes'[e.wake].built = 0
    BY <1>1, <1>5 DEF Grown
  <2>3. serving[h].entry.wake = 0 \/ serving[h].entry.wake \in DOMAIN wakes
    BY <1>3, OfWakeIs DEF Known
  <2>4. QED
    BY <1>5, <2>1, <2>2, <2>3 DEF Ahead
<1>6. QED
  BY <1>2, <1>4, <1>5 DEF Grown

\* Nothing is served meanwhile.
LEMMA TurnsKept ==
  ASSUME TypeOK, ServedInTurn, Grown, UNCHANGED << stamp, heard, serving >>
  PROVE  ServedInTurn'
<1> SUFFICES ASSUME NEW h \in Habitats PROVE InTurn(h)'
  BY DEF ServedInTurn
<1>1. /\ IsInjective(inbox'[h])
      /\ \A e \in ToSet(inbox'[h]) :
           Known(h, e)' /\ e # serving'[h].entry /\ \A l \in Lives : Ahead(l, e)'
  BY QueueGrows
<1>2. InTurn(h)
  BY DEF ServedInTurn
<1>3. /\ DOMAIN wakes \subseteq DOMAIN wakes' /\ 0 \notin DOMAIN wakes'
      /\ \A n \in DOMAIN wakes : wakes'[n] = wakes[n]
  BY GrownDomain
<1>4. CASE serving[h].entry = OfWake(0) /\ serving[h].rest = << >>
  BY <1>1, <1>2, <1>4 DEF InTurn, ToSet
<1>5. CASE Known(h, serving[h].entry)
  <2>1. Known(h, serving[h].entry)'
    BY <1>3, <1>5, KnownStays
  <2>2. \A l \in ToSet(serving[h].rest) : Ahead(l, serving[h].entry)'
    BY <1>2, <1>3, <1>5 DEF InTurn, Ahead, Known
  <2>3. QED
    BY <1>1, <1>2, <2>1, <2>2 DEF InTurn
<1>6. QED
  BY <1>2, <1>4, <1>5 DEF InTurn

LEMMA DecideTurns ==
  ASSUME TypeOK, ServedInTurn, NEW h \in Habitats, Decide(h)
  PROVE  ServedInTurn'
<1> DEFINE entry == serving[h].entry
           l == Head(serving[h].rest)
           k == << l, h >>
<1>1. /\ k \in Scopes /\ l \in ToSet(serving[h].rest) /\ Ahead(l, entry)
      /\ serving'[h].entry = entry
      /\ IsInjective(serving'[h].rest) /\ l \notin ToSet(serving'[h].rest)
      /\ ToSet(serving'[h].rest) \subseteq ToSet(serving[h].rest)
      /\ \A g \in Habitats \ {h} : serving'[g] = serving[g]
      /\ Known(h, entry) /\ stamp' = stamp
  BY DecideFacts
<1>2. \/ /\ entry.wake = 0 /\ entry.msg \in Messages /\ HabitatOf[entry.msg] = h
         /\ Ingest(k, entry.msg)
      \/ /\ entry.wake # 0 /\ entry.wake \in DOMAIN wakes /\ Build(k, entry.wake)
         /\ inbox' = inbox /\ heard' = heard
  BY DecideFacts
<1> HIDE DEF l
<1>3. CASE /\ entry.wake = 0 /\ entry.msg \in Messages /\ HabitatOf[entry.msg] = h
           /\ Ingest(k, entry.msg)
  <2>1. Grown /\ heard' = heard \cup {<< l, entry.msg >>}
    BY <1>1, <1>3, IngestType DEF Ingest
  <2>2. \A x \in heard' \ heard : serving[HabitatOf[x[2]]].entry.msg = x[2]
                                  /\ serving[HabitatOf[x[2]]].entry.wake = 0
    BY <1>3, <2>1
  <2>3. /\ DOMAIN wakes \subseteq DOMAIN wakes' /\ 0 \notin DOMAIN wakes'
        /\ \A n \in DOMAIN wakes : wakes'[n] = wakes[n]
    BY <2>1, GrownDomain
  <2>4. ASSUME NEW g \in Habitats
        PROVE  InTurn(g)'
    <3>1. /\ IsInjective(inbox'[g])
          /\ \A e \in ToSet(inbox'[g]) :
               Known(g, e)' /\ e # serving'[g].entry /\ \A x \in Lives : Ahead(x, e)'
      BY <1>1, <2>1, <2>2, QueueGrows
    <3>2. InTurn(g)
      BY DEF ServedInTurn
    <3>3. CASE g = h
      <4>1. Known(h, entry)'
        BY <1>1, <2>3, KnownStays
      <4>2. \A x \in ToSet(serving'[h].rest) : Ahead(x, entry)'
        BY <1>1, <1>3, <2>1, <3>2, <3>3 DEF InTurn, Ahead
      <4>3. QED
        BY <1>1, <3>1, <3>3, <4>1, <4>2 DEF InTurn
    <3>4. CASE g # h
      <4>1. serving'[g] = serving[g]
        BY <1>1, <3>4
      <4>2. CASE serving[g].entry = OfWake(0) /\ serving[g].rest = << >>
        BY <3>1, <3>2, <4>1, <4>2 DEF InTurn, ToSet
      <4>3. CASE Known(g, serving[g].entry)
        <5>1. Known(g, serving[g].entry)'
          BY <1>1, <2>3, <4>3, KnownStays
        <5>2. \A x \in ToSet(serving[g].rest) : Ahead(x, serving[g].entry)'
          <6> SUFFICES ASSUME NEW x \in ToSet(serving[g].rest)
                       PROVE  Ahead(x, serving[g].entry)'
            OBVIOUS
          <6>1. Ahead(x, serving[g].entry)
            BY <3>2 DEF InTurn
          <6>2. CASE serving[g].entry.wake = 0
            <7>1. HabitatOf[serving[g].entry.msg] = g
              BY <2>3, <4>3, <6>2 DEF Known
            <7>2. << x, serving[g].entry.msg >> # << l, entry.msg >>
              BY <1>3, <3>4, <7>1
            <7>3. QED
              BY <2>1, <4>1, <6>1, <6>2, <7>2 DEF Ahead
          <6>3. CASE serving[g].entry.wake # 0
            BY <2>3, <4>1, <4>3, <6>1, <6>3 DEF Ahead, Known
          <6>4. QED
            BY <6>2, <6>3
        <5>3. QED
          BY <3>1, <3>2, <4>1, <5>1, <5>2 DEF InTurn
      <4>4. QED
        BY <3>2, <4>2, <4>3 DEF InTurn
    <3>5. QED
      BY <3>3, <3>4
  <2>5. QED
    BY <2>4 DEF ServedInTurn
<1>4. CASE /\ entry.wake # 0 /\ entry.wake \in DOMAIN wakes /\ Build(k, entry.wake)
           /\ inbox' = inbox /\ heard' = heard
  <2> DEFINE n == entry.wake
  <2>1. /\ DOMAIN wakes' = DOMAIN wakes
        /\ \A i \in DOMAIN wakes :
             /\ wakes'[i].life = wakes[i].life /\ wakes'[i].habitat = wakes[i].habitat
             /\ i # n \/ wakes[n].life # l => wakes'[i].built = wakes[i].built
    BY <1>1, <1>4, BuildFacts
  <2>2. n \in DOMAIN wakes /\ wakes[n].habitat = h /\ entry.msg = None
    BY <1>1, <1>4 DEF Known
  <2>3. \A g \in Habitats : \A e : Known(g, e) => Known(g, e)'
    BY <1>1, <2>1 DEF Known
  <2>4. \A x, e : Ahead(x, e) /\ (e.wake = 0 \/ (e.wake \in DOMAIN wakes /\ e.wake # n))
                    => Ahead(x, e)'
    BY <1>4, <2>1 DEF Ahead
  <2>5. ASSUME NEW g \in Habitats, NEW e \in ToSet(inbox[g])
        PROVE  Known(g, e)' /\ e # serving[g].entry /\ \A x \in Lives : Ahead(x, e)'
    <3>1. Known(g, e) /\ e # serving[g].entry /\ \A x \in Lives : Ahead(x, e)
      BY DEF ServedInTurn, InTurn
    <3>2. e \in Entries /\ entry \in Entries
      BY DEF TypeOK, ToSet
    <3>3. e.wake # n
      <4> SUFFICES ASSUME e.wake = n PROVE FALSE
        OBVIOUS
      <4>1. e.msg = None /\ g = h
        BY <1>4, <2>2, <3>1 DEF Known
      <4>2. e = entry
        BY <2>2, <3>2, <4>1, EntriesDiffer
      <4>3. QED
        BY <3>1, <4>1, <4>2
    <3>4. e.wake = 0 \/ e.wake \in DOMAIN wakes
      BY <3>1 DEF Known
    <3>5. QED
      BY <2>3, <2>4, <3>1, <3>3, <3>4
  <2>6. ASSUME NEW g \in Habitats, g # h
        PROVE  InTurn(g)'
    <3>1. InTurn(g) /\ serving'[g] = serving[g] /\ inbox'[g] = inbox[g]
      BY <1>1, <1>4, <2>6 DEF ServedInTurn
    <3>2. CASE serving[g].entry = OfWake(0) /\ serving[g].rest = << >>
      BY <2>5, <3>1, <3>2 DEF InTurn, ToSet
    <3>3. CASE Known(g, serving[g].entry)
      <4>1. \/ serving[g].entry.wake = 0
            \/ serving[g].entry.wake \in DOMAIN wakes /\ serving[g].entry.wake # n
        BY <2>2, <2>6, <3>3 DEF Known
      <4>2. \A x \in ToSet(serving[g].rest) : Ahead(x, serving[g].entry)'
        BY <2>4, <3>1, <4>1 DEF InTurn
      <4>3. QED
        BY <2>3, <2>5, <3>1, <3>3, <4>2 DEF InTurn
    <3>4. QED
      BY <3>1, <3>2, <3>3 DEF InTurn
  <2>7. InTurn(h)'
    <3>1. InTurn(h) /\ inbox'[h] = inbox[h]
      BY <1>4 DEF ServedInTurn
    <3>2. \A x \in ToSet(serving'[h].rest) : Ahead(x, entry)'
      <4> SUFFICES ASSUME NEW x \in ToSet(serving'[h].rest)
                   PROVE  Ahead(x, entry)'
        OBVIOUS
      <4>1. Ahead(x, entry) /\ x # l
        BY <1>1, <3>1 DEF InTurn
      <4>2. CASE wakes[n].life = x
        BY <1>1, <1>4, <2>1, <2>2, <4>1, <4>2 DEF Ahead
      <4>3. CASE wakes[n].life # x
        BY <1>1, <1>4, <2>1, <2>2, <4>1, <4>3 DEF Ahead
      <4>4. QED
        BY <4>2, <4>3
    <3>3. Known(h, entry)'
      BY <1>1, <2>3
    <3>4. QED
      BY <1>1, <2>5, <3>1, <3>2, <3>3 DEF InTurn
  <2>8. QED
    BY <2>6, <2>7 DEF ServedInTurn
<1>5. QED
  BY <1>2, <1>3, <1>4

\* A message arrives once: it was not queued, and no life has heard it.
LEMMA ArriveTurns ==
  ASSUME TypeOK, ServedInTurn, WokenForHeard, WaitsTimed, NEW m \in Messages, Arrive(m)
  PROVE  ServedInTurn'
<1>1. /\ stamp[m] = 0 /\ stamp' = [stamp EXCEPT ![m] = clock] /\ clock > 0
      /\ inbox' = [inbox EXCEPT ![HabitatOf[m]] = Append(@, OfMessage(m))]
      /\ UNCHANGED << serving, wakes, heard >>
  BY DEF Arrive, WaitsTimed
<1>2. /\ OfMessage(m) \in Entries /\ OfMessage(m).msg = m /\ OfMessage(m).wake = 0
      /\ HabitatOf[m] \in Habitats /\ m # None
  BY MessagesAssumption DEF OfMessage, Entries
<1>3. /\ clock \in Nat /\ stamp \in [Messages -> Nat] /\ 0 \notin DOMAIN wakes
      /\ inbox \in [Habitats -> Seq(Entries)]
  BY DEF TypeOK
<1>4. \A i \in Messages : stamp[i] # 0 => stamp'[i] # 0
  BY <1>1, <1>3
<1>5. \A h \in Habitats : ~ Known(h, OfMessage(m))
  BY <1>1, <1>2 DEF Known
<1>6. \A l \in Lives : << l, m >> \notin heard
  <2>1. \A x \in heard : stamp[x[2]] # 0
    BY DEF WokenForHeard
  <2>2. ASSUME NEW l \in Lives, << l, m >> \in heard
        PROVE  FALSE
    <3>1. stamp[<< l, m >>[2]] # 0
      BY <2>1, <2>2
    <3>2. QED
      BY <1>1, <3>1
  <2>3. QED
    BY <2>2
<1> SUFFICES ASSUME NEW h \in Habitats PROVE InTurn(h)'
  BY DEF ServedInTurn
<1>7. InTurn(h) /\ serving'[h] = serving[h]
  BY <1>1 DEF ServedInTurn
<1>8. ASSUME NEW e, Known(h, e)
      PROVE  Known(h, e)'
  BY <1>1, <1>4, <1>8, KnownStays
<1>9. \A l, e : Ahead(l, e) => Ahead(l, e)'
  BY <1>1 DEF Ahead
<1>10. OfMessage(m) # serving[h].entry
  <2>1. OfMessage(m) # OfWake(0)
    BY <1>2, OfWakeIs
  <2>2. QED
    BY <1>5, <1>7, <2>1 DEF InTurn
<1>11. OfMessage(m) \notin ToSet(inbox[h])
  BY <1>5, <1>7 DEF InTurn
<1>12. /\ IsInjective(inbox'[h])
       /\ \A e \in ToSet(inbox'[h]) : \/ e \in ToSet(inbox[h])
                                      \/ e = OfMessage(m) /\ h = HabitatOf[m]
  <2>1. CASE h = HabitatOf[m]
    <3>1. inbox[h] \in Seq(Entries) /\ IsInjective(inbox[h])
      BY <1>3, <1>7 DEF InTurn
    <3>2. /\ IsInjective(Append(inbox[h], OfMessage(m)))
          /\ \A x : x \in ToSet(Append(inbox[h], OfMessage(m)))
                      <=> x \in ToSet(inbox[h]) \/ x = OfMessage(m)
      BY <1>2, <1>11, <3>1, AppendFacts
    <3>3. inbox'[h] = Append(inbox[h], OfMessage(m))
      BY <1>1, <1>3, <2>1
    <3>4. QED
      BY <2>1, <3>2, <3>3
  <2>2. CASE h # HabitatOf[m]
    <3>1. inbox'[h] = inbox[h]
      BY <1>1, <1>3, <2>2
    <3>2. QED
      BY <1>7, <3>1 DEF InTurn
  <2>3. QED
    BY <2>1, <2>2
<1>13. ASSUME NEW e \in ToSet(inbox'[h])
       PROVE  Known(h, e)' /\ e # serving[h].entry /\ \A l \in Lives : Ahead(l, e)'
  <2>1. CASE e \in ToSet(inbox[h])
    BY <1>7, <1>8, <1>9, <2>1 DEF InTurn
  <2>2. CASE e = OfMessage(m) /\ h = HabitatOf[m]
    <3>1. Known(h, e)'
      <4>1. stamp'[m] # 0
        BY <1>1, <1>3
      <4>2. QED
        BY <1>2, <2>2, <4>1 DEF Known
    <3>2. \A l \in Lives : Ahead(l, e)'
      BY <1>1, <1>2, <1>6, <2>2 DEF Ahead
    <3>3. QED
      BY <1>10, <2>2, <3>1, <3>2
  <2>3. QED
    BY <1>12, <2>1, <2>2
<1>14. /\ \/ serving[h].entry = OfWake(0) /\ serving[h].rest = << >>
          \/ Known(h, serving[h].entry)'
       /\ IsInjective(serving[h].rest)
       /\ \A l \in ToSet(serving[h].rest) : Ahead(l, serving[h].entry)'
  <2>1. \/ serving[h].entry = OfWake(0) /\ serving[h].rest = << >>
        \/ Known(h, serving[h].entry)
    BY <1>7 DEF InTurn
  <2>2. Known(h, serving[h].entry) => Known(h, serving[h].entry)'
    <3> DEFINE e == serving[h].entry
    <3>1. e' = e
      BY <1>1
    <3>2. QED
      BY <1>1, <1>4 DEF Known
  <2>3. \A l \in ToSet(serving[h].rest) : Ahead(l, serving[h].entry)'
    BY <1>1, <1>7 DEF InTurn, Ahead
  <2>4. QED
    BY <1>7, <2>1, <2>2, <2>3 DEF InTurn
<1>15. QED
  BY <1>7, <1>12, <1>13, <1>14 DEF InTurn

\* The next stimulus is taken up, for every life of the habitat in turn.
LEMMA TakeTurns ==
  ASSUME TypeOK, ServedInTurn, NEW h \in Habitats, Take(h)
  PROVE  ServedInTurn'
<1>1. /\ inbox[h] # << >>
      /\ serving' = [serving EXCEPT ![h] = [entry |-> Head(inbox[h]), rest |-> LivesOf[h]]]
      /\ inbox' = [inbox EXCEPT ![h] = Tail(@)]
      /\ UNCHANGED << stamp, wakes, heard >>
  BY DEF Take
<1>2. /\ serving \in [Habitats -> [entry : Entries, rest : Seq(Lives)]]
      /\ inbox \in [Habitats -> Seq(Entries)]
      /\ LivesOf[h] \in Seq(Lives) /\ IsInjective(LivesOf[h])
  BY MessagesAssumption DEF TypeOK
<1>3. \A g, e : Known(g, e) => Known(g, e)'
  BY <1>1 DEF Known
<1>4. \A l, e : Ahead(l, e) => Ahead(l, e)'
  BY <1>1 DEF Ahead
<1> SUFFICES ASSUME NEW g \in Habitats PROVE InTurn(g)'
  BY DEF ServedInTurn
<1>5. InTurn(g)
  BY DEF ServedInTurn
<1>6. CASE g = h
  <2>0. PICK e : e = Head(inbox[h])
    OBVIOUS
  <2>1. /\ IsInjective(Tail(inbox[h])) /\ e \in ToSet(inbox[h])
        /\ \A x : x \in ToSet(inbox[h]) <=> x \in ToSet(Tail(inbox[h])) \/ x = e
        /\ e \notin ToSet(Tail(inbox[h]))
    <3>1. inbox[h] \in Seq(Entries) /\ IsInjective(inbox[h]) /\ inbox[h] # << >>
      BY <1>1, <1>2, <1>5, <1>6 DEF InTurn
    <3>2. QED
      BY <2>0, <3>1, TailFacts
  <2>2. /\ serving'[h].entry = e /\ serving'[h].rest = LivesOf[h]
        /\ inbox'[h] = Tail(inbox[h])
    BY <1>1, <1>2, <2>0
  <2>3. \A x \in ToSet(LivesOf[h]) : x \in Lives
    BY <1>2 DEF ToSet
  <2>4. \A x \in ToSet(inbox[h]) : Known(h, x) /\ \A l \in Lives : Ahead(l, x)
    BY <1>5, <1>6 DEF InTurn
  <2>5. Known(h, e)' /\ \A l \in Lives : Ahead(l, e)'
    BY <1>3, <1>4, <2>1, <2>4
  <2>6. \A x \in ToSet(inbox'[h]) : Known(h, x)' /\ x # e /\ \A l \in Lives : Ahead(l, x)'
    BY <1>3, <1>4, <2>1, <2>2, <2>4
  <2>7. Known(h, serving[h].entry)'
    BY <1>1, <2>2, <2>5 DEF Known
  <2>8. \A l \in Lives : Ahead(l, serving[h].entry)'
    BY <1>1, <2>2, <2>5 DEF Ahead
  <2>9. QED
    BY <1>2, <1>6, <2>1, <2>2, <2>3, <2>6, <2>7, <2>8 DEF InTurn
<1>7. CASE g # h
  <2>1. serving'[g] = serving[g] /\ inbox'[g] = inbox[g]
    BY <1>1, <1>2, <1>7
  <2>2. Known(g, serving[g].entry) => Known(g, serving[g].entry)'
    BY <1>1, <2>1 DEF Known
  <2>3. \A l : Ahead(l, serving[g].entry) => Ahead(l, serving[g].entry)'
    BY <1>1, <2>1 DEF Ahead
  <2>4. QED
    BY <1>3, <1>4, <1>5, <2>1, <2>2, <2>3 DEF InTurn
<1>8. QED
  BY <1>6, <1>7

LEMMA InitTurns == Init => ServedInTurn
<1> SUFFICES ASSUME Init, NEW h \in Habitats PROVE InTurn(h)
  BY DEF ServedInTurn
<1>1. serving[h].entry = OfWake(0) /\ serving[h].rest = << >> /\ inbox[h] = << >>
  BY DEF Init
<1>2. QED
  BY <1>1 DEF InTurn, IsInjective, ToSet

\* Whatever the step, what is queued has had no effect yet.
LEMMA NextTurns ==
  ASSUME TypeOK, ServedInTurn, WokenForHeard, WaitsTimed, [Next]_vars
  PROVE  TypeOK' /\ ServedInTurn'
<1>1. CASE Tick
  <2>1. UNCHANGED << stamp, heard, serving >>
    BY <1>1 DEF Tick
  <2>2. QED
    BY <1>1, <2>1, TickType, TickFacts, TurnsKept
<1>2. ASSUME NEW m \in Messages, Arrive(m) PROVE TypeOK' /\ ServedInTurn'
  BY <1>2, ArriveType, ArriveTurns
<1>3. ASSUME NEW h \in Habitats, Take(h) PROVE TypeOK' /\ ServedInTurn'
  BY <1>3, TakeType, TakeTurns
<1>4. ASSUME NEW h \in Habitats, Decide(h) PROVE TypeOK' /\ ServedInTurn'
  BY <1>4, DecideType, DecideTurns
<1>5. ASSUME NEW x \in sending, ReplyEnds(x) PROVE TypeOK' /\ ServedInTurn'
  <2>1. UNCHANGED << stamp, heard, serving, inbox, wakes >>
    BY <1>5 DEF ReplyEnds
  <2>2. QED
    BY <1>5, <2>1, ReplyEndsType, NothingGrows, TurnsKept
<1>6. ASSUME NEW k \in Scopes, Scheduled(k) PROVE TypeOK' /\ ServedInTurn'
  <2>1. UNCHANGED << stamp, heard, serving >>
    BY <1>6 DEF Scheduled
  <2>2. QED
    BY <1>6, <2>1, ScheduledType, TurnsKept
<1>7. CASE UNCHANGED vars
  <2>1. UNCHANGED << stamp, heard, serving, inbox, wakes >>
    BY <1>7 DEF vars
  <2>2. QED
    BY <1>7, <2>1, StutterType, NothingGrows, TurnsKept
<1>8. QED
  BY <1>1, <1>2, <1>3, <1>4, <1>5, <1>6, <1>7 DEF Next

-----------------------------------------------------------------------------
(***************************************************************************)
(* A life is woken once for a message it has heard: what a step moves from  *)
(* the batches to the wake-ups, and what it adds to either.                 *)
(***************************************************************************)
\* This life hears the message in this step, in the habitat of the scope.
Fresh(k, m) == << k[1], m >> \in heard' \ heard /\ HabitatOf[m] = k[2]

\* What a wake-up is for was waiting in the batch of its scope, or is just heard,
\* and does not wait there any longer.
TakenUp(n) ==
  \E k \in Scopes :
    /\ wakes'[n].life = k[1] /\ wakes'[n].habitat = k[2] /\ wakes'[n].built <= 1
    /\ \A m \in ToSet(wakes'[n].events) :
         (m \in Events(k) \/ Fresh(k, m)) /\ m \notin ToSet(batch'[k].events)

Moved ==
  /\ heard \subseteq heard' /\ \A x \in heard' : stamp'[x[2]] # 0
  /\ DOMAIN wakes \subseteq DOMAIN wakes'
  /\ \A n \in DOMAIN wakes : /\ wakes'[n].life = wakes[n].life
                             /\ wakes'[n].events = wakes[n].events
                             /\ wakes'[n].built <= 1
  /\ \A k \in Scopes : \A m \in ToSet(batch'[k].events) : m \in Events(k) \/ Fresh(k, m)
  /\ \A n \in DOMAIN wakes' \ DOMAIN wakes : TakenUp(n)
  /\ \A i, j \in DOMAIN wakes' \ DOMAIN wakes :
       wakes'[i].life = wakes'[j].life /\ wakes'[i].habitat = wakes'[j].habitat => i = j

\* Membership in the wake-ups of a life for a message.
LEMMA WakesForIs ==
  /\ \A l, m, n : n \in WakesFor(l, m)
       <=> n \in DOMAIN wakes /\ wakes[n].life = l /\ m \in ToSet(wakes[n].events)
  /\ \A l, m, n : n \in WakesFor(l, m)'
       <=> n \in DOMAIN wakes' /\ wakes'[n].life = l /\ m \in ToSet(wakes'[n].events)
BY DEF WakesFor

LEMMA EventsAre ==
  /\ \A k : Events(k) = ToSet(batch[k].events)
  /\ \A k : Events(k)' = ToSet(batch'[k].events)
BY DEF Events

\* What waits, and what a wake-up is for, by the facts of WokenForHeard.
LEMMA Waiting ==
  ASSUME WokenForHeard, NEW k \in Scopes, NEW m \in Events(k)
  PROVE  HabitatOf[m] = k[2] /\ << k[1], m >> \in heard /\ WakesFor(k[1], m) = {}
BY Zenon DEF WokenForHeard

LEMMA WokenFor ==
  ASSUME WokenForHeard, NEW n \in DOMAIN wakes, NEW m \in ToSet(wakes[n].events)
  PROVE  << wakes[n].life, m >> \in heard /\ WakesFor(wakes[n].life, m) = {n}
BY DEF WokenForHeard

LEMMA WokenMoves ==
  ASSUME WokenForHeard, Moved
  PROVE  WokenForHeard'
<1>1. /\ heard \subseteq heard' /\ DOMAIN wakes \subseteq DOMAIN wakes'
      /\ \A n \in DOMAIN wakes : /\ wakes'[n].life = wakes[n].life
                                 /\ wakes'[n].events = wakes[n].events
                                 /\ wakes'[n].built <= 1
  BY DEF Moved
<1>2. ASSUME NEW k \in Scopes, NEW m \in ToSet(batch'[k].events)
      PROVE  m \in Events(k) \/ Fresh(k, m)
  BY <1>2 DEF Moved
<1>3. ASSUME NEW n \in DOMAIN wakes' \ DOMAIN wakes
      PROVE  TakenUp(n)
  BY <1>3 DEF Moved
\* Neither an old wake-up nor a new one is for what an old one is for.
<1>4. ASSUME NEW n \in DOMAIN wakes, NEW m \in ToSet(wakes[n].events),
             NEW i \in DOMAIN wakes' \ DOMAIN wakes,
             wakes'[i].life = wakes[n].life, m \in ToSet(wakes'[i].events)
      PROVE  FALSE
  <2>1. << wakes[n].life, m >> \in heard /\ n \in WakesFor(wakes[n].life, m)
    BY WokenFor
  <2>2. PICK k \in Scopes : /\ wakes'[i].life = k[1]
                            /\ m \in Events(k) \/ Fresh(k, m)
    BY <1>3, <1>4 DEF TakenUp
  <2>3. QED
    BY <1>4, <2>1, <2>2, Waiting DEF Fresh
<1>5. ASSUME NEW k \in Scopes, NEW m \in ToSet(batch'[k].events)
      PROVE  HabitatOf[m] = k[2] /\ << k[1], m >> \in heard' /\ WakesFor(k[1], m)' = {}
  <2>1. HabitatOf[m] = k[2] /\ << k[1], m >> \in heard'
    BY <1>1, <1>2, <1>5, Waiting DEF Fresh
  <2>2. ASSUME NEW n \in WakesFor(k[1], m)'
        PROVE  FALSE
    <3>1. n \in DOMAIN wakes' /\ wakes'[n].life = k[1] /\ m \in ToSet(wakes'[n].events)
      BY <2>2, WakesForIs
    <3>2. CASE n \in DOMAIN wakes
      <4>1. wakes[n].life = k[1] /\ m \in ToSet(wakes[n].events)
        BY <1>1, <3>1, <3>2
      <4>2. << k[1], m >> \in heard /\ n \in WakesFor(k[1], m)
        BY <3>2, <4>1, WokenFor
      <4>3. QED
        BY <1>2, <1>5, <4>2, Waiting DEF Fresh
    <3>3. CASE n \notin DOMAIN wakes
      <4>1. PICK j \in Scopes : /\ wakes'[n].life = j[1]
                                /\ m \in Events(j) \/ Fresh(j, m)
                                /\ m \notin ToSet(batch'[j].events)
        BY <1>3, <3>1, <3>3 DEF TakenUp
      <4>2. HabitatOf[m] = j[2] /\ j[1] = k[1]
        BY <3>1, <4>1, Waiting DEF Fresh
      <4>3. j = << j[1], j[2] >> /\ k = << k[1], k[2] >>
        BY DEF Scopes
      <4>4. QED
        BY <1>5, <2>1, <4>1, <4>2, <4>3
    <3>4. QED
      BY <3>2, <3>3
  <2>3. QED
    BY <2>1, <2>2
<1>6. ASSUME NEW n \in DOMAIN wakes', NEW m \in ToSet(wakes'[n].events),
             NEW l, l = wakes'[n].life
      PROVE  << l, m >> \in heard' /\ WakesFor(l, m)' = {n}
  <2>1. n \in WakesFor(l, m)'
    BY <1>6, WakesForIs
  <2>2. CASE n \in DOMAIN wakes
    <3>1. wakes[n].life = l /\ m \in ToSet(wakes[n].events)
      BY <1>1, <1>6, <2>2
    <3>2. << l, m >> \in heard /\ WakesFor(l, m) = {n}
      BY <2>2, <3>1, WokenFor
    <3>3. ASSUME NEW i \in WakesFor(l, m)' PROVE i = n
      <4>1. i \in DOMAIN wakes' /\ wakes'[i].life = l /\ m \in ToSet(wakes'[i].events)
        BY <3>3, WakesForIs
      <4>2. i \in DOMAIN wakes
        BY <1>4, <2>2, <3>1, <4>1
      <4>3. i \in WakesFor(l, m)
        BY <1>1, <4>1, <4>2, WakesForIs
      <4>4. QED
        BY <3>2, <4>3
    <3>4. QED
      BY <1>1, <2>1, <3>2, <3>3
  <2>3. CASE n \notin DOMAIN wakes
    <3>1. PICK k \in Scopes : /\ l = k[1] /\ wakes'[n].habitat = k[2]
                              /\ m \in Events(k) \/ Fresh(k, m)
      BY <1>3, <1>6, <2>3 DEF TakenUp
    <3>2. << l, m >> \in heard' /\ HabitatOf[m] = k[2]
      BY <1>1, <3>1, Waiting DEF Fresh
    <3>3. ASSUME NEW i \in WakesFor(l, m)' PROVE i = n
      <4>1. i \in DOMAIN wakes' /\ wakes'[i].life = l /\ m \in ToSet(wakes'[i].events)
        BY <3>3, WakesForIs
      <4>2. i \notin DOMAIN wakes
        <5> SUFFICES ASSUME i \in DOMAIN wakes PROVE FALSE
          OBVIOUS
        <5>1. wakes[i].life = l /\ m \in ToSet(wakes[i].events)
          BY <1>1, <4>1
        <5>2. QED
          BY <1>4, <1>6, <2>3, <5>1
      <4>3. PICK j \in Scopes : /\ wakes'[i].life = j[1] /\ wakes'[i].habitat = j[2]
                                /\ m \in Events(j) \/ Fresh(j, m)
        BY <1>3, <4>1, <4>2 DEF TakenUp
      <4>4. wakes'[i].habitat = wakes'[n].habitat
        BY <3>1, <3>2, <4>3, Waiting DEF Fresh
      <4>5. QED
        BY <1>6, <2>3, <4>1, <4>2, <4>4 DEF Moved
    <3>4. QED
      BY <2>1, <3>2, <3>3
  <2>4. QED
    BY <2>2, <2>3
<1>7. \A n \in DOMAIN wakes' : wakes'[n].built <= 1
  BY <1>1, <1>3 DEF TakenUp
<1>8. \A x \in heard' : stamp'[x[2]] # 0
  BY DEF Moved
<1>9. /\ \A k \in Scopes : \A m \in Events(k)' :
           HabitatOf[m] = k[2] /\ << k[1], m >> \in heard' /\ WakesFor(k[1], m)' = {}
      /\ \A n \in DOMAIN wakes' : \A m \in ToSet(wakes'[n].events) :
           << wakes'[n].life, m >> \in heard' /\ WakesFor(wakes[n].life, m)' = {n}
  <2>1. ASSUME NEW k \in Scopes, NEW m \in Events(k)'
        PROVE  HabitatOf[m] = k[2] /\ << k[1], m >> \in heard' /\ WakesFor(k[1], m)' = {}
    BY <1>5, <2>1, EventsAre
  <2>2. ASSUME NEW n \in DOMAIN wakes', NEW m \in ToSet(wakes'[n].events)
        PROVE  << wakes'[n].life, m >> \in heard' /\ WakesFor(wakes[n].life, m)' = {n}
    <3>1. PICK l : l = wakes'[n].life
      OBVIOUS
    <3>2. << l, m >> \in heard' /\ WakesFor(l, m)' = {n}
      BY <1>6, <3>1
    <3>3. QED
      BY <3>1, <3>2 DEF WakesFor
  <2>3. QED
    BY <2>1, <2>2
<1>10. QED
  BY <1>7, <1>8, <1>9 DEF WokenForHeard

\* Nothing a life has heard is forgotten in this step.
Minded ==
  /\ consumed \subseteq consumed' /\ lost \subseteq lost'
  /\ \A k \in Scopes : \A m \in Events(k) :
       \/ m \in ToSet(batch'[k].events)
       \/ << k[1], m >> \in lost'
       \/ \E n \in DOMAIN wakes' : wakes'[n].life = k[1] /\ m \in ToSet(wakes'[n].events)
  /\ \A x \in heard' \ heard :
       \/ x[2] \in consumed'
       \/ x[2] \in ToSet(batch'[<< x[1], HabitatOf[x[2]] >>].events)
       \/ \E n \in DOMAIN wakes' : wakes'[n].life = x[1] /\ x[2] \in ToSet(wakes'[n].events)

LEMMA NothingSlips ==
  ASSUME TypeOK, NothingForgotten, Moved, Minded
  PROVE  NothingForgotten'
<1> SUFFICES ASSUME NEW x \in heard'
             PROVE  \/ x[2] \in consumed'
                    \/ WakesFor(x[1], x[2])' # {}
                    \/ x[2] \in Events(<< x[1], HabitatOf[x[2]] >>)'
                    \/ x \in lost'
  BY DEF NothingForgotten
<1>1. ASSUME NEW n \in DOMAIN wakes', wakes'[n].life = x[1], x[2] \in ToSet(wakes'[n].events)
      PROVE  WakesFor(x[1], x[2])' # {}
  BY <1>1, WakesForIs
<1>2. CASE x \notin heard
  BY <1>1, <1>2, EventsAre DEF Minded
<1>3. CASE x \in heard
  <2>1. x[1] \in Lives /\ x[2] \in Messages /\ x = << x[1], x[2] >>
    BY <1>3 DEF TypeOK
  <2> DEFINE k == << x[1], HabitatOf[x[2]] >>
  <2>2. k \in Scopes /\ k[1] = x[1]
    BY <2>1, MessagesAssumption DEF Scopes
  <2>3. CASE x[2] \in consumed \/ x \in lost
    BY <2>3 DEF Minded
  <2>4. CASE WakesFor(x[1], x[2]) # {}
    <3>1. PICK n \in DOMAIN wakes : wakes[n].life = x[1] /\ x[2] \in ToSet(wakes[n].events)
      BY <2>4, WakesForIs
    <3>2. QED
      BY <1>1, <3>1 DEF Moved
  <2>5. CASE x[2] \in Events(k)
    <3>1. \/ x[2] \in ToSet(batch'[k].events)
          \/ << x[1], x[2] >> \in lost'
          \/ \E n \in DOMAIN wakes' : wakes'[n].life = x[1] /\ x[2] \in ToSet(wakes'[n].events)
      BY <2>2, <2>5 DEF Minded
    <3>2. QED
      BY <1>1, <2>1, <3>1, EventsAre
  <2>6. QED
    BY <1>3, <2>3, <2>4, <2>5 DEF NothingForgotten
<1>4. QED
  BY <1>2, <1>3

\* Neither a batch nor what a wake-up is for changes.
LEMMA StillMoves ==
  ASSUME TypeOK, WokenForHeard, wakes' = wakes,
         heard \subseteq heard', \A x \in heard' : stamp'[x[2]] # 0,
         \A k \in Scopes : batch'[k].events = batch[k].events
  PROVE  Moved
<1>1. \A n \in DOMAIN wakes : wakes[n].built <= 1
  BY DEF WokenForHeard
<1>2. QED
  BY <1>1, EventsAre DEF Moved

LEMMA StillMinds ==
  ASSUME \A k \in Scopes : batch'[k].events = batch[k].events,
         consumed \subseteq consumed', lost \subseteq lost',
         \A x \in heard' \ heard : x[2] \in consumed'
  PROVE  Minded
BY EventsAre DEF Minded

\* Entering a scope: what another one held is kept, or noted as lost.
LEMMA EnterKeeps ==
  ASSUME TypeOK, NEW k \in Scopes, Enter(k)
  PROVE  /\ lost \subseteq lost' /\ Batches(k)[k] = batch[k]
         /\ \A x \in Scopes :
              /\ \A m \in ToSet(Batches(k)[x].events) : m \in Events(x)
              /\ \A m \in Events(x) : \/ m \in ToSet(Batches(k)[x].events)
                                      \/ << x[1], m >> \in lost'
<1>1. /\ lost \subseteq lost' /\ Batches(k)[k] = batch[k]
      /\ \A x \in Scopes : \/ Batches(k)[x] = batch[x]
                           \/ /\ Batches(k)[x] = NoBatch
                              /\ \A m \in Events(x) : << x[1], m >> \in lost'
  BY EnterFacts
<1>2. ToSet(NoBatch.events) = {}
  BY NoBatchType DEF ToSet
<1>3. QED
  BY <1>1, <1>2, EventsAre

\* One wake-up is fired, for what waited in the batch of its scope or is just heard.
LEMMA FiredMoves ==
  ASSUME TypeOK, WokenForHeard, NEW k \in Scopes, Grown, Len(wakes') = Len(wakes) + 1,
         NEW source \in {"instant", "batcher", "scheduled"}, NEW events \in Seq(Messages),
         wakes'[Len(wakes) + 1] = NewWake(k, source, events),
         heard \subseteq heard', \A x \in heard' : stamp'[x[2]] # 0,
         \A x \in Scopes : \A m \in ToSet(batch'[x].events) : m \in Events(x),
         \A m \in ToSet(events) :
           (m \in Events(k) \/ Fresh(k, m)) /\ m \notin ToSet(batch'[k].events)
  PROVE  Moved
<1> DEFINE n == Len(wakes) + 1
<1>1. /\ DOMAIN wakes \subseteq DOMAIN wakes' /\ \A i \in DOMAIN wakes : wakes'[i] = wakes[i]
      /\ DOMAIN wakes' = 1..Len(wakes') /\ DOMAIN wakes = 1..Len(wakes) /\ Len(wakes) \in Nat
  BY GrownDomain
<1>2. \A i \in DOMAIN wakes' \ DOMAIN wakes : i = n
  BY <1>1
<1>3. /\ wakes'[n].life = k[1] /\ wakes'[n].habitat = k[2] /\ wakes'[n].events = events
      /\ wakes'[n].built = 0
  BY WakeTyped
<1> HIDE DEF n
<1>4. TakenUp(n)
  BY <1>3 DEF TakenUp
<1>5. \A i \in DOMAIN wakes : wakes[i].built <= 1
  BY DEF WokenForHeard
<1>6. QED
  BY <1>1, <1>2, <1>4, <1>5 DEF Moved

LEMMA ScheduledMoves ==
  ASSUME TypeOK, ServedInTurn, WokenForHeard, NEW k \in Scopes, Scheduled(k)
  PROVE  Moved /\ Minded
<1>1. /\ Enter(k) /\ batch' = Batches(k) /\ Fire(k, "scheduled", << >>)
      /\ UNCHANGED << heard, consumed, stamp >> /\ << >> \in Seq(Messages)
  BY DEF Scheduled, dispatchVars
<1>2. /\ Grown /\ Len(wakes') = Len(wakes) + 1
      /\ wakes'[Len(wakes) + 1] = NewWake(k, "scheduled", << >>)
  BY <1>1, FireFacts
<1>3. /\ lost \subseteq lost'
      /\ \A x \in Scopes :
           /\ \A m \in ToSet(batch'[x].events) : m \in Events(x)
           /\ \A m \in Events(x) : m \in ToSet(batch'[x].events) \/ << x[1], m >> \in lost'
  BY <1>1, EnterKeeps
<1>4. \A x \in heard' : stamp'[x[2]] # 0
  BY <1>1 DEF WokenForHeard
<1>5. ToSet(<< >>) = {}
  BY DEF ToSet
<1>6. Moved
  BY <1>1, <1>2, <1>3, <1>4, <1>5, FiredMoves
<1>7. QED
  BY <1>1, <1>3, <1>6 DEF Minded

LEMMA TickMoves ==
  ASSUME TypeOK, ServedInTurn, WokenForHeard, Tick
  PROVE  Moved /\ Minded
<1>1. /\ Grown
      /\ \A n \in DOMAIN wakes' \ DOMAIN wakes :
           \E k \in Ready : n = IdOf(k) /\ wakes'[n] = NewWake(k, "batcher", batch[k].events)
      /\ \A k \in Ready : /\ IdOf(k) \in DOMAIN wakes'
                          /\ wakes'[IdOf(k)] = NewWake(k, "batcher", batch[k].events)
      /\ Ready \subseteq Scopes
  BY TickFacts, FiringFacts
<1>2. /\ batch' = [k \in Scopes |-> IF k \in Ready THEN NoBatch ELSE batch[k]]
      /\ UNCHANGED << heard, stamp, lost, consumed >>
  BY DEF Tick, dispatchVars
<1>3. ASSUME NEW k \in Ready
      PROVE  /\ NewWake(k, "batcher", batch[k].events).built = 0
             /\ NewWake(k, "batcher", batch[k].events).events = batch[k].events
             /\ NewWake(k, "batcher", batch[k].events).life = k[1]
             /\ NewWake(k, "batcher", batch[k].events).habitat = k[2]
  BY DEF NewWake
<1>4. \A k \in Ready : ToSet(batch'[k].events) = {}
  BY <1>1, <1>2, NoBatchType DEF ToSet
<1>5. \A k \in Scopes \ Ready : batch'[k] = batch[k]
  BY <1>2
<1>6. DOMAIN wakes \subseteq DOMAIN wakes' /\ \A n \in DOMAIN wakes : wakes'[n] = wakes[n]
  BY <1>1, GrownDomain
<1>7. \A n \in DOMAIN wakes' \ DOMAIN wakes :
        \E k \in Ready : /\ n = IdOf(k) /\ wakes'[n].built = 0
                         /\ wakes'[n].events = batch[k].events
                         /\ wakes'[n].life = k[1] /\ wakes'[n].habitat = k[2]
  BY <1>1, <1>3
<1>8. ASSUME NEW n \in DOMAIN wakes' \ DOMAIN wakes
      PROVE  TakenUp(n)
  <2>1. PICK k \in Ready : /\ wakes'[n].built = 0 /\ wakes'[n].events = batch[k].events
                           /\ wakes'[n].life = k[1] /\ wakes'[n].habitat = k[2]
    BY <1>7
  <2>2. QED
    BY <1>1, <1>4, <2>1, EventsAre DEF TakenUp
<1>9. ASSUME NEW i \in DOMAIN wakes' \ DOMAIN wakes, NEW j \in DOMAIN wakes' \ DOMAIN wakes,
             wakes'[i].life = wakes'[j].life, wakes'[i].habitat = wakes'[j].habitat
      PROVE  i = j
  <2>1. PICK x \in Ready : i = IdOf(x) /\ wakes'[i].life = x[1] /\ wakes'[i].habitat = x[2]
    BY <1>7
  <2>2. PICK y \in Ready : j = IdOf(y) /\ wakes'[j].life = y[1] /\ wakes'[j].habitat = y[2]
    BY <1>7
  <2>3. x = << x[1], x[2] >> /\ y = << y[1], y[2] >>
    BY <1>1 DEF Scopes
  <2>4. x = y
    BY <1>9, <2>1, <2>2, <2>3
  <2>5. QED
    BY <2>1, <2>2, <2>4
<1>10. \A k \in Scopes : \A m \in ToSet(batch'[k].events) : m \in Events(k)
  BY <1>4, <1>5, EventsAre
<1>11. \A x \in heard' : stamp'[x[2]] # 0
  BY <1>2 DEF WokenForHeard
<1>12. \A n \in DOMAIN wakes : wakes[n].built <= 1
  BY DEF WokenForHeard
<1>13. Moved
  BY <1>2, <1>6, <1>8, <1>9, <1>10, <1>11, <1>12 DEF Moved
<1>14. ASSUME NEW k \in Scopes, NEW m \in Events(k), k \in Ready
       PROVE  \E n \in DOMAIN wakes' : wakes'[n].life = k[1] /\ m \in ToSet(wakes'[n].events)
  <2>1. /\ IdOf(k) \in DOMAIN wakes' /\ wakes'[IdOf(k)].life = k[1]
        /\ wakes'[IdOf(k)].events = batch[k].events
    BY <1>1, <1>3, <1>14
  <2>2. m \in ToSet(wakes'[IdOf(k)].events)
    BY <2>1, EventsAre
  <2>3. QED
    BY <2>1, <2>2
<1>15. Minded
  BY <1>2, <1>5, <1>14, EventsAre DEF Minded
<1>16. QED
  BY <1>13, <1>15

LEMMA CollectMoves ==
  ASSUME TypeOK, ServedInTurn, WokenForHeard, NEW k \in Scopes, NEW m \in Messages,
         Collect(k, m), heard' = heard \cup {<< k[1], m >>}, << k[1], m >> \notin heard,
         HabitatOf[m] = k[2], stamp[m] # 0, stamp' = stamp
  PROVE  Moved /\ Minded
<1> DEFINE b == Pushed(Batches(k)[k], m)
<1>1. Enter(k) /\ consumed' = consumed
  BY DEF Collect, dispatchVars
<1>2. /\ lost \subseteq lost' /\ Batches(k)[k] = batch[k]
      /\ \A x \in Scopes :
           /\ \A i \in ToSet(Batches(k)[x].events) : i \in Events(x)
           /\ \A i \in Events(x) :
                i \in ToSet(Batches(k)[x].events) \/ << x[1], i >> \in lost'
  BY <1>1, EnterKeeps
<1>3. Batches(k) \in [Scopes -> BatchSet]
  BY <1>1, EnterFacts
<1>4. b.events \in Seq(Messages) /\ \A i : i \in ToSet(b.events) <=> i \in Events(k) \/ i = m
  <2>1. Batches(k)[k] \in BatchSet
    BY <1>3
  <2>2. b \in BatchSet /\ ToSet(b.events) = ToSet(Batches(k)[k].events) \cup {m}
    BY <2>1, PushedType
  <2>3. ToSet(b.events) = Events(k) \cup {m}
    BY <1>2, <2>2, EventsAre
  <2>4. QED
    BY <2>2, <2>3 DEF BatchSet
<1>5. Fresh(k, m)
  BY DEF Fresh
<1>6. \A x \in heard' : stamp'[x[2]] # 0
  BY DEF WokenForHeard
<1> HIDE DEF b
<1>7. CASE Overfull(b)
  <2>1. Fire(k, "batcher", b.events) /\ batch' = [Batches(k) EXCEPT ![k] = NoBatch]
    BY <1>7 DEF Collect, b
  <2>2. /\ Grown /\ Len(wakes') = Len(wakes) + 1
        /\ wakes'[Len(wakes) + 1] = NewWake(k, "batcher", b.events)
    BY <1>1, <1>4, <2>1, FireFacts
  <2>3. ToSet(batch'[k].events) = {} /\ \A x \in Scopes \ {k} : batch'[x] = Batches(k)[x]
    BY <1>3, <2>1, NoBatchType DEF ToSet
  <2>4. \A x \in Scopes : \A i \in ToSet(batch'[x].events) : i \in Events(x)
    BY <1>2, <2>3
  <2>5. Moved
    BY <1>4, <1>5, <1>6, <2>2, <2>3, <2>4, FiredMoves
  <2>6. \A i : i \in Events(k) \/ i = m =>
          \E n \in DOMAIN wakes' : wakes'[n].life = k[1] /\ i \in ToSet(wakes'[n].events)
    <3>1. /\ wakes'[Len(wakes) + 1].life = k[1]
          /\ wakes'[Len(wakes) + 1].events = b.events
      BY <1>4, <2>2, WakeTyped
    <3>2. Len(wakes) + 1 \in DOMAIN wakes'
      <4>1. DOMAIN wakes' = 1..Len(wakes') /\ Len(wakes) \in Nat
        BY <2>2, GrownDomain
      <4>2. QED
        BY <2>2, <4>1
    <3>3. QED
      BY <1>4, <3>1, <3>2
  <2>7. \A x \in heard' \ heard : x[1] = k[1] /\ x[2] = m
    OBVIOUS
  <2>8. QED
    BY <1>1, <1>2, <2>3, <2>5, <2>6, <2>7 DEF Minded
<1>8. CASE ~ Overfull(b)
  <2>1. batch' = [Batches(k) EXCEPT ![k] = b] /\ wakes' = wakes
    BY <1>8 DEF Collect, b
  <2>2. batch'[k] = b /\ \A x \in Scopes \ {k} : batch'[x] = Batches(k)[x]
    BY <1>3, <2>1
  <2>3. \A x \in Scopes : \A i \in ToSet(batch'[x].events) : i \in Events(x) \/ Fresh(x, i)
    BY <1>2, <1>4, <1>5, <2>2
  <2>4. \A n \in DOMAIN wakes : wakes[n].built <= 1
    BY DEF WokenForHeard
  <2>5. Moved
    BY <1>6, <2>1, <2>3, <2>4 DEF Moved
  <2>6. \A x \in heard' \ heard : << x[1], HabitatOf[x[2]] >> = k /\ x[2] = m
    BY DEF Scopes
  <2>7. QED
    BY <1>1, <1>2, <1>4, <2>2, <2>5, <2>6 DEF Minded
<1>9. QED
  BY <1>7, <1>8

LEMMA InstantMoves ==
  ASSUME TypeOK, ServedInTurn, WokenForHeard, NEW k \in Scopes, NEW m \in Messages,
         InstantWake(k, m), heard' = heard \cup {<< k[1], m >>}, << k[1], m >> \notin heard,
         HabitatOf[m] = k[2], stamp[m] # 0, stamp' = stamp
  PROVE  Moved /\ Minded
<1>1. /\ Enter(k) /\ batch' = Batches(k) /\ Fire(k, "instant", << m >>)
      /\ consumed' = consumed /\ << m >> \in Seq(Messages)
  BY DEF InstantWake
<1>2. /\ Grown /\ Len(wakes') = Len(wakes) + 1
      /\ wakes'[Len(wakes) + 1] = NewWake(k, "instant", << m >>)
  BY <1>1, FireFacts
<1>3. /\ lost \subseteq lost'
      /\ \A x \in Scopes :
           /\ \A i \in ToSet(batch'[x].events) : i \in Events(x)
           /\ \A i \in Events(x) : i \in ToSet(batch'[x].events) \/ << x[1], i >> \in lost'
  BY <1>1, EnterKeeps
<1>4. \A x \in heard' : stamp'[x[2]] # 0
  BY DEF WokenForHeard
<1>5. \A i : i \in ToSet(<< m >>) <=> i = m
  BY DEF ToSet
<1>6. Fresh(k, m) /\ m \notin ToSet(batch'[k].events)
  BY <1>3, Waiting DEF Fresh
<1>7. Moved
  BY <1>1, <1>2, <1>3, <1>4, <1>5, <1>6, FiredMoves
<1>8. \E n \in DOMAIN wakes' : wakes'[n].life = k[1] /\ m \in ToSet(wakes'[n].events)
  <2>1. /\ wakes'[Len(wakes) + 1].life = k[1]
        /\ wakes'[Len(wakes) + 1].events = << m >>
    BY <1>1, <1>2, WakeTyped
  <2>2. Len(wakes) + 1 \in DOMAIN wakes'
    <3>1. DOMAIN wakes' = 1..Len(wakes') /\ Len(wakes) \in Nat
      BY <1>2, GrownDomain
    <3>2. QED
      BY <1>2, <3>1
  <2>3. QED
    BY <1>5, <2>1, <2>2
<1>9. \A x \in heard' \ heard : x[1] = k[1] /\ x[2] = m
  OBVIOUS
<1>10. QED
  BY <1>1, <1>3, <1>7, <1>8, <1>9 DEF Minded

LEMMA BuildMoves ==
  ASSUME TypeOK, WokenForHeard, NEW k \in Scopes, NEW n \in DOMAIN wakes, Build(k, n),
         wakes[n].life = k[1] => wakes[n].built = 0, UNCHANGED << heard, stamp, consumed >>
  PROVE  Moved /\ Minded
<1>1. /\ DOMAIN wakes' = DOMAIN wakes
      /\ \A i \in DOMAIN wakes :
           /\ wakes'[i].life = wakes[i].life /\ wakes'[i].events = wakes[i].events
           /\ i # n \/ wakes[n].life # k[1] => wakes'[i].built = wakes[i].built
      /\ wakes[n].life = k[1] => wakes'[n].built = wakes[n].built + 1
  BY BuildFacts
<1>2. /\ lost \subseteq lost'
      /\ \A x \in Scopes :
           /\ \A m \in ToSet(batch'[x].events) : m \in Events(x)
           /\ \A m \in Events(x) : m \in ToSet(batch'[x].events) \/ << x[1], m >> \in lost'
  <2>1. CASE wakes[n].life # k[1]
    BY <2>1, EventsAre DEF Build, scopeVars
  <2>2. CASE wakes[n].life = k[1]
    <3>1. Enter(k) /\ batch' = Batches(k)
      BY <2>2 DEF Build
    <3>2. QED
      BY <3>1, EnterKeeps
  <2>3. QED
    BY <2>1, <2>2
<1>3. \A i \in DOMAIN wakes : wakes'[i].built <= 1
  <2>1. \A i \in DOMAIN wakes : wakes[i].built <= 1
    BY DEF WokenForHeard
  <2>2. QED
    BY <1>1, <2>1
<1>4. \A x \in heard' : stamp'[x[2]] # 0
  BY DEF WokenForHeard
<1>5. Moved
  BY <1>1, <1>2, <1>3, <1>4 DEF Moved
<1>6. QED
  BY <1>2, <1>5 DEF Minded

\* A life's turn at the decide stage.
LEMMA DecideMoves ==
  ASSUME TypeOK, ServedInTurn, WokenForHeard, NEW h \in Habitats, Decide(h)
  PROVE  Moved /\ Minded
<1>1. PICK k \in Scopes, e \in Entries :
        /\ k[2] = h /\ Ahead(k[1], e) /\ UNCHANGED stamp
        /\ \/ /\ e.wake = 0 /\ e.msg \in Messages /\ HabitatOf[e.msg] = h
              /\ stamp[e.msg] # 0 /\ << k[1], e.msg >> \notin heard
              /\ Ingest(k, e.msg)
           \/ /\ e.wake # 0 /\ e.wake \in DOMAIN wakes /\ Build(k, e.wake)
              /\ UNCHANGED << dispatchVars, inbox, sending, heard, replies >>
  <2> DEFINE l == Head(serving[h].rest)
  <2>1. serving[h].entry \in Entries
    BY DEF TypeOK
  <2>2. << l, h >>[1] = l /\ << l, h >>[2] = h
    OBVIOUS
  <2>3. QED
    BY <2>1, <2>2, DecideFacts
<1>2. CASE /\ e.wake = 0 /\ e.msg \in Messages /\ HabitatOf[e.msg] = h
           /\ stamp[e.msg] # 0 /\ << k[1], e.msg >> \notin heard
           /\ Ingest(k, e.msg)
  <2> DEFINE m == e.msg
  <2>1. /\ m \in Messages /\ HabitatOf[m] = k[2] /\ stamp[m] # 0 /\ << k[1], m >> \notin heard
        /\ heard' = heard \cup {<< k[1], m >>} /\ stamp' = stamp
    BY <1>1, <1>2 DEF Ingest
  <2>2. \/ /\ UNCHANGED << scopeVars, wakes, lost >>
           /\ consumed \subseteq consumed' /\ m \in consumed'
        \/ InstantWake(k, m)
        \/ Collect(k, m)
    BY <1>2 DEF Ingest, Command, InstantText, dispatchVars
  <2> HIDE DEF m
  <2>3. CASE /\ UNCHANGED << scopeVars, wakes, lost >>
             /\ consumed \subseteq consumed' /\ m \in consumed'
    <3>1. /\ batch' = batch /\ wakes' = wakes /\ lost' = lost
          /\ \A x \in heard' \ heard : x[2] \in consumed'
      BY <2>1, <2>3 DEF scopeVars
    <3>2. \A x \in heard' : stamp'[x[2]] # 0
      BY <2>1 DEF WokenForHeard
    <3>3. QED
      BY <2>1, <2>3, <3>1, <3>2, StillMoves, StillMinds
  <2>4. QED
    BY <2>1, <2>2, <2>3, InstantMoves, CollectMoves
<1>3. CASE /\ e.wake # 0 /\ e.wake \in DOMAIN wakes /\ Build(k, e.wake)
           /\ UNCHANGED << dispatchVars, inbox, sending, heard, replies >>
  <2>1. wakes[e.wake].life = k[1] => wakes[e.wake].built = 0
    BY <1>1, <1>3 DEF Ahead
  <2>2. UNCHANGED << heard, stamp, consumed >>
    BY <1>1, <1>3 DEF dispatchVars
  <2>3. QED
    BY <1>3, <2>1, <2>2, BuildMoves
<1>4. QED
  BY <1>1, <1>2, <1>3

LEMMA NextMoves ==
  ASSUME TypeOK, ServedInTurn, WokenForHeard, WaitsTimed, [Next]_vars
  PROVE  Moved /\ Minded
<1>1. CASE Tick
  BY <1>1, TickMoves
<1>2. ASSUME NEW m \in Messages, Arrive(m) PROVE Moved /\ Minded
  <2>1. /\ UNCHANGED << batch, wakes, heard, lost, consumed >>
        /\ stamp' = [stamp EXCEPT ![m] = clock] /\ clock > 0
    BY <1>2 DEF Arrive, WaitsTimed, scopeVars, dispatchVars
  <2>2. stamp \in [Messages -> Nat] /\ clock \in Nat /\ heard \subseteq Lives \X Messages
    BY DEF TypeOK
  <2>3. \A x \in heard : stamp[x[2]] # 0 /\ x[2] \in Messages
    BY <2>2 DEF WokenForHeard
  <2>4. \A x \in heard' : stamp'[x[2]] # 0
    BY <2>1, <2>2, <2>3
  <2>5. QED
    BY <2>1, <2>4, StillMoves, StillMinds
<1>3. ASSUME UNCHANGED << batch, wakes, heard, lost, consumed, stamp >>
      PROVE  Moved /\ Minded
  <2>1. \A x \in heard' : stamp'[x[2]] # 0
    BY <1>3 DEF WokenForHeard
  <2>2. QED
    BY <1>3, <2>1, StillMoves, StillMinds
<1>4. ASSUME NEW h \in Habitats, Take(h) PROVE Moved /\ Minded
  BY <1>3, <1>4 DEF Take, scopeVars, dispatchVars
<1>5. ASSUME NEW h \in Habitats, Decide(h) PROVE Moved /\ Minded
  BY <1>5, DecideMoves
<1>6. ASSUME NEW x \in sending, ReplyEnds(x) PROVE Moved /\ Minded
  BY <1>3, <1>6 DEF ReplyEnds, scopeVars
<1>7. ASSUME NEW k \in Scopes, Scheduled(k) PROVE Moved /\ Minded
  BY <1>7, ScheduledMoves
<1>8. CASE UNCHANGED vars
  BY <1>3, <1>8 DEF vars, scopeVars, dispatchVars
<1>9. QED
  BY <1>1, <1>2, <1>4, <1>5, <1>6, <1>7, <1>8 DEF Next

-----------------------------------------------------------------------------
(***************************************************************************)
(* A batch fires within the longest wait of its first event.                *)
(***************************************************************************)
\* The clock stands still: a batch goes on, is emptied, or is begun.
LEMMA TimedKept ==
  ASSUME TypeOK, WaitsTimed, clock' = clock, \A m \in Messages : stamp'[m] <= clock,
         \A k \in Scopes :
           \/ batch'[k].events = << >>
           \/ /\ batch[k].events # << >>
              /\ batch'[k].start = batch[k].start /\ batch'[k].since = batch[k].since
           \/ batch'[k].start <= clock /\ batch'[k].since = clock
  PROVE  WaitsTimed'
<1>1. clock \in Nat /\ MaxWait \in Nat
  BY LimitsAssumption DEF TypeOK
<1>2. ASSUME NEW k \in Scopes, batch'[k].events # << >>
      PROVE  /\ batch'[k].start <= batch'[k].since /\ batch'[k].since <= clock'
             /\ MaxWait > 0 => clock' - batch'[k].since < MaxWait
  <2>1. CASE /\ batch[k].events # << >>
             /\ batch'[k].start = batch[k].start /\ batch'[k].since = batch[k].since
    BY <2>1 DEF WaitsTimed
  <2>2. CASE batch'[k].start <= clock /\ batch'[k].since = clock
    BY <1>1, <2>2
  <2>3. QED
    BY <1>2, <2>1, <2>2
<1>3. QED
  BY <1>2 DEF WaitsTimed

LEMMA EnterTimes ==
  ASSUME TypeOK, NEW k \in Scopes, Enter(k), NEW x \in Scopes
  PROVE  Batches(k)[x] = batch[x] \/ Batches(k)[x].events = << >>
BY EnterFacts, NoBatchType

LEMMA TickTimes ==
  ASSUME TypeOK, WaitsTimed, Tick
  PROVE  WaitsTimed'
<1>1. /\ clock' = clock + 1 /\ stamp' = stamp /\ clock \in Nat /\ MaxWait \in Nat
      /\ stamp \in [Messages -> Nat]
      /\ batch' = [k \in Scopes |-> IF k \in Ready THEN NoBatch ELSE batch[k]]
  BY LimitsAssumption DEF Tick, TypeOK
<1>2. ASSUME NEW k \in Scopes, batch'[k].events # << >>
      PROVE  /\ batch'[k].start <= batch'[k].since /\ batch'[k].since <= clock'
             /\ MaxWait > 0 => clock' - batch'[k].since < MaxWait
  <2>1. k \notin Ready /\ batch'[k] = batch[k]
    BY <1>1, <1>2, NoBatchType
  <2>2. ~ Due(k, clock + 1) /\ batch[k].events # << >>
    BY <1>2, <2>1 DEF Ready
  <2>3. batch[k].start \in Nat /\ batch[k].since \in Nat
    BY DEF TypeOK
  <2>4. batch[k].start <= batch[k].since /\ batch[k].since <= clock
    BY <2>2 DEF WaitsTimed
  <2>5. MaxWait > 0 => ~ (clock + 1 - batch[k].start >= MaxWait)
    <3>1. batch[k].events # << >>
      BY <2>2
    <3>2. ~ Due(k, clock + 1)
      BY <2>2
    <3>3. QED
      BY <1>1, <2>3, <3>1, <3>2 DEF Due
  <2>6. QED
    BY <1>1, <2>1, <2>3, <2>4, <2>5
<1>3. \A m \in Messages : stamp'[m] <= clock'
  <2>1. \A m \in Messages : stamp[m] <= clock /\ stamp[m] \in Nat
    BY <1>1 DEF WaitsTimed
  <2>2. QED
    BY <1>1, <2>1
<1>4. clock' > 0
  BY <1>1
<1>5. QED
  BY <1>2, <1>3, <1>4 DEF WaitsTimed

\* A push keeps the time of the first event, by both clocks.
LEMMA CollectTimes ==
  ASSUME TypeOK, WaitsTimed, NEW k \in Scopes, NEW m \in Messages, Collect(k, m),
         clock' = clock, stamp' = stamp
  PROVE  WaitsTimed'
<1> DEFINE b == Pushed(Batches(k)[k], m)
<1>1. Enter(k) /\ Batches(k) \in [Scopes -> BatchSet] /\ Batches(k)[k] = batch[k]
  BY EnterFacts DEF Collect
<1>2. \A i \in Messages : stamp'[i] <= clock
  BY DEF WaitsTimed
<1>3. /\ b.start = IF batch[k].events = << >> THEN stamp[m] ELSE batch[k].start
      /\ b.since = IF batch[k].events = << >> THEN clock ELSE batch[k].since
  BY <1>1 DEF Pushed
<1>4. batch' = [Batches(k) EXCEPT ![k] = NoBatch] \/ batch' = [Batches(k) EXCEPT ![k] = b]
  BY DEF Collect
<1> HIDE DEF b
<1>5. batch'[k].events = << >> \/ batch'[k] = b
  BY <1>1, <1>4, NoBatchType
<1>6. \A x \in Scopes \ {k} : batch'[x] = batch[x] \/ batch'[x].events = << >>
  BY <1>1, <1>4, EnterTimes
<1>7. stamp[m] <= clock
  BY DEF WaitsTimed
<1>8. ASSUME NEW x \in Scopes
      PROVE  \/ batch'[x].events = << >>
             \/ /\ batch[x].events # << >>
                /\ batch'[x].start = batch[x].start /\ batch'[x].since = batch[x].since
             \/ batch'[x].start <= clock /\ batch'[x].since = clock
  <2>1. CASE x = k
    BY <1>3, <1>5, <1>7, <2>1
  <2>2. CASE x # k
    BY <1>6, <2>2
  <2>3. QED
    BY <2>1, <2>2
<1>9. QED
  BY <1>2, <1>8, TimedKept

LEMMA NextTimes ==
  ASSUME TypeOK, ServedInTurn, WaitsTimed, [Next]_vars
  PROVE  WaitsTimed'
<1>1. CASE Tick
  BY <1>1, TickTimes
<1>2. ASSUME clock' = clock, \A m \in Messages : stamp'[m] <= clock, batch' = batch
      PROVE  WaitsTimed'
  <2>1. \A k \in Scopes : \/ batch'[k].events = << >>
                          \/ /\ batch[k].events # << >>
                             /\ batch'[k].start = batch[k].start
                             /\ batch'[k].since = batch[k].since
    BY <1>2
  <2>2. QED
    BY <1>2, <2>1, TimedKept
<1>3. \A m \in Messages : stamp[m] <= clock
  BY DEF WaitsTimed
<1>4. ASSUME NEW k \in Scopes, Enter(k), batch' = Batches(k), clock' = clock, stamp' = stamp
      PROVE  WaitsTimed'
  <2>1. \A x \in Scopes : batch'[x] = batch[x] \/ batch'[x].events = << >>
    BY <1>4, EnterTimes
  <2>2. QED
    BY <1>3, <1>4, <2>1, TimedKept
<1>5. ASSUME NEW m \in Messages, Arrive(m) PROVE WaitsTimed'
  <2>1. /\ stamp' = [stamp EXCEPT ![m] = clock] /\ clock' = clock /\ batch' = batch
        /\ clock \in Nat /\ stamp \in [Messages -> Nat]
    BY <1>5 DEF Arrive, scopeVars, TypeOK
  <2>2. \A i \in Messages : stamp'[i] <= clock
    BY <1>3, <2>1
  <2>3. QED
    BY <1>2, <2>1, <2>2
<1>6. ASSUME NEW h \in Habitats, Take(h) PROVE WaitsTimed'
  BY <1>2, <1>3, <1>6 DEF Take, scopeVars
<1>7. ASSUME NEW h \in Habitats, Decide(h) PROVE WaitsTimed'
  <2>1. PICK k \in Scopes, e \in Entries :
          /\ UNCHANGED << clock, stamp >>
          /\ \/ e.msg \in Messages /\ Ingest(k, e.msg)
             \/ Build(k, e.wake)
    <3>1. serving[h].entry \in Entries
      BY DEF TypeOK
    <3>2. QED
      BY <1>7, <3>1, DecideFacts
  <2>2. \/ batch' = batch
        \/ Enter(k) /\ batch' = Batches(k)
        \/ e.msg \in Messages /\ Collect(k, e.msg)
    BY <2>1 DEF Ingest, Build, Command, InstantText, InstantWake, scopeVars
  <2>3. CASE batch' = batch
    BY <1>2, <1>3, <2>1, <2>3
  <2>4. QED
    BY <1>4, <2>1, <2>2, <2>3, CollectTimes
<1>8. ASSUME NEW x \in sending, ReplyEnds(x) PROVE WaitsTimed'
  BY <1>2, <1>3, <1>8 DEF ReplyEnds, scopeVars
<1>9. ASSUME NEW k \in Scopes, Scheduled(k) PROVE WaitsTimed'
  BY <1>4, <1>9 DEF Scheduled
<1>10. CASE UNCHANGED vars
  BY <1>2, <1>3, <1>10 DEF vars, scopeVars
<1>11. QED
  BY <1>1, <1>5, <1>6, <1>7, <1>8, <1>9, <1>10 DEF Next

-----------------------------------------------------------------------------
(***************************************************************************)
(* The theorems.                                                            *)
(***************************************************************************)
DispatchInv ==
  TypeOK /\ ServedInTurn /\ WokenForHeard /\ WaitsTimed /\ NothingForgotten

LEMMA InitDispatch == Init => DispatchInv
<1> SUFFICES ASSUME Init PROVE DispatchInv
  OBVIOUS
<1>1. \A k \in Scopes : batch[k].events = << >> /\ Events(k) = {}
  BY NoBatchType, EventsAre DEF Init, ToSet
<1>2. heard = {} /\ wakes = << >> /\ clock = 1 /\ \A m \in Messages : stamp[m] = 0
  BY DEF Init
<1>3. WokenForHeard
  BY <1>1, <1>2 DEF WokenForHeard
<1>4. WaitsTimed
  BY <1>1, <1>2 DEF WaitsTimed
<1>5. NothingForgotten
  BY <1>2 DEF NothingForgotten
<1>6. QED
  BY <1>3, <1>4, <1>5, InitType, InitTurns DEF DispatchInv

LEMMA DispatchInductive == Spec => []DispatchInv
<1>1. Init => DispatchInv
  BY InitDispatch
<1>2. DispatchInv /\ [Next]_vars => DispatchInv'
  <2> SUFFICES ASSUME DispatchInv, [Next]_vars PROVE DispatchInv'
    OBVIOUS
  <2>1. TypeOK /\ ServedInTurn /\ WokenForHeard /\ WaitsTimed /\ NothingForgotten
    BY DEF DispatchInv
  <2>2. TypeOK' /\ ServedInTurn' /\ Moved /\ Minded /\ WaitsTimed'
    BY <2>1, NextTurns, NextMoves, NextTimes
  <2>3. WokenForHeard' /\ NothingForgotten'
    BY <2>1, <2>2, WokenMoves, NothingSlips
  <2>4. QED
    BY <2>2, <2>3 DEF DispatchInv
<1>3. QED
  BY <1>1, <1>2, PTL DEF Spec

\* The variables keep their types; the cache of scopes keeps distinct keys within
\* its limit, and nothing is held for a scope outside it.
THEOREM DispatchTyped == Spec => []TypeOK
<1>1. DispatchInv => TypeOK
  BY DEF DispatchInv
<1>2. QED
  BY <1>1, DispatchInductive, PTL

\* A life is woken for a message at most once, by whichever layer, never while the
\* message still waits in a batch, and the prompt of a wake-up is assembled once
\* (behavior/src/index.ts, ingestForLife and buildWakeArtifact).
THEOREM WokenOnceAlways == Spec => []WokenOnce
<1>1. DispatchInv => WokenOnce
  <2> SUFFICES ASSUME DispatchInv PROVE WokenOnce
    OBVIOUS
  <2>1. WokenForHeard
    BY DEF DispatchInv
  <2>2. ASSUME NEW l \in Lives, NEW m \in Messages, NEW n \in WakesFor(l, m)
        PROVE  WakesFor(l, m) = {n}
    <3>1. n \in DOMAIN wakes /\ wakes[n].life = l /\ m \in ToSet(wakes[n].events)
      BY <2>2, WakesForIs
    <3>2. WakesFor(wakes[n].life, m) = {n}
      BY <2>1, <3>1, WokenFor
    <3>3. QED
      BY <3>1, <3>2
  <2>3. ASSUME NEW l \in Lives, NEW m \in Messages
        PROVE  Cardinality(WakesFor(l, m)) <= 1
    <3>1. CASE WakesFor(l, m) = {}
      BY <3>1, FS_EmptySet
    <3>2. ASSUME NEW n \in WakesFor(l, m) PROVE Cardinality(WakesFor(l, m)) <= 1
      <4>1. WakesFor(l, m) = {n} /\ Cardinality({n}) = 1
        BY <2>2, <3>2, FS_Singleton
      <4>2. QED
        BY <4>1
    <3>3. QED
      BY <3>1, <3>2
  <2>4. ASSUME NEW l \in Lives, NEW m \in Messages, WakesFor(l, m) # {}
        PROVE  m \notin Events(<< l, HabitatOf[m] >>)
    <3>1. << l, HabitatOf[m] >> \in Scopes /\ << l, HabitatOf[m] >>[1] = l
      BY MessagesAssumption DEF Scopes
    <3>2. QED
      BY <2>1, <2>4, <3>1, Waiting
  <2>5. \A n \in DOMAIN wakes : wakes[n].built <= 1
    BY <2>1 DEF WokenForHeard
  <2>6. QED
    BY <2>3, <2>4, <2>5 DEF WokenOnce
<1>2. QED
  BY <1>1, DispatchInductive, PTL

\* What a life has perceived was replied to, woke it, or waits to wake it, unless
\* the cache let go of the scope it waited in.
THEOREM NothingIsForgotten == Spec => []NothingForgotten
<1>1. DispatchInv => NothingForgotten
  BY DEF DispatchInv
<1>2. QED
  BY <1>1, DispatchInductive, PTL

\* A batch never holds an event for as long as the longest wait (batcher.ts).
THEOREM WaitsAreBounded == Spec => []WaitsBounded
<1>1. DispatchInv => WaitsBounded
  BY DEF DispatchInv, WaitsTimed, WaitsBounded
<1>2. QED
  BY <1>1, DispatchInductive, PTL
=============================================================================
