---------------------------- MODULE KernelProofs ----------------------------
(***************************************************************************)
(* Theorems about the event bus (EventBus) and the pipeline                *)
(* (StimulusPipeline) of the kernel, for every number of subscriptions,    *)
(* emits, lives and plugins; and about the observatory that listens to the *)
(* bus (Observatory), for every set of calls and size of its store.        *)
(***************************************************************************)
EXTENDS EventBus, StimulusPipeline, Observatory, FilterProofs, FiniteSetTheorems

(***************************************************************************)
(* The event bus.  What keeps everyone in the loop: a subscriber is in its *)
(* own Set exactly until it leaves, and only the Set the map holds is ever *)
(* non-empty, as long as nobody disposes twice.                            *)
(***************************************************************************)
Handlers == {i \in DOMAIN subs : subs[i].kind # "any"}

Subscription == [kind : {"on", "once", "any"}, set : Nat, off : Nat]
Counts == UNION {[1..n -> Nat] : n \in Nat}
EmitRecord == [todo : SUBSET Nat, heard : Counts, at : SUBSET Nat]

BusTyped ==
  /\ subs \in Seq(Subscription)
  /\ sets \in Seq(SUBSET Nat)
  /\ heldBy \in 0..Len(sets)
  /\ emits \in Seq(EmitRecord)

\* Who is in which Set.
InOwnSet ==
  /\ \A i \in Handlers : subs[i].set \in DOMAIN sets
  /\ \A i \in Handlers : i \in sets[subs[i].set] <=> subs[i].off = 0
  /\ \A s \in DOMAIN sets : \A i \in sets[s] : i \in Handlers /\ subs[i].set = s

\* Which Sets are empty.
OneSetHeld ==
  ~Misused =>
    /\ \A s \in DOMAIN sets : s # heldBy => sets[s] = {}
    /\ heldBy # 0 => sets[heldBy] # {}

\* An emit under way: who is still to hear it has not heard it, the others have.
EmitsExact ==
  \A e \in DOMAIN emits :
    /\ emits[e].todo \subseteq DOMAIN emits[e].heard \cap Handlers
    /\ DOMAIN emits[e].heard \subseteq DOMAIN subs
    /\ ~Misused =>
         \A i \in DOMAIN emits[e].heard :
           emits[e].heard[i] =
             IF i \in emits[e].at /\ i \notin emits[e].todo THEN 1 ELSE 0
    /\ ~Misused => emits[e].todo \subseteq emits[e].at

BusInv == BusTyped /\ InOwnSet /\ OneSetHeld /\ EmitsExact

-----------------------------------------------------------------------------
\* A sequence with one element replaced, and one with one more.
LEMMA Replaced ==
  ASSUME NEW S, NEW seq \in Seq(S), NEW i \in DOMAIN seq, NEW v \in S
  PROVE  /\ [seq EXCEPT ![i] = v] \in Seq(S)
         /\ DOMAIN [seq EXCEPT ![i] = v] = DOMAIN seq
         /\ Len([seq EXCEPT ![i] = v]) = Len(seq)
         /\ [seq EXCEPT ![i] = v][i] = v
         /\ \A j \in DOMAIN seq : j # i => [seq EXCEPT ![i] = v][j] = seq[j]
  OBVIOUS

LEMMA Appended ==
  ASSUME NEW S, NEW seq \in Seq(S), NEW v \in S
  PROVE  /\ Append(seq, v) \in Seq(S)
         /\ Len(seq) + 1 \in Nat /\ Len(seq) + 1 \notin DOMAIN seq
         /\ DOMAIN Append(seq, v) = DOMAIN seq \cup {Len(seq) + 1}
         /\ \A j \in DOMAIN seq : Append(seq, v)[j] = seq[j]
         /\ Append(seq, v)[Len(seq) + 1] = v
  OBVIOUS

\* A disposer's calls are counted, nothing else of the subscription changes.
LEMMA Left ==
  ASSUME BusTyped, NEW i \in DOMAIN subs, NEW o \in Nat,
         subs' = [subs EXCEPT ![i].off = o]
  PROVE  /\ subs' \in Seq(Subscription) /\ DOMAIN subs' = DOMAIN subs
         /\ \A j \in DOMAIN subs : /\ subs'[j].kind = subs[j].kind /\ subs'[j].set = subs[j].set
                                   /\ subs'[j].off = IF j = i THEN o ELSE subs[j].off
  <1>1. subs \in Seq(Subscription)
    BY DEF BusTyped
  <1>2. PICK r : r = [subs[i] EXCEPT !.off = o]
    OBVIOUS
  <1>3. subs[i] \in Subscription
    BY <1>1
  <1>4. r \in Subscription /\ r.kind = subs[i].kind /\ r.set = subs[i].set /\ r.off = o
    BY <1>2, <1>3 DEF Subscription
  <1>5. subs' = [subs EXCEPT ![i] = r]
    BY <1>1, <1>2
  <1>6. /\ subs' \in Seq(Subscription) /\ DOMAIN subs' = DOMAIN subs
        /\ subs'[i] = r
    BY <1>1, <1>4, <1>5, Replaced
  <1>7. \A j \in DOMAIN subs : j # i => subs'[j] = subs[j]
    BY <1>1, <1>4, <1>5, Replaced
  <1>8. QED
    BY <1>4, <1>6, <1>7

\* Counting one more call.
LEMMA CountedOnce ==
  ASSUME NEW c \in Counts, NEW i \in DOMAIN c
  PROVE  /\ [c EXCEPT ![i] = @ + 1] \in Counts
         /\ DOMAIN [c EXCEPT ![i] = @ + 1] = DOMAIN c
  <1>1. PICK n \in Nat : c \in [1..n -> Nat]
    BY DEF Counts
  <1>2. [c EXCEPT ![i] = @ + 1] \in [1..n -> Nat]
    BY <1>1
  <1>3. QED
    BY <1>2 DEF Counts

\* The counts an emit begins with.
LEMMA CountedAny ==
  ASSUME BusTyped
  PROVE  [i \in DOMAIN subs |-> IF i \in AnyListeners THEN 1 ELSE 0] \in Counts
  <1>1. DOMAIN subs = 1..Len(subs) /\ Len(subs) \in Nat
    BY DEF BusTyped
  <1>2. [i \in DOMAIN subs |-> IF i \in AnyListeners THEN 1 ELSE 0] \in [1..Len(subs) -> Nat]
    BY <1>1
  <1>3. QED
    BY <1>1, <1>2 DEF Counts

\* A subscription that leaves, for the first time or once more, takes itself out of
\* its Set; only a second time can the Set the map holds be another one.
LEMMA DisposedKeeps ==
  ASSUME BusTyped, InOwnSet, OneSetHeld,
         NEW i \in Handlers, NEW o \in Nat, o > 0,
         o = 1 => subs[i].off = 0,
         subs' = [subs EXCEPT ![i].off = o],
         Disposed(i)
  PROVE  /\ subs' \in Seq(Subscription) /\ sets' \in Seq(SUBSET Nat) /\ heldBy' \in 0..Len(sets')
         /\ InOwnSet' /\ OneSetHeld'
         /\ DOMAIN subs' = DOMAIN subs /\ Handlers' = Handlers
         /\ ~Misused' => ~Misused
  <1>1. /\ i \in DOMAIN subs /\ subs[i] \in Subscription
        /\ subs[i].set \in DOMAIN sets /\ subs[i].kind # "any"
    BY DEF Handlers, BusTyped, InOwnSet
  <1>2. subs' \in Seq(Subscription) /\ DOMAIN subs' = DOMAIN subs
    BY <1>1, Left
  <1>3. \A j \in DOMAIN subs : /\ subs'[j].kind = subs[j].kind /\ subs'[j].set = subs[j].set
                              /\ subs'[j].off = IF j = i THEN o ELSE subs[j].off
    BY <1>1, Left
  <1>4. Handlers' = Handlers
    BY <1>2, <1>3 DEF Handlers
  <1>5. /\ sets' \in Seq(SUBSET Nat) /\ DOMAIN sets' = DOMAIN sets
        /\ \A s \in DOMAIN sets : sets'[s] = IF s = subs[i].set THEN sets[s] \ {i} ELSE sets[s]
        /\ heldBy' \in 0..Len(sets')
    <2>1. PICK v : v = sets[subs[i].set] \ {i}
      OBVIOUS
    <2>2. sets \in Seq(SUBSET Nat) /\ v \in SUBSET Nat
      BY <1>1, <2>1 DEF BusTyped
    <2>3. sets' = [sets EXCEPT ![subs[i].set] = v]
      BY <2>1 DEF Disposed
    <2>4. /\ sets' \in Seq(SUBSET Nat) /\ DOMAIN sets' = DOMAIN sets /\ Len(sets') = Len(sets)
          /\ sets'[subs[i].set] = v
          /\ \A s \in DOMAIN sets : s # subs[i].set => sets'[s] = sets[s]
      BY <1>1, <2>2, <2>3, Replaced
    <2>5. heldBy' \in 0..Len(sets')
      BY <2>4 DEF BusTyped, Disposed
    <2>6. QED
      BY <2>1, <2>4, <2>5
  <1>6. InOwnSet'
    <2>1. \A j \in Handlers' : j \in DOMAIN subs /\ j \in Handlers /\ subs'[j].set = subs[j].set
      BY <1>3, <1>4 DEF Handlers
    <2>2. \A j \in Handlers' : subs'[j].set \in DOMAIN sets'
      BY <1>5, <2>1 DEF InOwnSet
    <2>3. \A j \in Handlers' : j \in sets'[subs'[j].set] <=> subs'[j].off = 0
      <3>1. i \notin sets'[subs[i].set] /\ subs'[i].off # 0
        <4>1. sets'[subs[i].set] = sets[subs[i].set] \ {i}
          BY <1>1, <1>5
        <4>2. subs'[i].off = o
          BY <1>1, <1>3
        <4>3. QED
          BY <4>1, <4>2
      <3>2. ASSUME NEW j \in Handlers', j # i
            PROVE  j \in sets'[subs'[j].set] <=> subs'[j].off = 0
        BY <1>3, <1>5, <2>1, <3>2 DEF InOwnSet
      <3>3. QED
        BY <1>3, <1>1, <3>1, <3>2
    <2>4. \A s \in DOMAIN sets' : \A j \in sets'[s] : j \in Handlers' /\ subs'[j].set = s
      BY <1>4, <1>5, <2>1 DEF InOwnSet
    <2>5. QED
      BY <2>2, <2>3, <2>4 DEF InOwnSet
  <1>7. ~Misused' => ~Misused /\ subs[i].off = 0
    BY <1>1, <1>2, <1>3 DEF Misused, Subscription
  <1>8. OneSetHeld'
    <2>. SUFFICES ASSUME ~Misused'
                  PROVE  /\ \A s \in DOMAIN sets' : s # heldBy' => sets'[s] = {}
                         /\ heldBy' # 0 => sets'[heldBy'] # {}
      BY DEF OneSetHeld
    <2>1. i \in sets[subs[i].set] /\ subs[i].set = heldBy
      BY <1>1, <1>7 DEF InOwnSet, OneSetHeld
    <2>2. /\ \A s \in DOMAIN sets : s # heldBy => sets[s] = {}
          /\ heldBy \in DOMAIN sets
      BY <1>1, <1>7, <2>1 DEF OneSetHeld
    <2>3. CASE sets[subs[i].set] \subseteq {i}
      BY <1>5, <2>1, <2>2, <2>3 DEF Disposed
    <2>4. CASE ~(sets[subs[i].set] \subseteq {i})
      BY <1>5, <2>1, <2>2, <2>4 DEF Disposed
    <2>5. QED
      BY <2>3, <2>4
  <1>9. QED
    BY <1>2, <1>4, <1>5, <1>6, <1>7, <1>8

-----------------------------------------------------------------------------
\* A subscriber more is in a Set and nobody else is touched.
LEMMA OnKeeps ==
  ASSUME BusInv, NEW kind \in {"on", "once"}, On(kind)
  PROVE  BusInv'
  <1>. DEFINE n == Len(subs) + 1
  <1>. USE DEF BusInv
  <1>1. PICK target \in Nat :
          /\ target = IF heldBy = 0 THEN Len(sets) + 1 ELSE heldBy
          /\ subs' = Append(subs, [kind |-> kind, set |-> target, off |-> 0])
          /\ sets' = IF heldBy = 0 THEN Append(sets, {Len(subs) + 1})
                     ELSE [sets EXCEPT ![target] = @ \cup {Len(subs) + 1}]
          /\ heldBy' = target
          /\ emits' = emits
    <2>1. PICK target : target = IF heldBy = 0 THEN Len(sets) + 1 ELSE heldBy
      OBVIOUS
    <2>2. target \in Nat
      BY <2>1 DEF BusTyped
    <2>3. QED
      BY <2>1, <2>2 DEF On
  <1>2. /\ subs' \in Seq(Subscription) /\ DOMAIN subs' = DOMAIN subs \cup {n}
        /\ n \notin DOMAIN subs /\ n \in Nat
        /\ \A j \in DOMAIN subs : subs'[j] = subs[j]
        /\ subs'[n] = [kind |-> kind, set |-> target, off |-> 0]
    <2>1. [kind |-> kind, set |-> target, off |-> 0] \in Subscription
      BY DEF Subscription
    <2>2. QED
      BY <1>1, <2>1 DEF BusTyped
  <1>3. /\ sets' \in Seq(SUBSET Nat) /\ DOMAIN sets' = DOMAIN sets \cup {target}
        /\ heldBy' \in 0..Len(sets') /\ target \in DOMAIN sets'
        /\ heldBy = 0 <=> target \notin DOMAIN sets
        /\ \A s \in DOMAIN sets : s # target => sets'[s] = sets[s]
        /\ sets'[target] = IF heldBy = 0 THEN {n} ELSE sets[target] \cup {n}
    <2>1. CASE heldBy = 0
      BY <1>1, <1>2, <2>1 DEF BusTyped
    <2>2. CASE heldBy # 0
      <3>1. target = heldBy /\ target \in DOMAIN sets
        BY <1>1, <2>2 DEF BusTyped
      <3>2. sets' = [sets EXCEPT ![target] = sets[target] \cup {n}]
        BY <1>1, <2>2
      <3>3. sets[target] \cup {n} \in SUBSET Nat
        BY <1>2, <3>1 DEF BusTyped
      <3>4. sets' \in Seq(SUBSET Nat) /\ DOMAIN sets' = DOMAIN sets /\ Len(sets') = Len(sets)
        BY <3>1, <3>2, <3>3 DEF BusTyped
      <3>5. QED
        BY <1>1, <2>2, <3>1, <3>2, <3>4 DEF BusTyped
    <2>3. QED
      BY <2>1, <2>2
  <1>4. Handlers' = Handlers \cup {n}
    BY <1>2 DEF Handlers
  <1>5. Misused' = Misused
    BY <1>2 DEF Misused
  <1>6. BusTyped'
    BY <1>1, <1>2, <1>3 DEF BusTyped
  <1>7. InOwnSet'
    <2>1. \A i \in Handlers : i \in DOMAIN subs /\ i # n
      BY <1>2 DEF Handlers
    <2>2. \A i \in Handlers' : subs'[i].set \in DOMAIN sets'
      BY <1>2, <1>3, <1>4, <2>1 DEF InOwnSet
    <2>3. \A i \in Handlers' : i \in sets'[subs'[i].set] <=> subs'[i].off = 0
      BY <1>2, <1>3, <1>4, <2>1 DEF InOwnSet
    <2>4. \A s \in DOMAIN sets' : \A i \in sets'[s] : i \in Handlers' /\ subs'[i].set = s
      BY <1>2, <1>3, <1>4, <2>1 DEF InOwnSet
    <2>5. QED
      BY <2>2, <2>3, <2>4 DEF InOwnSet
  <1>8. OneSetHeld'
    <2>. SUFFICES ASSUME ~Misused
                  PROVE  /\ \A s \in DOMAIN sets' : s # heldBy' => sets'[s] = {}
                         /\ sets'[heldBy'] # {}
      BY <1>5 DEF OneSetHeld
    <2>1. heldBy' = target /\ n \in sets'[target]
      BY <1>1, <1>3
    <2>2. \A s \in DOMAIN sets : s # target => sets[s] = {}
      <3>1. CASE heldBy = 0
        <4>1. \A s \in DOMAIN sets : s # heldBy
          BY <3>1 DEF BusTyped
        <4>2. QED
          BY <4>1 DEF OneSetHeld
      <3>2. CASE heldBy # 0
        BY <1>1, <3>2 DEF OneSetHeld
      <3>3. QED
        BY <3>1, <3>2
    <2>3. QED
      BY <1>3, <2>1, <2>2
  <1>9. EmitsExact'
    BY <1>1, <1>2, <1>4, <1>5 DEF EmitsExact
  <1>10. QED
    BY <1>6, <1>7, <1>8, <1>9

\* A listener of everything is in no Set.
LEMMA OnAnyKeeps ==
  ASSUME BusInv, OnAny
  PROVE  BusInv'
  <1>. DEFINE n == Len(subs) + 1
  <1>. USE DEF BusInv
  <1>1. UNCHANGED <<sets, heldBy, emits>>
    BY DEF OnAny
  <1>2. /\ subs' \in Seq(Subscription) /\ DOMAIN subs' = DOMAIN subs \cup {n}
        /\ n \notin DOMAIN subs
        /\ \A j \in DOMAIN subs : subs'[j] = subs[j]
        /\ subs'[n] = [kind |-> "any", set |-> 0, off |-> 0]
    <2>1. [kind |-> "any", set |-> 0, off |-> 0] \in Subscription
      BY DEF Subscription
    <2>2. QED
      BY <2>1 DEF BusTyped, OnAny
  <1>3. Handlers' = Handlers /\ Misused' = Misused
    BY <1>2 DEF Handlers, Misused
  <1>4. BusTyped'
    BY <1>1, <1>2 DEF BusTyped
  <1>5. InOwnSet' /\ OneSetHeld' /\ EmitsExact'
    BY <1>1, <1>2, <1>3 DEF Handlers, InOwnSet, OneSetHeld, EmitsExact
  <1>6. QED
    BY <1>4, <1>5

\* Whoever is subscribed is either a listener of everything or in the Set held.
LEMMA EmitKeeps ==
  ASSUME BusInv, Emit
  PROVE  BusInv'
  <1>. USE DEF BusInv
  <1>. DEFINE n == Len(emits) + 1
  <1>1. UNCHANGED <<subs, sets, heldBy>>
    BY DEF Emit
  <1>2. PICK c \in Counts, at \in SUBSET Nat :
          /\ c = [i \in DOMAIN subs |-> IF i \in AnyListeners THEN 1 ELSE 0]
          /\ at = {i \in DOMAIN subs : subs[i].off = 0}
          /\ emits' = Append(emits, [todo |-> Listeners, heard |-> c, at |-> at])
    <2>1. {i \in DOMAIN subs : subs[i].off = 0} \in SUBSET Nat
      BY DEF BusTyped
    <2>2. QED
      BY <2>1, CountedAny DEF Emit
  <1>3. Listeners \subseteq Handlers /\ Handlers \subseteq DOMAIN subs /\ Listeners \in SUBSET Nat
    BY DEF Listeners, Handlers, InOwnSet, BusTyped
  <1>4. /\ emits' \in Seq(EmitRecord) /\ DOMAIN emits' = DOMAIN emits \cup {n}
        /\ \A e \in DOMAIN emits : emits'[e] = emits[e]
        /\ emits'[n] = [todo |-> Listeners, heard |-> c, at |-> at]
    <2>1. [todo |-> Listeners, heard |-> c, at |-> at] \in EmitRecord
      BY <1>3 DEF EmitRecord
    <2>2. QED
      BY <1>2, <2>1 DEF BusTyped
  <1>5. ASSUME ~Misused
        PROVE  /\ Listeners \subseteq at
               /\ \A i \in DOMAIN subs : i \in AnyListeners <=> i \in at /\ i \notin Listeners
    <2>1. \A i \in Handlers : subs[i].off = 0 => i \in Listeners
      BY <1>5 DEF InOwnSet, OneSetHeld, Listeners, BusTyped
    <2>2. \A i \in Listeners : i \in Handlers /\ subs[i].off = 0
      BY <1>3 DEF InOwnSet, Listeners, BusTyped
    <2>3. QED
      BY <1>2, <1>3, <2>1, <2>2 DEF AnyListeners, Handlers
  <1>6. Handlers' = Handlers /\ Misused' = Misused
    BY <1>1 DEF Handlers, Misused
  <1>7. EmitsExact'
    <2>1. /\ Listeners \subseteq DOMAIN c \cap Handlers /\ DOMAIN c = DOMAIN subs
          /\ \A i \in DOMAIN subs : c[i] = IF i \in AnyListeners THEN 1 ELSE 0
      BY <1>2, <1>3
    <2>2. QED
      BY <1>1, <1>4, <1>5, <1>6, <2>1 DEF EmitsExact
  <1>8. BusTyped' /\ InOwnSet' /\ OneSetHeld'
    BY <1>1, <1>4, <1>6 DEF BusTyped, InOwnSet, OneSetHeld, Handlers
  <1>9. QED
    BY <1>7, <1>8

\* Leaving does not touch the emits under way.
LEMMA OffKeeps ==
  ASSUME BusInv, NEW i \in DOMAIN subs, Off(i)
  PROVE  BusInv'
  <1>. USE DEF BusInv
  <1>0. subs[i] \in Subscription
    BY DEF BusTyped
  <1>1. subs[i] \in Subscription /\ subs[i].off + 1 \in Nat /\ subs[i].off \in Nat
    BY <1>0 DEF Subscription
  <1>2. subs' = [subs EXCEPT ![i].off = subs[i].off + 1] /\ emits' = emits
    BY DEF Off
  <1>3. CASE subs[i].kind = "any"
    <2>1. UNCHANGED <<sets, heldBy>>
      BY <1>3 DEF Off
    <2>2. /\ subs' \in Seq(Subscription) /\ DOMAIN subs' = DOMAIN subs
          /\ \A j \in DOMAIN subs : /\ subs'[j].kind = subs[j].kind
                                    /\ subs'[j].set = subs[j].set
                                    /\ j # i => subs'[j].off = subs[j].off
      BY <1>1, <1>2, Left
    <2>3. Handlers' = Handlers /\ i \notin Handlers
      BY <1>3, <2>2 DEF Handlers
    <2>4. Misused' = Misused
      BY <1>3, <2>2 DEF Misused
    <2>5. \A j \in Handlers : subs'[j].set = subs[j].set /\ subs'[j].off = subs[j].off
      BY <2>2, <2>3 DEF Handlers
    <2>6. InOwnSet'
      BY <2>1, <2>3, <2>5 DEF InOwnSet
    <2>7. BusTyped' /\ OneSetHeld' /\ EmitsExact'
      BY <1>2, <2>1, <2>2, <2>3, <2>4 DEF BusTyped, OneSetHeld, EmitsExact
    <2>8. QED
      BY <2>6, <2>7
  <1>4. CASE subs[i].kind # "any"
    <2>1. i \in Handlers /\ Disposed(i)
      BY <1>4 DEF Off, Handlers
    <2>2. subs[i].off + 1 \in Nat /\ subs[i].off + 1 > 0
          /\ (subs[i].off + 1 = 1 => subs[i].off = 0)
      BY <1>1
    <2>3. /\ subs' \in Seq(Subscription) /\ sets' \in Seq(SUBSET Nat) /\ heldBy' \in 0..Len(sets')
          /\ InOwnSet' /\ OneSetHeld'
          /\ DOMAIN subs' = DOMAIN subs /\ Handlers' = Handlers
          /\ ~Misused' => ~Misused
      BY <1>2, <2>1, <2>2, DisposedKeeps
    <2>4. BusTyped' /\ EmitsExact'
      BY <1>2, <2>3 DEF BusTyped, EmitsExact
    <2>5. QED
      BY <2>3, <2>4
  <1>5. QED
    BY <1>3, <1>4

\* The one who is called was still to be called; if it leaves by that, its Set is
\* the one held.
LEMMA DeliverKeeps ==
  ASSUME BusInv, NEW e \in DOMAIN emits, Deliver(e)
  PROVE  BusInv'
  <1>. USE DEF BusInv
  <1>1. PICK i \in emits[e].todo :
          /\ emits' = [emits EXCEPT ![e].todo = @ \ {i}, ![e].heard[i] = @ + 1]
          /\ IF subs[i].kind = "once"
             THEN Disposed(i) /\ subs' = [subs EXCEPT ![i].off = IF @ < MaxOff THEN @ + 1 ELSE @]
             ELSE UNCHANGED <<subs, sets, heldBy>>
    BY DEF Deliver
  <1>2. /\ emits[e] \in EmitRecord /\ emits[e].heard \in Counts
        /\ i \in DOMAIN emits[e].heard /\ i \in Handlers /\ i \in DOMAIN subs
    <2>1. emits[e] \in EmitRecord
      BY DEF BusTyped
    <2>2. QED
      BY <2>1 DEF EmitRecord, EmitsExact, Handlers
  <1>3. /\ emits' \in Seq(EmitRecord) /\ DOMAIN emits' = DOMAIN emits
        /\ \A f \in DOMAIN emits : f # e => emits'[f] = emits[f]
        /\ emits'[e].todo = emits[e].todo \ {i} /\ emits'[e].at = emits[e].at
        /\ emits'[e].heard = [emits[e].heard EXCEPT ![i] = @ + 1]
    <2>1. [emits[e].heard EXCEPT ![i] = @ + 1] \in Counts
      BY <1>2, CountedOnce
    <2>2. PICK r : r = [[emits[e] EXCEPT !.todo = @ \ {i}] EXCEPT !.heard[i] = @ + 1]
      OBVIOUS
    <2>3. /\ r \in EmitRecord /\ r.todo = emits[e].todo \ {i} /\ r.at = emits[e].at
          /\ r.heard = [emits[e].heard EXCEPT ![i] = @ + 1]
      BY <1>2, <2>1, <2>2 DEF EmitRecord
    <2>4. emits' = [emits EXCEPT ![e] = r]
      BY <1>1, <2>2
    <2>5. emits \in Seq(EmitRecord)
      BY DEF BusTyped
    <2>6. QED
      BY <2>3, <2>4, <2>5, Replaced
  <1>4. /\ subs' \in Seq(Subscription) /\ sets' \in Seq(SUBSET Nat) /\ heldBy' \in 0..Len(sets')
        /\ InOwnSet' /\ OneSetHeld'
        /\ DOMAIN subs' = DOMAIN subs /\ Handlers' = Handlers
        /\ ~Misused' => ~Misused
    <2>1. CASE subs[i].kind = "once"
      <3>0. subs[i] \in Subscription
        BY <1>2 DEF BusTyped
      <3>1. subs[i].off \in Nat
        BY <3>0 DEF Subscription
      <3>2. PICK o : o = IF subs[i].off < MaxOff THEN subs[i].off + 1 ELSE subs[i].off
        OBVIOUS
      <3>3. o \in Nat /\ o > 0 /\ (o = 1 => subs[i].off = 0)
        BY <3>1, <3>2, MaxOffAssumption
      <3>4. subs' = [subs EXCEPT ![i].off = o] /\ Disposed(i)
        BY <1>1, <2>1, <3>2
      <3>5. QED
        BY <1>2, <3>3, <3>4, DisposedKeeps
    <2>2. CASE subs[i].kind # "once"
      BY <1>1, <2>2 DEF BusTyped, InOwnSet, OneSetHeld, Handlers, Misused
    <2>3. QED
      BY <2>1, <2>2
  <1>5. EmitsExact'
    <2>1. DOMAIN emits'[e].heard = DOMAIN emits[e].heard
      BY <1>2, <1>3, CountedOnce
    <2>2. ASSUME ~Misused
          PROVE  /\ emits[e].heard[i] = 0 /\ emits'[e].heard[i] = 1 /\ i \in emits'[e].at
                 /\ \A j \in DOMAIN emits[e].heard : j # i =>
                      emits'[e].heard[j] = emits[e].heard[j]
      BY <1>2, <1>3, <2>2 DEF EmitsExact
    <2>3. ASSUME ~Misused'
          PROVE  \A j \in DOMAIN emits'[e].heard :
                   emits'[e].heard[j] =
                     IF j \in emits'[e].at /\ j \notin emits'[e].todo THEN 1 ELSE 0
      <3>1. ~Misused
        BY <1>4, <2>3
      <3>2. QED
        BY <1>3, <2>1, <2>2, <3>1 DEF EmitsExact
    <2>4. /\ emits'[e].todo \subseteq DOMAIN emits'[e].heard \cap Handlers'
          /\ DOMAIN emits'[e].heard \subseteq DOMAIN subs'
      BY <1>3, <1>4, <2>1 DEF EmitsExact
    <2>5. ~Misused' => emits'[e].todo \subseteq emits'[e].at
      BY <1>3, <1>4 DEF EmitsExact
    <2>6. ASSUME NEW f \in DOMAIN emits', f # e
          PROVE  /\ emits'[f].todo \subseteq DOMAIN emits'[f].heard \cap Handlers'
                 /\ DOMAIN emits'[f].heard \subseteq DOMAIN subs'
                 /\ ~Misused' =>
                      \A j \in DOMAIN emits'[f].heard :
                        emits'[f].heard[j] =
                          IF j \in emits'[f].at /\ j \notin emits'[f].todo THEN 1 ELSE 0
                 /\ ~Misused' => emits'[f].todo \subseteq emits'[f].at
      BY <1>3, <1>4, <2>6 DEF EmitsExact
    <2>7. QED
      BY <1>3, <2>3, <2>4, <2>5, <2>6 DEF EmitsExact
  <1>6. QED
    BY <1>3, <1>4, <1>5 DEF BusTyped

\* memory-event-bus.ts: the invariant holds in every state of the bus.
THEOREM BusInvariant == BusSpec => []BusInv
  <1>1. BusInit => BusInv
    <2>. SUFFICES ASSUME BusInit
                  PROVE  BusInv
      OBVIOUS
    <2>. USE DEF BusInit
    <2>1. BusTyped
      BY DEF BusTyped
    <2>2. InOwnSet /\ OneSetHeld /\ EmitsExact
      BY DEF InOwnSet, OneSetHeld, EmitsExact, Handlers
    <2>3. QED
      BY <2>1, <2>2 DEF BusInv
  <1>2. BusInv /\ [BusNext]_busVars => BusInv'
    <2>. SUFFICES ASSUME BusInv, [BusNext]_busVars
                  PROVE  BusInv'
      OBVIOUS
    <2>1. CASE Subscribe
      BY <2>1, OnKeeps DEF Subscribe
    <2>2. CASE Once
      BY <2>2, OnKeeps DEF Once
    <2>3. CASE OnAny
      BY <2>3, OnAnyKeeps
    <2>4. CASE Emit
      BY <2>4, EmitKeeps
    <2>5. ASSUME NEW i \in DOMAIN subs, Off(i)
          PROVE  BusInv'
      BY <2>5, OffKeeps
    <2>6. ASSUME NEW e \in DOMAIN emits, Deliver(e)
          PROVE  BusInv'
      BY <2>6, DeliverKeeps
    <2>7. CASE UNCHANGED busVars
      BY <2>7 DEF busVars, BusInv, BusTyped, InOwnSet, OneSetHeld, EmitsExact, Handlers, Misused
    <2>8. QED
      BY <2>1, <2>2, <2>3, <2>4, <2>5, <2>6, <2>7 DEF BusNext
  <1>3. QED
    BY <1>1, <1>2, PTL DEF BusSpec

\* MemoryEventBus: as long as no disposer is called after its subscription has ended,
\* an emit that is over was heard, once, by everyone who was subscribed when it
\* started and by nobody else, for every number of subscribers and emits.
THEOREM EveryoneHears == BusSpec => []HeardByAll
  <1>1. BusInv => HeardByAll
    <2>. SUFFICES ASSUME BusInv, ~Misused, NEW e \in DOMAIN emits, emits[e].todo = {},
                         NEW i \in DOMAIN emits[e].heard
                  PROVE  emits[e].heard[i] = IF i \in emits[e].at THEN 1 ELSE 0
      BY DEF HeardByAll
    <2>1. QED
      BY DEF BusInv, EmitsExact
  <1>2. QED
    BY <1>1, BusInvariant, PTL

-----------------------------------------------------------------------------
(***************************************************************************)
(* The pipeline.  The traces of the lives are reported in the order of the *)
(* lives, so that what has been reported is always 1, 2, ... up to the     *)
(* life that is over, and the store holds what is not over yet.            *)
(***************************************************************************)
UpTo(n) == [i \in 1..n |-> i]

\* The lives that are over.
Over == IF pc = "routed" \/ run.seg = 0 THEN run.seg ELSE run.seg - 1

Progress ==
  /\ pc \in {"idle", "received"} => store = {} /\ traces = <<>> /\ began = <<>> /\ run.seg = 0
  /\ pc \in {"running", "failing", "routed"} =>
       /\ store = IF pc = "routed" THEN {0} ELSE {0, run.seg}
       /\ traces = UpTo(Over) /\ Len(began) = run.seg + 1
       /\ run.seg > 0 => run.seg <= lives
  /\ pc \in {"done", "failed"} =>
       /\ store = {} /\ IsInjective(traces)
       /\ ToSet(traces) = 0..(Len(began) - 1) /\ Last(traces) = 0

PipelineTyped ==
  /\ pc \in {"idle", "received", "running", "failing", "routed", "done", "failed"}
  /\ "seg" \in DOMAIN run /\ run.seg \in 0..MaxLives /\ lives \in 0..MaxLives
  /\ \E S : began \in Seq(S)
  /\ \E S : ran \in Seq(S)

\* A context is only ever written by those who run in it.
OwnWords ==
  /\ DOMAIN written = 0..MaxLives
  /\ \A s \in 0..MaxLives : written[s] \in {None, s}
  /\ \A i \in DOMAIN ran : ran[i].saw \in {None, 0, ran[i].seg}

PipelineInv == PipelineTyped /\ OwnWords /\ Progress

-----------------------------------------------------------------------------
\* One life more has reported.
LEMMA OneMore ==
  ASSUME NEW n \in Nat
  PROVE  UpTo(n) \o <<n + 1>> = UpTo(n + 1)
  <1>1. UpTo(n) \in Seq(Nat) /\ Len(UpTo(n)) = n /\ UpTo(n + 1) \in Seq(Nat)
    BY DEF UpTo
  <1>2. \A i \in 1..(n + 1) : (UpTo(n) \o <<n + 1>>)[i] = i
    BY <1>1 DEF UpTo
  <1>3. QED
    BY <1>1, <1>2 DEF UpTo

\* All lives and then the stimulus have reported.
LEMMA AllOver ==
  ASSUME NEW n \in Nat, NEW t, t = UpTo(n) \o << 0 >>
  PROVE  IsInjective(t) /\ ToSet(t) = 0..n /\ Last(t) = 0
  <1>1. UpTo(n) \in Seq(Nat) /\ Len(UpTo(n)) = n
    BY DEF UpTo
  <1>2. /\ DOMAIN t = 1..(n + 1) /\ Len(t) = n + 1 /\ t[n + 1] = 0
        /\ \A i \in 1..n : t[i] = i
    BY <1>1 DEF UpTo
  <1>3. IsInjective(t)
    BY <1>2 DEF IsInjective
  <1>4. ToSet(t) = 0..n
    <2>1. \A i \in DOMAIN t : t[i] \in 0..n
      BY <1>2
    <2>2. \A v \in 0..n : \E i \in DOMAIN t : t[i] = v
      <3>1. SUFFICES ASSUME NEW v \in 0..n
                     PROVE  \E i \in DOMAIN t : t[i] = v
        OBVIOUS
      <3>2. CASE v = 0
        BY <1>2, <3>2
      <3>3. CASE v # 0
        <4>1. v \in 1..n
          BY <3>3
        <4>2. v \in DOMAIN t /\ t[v] = v
          BY <1>2, <4>1
        <4>3. QED
          BY <4>2
      <3>4. QED
        BY <3>2, <3>3
    <2>3. QED
      BY <2>1, <2>2 DEF ToSet
  <1>5. QED
    BY <1>2, <1>3, <1>4 DEF Last

\* A sequence with one more element of whatever kind.
LEMMA OneLonger ==
  ASSUME NEW s, \E S : s \in Seq(S), NEW x
  PROVE  /\ \E S : Append(s, x) \in Seq(S)
         /\ Len(Append(s, x)) = Len(s) + 1
         /\ DOMAIN Append(s, x) = DOMAIN s \cup {Len(s) + 1}
         /\ \A i \in DOMAIN s : Append(s, x)[i] = s[i]
         /\ Append(s, x)[Len(s) + 1] = x
  <1>1. PICK S : s \in Seq(S)
    OBVIOUS
  <1>2. s \in Seq(S \cup {x})
    BY <1>1
  <1>3. QED
    BY <1>2, Appended

\* The contexts of the lives that are over are gone from the store.
LEMMA Gone ==
  ASSUME NEW s
  PROVE  ToSet(<<s>>) = {s} /\ ToSet(<<s, 0>>) = {s, 0}
  BY DEF ToSet

\* Before a segment's first stage.
LEMMA BeginKeeps ==
  ASSUME PipelineInv, NEW s \in 0..MaxLives, Begin(s),
         \/ pc = "received" /\ s = 0
         \/ pc = "routed" /\ s = run.seg + 1 /\ s <= lives,
         UNCHANGED <<lives, stopped, written, ran, traces>>
  PROVE  PipelineInv'
  <1>. USE MaxLivesAssumption
  <1>1. /\ pc' \in {"running", "failing"} /\ "seg" \in DOMAIN run' /\ run'.seg = s
        /\ store' = store \cup {s}
        /\ began' = Append(began, [declared |-> declared, hooked |-> hooked])
    <2>1. /\ store' = store \cup {s}
          /\ began' = Append(began, [declared |-> declared, hooked |-> hooked])
          /\ \/ pc' = "failing" /\ run' = [run EXCEPT !.seg = s]
             \/ /\ pc' = "running"
                /\ run' = [seg |-> s, order |-> Split(Order(declared))[IF s = 0 THEN 1 ELSE 2],
                           hooks |-> {}]
      BY DEF Begin
    <2>2. QED
      BY <2>1 DEF PipelineInv, PipelineTyped
  <1>2. (\E S : began' \in Seq(S)) /\ Len(began') = Len(began) + 1
    BY <1>1, OneLonger DEF PipelineInv, PipelineTyped
  <1>3. PipelineTyped'
    BY <1>1, <1>2 DEF PipelineInv, PipelineTyped
  <1>4. OwnWords'
    BY DEF PipelineInv, OwnWords
  <1>5. Progress'
    <2>1. CASE pc = "received" /\ s = 0
      <3>1. Over' = 0 /\ UpTo(0) = <<>>
        BY <1>1, <2>1 DEF Over, UpTo
      <3>2. QED
        BY <1>1, <1>2, <2>1, <3>1 DEF PipelineInv, Progress
    <2>2. CASE pc = "routed" /\ s = run.seg + 1 /\ s <= lives
      <3>1. Over' = run.seg /\ Over = run.seg
        BY <1>1, <2>2 DEF Over, PipelineInv, PipelineTyped
      <3>2. QED
        BY <1>1, <1>2, <2>2, <3>1 DEF PipelineInv, PipelineTyped, Progress
    <2>3. QED
      BY <2>1, <2>2
  <1>6. QED
    BY <1>3, <1>4, <1>5 DEF PipelineInv

\* A hook's words stay in its context.
LEMMA CallHookKeeps ==
  ASSUME PipelineInv, NEW how, CallHook(how)
  PROVE  PipelineInv'
  <1>. USE MaxLivesAssumption
  <1>0. PICK next \in run.hooks :
          /\ ran' = Append(ran, [seg |-> run.seg, hook |-> next.hook,
                                 saw |-> Read(run.seg), how |-> how])
          /\ run' = [run EXCEPT !.hooks = @ \ {next}]
          /\ pc' = IF how = "throw" /\ ~next.hook.isolate THEN "failing" ELSE pc
    BY DEF CallHook
  <1>. DEFINE call == [seg |-> run.seg, hook |-> next.hook, saw |-> Read(run.seg), how |-> how]
  <1>1. /\ pc = "running" /\ pc' \in {"running", "failing"}
        /\ ran' = Append(ran, call)
        /\ run' = [run EXCEPT !.hooks = @ \ {next}]
        /\ written' = IF how = "write" THEN [written EXCEPT ![run.seg] = run.seg] ELSE written
        /\ UNCHANGED <<lives, store, traces, began>>
    BY <1>0 DEF CallHook
  <1>2. "seg" \in DOMAIN run' /\ run'.seg = run.seg
    BY <1>1 DEF PipelineInv, PipelineTyped
  <1>3. PipelineTyped'
    BY <1>1, <1>2, OneLonger DEF PipelineInv, PipelineTyped
  <1>4. OwnWords'
    <2>1. /\ DOMAIN written' = 0..MaxLives
          /\ \A s \in 0..MaxLives : written'[s] \in {None, s}
      BY <1>1 DEF PipelineInv, PipelineTyped, OwnWords
    <2>2. Read(run.seg) \in {None, 0, run.seg}
      BY DEF Read, Parent, PipelineInv, PipelineTyped, OwnWords
    <2>3. call.saw \in {None, 0, call.seg}
      BY <2>2
    <2>4. \A i \in DOMAIN ran' : ran'[i].saw \in {None, 0, ran'[i].seg}
      BY <1>1, <2>3, OneLonger DEF PipelineInv, PipelineTyped, OwnWords
    <2>5. QED
      BY <2>1, <2>4 DEF OwnWords
  <1>5. Progress'
    BY <1>1, <1>2 DEF PipelineInv, PipelineTyped, Progress, Over
  <1>6. QED
    BY <1>3, <1>4, <1>5 DEF PipelineInv

\* A life ends, or the stimulus does, well or not.
LEMMA EndsKeep ==
  ASSUME PipelineInv, LifeEnds \/ Finish \/ Fail
  PROVE  PipelineInv'
  <1>. USE MaxLivesAssumption
  <1>0. run.seg \in Nat
    BY DEF PipelineInv, PipelineTyped
  <1>1. UNCHANGED <<run, lives, written, ran, began>>
    BY DEF LifeEnds, Finish, Fail
  <1>2. PipelineTyped' /\ OwnWords'
    BY <1>1 DEF LifeEnds, Finish, Fail, PipelineInv, PipelineTyped, OwnWords
  <1>3. Progress'
    <2>1. CASE LifeEnds
      <3>1. /\ pc = "running" /\ pc' = "routed" /\ run.seg \in Nat /\ run.seg > 0
            /\ traces' = traces \o <<run.seg>> /\ store' = store \ {run.seg}
        BY <1>0, <2>1, Gone DEF LifeEnds, Release
      <3>2. traces = UpTo(run.seg - 1) /\ run.seg - 1 \in Nat /\ Over' = run.seg
        BY <1>1, <3>1 DEF PipelineInv, Progress, Over
      <3>3. traces' = UpTo(run.seg)
        <4>1. UpTo(run.seg - 1) \o <<(run.seg - 1) + 1>> = UpTo((run.seg - 1) + 1)
          BY <3>2, OneMore
        <4>2. (run.seg - 1) + 1 = run.seg
          BY <3>1
        <4>3. QED
          BY <3>1, <3>2, <4>1, <4>2
      <3>4. QED
        BY <1>1, <3>1, <3>2, <3>3 DEF PipelineInv, Progress
    <2>2. CASE Finish
      <3>1. /\ pc = "routed" /\ pc' = "done" /\ run.seg \in Nat
            /\ traces' = traces \o <<0>> /\ store' = store \ {0}
        BY <1>0, <2>2, Gone DEF Finish, Release
      <3>2. traces = UpTo(run.seg) /\ Len(began) = run.seg + 1 /\ store = {0}
        BY <3>1 DEF PipelineInv, Progress, Over
      <3>3. IsInjective(traces') /\ ToSet(traces') = 0..run.seg /\ Last(traces') = 0
        BY <3>1, <3>2, AllOver
      <3>4. QED
        BY <1>1, <3>1, <3>2, <3>3 DEF Progress
    <2>3. CASE Fail
      <3>1. /\ pc = "failing" /\ pc' = "failed" /\ run.seg \in Nat
            /\ traces' = traces \o (IF run.seg = 0 THEN <<0>> ELSE <<run.seg, 0>>)
            /\ store' = store \ (IF run.seg = 0 THEN {0} ELSE {run.seg, 0})
        BY <1>0, <2>3, Gone DEF Fail, Release
      <3>2. traces = UpTo(Over) /\ Len(began) = run.seg + 1 /\ store = {0, run.seg}
        BY <3>1 DEF PipelineInv, Progress
      <3>3. traces' = UpTo(run.seg) \o <<0>>
        <4>1. CASE run.seg = 0
          BY <3>1, <3>2, <4>1 DEF Over
        <4>2. CASE run.seg # 0
          <5>1. Over = run.seg - 1 /\ Over \in Nat /\ Over + 1 = run.seg
            BY <3>1, <4>2 DEF Over
          <5>2. UpTo(Over) \o <<run.seg>> = UpTo(run.seg)
            BY <5>1, OneMore
          <5>3. UpTo(Over) \in Seq(Nat)
            BY <5>1 DEF UpTo
          <5>4. UpTo(Over) \o <<run.seg, 0>> = (UpTo(Over) \o <<run.seg>>) \o <<0>>
            BY <3>1, <5>3
          <5>5. QED
            BY <3>1, <3>2, <4>2, <5>2, <5>4
        <4>3. QED
          BY <4>1, <4>2
      <3>4. IsInjective(traces') /\ ToSet(traces') = 0..run.seg /\ Last(traces') = 0
        BY <3>1, <3>3, AllOver
      <3>5. store' = {}
        BY <3>1, <3>2
      <3>6. QED
        BY <1>1, <3>1, <3>2, <3>4, <3>5 DEF Progress
    <2>4. QED
      BY <2>1, <2>2, <2>3
  <1>4. QED
    BY <1>2, <1>3 DEF PipelineInv

\* PipelineRunner.run and processStimulus: the invariant holds in every state.
THEOREM PipelineInvariant == PipelineSpec => []PipelineInv
  <1>. USE MaxLivesAssumption
  <1>1. PipelineInit => PipelineInv
    <2>. SUFFICES ASSUME PipelineInit
                  PROVE  PipelineInv
      OBVIOUS
    <2>. USE DEF PipelineInit
    <2>1. PipelineTyped /\ OwnWords
      BY DEF PipelineTyped, OwnWords, None
    <2>2. Progress
      BY DEF Progress
    <2>3. QED
      BY <2>1, <2>2 DEF PipelineInv
  <1>2. PipelineInv /\ [PipelineNext]_pipelineVars => PipelineInv'
    <2>. SUFFICES ASSUME PipelineInv, [PipelineNext]_pipelineVars
                  PROVE  PipelineInv'
      OBVIOUS
    <2>. USE DEF PipelineInv, PipelineTyped, OwnWords, Progress, Over
    <2>1. ASSUME NEW p \in DOMAIN Plugins, Apply(p) \/ Dispose(p)
          PROVE  PipelineInv'
      BY <2>1 DEF Apply, Dispose, stimulusVars
    <2>2. CASE Receive
      BY <2>2 DEF Receive
    <2>3. CASE BeginStimulus
      BY <2>3, BeginKeeps DEF BeginStimulus
    <2>4. CASE NextStage
      BY <2>4 DEF NextStage
    <2>5. ASSUME NEW how \in {"ok", "write", "stop", "throw"}, CallHook(how)
          PROVE  PipelineInv'
      BY <2>5, CallHookKeeps
    <2>6. CASE Route
      BY <2>6 DEF Route
    <2>7. CASE LifeEnds \/ Finish \/ Fail
      BY <2>7, EndsKeep
    <2>8. CASE BeginLife
      BY <2>8, BeginKeeps DEF BeginLife
    <2>9. CASE UNCHANGED pipelineVars
      BY <2>9 DEF pipelineVars, stimulusVars
    <2>10. QED
      BY <2>1, <2>2, <2>3, <2>4, <2>5, <2>6, <2>7, <2>8, <2>9 DEF PipelineNext
  <1>3. QED
    BY <1>1, <1>2, PTL DEF PipelineSpec

\* PipelineRunner.run, RequestContextStore and processStimulus: a hook reads what its
\* own life or the stimulus wrote, and every context that was begun is deleted and
\* has reported its trace once, by whichever way the stimulus ends, for every set of
\* stages, hooks and plugins and every number of lives.
THEOREM AllReleased == PipelineSpec => []Released
  <1>1. PipelineInv => Released
    BY DEF PipelineInv, OwnWords, Progress, Released
  <1>2. QED
    BY <1>1, PipelineInvariant, PTL

-----------------------------------------------------------------------------
(***************************************************************************)
(* sortStages(): whatever the declarations are, the order repeats nothing  *)
(* and puts no stage before one it has to come after.                      *)
(***************************************************************************)
Topological(order, edges) ==
  \A i, j \in DOMAIN order : i < j =>
    order[i] # order[j] /\ <<order[j], order[i]>> \notin edges

\* Nothing outside has to come before something in it.
Closed(order, known, edges) ==
  /\ ToSet(order) \subseteq known /\ Topological(order, edges)
  /\ \A m \in known \ ToSet(order), x \in ToSet(order) : <<m, x>> \notin edges

\* The rounds of Order.
Rounds(f, decls, n) ==
  /\ f[0] = <<>>
  /\ \A i \in 1..n : f[i] = Extended(f[i - 1], Known(decls), Edges(decls))

LEMMA LeastOf ==
  ASSUME NEW S, S \subseteq Nat, S # {}
  PROVE  \E x \in S : \A y \in S : x <= y
  <1>. SUFFICES ASSUME \A x \in S : \E y \in S : ~(x <= y)
                PROVE  FALSE
    OBVIOUS
  <1>. DEFINE P == {n \in Nat : \A m \in 0..n : m \notin S}
  <1>1. 0 \in P
    <2>1. 0 \notin S
      OBVIOUS
    <2>2. QED
      BY <2>1
  <1>2. ASSUME NEW n \in Nat, n \in P PROVE n + 1 \in P
    <2>1. n + 1 \notin S
      <3>1. \A y \in S : y > n
        BY <1>2
      <3>2. \A y \in S : n + 1 <= y
        BY <3>1
      <3>3. QED
        BY <3>2
    <2>2. \A m \in 0..(n + 1) : m \in 0..n \/ m = n + 1
      OBVIOUS
    <2>3. QED
      BY <1>2, <2>1, <2>2
  <1>3. Nat \subseteq P
    <2>. HIDE DEF P
    <2>1. QED
      BY <1>1, <1>2, SetInduction
  <1>4. PICK x \in S : TRUE
    OBVIOUS
  <1>5. x \in P /\ x \in 0..x
    BY <1>3, <1>4
  <1>6. QED
    BY <1>4, <1>5

LEMMA LexicalIsOne ==
  ASSUME NEW set, set \subseteq ToSet(Names), set # {}
  PROVE  Lexical(set) \in set
  <1>1. Names \in Seq(ToSet(Names))
    BY NamesAssumption
  <1>2. \A n \in set : Rank(n) \in Nat
    <2>1. SUFFICES ASSUME NEW n \in set PROVE Rank(n) \in Nat
      OBVIOUS
    <2>2. \E i \in DOMAIN Names : Names[i] = n
      BY <1>1 DEF ToSet
    <2>3. Rank(n) \in DOMAIN Names
      BY <2>2 DEF Rank
    <2>4. QED
      BY <1>1, <2>3
  <1>. DEFINE R == {Rank(n) : n \in set}
  <1>3. R \subseteq Nat /\ R # {}
    BY <1>2
  <1>4. PICK r \in R : \A s \in R : r <= s
    <2>. HIDE DEF R
    <2>1. QED
      BY <1>3, LeastOf
  <1>5. PICK n \in set : r = Rank(n)
    BY <1>4
  <1>6. \A m \in set : Rank(n) <= Rank(m)
    BY <1>4, <1>5
  <1>7. QED
    BY <1>5, <1>6 DEF Lexical

LEMMA ExtendedFacts ==
  ASSUME NEW known, known \subseteq ToSet(Names), NEW edges,
         NEW p \in Seq(ToSet(Names))
  PROVE  /\ Extended(p, known, edges) \in Seq(ToSet(Names))
         /\ Closed(p, known, edges) => Closed(Extended(p, known, edges), known, edges)
  <1>. DEFINE next == Ready(known \ ToSet(p), edges)
              x == Lexical(next)
              q == Append(p, x)
  <1>1. CASE next = {}
    BY <1>1 DEF Extended
  <1>2. CASE next # {}
    <2>1. next \subseteq known \ ToSet(p) /\ next \subseteq ToSet(Names)
      BY DEF Ready
    <2>2. x \in next
      <3>. HIDE DEF next
      <3>1. QED
        BY <1>2, <2>1, LexicalIsOne
    <2>3. /\ x \in known /\ x \notin ToSet(p) /\ x \in ToSet(Names)
          /\ \A m \in known \ ToSet(p) : <<m, x>> \notin edges
      BY <2>1, <2>2 DEF Ready
    <2>4. Extended(p, known, edges) = q
      BY <1>2 DEF Extended
    <2>. HIDE DEF x, next
    <2>5. /\ q \in Seq(ToSet(Names)) /\ Len(p) \in Nat
          /\ DOMAIN p = 1..Len(p) /\ DOMAIN q = 1..(Len(p) + 1)
          /\ q[Len(p) + 1] = x /\ \A i \in 1..Len(p) : q[i] = p[i]
      BY <2>3
    <2>. HIDE DEF q
    <2>6. \A y : y \in ToSet(q) <=> y \in ToSet(p) \/ y = x
      BY <2>5 DEF ToSet
    <2>7. ASSUME Closed(p, known, edges) PROVE Closed(q, known, edges)
      <3>1. ASSUME NEW i \in DOMAIN q, NEW j \in DOMAIN q, i < j
            PROVE  q[i] # q[j] /\ <<q[j], q[i]>> \notin edges
        <4>1. i \in 1..Len(p) /\ q[i] = p[i] /\ p[i] \in ToSet(p)
          BY <2>5, <3>1 DEF ToSet
        <4>2. CASE j = Len(p) + 1
          BY <2>3, <2>5, <2>7, <4>1, <4>2 DEF Closed
        <4>3. CASE j # Len(p) + 1
          <5>1. j \in 1..Len(p) /\ q[j] = p[j]
            BY <2>5, <3>1, <4>3
          <5>2. QED
            BY <2>5, <2>7, <3>1, <4>1, <5>1 DEF Closed, Topological
        <4>4. QED
          BY <4>2, <4>3
      <3>2. Topological(q, edges)
        BY <3>1 DEF Topological
      <3>3. QED
        BY <2>3, <2>6, <2>7, <3>2 DEF Closed
    <2>8. QED
      BY <2>4, <2>5, <2>7
  <1>3. QED
    BY <1>1, <1>2

LEMMA OrderIs ==
  ASSUME NEW decls, Known(decls) \subseteq ToSet(Names)
  PROVE  \E f \in [0..Len(Names) -> Seq(ToSet(Names))] :
           Rounds(f, decls, Len(Names)) /\ Order(decls) = f[Len(Names)]
  <1>. DEFINE T == Seq(ToSet(Names))
              n == Len(Names)
              step == [s \in T \X (1..n) |-> Extended(s[1], Known(decls), Edges(decls))]
  <1>1. n \in Nat
    BY NamesAssumption
  <1>2. \A p \in T, i \in 1..n : step[<<p, i>>] = Extended(p, Known(decls), Edges(decls))
    OBVIOUS
  <1>3. <<>> \in T
    OBVIOUS
  <1>. HIDE DEF step, n
  <1>4. StaysIn(step, T, n)
    BY <1>2, ExtendedFacts DEF StaysIn
  <1>5. PICK f \in [0..n -> T] : Taken(f, <<>>, step, n)
    <2>. HIDE DEF T
    <2>1. QED
      BY <1>1, <1>3, <1>4, StepsExist
  <1>6. ASSUME NEW i \in 1..n PROVE f[i] = Extended(f[i - 1], Known(decls), Edges(decls))
    <2>1. f[i - 1] \in T
      BY <1>1
    <2>2. QED
      BY <1>2, <1>5, <2>1 DEF Taken
  <1>7. f[0] = <<>>
    BY <1>5 DEF Taken
  <1>. DEFINE Body(g) == [i \in 0..n |->
                IF i = 0 THEN <<>> ELSE Extended(g[i - 1], Known(decls), Edges(decls))]
              ordered == CHOOSE g : g = Body(g)
  <1>8. f = Body(f)
    <2>1. ASSUME NEW i \in 0..n PROVE f[i] = Body(f)[i]
      <3>1. CASE i = 0
        BY <1>7, <3>1
      <3>2. CASE i # 0
        <4>1. i \in 1..n
          BY <1>1, <3>2
        <4>2. QED
          BY <1>6, <3>2, <4>1
      <3>3. QED
        BY <3>1, <3>2
    <2>. HIDE DEF Body
    <2>2. DOMAIN Body(f) = 0..n
      BY DEF Body
    <2>3. Body(f) = [i \in 0..n |-> Body(f)[i]]
      BY DEF Body
    <2>4. QED
      BY <2>1, <2>3
  <1>9. ordered = Body(ordered)
    <2>. HIDE DEF Body
    <2>1. QED
      BY <1>8
  <1>10. Order(decls) = ordered[n]
    BY DEF Order, n
  <1>. DEFINE P == {i \in Nat : i <= n => ordered[i] = f[i]}
  <1>11. 0 \in P
    <2>1. ordered[0] = <<>>
      <3>. HIDE DEF ordered
      <3>1. 0 \in 0..n
        BY <1>1
      <3>2. QED
        BY <1>9, <3>1
    <2>. HIDE DEF ordered
    <2>2. QED
      BY <1>7, <2>1
  <1>12. ASSUME NEW i \in Nat, i \in P PROVE i + 1 \in P
    <2>. SUFFICES ASSUME i + 1 <= n PROVE ordered[i + 1] = f[i + 1]
      OBVIOUS
    <2>. HIDE DEF ordered
    <2>1. i + 1 \in 0..n /\ i + 1 \in 1..n /\ (i + 1) - 1 = i /\ i + 1 # 0 /\ i <= n
      BY <1>1
    <2>2. ordered[i + 1] = Extended(ordered[i], Known(decls), Edges(decls))
      BY <1>9, <2>1
    <2>3. QED
      BY <1>6, <1>12, <2>1, <2>2
  <1>13. Nat \subseteq P
    <2>. HIDE DEF P
    <2>1. QED
      BY <1>11, <1>12, SetInduction
  <1>14. ordered[n] = f[n]
    <2>1. n \in P /\ n <= n
      BY <1>1, <1>13
    <2>2. QED
      BY <2>1
  <1>15. QED
    BY <1>6, <1>7, <1>10, <1>14 DEF Rounds, n

LEMMA OrderFacts ==
  ASSUME NEW decls, Known(decls) \subseteq ToSet(Names)
  PROVE  /\ Order(decls) \in Seq(ToSet(Names))
         /\ Topological(Order(decls), Edges(decls))
  <1>. DEFINE n == Len(Names)
  <1>1. n \in Nat
    BY NamesAssumption
  <1>2. PICK f \in [0..n -> Seq(ToSet(Names))] : Rounds(f, decls, n) /\ Order(decls) = f[n]
    BY OrderIs
  <1>. HIDE DEF n
  <1>. DEFINE P == {i \in Nat : i <= n => Closed(f[i], Known(decls), Edges(decls))}
  <1>3. 0 \in P
    <2>1. f[0] = <<>> /\ ToSet(<<>>) = {} /\ DOMAIN <<>> = {}
      BY <1>2 DEF Rounds, ToSet
    <2>2. QED
      BY <2>1 DEF Closed, Topological
  <1>4. ASSUME NEW i \in Nat, i \in P PROVE i + 1 \in P
    <2>. SUFFICES ASSUME i + 1 <= n PROVE Closed(f[i + 1], Known(decls), Edges(decls))
      OBVIOUS
    <2>1. i \in 0..n /\ i + 1 \in 1..n /\ (i + 1) - 1 = i
      BY <1>1
    <2>2. f[i] \in Seq(ToSet(Names)) /\ Closed(f[i], Known(decls), Edges(decls))
      BY <1>4, <2>1
    <2>3. f[i + 1] = Extended(f[i], Known(decls), Edges(decls))
      BY <1>2, <2>1 DEF Rounds
    <2>4. QED
      BY <2>2, <2>3, ExtendedFacts
  <1>5. Nat \subseteq P
    <2>. HIDE DEF P
    <2>1. QED
      BY <1>3, <1>4, SetInduction
  <1>6. n \in P /\ n \in 0..n
    BY <1>1, <1>5
  <1>7. QED
    BY <1>2, <1>6 DEF Closed

LEMMA EdgesFacts ==
  ASSUME NEW decls, NEW x, NEW y, <<x, y>> \in Edges(decls)
  PROVE  x # y /\ x \in Known(decls) /\ y \in Known(decls)
  BY DEF Edges

\* The two parts of an order: every stage is in one of them, none in the first has to
\* come after the anchor, none in the second before it.
LEMMA SplitFacts ==
  ASSUME NEW S, NEW order \in Seq(S), NEW edges, Topological(order, edges),
         \A x : <<x, x>> \notin edges
  PROVE  \A k \in {1, 2} :
           /\ Split(order)[k] \in Seq(S) /\ Topological(Split(order)[k], edges)
           /\ ToSet(Split(order)[k]) \subseteq ToSet(order)
           /\ \A x \in ToSet(Split(order)[1]) :
                /\ x # Anchor /\ x \notin ToSet(Split(order)[2])
                /\ Anchor \in ToSet(order) => <<Anchor, x>> \notin edges
           /\ \A x \in ToSet(Split(order)[2]) : <<x, Anchor>> \notin edges
           /\ \A x \in ToSet(order) : \E l \in {1, 2} : x \in ToSet(Split(order)[l])
  <1>. DEFINE k == AnchorAt(order)
              a == SubSeq(order, 1, k - 1)
              b == SubSeq(order, k, Len(order))
  <1>1. /\ DOMAIN order = 1..Len(order) /\ Len(order) \in Nat
        /\ \A x : x \in ToSet(order) <=> \E i \in 1..Len(order) : order[i] = x
    BY DEF ToSet
  <1>2. /\ k \in 1..(Len(order) + 1)
        /\ k <= Len(order) => order[k] = Anchor
        /\ k = Len(order) + 1 => Anchor \notin ToSet(order)
    <2>1. CASE Anchor \in ToSet(order)
      <3>1. \E i \in DOMAIN order : order[i] = Anchor
        BY <1>1, <2>1
      <3>2. k \in DOMAIN order /\ order[k] = Anchor
        BY <2>1, <3>1 DEF AnchorAt
      <3>3. QED
        BY <1>1, <3>2
    <2>2. CASE Anchor \notin ToSet(order)
      <3>1. k = Len(order) + 1
        BY <2>2 DEF AnchorAt
      <3>2. QED
        BY <1>1, <2>2, <3>1
    <2>3. QED
      BY <2>1, <2>2
  <1>3. Split(order)[1] = a /\ Split(order)[2] = b
    BY DEF Split
  <1>. HIDE DEF k
  <1>4. /\ a \in Seq(S) /\ DOMAIN a = 1..(k - 1) /\ \A i \in 1..(k - 1) : a[i] = order[i]
    BY <1>1, <1>2
  <1>5. /\ b \in Seq(S) /\ DOMAIN b = 1..(Len(order) - k + 1)
        /\ \A i \in 1..(Len(order) - k + 1) : b[i] = order[k + i - 1]
    BY <1>1, <1>2
  <1>. HIDE DEF a, b
  <1>6. \A x : x \in ToSet(a) <=> \E i \in 1..(k - 1) : order[i] = x
    BY <1>4 DEF ToSet
  <1>7. \A x : x \in ToSet(b) <=> \E i \in k..Len(order) : order[i] = x
    <2>1. ASSUME NEW x \in ToSet(b) PROVE \E i \in k..Len(order) : order[i] = x
      <3>1. PICK i \in 1..(Len(order) - k + 1) : b[i] = x
        BY <1>5 DEF ToSet
      <3>2. k + i - 1 \in k..Len(order)
        BY <1>1, <1>2
      <3>3. QED
        BY <1>5, <3>1, <3>2
    <2>2. ASSUME NEW i \in k..Len(order) PROVE order[i] \in ToSet(b)
      <3>1. i - k + 1 \in 1..(Len(order) - k + 1) /\ k + (i - k + 1) - 1 = i
        BY <1>1, <1>2
      <3>2. b[i - k + 1] = order[i] /\ i - k + 1 \in DOMAIN b
        BY <1>5, <3>1
      <3>3. QED
        BY <3>2 DEF ToSet
    <2>3. QED
      BY <2>1, <2>2
  <1>8. Topological(a, edges)
    <2>1. ASSUME NEW i \in 1..(k - 1), NEW j \in 1..(k - 1), i < j
          PROVE  a[i] # a[j] /\ <<a[j], a[i]>> \notin edges
      <3>1. i \in DOMAIN order /\ j \in DOMAIN order
        BY <1>1, <1>2
      <3>2. QED
        BY <1>4, <2>1, <3>1 DEF Topological
    <2>2. QED
      BY <1>4, <2>1 DEF Topological
  <1>9. Topological(b, edges)
    <2>1. ASSUME NEW i \in 1..(Len(order) - k + 1), NEW j \in 1..(Len(order) - k + 1), i < j
          PROVE  b[i] # b[j] /\ <<b[j], b[i]>> \notin edges
      <3>1. /\ k + i - 1 \in DOMAIN order /\ k + j - 1 \in DOMAIN order
            /\ k + i - 1 < k + j - 1
        BY <1>1, <1>2, <2>1
      <3>2. b[i] = order[k + i - 1] /\ b[j] = order[k + j - 1]
        BY <1>5
      <3>3. QED
        BY <3>1, <3>2 DEF Topological
    <2>2. QED
      BY <1>5, <2>1 DEF Topological
  <1>10. ASSUME NEW x \in ToSet(a)
         PROVE  /\ x # Anchor /\ x \notin ToSet(b)
                /\ Anchor \in ToSet(order) => <<Anchor, x>> \notin edges
    <2>1. PICK i \in 1..(k - 1) : order[i] = x
      BY <1>6
    <2>2. i \in 1..Len(order) /\ \A j \in k..Len(order) : i < j /\ j \in 1..Len(order)
      BY <1>1, <1>2
    <2>3. x \notin ToSet(b)
      BY <1>1, <1>7, <2>1, <2>2 DEF Topological
    <2>4. ASSUME Anchor \in ToSet(order) PROVE k \in k..Len(order)
      BY <1>1, <1>2, <2>4
    <2>5. Anchor \in ToSet(order) => x # Anchor /\ <<Anchor, x>> \notin edges
      BY <1>1, <1>2, <2>1, <2>2, <2>4 DEF Topological
    <2>6. x \in ToSet(order)
      BY <1>1, <2>1, <2>2
    <2>7. QED
      BY <2>3, <2>5, <2>6
  <1>11. ASSUME NEW x \in ToSet(b) PROVE <<x, Anchor>> \notin edges
    <2>1. PICK j \in k..Len(order) : order[j] = x
      BY <1>7
    <2>2. k \in DOMAIN order /\ j \in DOMAIN order /\ order[k] = Anchor /\ (j = k \/ k < j)
      BY <1>1, <1>2
    <2>3. QED
      BY <2>1, <2>2 DEF Topological
  <1>12. ToSet(a) \subseteq ToSet(order) /\ ToSet(b) \subseteq ToSet(order)
    <2>1. 1..(k - 1) \subseteq 1..Len(order) /\ k..Len(order) \subseteq 1..Len(order)
      BY <1>1, <1>2
    <2>2. QED
      BY <1>1, <1>6, <1>7, <2>1
  <1>13. \A x \in ToSet(order) : x \in ToSet(a) \/ x \in ToSet(b)
    <2>1. \A i \in 1..Len(order) : i \in 1..(k - 1) \/ i \in k..Len(order)
      BY <1>1, <1>2
    <2>2. QED
      BY <1>1, <1>6, <1>7, <2>1
  <1>14. QED
    BY <1>3, <1>4, <1>5, <1>8, <1>9, <1>10, <1>11, <1>12, <1>13

\* What is left of an order when its first stage is taken.
LEMMA TailOrder ==
  ASSUME NEW S, NEW order \in Seq(S), order # <<>>, NEW edges, Topological(order, edges)
  PROVE  /\ Tail(order) \in Seq(S) /\ Topological(Tail(order), edges)
         /\ Head(order) \in ToSet(order)
         /\ \A x : x \in ToSet(order) <=> x = Head(order) \/ x \in ToSet(Tail(order))
         /\ \A x \in ToSet(Tail(order)) :
              x # Head(order) /\ <<x, Head(order)>> \notin edges
  <1>. DEFINE n == Len(order)
              t == Tail(order)
  <1>1. /\ n \in Nat /\ n # 0 /\ DOMAIN order = 1..n /\ Head(order) = order[1]
        /\ t \in Seq(S) /\ DOMAIN t = 1..(n - 1) /\ \A i \in 1..(n - 1) : t[i] = order[i + 1]
    OBVIOUS
  <1>. HIDE DEF n, t
  <1>2. \A x : x \in ToSet(t) <=> \E i \in 2..n : order[i] = x
    <2>1. ASSUME NEW x \in ToSet(t) PROVE \E i \in 2..n : order[i] = x
      <3>1. PICK i \in 1..(n - 1) : t[i] = x
        BY <1>1 DEF ToSet
      <3>2. i + 1 \in 2..n
        BY <1>1
      <3>3. QED
        BY <1>1, <3>1, <3>2
    <2>2. ASSUME NEW i \in 2..n PROVE order[i] \in ToSet(t)
      <3>1. i - 1 \in 1..(n - 1) /\ (i - 1) + 1 = i
        BY <1>1
      <3>2. t[i - 1] = order[i] /\ i - 1 \in DOMAIN t
        BY <1>1, <3>1
      <3>3. QED
        BY <3>2 DEF ToSet
    <2>3. QED
      BY <2>1, <2>2
  <1>3. \A i \in 1..n : i = 1 \/ i \in 2..n
    BY <1>1
  <1>4. \A x : x \in ToSet(order) <=> x = order[1] \/ x \in ToSet(t)
    <2>1. 1 \in 1..n /\ 2..n \subseteq 1..n
      BY <1>1
    <2>2. \A x : x \in ToSet(order) <=> \E i \in 1..n : order[i] = x
      BY <1>1 DEF ToSet
    <2>3. QED
      BY <1>2, <1>3, <2>1, <2>2
  <1>5. \A x \in ToSet(t) : x # order[1] /\ <<x, order[1]>> \notin edges
    <2>1. \A i \in 2..n : 1 < i /\ i \in DOMAIN order /\ 1 \in DOMAIN order
      BY <1>1
    <2>2. QED
      BY <1>2, <2>1 DEF Topological
  <1>6. Topological(t, edges)
    <2>1. ASSUME NEW i \in 1..(n - 1), NEW j \in 1..(n - 1), i < j
          PROVE  t[i] # t[j] /\ <<t[j], t[i]>> \notin edges
      <3>1. i + 1 \in DOMAIN order /\ j + 1 \in DOMAIN order /\ i + 1 < j + 1
        BY <1>1, <2>1
      <3>2. t[i] = order[i + 1] /\ t[j] = order[j + 1]
        BY <1>1
      <3>3. QED
        BY <3>1, <3>2 DEF Topological
    <2>2. QED
      BY <1>1, <2>1 DEF Topological
  <1>7. QED
    BY <1>1, <1>4, <1>5, <1>6 DEF t

(***************************************************************************)
(* Which hooks are called, and when.  What is still to come in a segment   *)
(* may come after all that was, by the declarations it started from; and a *)
(* hook that was there when the segment began, and still is, was called    *)
(* exactly if the turn of its stage has come.                              *)
(***************************************************************************)
Hooks == ToSet(CoreHooks) \cup {Plugins[p].hook : p \in DOMAIN Plugins}
Registration == [hook : Hooks, seq : Nat]

\* Whoever is registered, or was when a segment began or a stage did.
Registered == hooked \cup run.hooks \cup UNION {began[i].hooked : i \in DOMAIN began}

HooksTyped ==
  /\ run \in [seg : 0..MaxLives, order : Seq(ToSet(Names)), hooks : SUBSET Registration]
  /\ hooked \subseteq Registration /\ nextSeq \in Nat
  /\ applied \in [DOMAIN Plugins -> {"no", "yes", "gone"}]
  /\ Known(declared) \subseteq ToSet(Names)
  /\ \A i \in DOMAIN began : Known(began[i].declared) \subseteq ToSet(Names)

\* A hook is registered once.
HooksApart ==
  /\ \A g, h \in Registered : g.hook = h.hook => g = h
  /\ \A p \in DOMAIN Plugins : applied[p] = "no" =>
       \A h \in Registered : h.hook # Plugins[p].hook

SegmentEdges == Edges(began[run.seg + 1].declared)
Part(s) == Split(Order(began[s + 1].declared))[IF s = 0 THEN 1 ELSE 2]

\* What is to come may come.
ToCome ==
  /\ Topological(run.order, SegmentEdges) /\ ToSet(run.order) \subseteq ToSet(Part(run.seg))
  /\ \A g, h \in run.hooks : g.hook.stage = h.hook.stage
  /\ \A h \in run.hooks :
       /\ h.hook.stage \in ToSet(Part(run.seg))
       /\ \A x \in ToSet(run.order) : x # h.hook.stage /\ <<x, h.hook.stage>> \notin SegmentEdges
  /\ \A i \in DOMAIN ran : ran[i].seg = run.seg =>
       /\ \A x \in ToSet(run.order) :
            x # ran[i].hook.stage /\ <<x, ran[i].hook.stage>> \notin SegmentEdges
       /\ \A h \in run.hooks :
            /\ <<h.hook.stage, ran[i].hook.stage>> \notin SegmentEdges
            /\ h.hook.stage = ran[i].hook.stage => ran[i].hook.priority <= h.hook.priority

\* What was called was called in a segment that has begun, and how it ended stays known.
Called ==
  /\ pc \in {"idle", "received"} => ran = <<>>
  /\ pc \notin {"idle", "received"} => Len(began) = run.seg + 1
  /\ pc = "done" => run.seg = lives
  /\ \A i \in DOMAIN ran :
       /\ ran[i].seg \in 0..run.seg
       /\ ran[i].how = "stop" => ran[i].seg \in stopped
       /\ ran[i].how = "throw" /\ ~ran[i].hook.isolate => pc \in {"failing", "failed"}

\* The turn of a stage has come.
Due(s, h) ==
  /\ h.hook.stage \in ToSet(Part(s))
  /\ ~ (pc = "running" /\ s = run.seg /\ (h.hook.stage \in ToSet(run.order) \/ h \in run.hooks))

CalledWhenDue ==
  pc \in {"running", "routed", "done"} =>
    \A s \in 0..run.seg :
      /\ ~Cyclic(began[s + 1].declared)
      /\ s \notin stopped =>
           \A h \in began[s + 1].hooked \cap hooked :
             IF Due(s, h) THEN \E i \in DOMAIN ran : CallsOf(h.hook, s) = {i}
             ELSE CallsOf(h.hook, s) = {}

HooksInv ==
  /\ HooksTyped /\ HooksApart /\ Called /\ CalledInOrder
  /\ pc = "running" => ToCome
  /\ CalledWhenDue
-----------------------------------------------------------------------------
\* The order of what is declared, and its parts.
LEMMA PartsOf ==
  ASSUME NEW decls, Known(decls) \subseteq ToSet(Names), NEW k \in {1, 2}
  PROVE  /\ Split(Order(decls))[k] \in Seq(ToSet(Names))
         /\ Topological(Split(Order(decls))[k], Edges(decls))
  <1>1. /\ Order(decls) \in Seq(ToSet(Names)) /\ Topological(Order(decls), Edges(decls))
        /\ \A x : <<x, x>> \notin Edges(decls)
    BY OrderFacts, EdgesFacts
  <1>2. QED
    BY <1>1, SplitFacts

\* Plugins come and go: who was there at the beginning and still is, was there all
\* the time.
LEMMA PluginsKeepHooks ==
  ASSUME PipelineInv, HooksInv, NEW p \in DOMAIN Plugins, Apply(p) \/ Dispose(p)
  PROVE  HooksInv'
  <1>. USE DEF HooksInv
  <1>1. UNCHANGED stimulusVars
    BY DEF Apply, Dispose
  <1>2. /\ run' = run /\ began' = began /\ ran' = ran /\ pc' = pc /\ lives' = lives
        /\ stopped' = stopped
    BY <1>1 DEF stimulusVars
  <1>. DEFINE new == [hook |-> Plugins[p].hook, seq |-> nextSeq]
  <1>3. new \in Registration
    BY DEF Registration, Hooks, HooksTyped
  <1>4. hooked' \subseteq hooked \cup {new} /\ (Dispose(p) => hooked' \subseteq hooked)
    BY DEF Apply, Dispose
  <1>5. /\ applied' \in [DOMAIN Plugins -> {"no", "yes", "gone"}]
        /\ \A q \in DOMAIN Plugins : applied'[q] = "no" => applied[q] = "no" /\ q # p
        /\ Apply(p) => applied[p] = "no"
    BY DEF Apply, Dispose, HooksTyped
  <1>6. HooksTyped'
    <2>1. Known(declared') \subseteq ToSet(Names)
      <3>1. declared' \subseteq declared \cup {Plugins[p].stage}
        BY DEF Apply, Dispose
      <3>2. Known({Plugins[p].stage}) \subseteq ToSet(Names)
        BY NamesAssumption DEF Known
      <3>3. Known(declared') \subseteq Known(declared) \cup Known({Plugins[p].stage})
        BY <3>1 DEF Known
      <3>4. QED
        BY <3>2, <3>3 DEF HooksTyped
    <2>2. nextSeq' \in Nat
      BY DEF Apply, Dispose, HooksTyped
    <2>3. QED
      BY <1>2, <1>3, <1>4, <1>5, <2>1, <2>2 DEF HooksTyped
  <1>7. HooksApart' /\ (Apply(p) => \A h \in Registered : h # new)
    <2>1. Registered' \subseteq Registered \cup {new} /\ (Dispose(p) => Registered' \subseteq Registered)
      BY <1>2, <1>4 DEF Registered
    <2>2. Apply(p) => \A h \in Registered : h.hook # new.hook
      BY <1>5 DEF HooksApart
    <2>3. \A g, h \in Registered' : g.hook = h.hook => g = h
      BY <2>1, <2>2 DEF HooksApart
    <2>4. ASSUME NEW q \in DOMAIN Plugins, applied'[q] = "no", NEW h \in Registered'
          PROVE  h.hook # Plugins[q].hook
      <3>1. applied[q] = "no" /\ q # p
        BY <1>5, <2>4 DEF HooksApart
      <3>2. new.hook # Plugins[q].hook
        BY <3>1, HooksAssumption
      <3>3. QED
        BY <2>1, <3>1, <3>2 DEF HooksApart
    <2>5. QED
      BY <2>2, <2>3, <2>4 DEF HooksApart
  <1>8. Called' /\ CalledInOrder' /\ (pc' = "running" => ToCome')
    BY <1>2 DEF Called, CalledInOrder, ToCome, SegmentEdges, Part
  <1>9. CalledWhenDue'
    <2>1. ASSUME NEW s \in 0..run.seg, pc \in {"running", "routed", "done"}
          PROVE  began[s + 1].hooked \cap hooked' \subseteq began[s + 1].hooked \cap hooked
      <3>1. s + 1 \in DOMAIN began
        <4>1. Len(began) = run.seg + 1
          BY <2>1 DEF Called
        <4>2. run.seg \in Nat /\ DOMAIN began = 1..Len(began)
          BY MaxLivesAssumption DEF PipelineInv, PipelineTyped
        <4>3. QED
          BY <4>1, <4>2
      <3>2. began[s + 1].hooked \subseteq Registered
        BY <3>1 DEF Registered
      <3>3. QED
        BY <1>4, <1>7, <3>2
    <2>2. QED
      BY <1>2, <2>1 DEF CalledWhenDue, Due, Part, CallsOf
  <1>10. QED
    BY <1>6, <1>7, <1>8, <1>9

\* A segment begins: nothing of it has been called, all of it is to come.
LEMMA BeginKeepsHooks ==
  ASSUME PipelineInv, HooksInv, NEW s \in 0..MaxLives, Begin(s),
         \/ pc = "received" /\ s = 0
         \/ pc = "routed" /\ s = run.seg + 1 /\ s <= lives,
         UNCHANGED runnerVars, UNCHANGED <<lives, stopped, written, ran, traces>>
  PROVE  HooksInv'
  <1>. USE DEF HooksInv
  <1>. DEFINE snapshot == [declared |-> declared, hooked |-> hooked]
              n == Len(began)
  <1>0. run.seg \in Nat /\ run.seg \in 0..MaxLives /\ s \in Nat
    BY MaxLivesAssumption DEF HooksTyped
  <1>1. /\ declared' = declared /\ hooked' = hooked /\ nextSeq' = nextSeq /\ applied' = applied
        /\ ran' = ran /\ stopped' = stopped /\ lives' = lives
        /\ began' = Append(began, snapshot)
    BY DEF runnerVars, Begin
  <1>2. /\ n = s /\ DOMAIN began = 1..n /\ DOMAIN began' = 1..(n + 1)
        /\ Len(began') = n + 1
        /\ \A i \in 1..n : began'[i] = began[i]
        /\ began'[s + 1] = snapshot
    <2>1. n = s
      BY <1>0 DEF PipelineInv, Progress, Called
    <2>2. PICK S : began \in Seq(S)
      BY DEF PipelineInv, PipelineTyped
    <2>3. began \in Seq(S \cup {snapshot}) /\ snapshot \in S \cup {snapshot}
      BY <2>2
    <2>. HIDE DEF snapshot
    <2>4. QED
      BY <1>0, <1>1, <2>1, <2>3
  <1>3. /\ \A i \in DOMAIN ran : ran[i].seg \in 0..run.seg /\ ran[i].seg < s
        /\ run'.seg = s /\ pc' \in {"failing", "running"}
        /\ run' \in [seg : 0..MaxLives, order : Seq(ToSet(Names)), hooks : SUBSET Registration]
        /\ run'.hooks = run.hooks \/ run'.hooks = {}
    <2>1. \A i \in DOMAIN ran : ran[i].seg \in 0..run.seg /\ ran[i].seg < s
      BY <1>0 DEF Called
    <2>2. Split(Order(declared))[IF s = 0 THEN 1 ELSE 2] \in Seq(ToSet(Names))
      BY PartsOf DEF HooksTyped
    <2>3. run \in [seg : 0..MaxLives, order : Seq(ToSet(Names)), hooks : SUBSET Registration]
      BY DEF HooksTyped
    <2>4. CASE Cyclic(declared)
      BY <2>1, <2>3, <2>4 DEF Begin
    <2>5. CASE ~Cyclic(declared)
      BY <2>1, <2>2, <2>5 DEF Begin
    <2>6. QED
      BY <2>4, <2>5
  <1>4. HooksTyped'
    <2>1. \A i \in DOMAIN began' : Known(began'[i].declared) \subseteq ToSet(Names)
      <3>1. \A i \in 1..(n + 1) : i \in 1..n \/ i = s + 1
        BY <1>2
      <3>2. QED
        BY <1>2, <3>1 DEF HooksTyped
    <2>2. QED
      BY <1>1, <1>3, <2>1 DEF HooksTyped
  <1>5. HooksApart'
    <2>1. UNION {began'[i].hooked : i \in DOMAIN began'}
            = (UNION {began[i].hooked : i \in DOMAIN began}) \cup hooked
      <3>1. DOMAIN began' = DOMAIN began \cup {s + 1}
        BY <1>2
      <3>2. QED
        BY <1>2, <3>1
    <2>2. Registered' \subseteq Registered
      BY <1>1, <1>3, <2>1 DEF Registered
    <2>3. QED
      BY <1>1, <2>2 DEF HooksApart
  <1>6. Called'
    BY <1>0, <1>1, <1>2, <1>3 DEF Called
  <1>7. CalledInOrder'
    <2>1. \A i \in DOMAIN ran : ran[i].seg + 1 \in 1..n
      BY <1>0, <1>2, <1>3
    <2>2. QED
      BY <1>1, <1>2, <2>1 DEF CalledInOrder
  <1>8. ASSUME pc' = "running"
        PROVE  /\ ~Cyclic(declared) /\ run'.hooks = {}
               /\ run'.order = Split(Order(declared))[IF s = 0 THEN 1 ELSE 2]
    BY <1>8 DEF Begin
  <1>9. pc' = "running" => ToCome'
    <2>. SUFFICES ASSUME pc' = "running" PROVE ToCome'
      OBVIOUS
    <2>1. SegmentEdges' = Edges(declared) /\ Part(s)' = run'.order
      BY <1>2, <1>3, <1>8 DEF SegmentEdges, Part
    <2>2. Topological(run'.order, Edges(declared))
      BY <1>8, PartsOf DEF HooksTyped
    <2>3. \A i \in DOMAIN ran' : ran'[i].seg # run'.seg
      BY <1>0, <1>1, <1>3
    <2>4. QED
      BY <1>3, <1>8, <2>1, <2>2, <2>3 DEF ToCome
  <1>10. CalledWhenDue'
    <2>. SUFFICES ASSUME pc' = "running", NEW t \in 0..s
                  PROVE  /\ ~Cyclic(began'[t + 1].declared)
                         /\ t \notin stopped' =>
                              \A h \in began'[t + 1].hooked \cap hooked' :
                                IF Due(t, h)' THEN \E i \in DOMAIN ran' : CallsOf(h.hook, t)' = {i}
                                ELSE CallsOf(h.hook, t)' = {}
      BY <1>3 DEF CalledWhenDue
    <2>1. CASE t = s
      <3>1. Part(s)' = run'.order
        BY <1>2, <1>3, <1>8 DEF Part
      <3>2. \A h : ~Due(s, h)'
        BY <1>3, <3>1 DEF Due
      <3>3. \A h : CallsOf(h, s)' = {}
        BY <1>1, <1>3 DEF CallsOf
      <3>4. QED
        BY <1>2, <1>8, <2>1, <3>2, <3>3
    <2>2. CASE t # s
      <3>1. t \in 0..run.seg /\ t + 1 \in 1..n /\ pc = "routed"
        BY <1>0, <1>2, <2>2
      <3>2. began'[t + 1] = began[t + 1] /\ Part(t)' = Part(t)
        BY <1>2, <3>1 DEF Part
      <3>3. \A h : Due(t, h)' <=> Due(t, h)
        BY <1>3, <2>2, <3>1, <3>2 DEF Due
      <3>4. \A h : CallsOf(h, t)' = CallsOf(h, t)
        BY <1>1 DEF CallsOf
      <3>5. QED
        BY <1>1, <3>1, <3>2, <3>3, <3>4 DEF CalledWhenDue
    <2>3. QED
      BY <2>1, <2>2
  <1>11. QED
    BY <1>4, <1>5, <1>6, <1>7, <1>9, <1>10

\* The turn of the next stage.
LEMMA NextStageKeepsHooks ==
  ASSUME PipelineInv, HooksInv, NextStage
  PROVE  HooksInv'
  <1>. USE DEF HooksInv
  <1>. DEFINE stage == Head(run.order)
  <1>1. /\ pc = "running" /\ pc' = pc /\ run.hooks = {} /\ run.order # <<>>
        /\ run' = [run EXCEPT !.hooks = HooksOf(stage), !.order = Tail(@)]
        /\ declared' = declared /\ hooked' = hooked /\ nextSeq' = nextSeq /\ applied' = applied
        /\ ran' = ran /\ stopped' = stopped /\ lives' = lives /\ began' = began
    BY DEF NextStage, runnerVars
  <1>2. run \in [seg : 0..MaxLives, order : Seq(ToSet(Names)), hooks : SUBSET Registration]
    BY DEF HooksTyped
  <1>3. /\ run'.seg = run.seg /\ run'.hooks = HooksOf(stage) /\ run'.order = Tail(run.order)
        /\ run.order \in Seq(ToSet(Names))
    BY <1>1, <1>2
  <1>4. /\ Tail(run.order) \in Seq(ToSet(Names)) /\ Topological(Tail(run.order), SegmentEdges)
        /\ stage \in ToSet(run.order)
        /\ \A x : x \in ToSet(run.order) <=> x = stage \/ x \in ToSet(Tail(run.order))
        /\ \A x \in ToSet(Tail(run.order)) : x # stage /\ <<x, stage>> \notin SegmentEdges
    BY <1>1, <1>3, TailOrder DEF ToCome
  <1>5. HooksOf(stage) \subseteq hooked /\ \A h \in HooksOf(stage) : h.hook.stage = stage
    BY DEF HooksOf
  <1>6. HooksTyped'
    BY <1>1, <1>2, <1>3, <1>4, <1>5 DEF HooksTyped
  <1>7. HooksApart'
    <2>1. Registered' \subseteq Registered
      BY <1>1, <1>3, <1>5 DEF Registered
    <2>2. QED
      BY <1>1, <2>1 DEF HooksApart
  <1>8. Called' /\ CalledInOrder'
    BY <1>1, <1>3 DEF Called, CalledInOrder
  <1>. HIDE DEF stage
  <1>9. ToCome'
    <2>1. SegmentEdges' = SegmentEdges /\ Part(run.seg)' = Part(run.seg)
      BY <1>1, <1>3 DEF SegmentEdges, Part
    <2>2. ToCome
      BY <1>1
    <2>3. \A i \in DOMAIN ran : ran[i].seg = run.seg =>
            /\ \A x \in ToSet(Tail(run.order)) :
                 x # ran[i].hook.stage /\ <<x, ran[i].hook.stage>> \notin SegmentEdges
            /\ stage # ran[i].hook.stage /\ <<stage, ran[i].hook.stage>> \notin SegmentEdges
      BY <1>4, <2>2 DEF ToCome
    <2>4. \A h \in HooksOf(stage) :
            /\ h.hook.stage \in ToSet(Part(run.seg))
            /\ \A x \in ToSet(Tail(run.order)) :
                 x # h.hook.stage /\ <<x, h.hook.stage>> \notin SegmentEdges
      BY <1>4, <1>5, <2>2 DEF ToCome
    <2>5. ToSet(Tail(run.order)) \subseteq ToSet(Part(run.seg))
      BY <1>4, <2>2 DEF ToCome
    <2>6. QED
      BY <1>1, <1>3, <1>4, <1>5, <2>1, <2>3, <2>4, <2>5 DEF ToCome
  <1>10. CalledWhenDue'
    <2>1. \A s : Part(s)' = Part(s) /\ \A h : CallsOf(h, s)' = CallsOf(h, s)
      BY <1>1 DEF Part, CallsOf
    <2>2. \A s : \A h \in hooked : Due(s, h)' <=> Due(s, h)
      <3>1. \A h \in hooked : h \in HooksOf(stage) <=> h.hook.stage = stage
        BY DEF HooksOf
      <3>2. QED
        BY <1>1, <1>3, <1>4, <2>1, <3>1 DEF Due
    <2>3. QED
      BY <1>1, <1>3, <2>1, <2>2 DEF CalledWhenDue
  <1>11. QED
    BY <1>1, <1>6, <1>7, <1>8, <1>9, <1>10

\* The hook that is called is none that was, and it may come after those.
LEMMA CallKeepsHooks ==
  ASSUME PipelineInv, HooksInv, NEW how, CallHook(how)
  PROVE  HooksInv'
  <1>. USE DEF HooksInv
  <1>1. PICK next \in run.hooks :
          /\ \A h \in run.hooks \ {next} : Precedes(next, h)
          /\ ran' = Append(ran, [seg |-> run.seg, hook |-> next.hook,
                                 saw |-> Read(run.seg), how |-> how])
          /\ run' = [run EXCEPT !.hooks = @ \ {next}]
          /\ pc' = IF how = "throw" /\ ~next.hook.isolate THEN "failing" ELSE pc
    BY DEF CallHook
  <1>2. /\ pc = "running" /\ run.seg \notin stopped
        /\ declared' = declared /\ hooked' = hooked /\ nextSeq' = nextSeq /\ applied' = applied
        /\ lives' = lives /\ began' = began
        /\ stopped' = IF how = "stop" THEN stopped \cup {run.seg} ELSE stopped
    BY DEF CallHook, runnerVars
  <1>. DEFINE n == Len(ran)
              call == [seg |-> run.seg, hook |-> next.hook, saw |-> Read(run.seg), how |-> how]
  <1>3. run \in [seg : 0..MaxLives, order : Seq(ToSet(Names)), hooks : SUBSET Registration]
    BY DEF HooksTyped
  <1>4. /\ run'.seg = run.seg /\ run'.hooks = run.hooks \ {next} /\ run'.order = run.order
        /\ run' \in [seg : 0..MaxLives, order : Seq(ToSet(Names)), hooks : SUBSET Registration]
        /\ run.seg \in Nat
    BY <1>1, <1>3, MaxLivesAssumption
  <1>5. /\ n \in Nat /\ DOMAIN ran = 1..n /\ DOMAIN ran' = 1..(n + 1)
        /\ \A i \in 1..n : ran'[i] = ran[i]
        /\ ran'[n + 1] = call
    <2>1. PICK S : ran \in Seq(S)
      BY DEF PipelineInv, PipelineTyped
    <2>2. ran \in Seq(S \cup {call}) /\ call \in S \cup {call}
      BY <2>1
    <2>. HIDE DEF call
    <2>3. ran' = Append(ran, call)
      BY <1>1 DEF call
    <2>4. QED
      BY <2>2, <2>3
  <1>6. /\ call.seg = run.seg /\ call.hook = next.hook /\ call.how = how
    OBVIOUS
  <1>. HIDE DEF call
  <1>7. HooksTyped' /\ HooksApart'
    <2>1. Registered' \subseteq Registered
      BY <1>2, <1>4 DEF Registered
    <2>2. QED
      BY <1>2, <1>4, <2>1 DEF HooksTyped, HooksApart
  <1>8. Called'
    <2>1. \A i \in 1..(n + 1) : i \in 1..n \/ i = n + 1
      BY <1>5
    <2>2. \A i \in 1..n : /\ ran[i].seg \in 0..run.seg
                          /\ ran[i].how = "stop" => ran[i].seg \in stopped
                          /\ ~(ran[i].how = "throw" /\ ~ran[i].hook.isolate)
      BY <1>2, <1>5 DEF Called
    <2>3. /\ call.how = "stop" => call.seg \in stopped'
          /\ call.how = "throw" /\ ~call.hook.isolate => pc' = "failing"
      BY <1>1, <1>2, <1>6
    <2>4. stopped \subseteq stopped' /\ pc' \in {"running", "failing"} /\ Len(began) = run.seg + 1
      BY <1>1, <1>2 DEF Called
    <2>5. \A i \in DOMAIN ran' :
            /\ ran'[i].seg \in 0..run.seg
            /\ ran'[i].how = "stop" => ran'[i].seg \in stopped'
            /\ ran'[i].how = "throw" /\ ~ran'[i].hook.isolate => pc' = "failing"
      BY <1>4, <1>5, <1>6, <2>1, <2>2, <2>3, <2>4
    <2>6. QED
      BY <1>2, <1>4, <2>4, <2>5 DEF Called
  <1>9. /\ ToCome
        /\ \A h \in run.hooks : h.hook.priority \in Int /\ h.hook.stage = next.hook.stage
        /\ \A h \in run.hooks \ {next} : next.hook.priority <= h.hook.priority
    <2>1. \A h \in Hooks : h.priority \in Int
      BY HooksAssumption DEF Hooks, ToSet
    <2>2. \A h \in run.hooks : h.hook \in Hooks
      BY <1>3 DEF Registration
    <2>3. ToCome
      BY <1>2
    <2>4. \A h \in run.hooks : h.hook.stage = next.hook.stage
      BY <2>3 DEF ToCome
    <2>5. \A h \in run.hooks : h.hook.priority \in Int
      BY <2>1, <2>2
    <2>6. QED
      BY <1>1, <2>3, <2>4, <2>5 DEF Precedes
  <1>10. CalledInOrder'
    <2>1. ASSUME NEW i \in 1..n, ran[i].seg = run.seg
          PROVE  LET first == ran[i].hook  second == next.hook
                 IN /\ <<second.stage, first.stage>> \notin SegmentEdges
                    /\ first.stage = second.stage => first.priority <= second.priority
                    /\ ran[i].how # "stop" /\ (ran[i].how = "throw" => first.isolate)
      BY <1>2, <1>5, <1>9, <2>1 DEF ToCome, Called
    <2>2. ASSUME NEW x, NEW y, x # y, <<y, x>> \notin SegmentEdges,
                 NEW d \in began[run.seg + 1].declared
          PROVE  /\ ~(d.name = x /\ y \in d.after)
                 /\ ~(d.name = y /\ x \in d.before)
      BY <2>2 DEF SegmentEdges, Edges, Known
    <2>3. ASSUME NEW i \in DOMAIN ran', NEW j \in DOMAIN ran', i < j, ran'[i].seg = ran'[j].seg
          PROVE  LET first == ran'[i].hook  second == ran'[j].hook
                     at == began'[ran'[i].seg + 1].declared
                 IN /\ first.stage # second.stage => \A d \in at :
                         /\ ~(d.name = first.stage /\ second.stage \in d.after)
                         /\ ~(d.name = second.stage /\ first.stage \in d.before)
                    /\ first.stage = second.stage => first.priority <= second.priority
                    /\ ran'[i].how # "stop" /\ (ran'[i].how = "throw" => first.isolate)
      <3>1. i \in 1..n /\ ran'[i] = ran[i]
        BY <1>5, <2>3
      <3>2. CASE j \in 1..n
        <4>1. ran'[j] = ran[j]
          BY <1>5, <3>2
        <4>2. QED
          BY <1>2, <1>5, <2>3, <3>1, <3>2, <4>1 DEF CalledInOrder
      <3>3. CASE j = n + 1
        <4>1. ran[i].seg = run.seg /\ ran'[j].hook = next.hook
          BY <1>5, <1>6, <2>3, <3>1, <3>3
        <4>2. QED
          BY <1>2, <2>1, <2>2, <3>1, <4>1
      <3>4. QED
        BY <1>5, <3>2, <3>3
    <2>4. QED
      BY <2>3 DEF CalledInOrder
  <1>11. pc' = "running" => ToCome'
    <2>1. SegmentEdges' = SegmentEdges /\ Part(run.seg)' = Part(run.seg)
      BY <1>2, <1>4 DEF SegmentEdges, Part
    <2>2. \A x : <<x, x>> \notin SegmentEdges
      BY EdgesFacts DEF SegmentEdges
    <2>3. ASSUME NEW i \in DOMAIN ran', ran'[i].seg = run.seg
          PROVE  /\ \A x \in ToSet(run.order) :
                      x # ran'[i].hook.stage /\ <<x, ran'[i].hook.stage>> \notin SegmentEdges
                 /\ \A h \in run.hooks \ {next} :
                      /\ <<h.hook.stage, ran'[i].hook.stage>> \notin SegmentEdges
                      /\ h.hook.stage = ran'[i].hook.stage =>
                           ran'[i].hook.priority <= h.hook.priority
      <3>1. CASE i \in 1..n
        <4>1. ran'[i] = ran[i] /\ i \in DOMAIN ran
          BY <1>5, <3>1
        <4>2. QED
          BY <1>9, <2>3, <4>1 DEF ToCome
      <3>2. CASE i = n + 1
        <4>1. ran'[i].hook = next.hook
          BY <1>5, <1>6, <3>2
        <4>2. QED
          BY <1>9, <2>2, <4>1 DEF ToCome
      <3>3. QED
        BY <1>5, <3>1, <3>2
    <2>4. /\ Topological(run.order, SegmentEdges) /\ ToSet(run.order) \subseteq ToSet(Part(run.seg))
          /\ \A h \in run.hooks :
               /\ h.hook.stage \in ToSet(Part(run.seg))
               /\ \A x \in ToSet(run.order) :
                    x # h.hook.stage /\ <<x, h.hook.stage>> \notin SegmentEdges
      BY <1>9 DEF ToCome
    <2>5. QED
      BY <1>2, <1>4, <1>9, <2>1, <2>3, <2>4 DEF ToCome
  <1>12. CalledWhenDue'
    <2>. SUFFICES ASSUME pc' = "running", NEW s \in 0..run.seg
                  PROVE  /\ ~Cyclic(began'[s + 1].declared)
                         /\ s \notin stopped' =>
                              \A h \in began'[s + 1].hooked \cap hooked' :
                                IF Due(s, h)' THEN \E i \in DOMAIN ran' : CallsOf(h.hook, s)' = {i}
                                ELSE CallsOf(h.hook, s)' = {}
      BY <1>1, <1>2, <1>4 DEF CalledWhenDue
    <2>1. ~Cyclic(began'[s + 1].declared)
      BY <1>2 DEF CalledWhenDue
    <2>2. ASSUME s \notin stopped', NEW h \in began[s + 1].hooked \cap hooked
          PROVE  IF Due(s, h)' THEN \E i \in DOMAIN ran' : CallsOf(h.hook, s)' = {i}
                 ELSE CallsOf(h.hook, s)' = {}
      <3>0. s \notin stopped
        BY <1>2, <2>2
      <3>1. IF Due(s, h) THEN \E i \in DOMAIN ran : CallsOf(h.hook, s) = {i}
            ELSE CallsOf(h.hook, s) = {}
        BY <1>2, <2>2, <3>0 DEF CalledWhenDue
      <3>2. Part(s)' = Part(s)
        BY <1>2 DEF Part
      <3>3. CASE s = run.seg /\ h = next
        <4>1. ~Due(s, h)
          BY <1>2, <3>3 DEF Due
        <4>2. CallsOf(h.hook, s)' = {n + 1}
          <5>1. \A i \in 1..n : ~(ran[i].hook = h.hook /\ ran[i].seg = s)
            BY <1>5, <3>1, <4>1 DEF CallsOf
          <5>2. \A i \in DOMAIN ran' : ran'[i].hook = h.hook /\ ran'[i].seg = s <=> i = n + 1
            BY <1>5, <1>6, <3>3, <5>1
          <5>3. n + 1 \in DOMAIN ran'
            BY <1>5
          <5>4. QED
            BY <5>2, <5>3 DEF CallsOf
        <4>3. Due(s, h)'
          BY <1>4, <1>9, <3>2, <3>3 DEF Due, ToCome
        <4>4. QED
          BY <1>5, <4>2, <4>3
      <3>4. CASE ~(s = run.seg /\ h = next)
        <4>1. s = run.seg => h.hook # next.hook
          BY <3>4 DEF HooksApart, Registered
        <4>2. CallsOf(h.hook, s)' = CallsOf(h.hook, s)
          <5>1. \A i \in DOMAIN ran' : ran'[i].hook = h.hook /\ ran'[i].seg = s <=>
                  i \in 1..n /\ ran[i].hook = h.hook /\ ran[i].seg = s
            BY <1>5, <1>6, <4>1
          <5>2. 1..n \subseteq DOMAIN ran'
            BY <1>5
          <5>3. QED
            BY <1>5, <5>1, <5>2 DEF CallsOf
        <4>3. Due(s, h)' <=> Due(s, h)
          BY <1>2, <1>4, <3>2, <3>4 DEF Due
        <4>4. DOMAIN ran \subseteq DOMAIN ran'
          BY <1>5
        <4>5. QED
          BY <3>1, <4>2, <4>3, <4>4
      <3>5. QED
        BY <3>3, <3>4
    <2>3. QED
      BY <1>2, <2>1, <2>2
  <1>13. QED
    BY <1>7, <1>8, <1>10, <1>11, <1>12

\* The stimulus moves on: a segment that is over has called all it had to.
LEMMA MoveKeepsHooks ==
  ASSUME PipelineInv, HooksInv, Receive \/ Route \/ LifeEnds \/ Finish \/ Fail
  PROVE  HooksInv'
  <1>. USE DEF HooksInv
  <1>1. /\ declared' = declared /\ hooked' = hooked /\ nextSeq' = nextSeq /\ applied' = applied
        /\ ran' = ran /\ stopped' = stopped /\ began' = began /\ run' = run
        /\ pc' \in {"received", "routed", "done", "failed"}
    BY DEF Receive, Route, LifeEnds, Finish, Fail, runnerVars
  <1>2. HooksTyped' /\ HooksApart' /\ CalledInOrder'
    BY <1>1 DEF HooksTyped, HooksApart, Registered, CalledInOrder
  <1>3. Called'
    BY <1>1 DEF Called, Receive, Route, LifeEnds, Finish, Fail
  <1>4. CalledWhenDue'
    <2>. SUFFICES ASSUME pc' \in {"routed", "done"} PROVE CalledWhenDue'
      BY <1>1 DEF CalledWhenDue
    <2>1. /\ pc \in {"running", "routed"}
          /\ pc = "running" => RunOver
      BY DEF Receive, Route, LifeEnds, Finish, Fail
    <2>2. \A s : Part(s)' = Part(s) /\ \A h : CallsOf(h, s)' = CallsOf(h, s)
      BY <1>1 DEF Part, CallsOf
    <2>3. ASSUME NEW s, s \notin stopped, NEW h PROVE Due(s, h)' <=> Due(s, h)
      <3>1. pc = "running" /\ s = run.seg => run.hooks = {} /\ ToSet(run.order) = {}
        BY <2>1, <2>3 DEF RunOver, ToSet
      <3>2. QED
        BY <1>1, <2>2, <3>1 DEF Due
    <2>4. QED
      BY <1>1, <2>1, <2>2, <2>3 DEF CalledWhenDue
  <1>5. QED
    BY <1>1, <1>2, <1>3, <1>4

\* PipelineRunner.run and processStimulus: what is to come may come, and what was due
\* was called.
THEOREM HooksInvariant == PipelineSpec => []HooksInv
  <1>1. PipelineInit => HooksInv
    <2>. SUFFICES ASSUME PipelineInit PROVE HooksInv
      OBVIOUS
    <2>. USE DEF PipelineInit
    <2>0. /\ CoreHooks \in Seq(ToSet(CoreHooks)) /\ DOMAIN CoreHooks = 1..Len(CoreHooks)
          /\ Len(CoreHooks) \in Nat /\ MaxLives \in Nat
          /\ \A i \in DOMAIN CoreHooks : CoreHooks[i] \in ToSet(CoreHooks)
      BY HooksAssumption, MaxLivesAssumption DEF ToSet
    <2>1. hooked \subseteq Registration
      <3>1. \A i \in DOMAIN CoreHooks : CoreHooks[i] \in Hooks /\ i \in Nat
        BY <2>0 DEF Hooks
      <3>2. QED
        BY <3>1 DEF Registration
    <2>2. Known(declared) \subseteq ToSet(Names)
      BY NamesAssumption DEF Known
    <2>3. HooksTyped
      BY <2>0, <2>1, <2>2 DEF HooksTyped
    <2>4. Registered = hooked
      BY DEF Registered
    <2>5. \A g, h \in hooked : g.hook = h.hook => g = h
      BY HooksAssumption DEF IsInjective
    <2>6. HooksApart
      <3>1. \A h \in hooked : h.hook \in ToSet(CoreHooks)
        BY <2>0
      <3>2. QED
        BY <2>4, <2>5, <3>1, HooksAssumption DEF HooksApart
    <2>7. Called /\ CalledInOrder /\ CalledWhenDue /\ pc = "idle"
      BY DEF Called, CalledInOrder, CalledWhenDue
    <2>8. QED
      BY <2>3, <2>6, <2>7 DEF HooksInv
  <1>2. PipelineInv /\ HooksInv /\ [PipelineNext]_pipelineVars => HooksInv'
    <2>. SUFFICES ASSUME PipelineInv, HooksInv, [PipelineNext]_pipelineVars
                  PROVE  HooksInv'
      OBVIOUS
    <2>1. ASSUME NEW p \in DOMAIN Plugins, Apply(p) \/ Dispose(p)
          PROVE  HooksInv'
      BY <2>1, PluginsKeepHooks
    <2>2. CASE BeginStimulus
      <3>1. 0 \in 0..MaxLives
        BY MaxLivesAssumption
      <3>2. QED
        BY <2>2, <3>1, BeginKeepsHooks DEF BeginStimulus
    <2>3. CASE BeginLife
      <3>1. /\ pc = "routed" /\ Begin(run.seg + 1) /\ run.seg < lives
            /\ UNCHANGED runnerVars /\ UNCHANGED <<lives, stopped, written, ran, traces>>
        BY <2>3 DEF BeginLife
      <3>2. run.seg + 1 \in 0..MaxLives /\ run.seg + 1 <= lives
        BY <3>1, MaxLivesAssumption DEF PipelineInv, PipelineTyped
      <3>3. QED
        BY <3>1, <3>2, BeginKeepsHooks
    <2>4. CASE NextStage
      BY <2>4, NextStageKeepsHooks
    <2>5. ASSUME NEW how \in {"ok", "write", "stop", "throw"}, CallHook(how)
          PROVE  HooksInv'
      BY <2>5, CallKeepsHooks
    <2>6. CASE Receive \/ Route \/ LifeEnds \/ Finish \/ Fail
      BY <2>6, MoveKeepsHooks
    <2>7. CASE UNCHANGED pipelineVars
      <3>1. /\ declared' = declared /\ hooked' = hooked /\ nextSeq' = nextSeq
            /\ applied' = applied /\ pc' = pc /\ run' = run /\ lives' = lives
            /\ stopped' = stopped /\ ran' = ran /\ began' = began
        BY <2>7 DEF pipelineVars, runnerVars, stimulusVars
      <3>2. HooksTyped' /\ HooksApart' /\ Called' /\ CalledInOrder'
        BY <3>1 DEF HooksInv, HooksTyped, HooksApart, Registered, Called, CalledInOrder
      <3>3. pc' = "running" => ToCome'
        BY <3>1 DEF HooksInv, ToCome, SegmentEdges, Part
      <3>4. CalledWhenDue'
        BY <3>1 DEF HooksInv, CalledWhenDue, Due, Part, CallsOf
      <3>5. QED
        BY <3>2, <3>3, <3>4 DEF HooksInv
    <2>8. QED
      BY <2>1, <2>2, <2>3, <2>4, <2>5, <2>6, <2>7 DEF PipelineNext
  <1>3. QED
    BY <1>1, <1>2, PipelineInvariant, PTL DEF PipelineSpec

\* PipelineRunner.run, sortStages and processStimulus: every hook is called in the
\* segment it belongs to, as often as it should, and in the order of the declarations,
\* for every set of stages, hooks and plugins and every number of lives.
THEOREM InTheirPlace == PipelineSpec => []HooksInTheirPlace
  <1>1. PipelineInv /\ HooksInv => HooksInTheirPlace
    <2>. SUFFICES ASSUME PipelineInv, HooksInv, pc = "done", Steady, stopped = {},
                         NEW h \in hooked, h.hook.stage \in Known(declared)
                  PROVE  LET count == [s \in 0..lives |-> Cardinality(CallsOf(h.hook, s))]
                         IN \/ /\ count = [s \in 0..lives |-> IF s = 0 THEN 1 ELSE 0]
                               /\ <<Anchor, h.hook.stage>> \notin Edges(declared)
                               /\ h.hook.stage # Anchor
                            \/ /\ count = [s \in 0..lives |-> IF s = 0 THEN 0 ELSE 1]
                               /\ <<h.hook.stage, Anchor>> \notin Edges(declared)
      BY DEF HooksInTheirPlace, EachWhereItBelongs, HooksInv
    <2>. DEFINE order == Order(declared)
                stage == h.hook.stage
    <2>1. /\ run.seg = lives /\ lives \in Nat /\ Len(began) = lives + 1
          /\ DOMAIN began = 1..(lives + 1)
      BY MaxLivesAssumption DEF HooksInv, Called, PipelineInv, PipelineTyped
    <2>2. \A s \in 0..lives : began[s + 1] = [declared |-> declared, hooked |-> hooked]
      BY <2>1 DEF Steady
    <2>3. \A s \in 0..lives :
            /\ Part(s) = Split(order)[IF s = 0 THEN 1 ELSE 2]
            /\ IF stage \in ToSet(Part(s)) THEN \E i \in DOMAIN ran : CallsOf(h.hook, s) = {i}
               ELSE CallsOf(h.hook, s) = {}
      <3>1. SUFFICES ASSUME NEW s \in 0..lives
                     PROVE  /\ Part(s) = Split(order)[IF s = 0 THEN 1 ELSE 2]
                            /\ IF Due(s, h)
                               THEN \E i \in DOMAIN ran : CallsOf(h.hook, s) = {i}
                               ELSE CallsOf(h.hook, s) = {}
        BY DEF Due
      <3>2. began[s + 1].hooked = hooked /\ began[s + 1].declared = declared
        BY <2>2
      <3>3. QED
        BY <2>1, <3>2 DEF HooksInv, CalledWhenDue, Part
    <2>4. \A s \in 0..lives :
            Cardinality(CallsOf(h.hook, s)) = IF stage \in ToSet(Part(s)) THEN 1 ELSE 0
      BY <2>3, FS_EmptySet, FS_Singleton
    <2>5. ToSet(order) = Known(declared)
      <3>1. 0 \in 0..run.seg /\ began[0 + 1] = [declared |-> declared, hooked |-> hooked]
        BY <2>1, <2>2
      <3>2. ~Cyclic(declared)
        BY <3>1 DEF HooksInv, CalledWhenDue
      <3>3. QED
        BY <3>2 DEF Cyclic
    <2>6. /\ order \in Seq(ToSet(Names)) /\ Topological(order, Edges(declared))
          /\ \A x : <<x, x>> \notin Edges(declared)
      BY OrderFacts, EdgesFacts DEF HooksInv, HooksTyped
    <2>7. /\ \A x \in ToSet(Split(order)[1]) :
               /\ x # Anchor /\ x \notin ToSet(Split(order)[2])
               /\ Anchor \in ToSet(order) => <<Anchor, x>> \notin Edges(declared)
          /\ \A x \in ToSet(Split(order)[2]) : <<x, Anchor>> \notin Edges(declared)
          /\ \A x \in ToSet(order) : \E l \in {1, 2} : x \in ToSet(Split(order)[l])
      <3>. HIDE DEF order
      <3>1. QED
        BY <2>6, SplitFacts
    <2>. HIDE DEF order
    <2>8. CASE stage \in ToSet(Split(order)[1])
      <3>1. \A s \in 0..lives : stage \in ToSet(Part(s)) <=> s = 0
        BY <2>3, <2>7, <2>8
      <3>2. <<Anchor, stage>> \notin Edges(declared) /\ stage # Anchor
        BY <2>5, <2>7, <2>8, EdgesFacts
      <3>3. \A s \in 0..lives :
              Cardinality(CallsOf(h.hook, s)) = IF s = 0 THEN 1 ELSE 0
        BY <2>4, <3>1
      <3>4. QED
        BY <3>2, <3>3
    <2>9. CASE stage \in ToSet(Split(order)[2])
      <3>1. \A s \in 0..lives : stage \in ToSet(Part(s)) <=> s # 0
        BY <2>3, <2>7, <2>9
      <3>2. <<stage, Anchor>> \notin Edges(declared)
        BY <2>7, <2>9
      <3>3. \A s \in 0..lives :
              Cardinality(CallsOf(h.hook, s)) = IF s = 0 THEN 0 ELSE 1
        BY <2>4, <3>1
      <3>4. QED
        BY <3>2, <3>3
    <2>10. QED
      BY <2>5, <2>7, <2>8, <2>9
  <1>2. QED
    BY <1>1, PipelineInvariant, HooksInvariant, PTL

-----------------------------------------------------------------------------
(***************************************************************************)
(* The observatory.  The list of every stimulus is the ring filtered; and  *)
(* of the gateway's records, however they are picked, as many were heard   *)
(* as there are calls whose question or answer is among them.              *)
(***************************************************************************)
Stimulus(s, ring) == {r \in ToSet(ring) : r.stimulus = s}
Indexed(index, ring) ==
  /\ DOMAIN index = {r.stimulus : r \in ToSet(ring)} \ {Absent}
  /\ \A s \in DOMAIN index : index[s] = Only(ring, Stimulus(s, ring))

RingInv ==
  /\ heard \in Seq(ToSet(heard)) /\ records \in Seq(ToSet(records))
  /\ cleared \in 0..Len(heard)
  /\ records = LastOf(MaxRecords, SubSeq(heard, cleared + 1, Len(heard)))
  /\ Indexed(byStimulus, records)

TraceInv ==
  /\ completed \in Seq(ToSet(completed))
  /\ traceRing = LastOf(MaxRecords, completed)

\* What was heard of whom: kinds and statuses are those of the names, and of a
\* repository's replacement nothing is heard before its component's setting up.
HeardInv ==
  \A r \in ToSet(heard) :
    /\ r.kind = KindFromEvent(r.name) /\ r.status = StatusFromEvent(r.name)
    /\ r.kind = "repository" /\ r.status # "failed" =>
         \E q \in ToSet(heard) : /\ q.name = Repository("initialized")
                                 /\ q.meta.component = r.meta.component

Attempts ==
  {Attempt(error.code, error.class) : error \in Errors}
    \cup {Attempt("circuit-open", Absent), Attempt(Absent, Absent)}
Blamed(call) ==
  call.attempts # <<>> /\ call.code # Absent /\ Last(call.attempts).code = call.code
Requests == UNION {RequestsOf[c] : c \in Calls}
CallRecords ==
  [pc : {"idle", "thrown", "trying", "responded", "failed"},
   about : {request.about : request \in Requests} \cup {<< >>},
   slots : {request.slots : request \in Requests} \cup {0}, slot : Nat, tried : Nat,
   attempts : Seq(Attempts), code : {attempt.code : attempt \in Attempts}]
CallInv ==
  /\ calls \in [Calls -> CallRecords]
  /\ \A c \in CallsIn({"failed"}) : Blamed(calls[c])

Asked(call) == Record(GatewayEvent("requested", call.about, <<>>))
Told(call) == Record(GatewayEvent(call.pc, call.about, Finalized(call)))
AskedOf(picked) == {c \in Requested : Asked(calls[c]) \in picked}
ToldOf(picked) == {c \in Reported : Told(calls[c]) \in picked}
GatewayRecords == {r \in ToSet(heard) : r.kind = "gateway"}
AccountInv ==
  /\ \A c \in Requested : Asked(calls[c]) \in ToSet(heard)
  /\ \A c \in Reported : Told(calls[c]) \in ToSet(heard)
  /\ \A picked \in SUBSET GatewayRecords :
       Len(Only(heard, picked)) = Cardinality(AskedOf(picked)) + Cardinality(ToldOf(picked))

ObservatoryInv ==
  RingInv /\ TraceInv /\ HeardInv /\ CallInv /\ AccountInv

\* The last n elements of a sequence, as it grows by one.
LEMMA LastOfFacts ==
  ASSUME NEW T, NEW s \in Seq(T), NEW n \in Nat
  PROVE  /\ LastOf(n, s) \in Seq(T)
         /\ Len(LastOf(n, s)) = IF Len(s) <= n THEN Len(s) ELSE n
         /\ \A i \in 1..Len(LastOf(n, s)) : LastOf(n, s)[i] = s[i + (Len(s) - Len(LastOf(n, s)))]
<1>1. CASE Len(s) <= n
  BY <1>1 DEF LastOf
<1>2. CASE Len(s) > n
  <2> DEFINE m == Len(s) - n
             p == SubSeq(s, m + 1, Len(s))
  <2>1. m \in Nat /\ m + 1 \in 1..Len(s) + 1 /\ Len(s) - m = n
    BY <1>2
  <2>2. p \in Seq(T) /\ Len(p) = n /\ \A i \in 1..n : p[i] = s[i + m]
    BY <2>1
  <2>3. LastOf(n, s) = p
    BY <1>2 DEF LastOf
  <2> HIDE DEF p
  <2>4. QED
    BY <1>2, <2>2, <2>3
<1>3. QED
  BY <1>1, <1>2

\* Two sequences with the same elements at the same places are the same.
LEMMA SameSeq ==
  ASSUME NEW T, NEW p \in Seq(T), NEW q \in Seq(T), Len(p) = Len(q),
         \A i \in 1..Len(p) : p[i] = q[i]
  PROVE  p = q
OBVIOUS

\* The last n elements as one more is appended: the first of them leaves if they were n.
LEMMA LastOfAppend ==
  ASSUME NEW T, NEW s \in Seq(T), NEW e \in T, NEW n \in Nat \ {0}
  PROVE  LET q == Append(LastOf(n, s), e)
         IN  /\ LastOf(n, Append(s, e)) = IF Len(LastOf(n, s)) + 1 > n THEN Tail(q) ELSE q
             /\ LastOf(n, q) = LastOf(n, Append(s, e))
<1> DEFINE p == LastOf(n, s)
           q == Append(p, e)
           t == Append(s, e)
           l == LastOf(n, t)
           k == LastOf(n, q)
<1>1. p \in Seq(T) /\ Len(p) = (IF Len(s) <= n THEN Len(s) ELSE n)
      /\ \A i \in 1..Len(p) : p[i] = s[i + (Len(s) - Len(p))]
  BY LastOfFacts
<1>2. t \in Seq(T) /\ Len(t) = Len(s) + 1 /\ t[Len(s) + 1] = e /\ \A i \in 1..Len(s) : t[i] = s[i]
  OBVIOUS
<1> HIDE DEF p, t
<1>3. q \in Seq(T) /\ Len(q) = Len(p) + 1 /\ q[Len(p) + 1] = e /\ \A i \in 1..Len(p) : q[i] = p[i]
  BY <1>1
<1> HIDE DEF q
<1>4. l \in Seq(T) /\ Len(l) = (IF Len(t) <= n THEN Len(t) ELSE n)
      /\ \A i \in 1..Len(l) : l[i] = t[i + (Len(t) - Len(l))]
  BY <1>2, LastOfFacts
<1>5. k \in Seq(T) /\ Len(k) = (IF Len(q) <= n THEN Len(q) ELSE n)
      /\ \A i \in 1..Len(k) : k[i] = q[i + (Len(q) - Len(k))]
  BY <1>3, LastOfFacts
<1> HIDE DEF l, k
<1>6. Len(p) \in Nat /\ Len(s) \in Nat
  BY <1>1
<1>7. CASE Len(s) + 1 <= n
  <2>1. /\ Len(l) = Len(s) + 1 /\ Len(k) = Len(s) + 1 /\ Len(p) = Len(s) /\ Len(q) = Len(s) + 1
        /\ Len(t) = Len(s) + 1
    BY <1>1, <1>2, <1>3, <1>4, <1>5, <1>6, <1>7
  <2>2. \A i \in 1..(Len(s) + 1) : l[i] = t[i] /\ k[i] = q[i] /\ t[i] = q[i]
    <3> TAKE i \in 1..(Len(s) + 1)
    <3>1. l[i] = t[i] /\ k[i] = q[i]
      <4>1. /\ i \in 1..Len(l) /\ i \in 1..Len(k)
            /\ i + (Len(t) - Len(l)) = i /\ i + (Len(q) - Len(k)) = i
        BY <1>6, <2>1
      <4>2. QED
        BY <1>4, <1>5, <4>1
    <3>2. CASE i = Len(s) + 1
      BY <1>2, <1>3, <2>1, <3>1, <3>2
    <3>3. CASE i # Len(s) + 1
      <4>1. i \in 1..Len(s) /\ i \in 1..Len(p) /\ i + (Len(s) - Len(p)) = i
        BY <1>6, <2>1, <3>3
      <4>2. p[i] = s[i]
        BY <1>1, <4>1
      <4>3. QED
        BY <1>2, <1>3, <3>1, <4>1, <4>2
    <3>4. QED
      BY <3>2, <3>3, <3>1
  <2>3. l = q
    BY <1>3, <1>4, <2>1, <2>2, SameSeq
  <2>4. k = q
    BY <1>3, <1>5, <2>1, <2>2, SameSeq
  <2>5. ~ (Len(p) + 1 > n)
    BY <1>6, <1>7, <2>1
  <2>6. QED
    BY <2>3, <2>4, <2>5 DEF p, q, t, l, k
<1>8. CASE ~ (Len(s) + 1 <= n)
  <2>1. /\ Len(l) = n /\ Len(k) = n /\ Len(p) = n /\ Len(q) = n + 1 /\ Len(t) = Len(s) + 1
        /\ Len(t) - Len(l) = (Len(s) - n) + 1 /\ Len(q) - Len(k) = 1 /\ Len(s) - n \in Nat
    BY <1>1, <1>2, <1>3, <1>4, <1>5, <1>6, <1>8
  <2> DEFINE u == Tail(q)
  <2>2. u \in Seq(T) /\ Len(u) = n /\ \A i \in 1..n : u[i] = q[i + 1]
    BY <1>3, <2>1
  <2> HIDE DEF u
  <2>3. \A i \in 1..n : k[i] = q[i + 1]
    BY <1>5, <2>1
  <2>4. \A i \in 1..n : l[i] = q[i + 1]
    <3> TAKE i \in 1..n
    <3>1. l[i] = t[i + ((Len(s) - n) + 1)]
      BY <1>4, <2>1
    <3>2. CASE i = n
      <4>1. i + ((Len(s) - n) + 1) = Len(s) + 1 /\ i + 1 = Len(p) + 1
        BY <1>6, <2>1, <3>2
      <4>2. QED
        BY <1>2, <1>3, <3>1, <4>1
    <3>3. CASE i # n
      <4>1. /\ i + 1 \in 1..Len(p) /\ i + ((Len(s) - n) + 1) \in 1..Len(s)
            /\ i + ((Len(s) - n) + 1) = (i + 1) + (Len(s) - Len(p))
        BY <1>6, <2>1, <3>3
      <4>2. QED
        BY <1>1, <1>2, <1>3, <3>1, <4>1
    <3>4. QED
      BY <3>2, <3>3
  <2>5. l = u
    <3>1. l \in Seq(T) /\ Len(l) = Len(u) /\ \A i \in 1..Len(l) : l[i] = u[i]
      BY <1>4, <2>1, <2>2, <2>4
    <3>2. QED
      BY <2>2, <3>1, SameSeq
  <2>6. k = u
    <3>1. k \in Seq(T) /\ Len(k) = Len(u) /\ \A i \in 1..Len(k) : k[i] = u[i]
      BY <1>5, <2>1, <2>2, <2>3
    <3>2. QED
      BY <2>2, <3>1, SameSeq
  <2>7. Len(p) + 1 > n
    BY <2>1
  <2>8. QED
    BY <2>5, <2>6, <2>7 DEF p, q, t, l, k, u
<1>9. QED
  BY <1>7, <1>8

\* What follows the first k elements, as a sequence grows.
LEMMA RestAppend ==
  ASSUME NEW T, NEW s \in Seq(T), NEW e \in T, NEW k \in 0..Len(s)
  PROVE  /\ SubSeq(s, k + 1, Len(s)) \in Seq(T)
         /\ SubSeq(Append(s, e), k + 1, Len(s) + 1) = Append(SubSeq(s, k + 1, Len(s)), e)
<1> DEFINE p == SubSeq(s, k + 1, Len(s))
           q == SubSeq(Append(s, e), k + 1, Len(s) + 1)
           r == Append(p, e)
<1>1. p \in Seq(T) /\ Len(p) = Len(s) - k /\ \A i \in 1..Len(p) : p[i] = s[i + k]
  OBVIOUS
<1>2. q \in Seq(T) /\ Len(q) = (Len(s) - k) + 1 /\ \A i \in 1..Len(q) : q[i] = Append(s, e)[i + k]
  OBVIOUS
<1> HIDE DEF p
<1>3. r \in Seq(T) /\ Len(r) = Len(p) + 1 /\ r[Len(p) + 1] = e /\ \A i \in 1..Len(p) : r[i] = p[i]
  BY <1>1
<1>4. Append(s, e)[Len(s) + 1] = e /\ \A i \in 1..Len(s) : Append(s, e)[i] = s[i]
  OBVIOUS
<1> HIDE DEF q, r
<1>5. ASSUME NEW i \in 1..Len(q)
      PROVE  q[i] = r[i]
  <2>1. CASE i = Len(p) + 1
    <3>1. i + k = Len(s) + 1
      BY <1>1, <2>1
    <3>2. QED
      BY <1>2, <1>3, <1>4, <2>1, <3>1
  <2>2. CASE i # Len(p) + 1
    <3>1. i \in 1..Len(p) /\ i + k \in 1..Len(s)
      BY <1>1, <1>2, <2>2
    <3>2. QED
      BY <1>1, <1>2, <1>3, <1>4, <3>1
  <2>3. QED
    BY <2>1, <2>2
<1>6. q = r
  BY <1>1, <1>2, <1>3, <1>5, SameSeq
<1>7. QED
  BY <1>1, <1>6 DEF p, q, r

-----------------------------------------------------------------------------
\* A sequence and the set of its elements.
LEMMA RangeFacts ==
  ASSUME NEW T, NEW p \in Seq(T)
  PROVE  /\ ToSet(p) \subseteq T /\ p \in Seq(ToSet(p)) /\ (p = << >> <=> ToSet(p) = {})
         /\ \A e \in T : ToSet(Append(p, e)) = ToSet(p) \cup {e}
         /\ p # << >> => /\ Head(p) \in ToSet(p) /\ Tail(p) \in Seq(T)
                         /\ ToSet(p) = ToSet(Tail(p)) \cup {Head(p)}
<1>1. \A q \in Seq(T) : ToSet(q) = {q[i] : i \in 1..Len(q)}
  BY DEF ToSet
<1>2. ToSet(p) \subseteq T /\ p \in Seq(ToSet(p)) /\ (p = << >> <=> ToSet(p) = {})
  BY <1>1
<1>3. ASSUME NEW e \in T
      PROVE  ToSet(Append(p, e)) = ToSet(p) \cup {e}
  <2> DEFINE q == Append(p, e)
  <2>1. /\ q \in Seq(T) /\ Len(q) = Len(p) + 1 /\ q[Len(p) + 1] = e /\ Len(p) \in Nat
        /\ \A i \in 1..Len(p) : q[i] = p[i]
    OBVIOUS
  <2> HIDE DEF q
  <2>2. \A i : i \in 1..Len(q) <=> i \in 1..Len(p) \/ i = Len(p) + 1
    BY <2>1
  <2>3. \A x : x \in ToSet(q) <=> x \in ToSet(p) \/ x = e
    <3>1. \A x : x \in ToSet(p) <=> \E i \in 1..Len(p) : p[i] = x
      BY <1>1
    <3>2. \A x : x \in ToSet(q) <=> \E i \in 1..Len(q) : q[i] = x
      BY <1>1, <2>1
    <3>3. QED
      BY <2>1, <2>2, <3>1, <3>2
  <2>4. QED
    BY <2>3 DEF q
<1>4. ASSUME p # << >>
      PROVE  /\ Head(p) \in ToSet(p) /\ Tail(p) \in Seq(T)
             /\ ToSet(p) = ToSet(Tail(p)) \cup {Head(p)}
  <2> DEFINE q == Tail(p)
  <2>1. /\ q \in Seq(T) /\ Len(p) = Len(q) + 1 /\ Len(q) \in Nat /\ Head(p) = p[1]
        /\ \A i \in 1..Len(q) : q[i] = p[i + 1]
    BY <1>4
  <2> HIDE DEF q
  <2>2. \A i \in 1..Len(q) : i + 1 \in 1..Len(p) /\ (i + 1) - 1 = i
    BY <2>1
  <2>3. \A i \in 1..Len(p) : i # 1 => i - 1 \in 1..Len(q) /\ p[i] = q[i - 1]
    BY <2>1
  <2>4. 1 \in 1..Len(p)
    BY <2>1
  <2>5. \A x : x \in ToSet(p) <=> x \in ToSet(q) \/ x = p[1]
    <3>1. \A x : x \in ToSet(p) <=> \E i \in 1..Len(p) : p[i] = x
      BY <1>1
    <3>2. \A x : x \in ToSet(q) <=> \E i \in 1..Len(q) : q[i] = x
      BY <1>1, <2>1
    <3>3. QED
      BY <2>1, <2>2, <2>3, <2>4, <3>1, <3>2
  <2>6. QED
    BY <2>1, <2>5 DEF q
<1>5. QED
  BY <1>2, <1>3, <1>4

\* An index of a ring, list by list.
ListedFor(index, ring, s) ==
  /\ ListOf(index, s) = Only(ring, Stimulus(s, ring))
  /\ s \in DOMAIN index <=> Only(ring, Stimulus(s, ring)) # << >>

\* The lists by stimulus, one by one.
LEMMA IndexedIs ==
  ASSUME NEW T, NEW ring \in Seq(T), NEW index
  PROVE  Indexed(index, ring) <=>
           Absent \notin DOMAIN index /\ \A s : s # Absent => ListedFor(index, ring, s)
<1>1. ASSUME NEW s
      PROVE  Only(ring, Stimulus(s, ring)) # << >> <=> s \in {r.stimulus : r \in ToSet(ring)}
  <2> DEFINE p == Only(ring, Stimulus(s, ring))
  <2>1. p \in Seq(T) /\ \A x : x \in ToSet(p) <=> x \in ToSet(ring) /\ x \in Stimulus(s, ring)
    BY OnlyFacts
  <2>2. p = << >> <=> ToSet(p) = {}
    BY <2>1, RangeFacts
  <2> HIDE DEF p
  <2>3. QED
    BY <2>1, <2>2 DEF p, Stimulus
<1>2. ASSUME Indexed(index, ring)
      PROVE  Absent \notin DOMAIN index /\ \A s : s # Absent => ListedFor(index, ring, s)
  BY <1>1, <1>2 DEF Indexed, ListedFor, ListOf
<1>3. ASSUME Absent \notin DOMAIN index, \A s : s # Absent => ListedFor(index, ring, s)
      PROVE  Indexed(index, ring)
  BY <1>1, <1>3 DEF Indexed, ListedFor, ListOf
<1>4. QED
  BY <1>2, <1>3

\* Of which records a list is filtered matters only for those of the ring.
LEMMA StimulusOnly ==
  ASSUME NEW T, NEW ring \in Seq(T), NEW big, NEW s, \A x \in ToSet(ring) : x \in ToSet(big)
  PROVE  Only(ring, Stimulus(s, big)) = Only(ring, Stimulus(s, ring))
<1>1. \A i \in 1..Len(ring) : ring[i] \in ToSet(ring)
  BY DEF ToSet
<1>2. \A i \in 1..Len(ring) : ring[i] \in Stimulus(s, big) <=> ring[i] \in Stimulus(s, ring)
  BY <1>1 DEF Stimulus
<1>3. QED
  BY <1>2, OnlySame

\* A record is added to the ring and to the list of its stimulus.
LEMMA ListedIndex ==
  ASSUME NEW T, NEW ring \in Seq(T), NEW r \in T, NEW index, Indexed(index, ring)
  PROVE  Indexed(Listed(index, r), Append(ring, r))
<1> DEFINE big == Append(ring, r)
<1>1. big \in Seq(T) /\ ToSet(big) = ToSet(ring) \cup {r}
  BY RangeFacts
<1>2. Absent \notin DOMAIN index /\ \A s : s # Absent => ListedFor(index, ring, s)
  BY IndexedIs
<1>3. ASSUME NEW s, s # Absent
      PROVE  Only(big, Stimulus(s, big)) =
               IF r.stimulus = s THEN Append(ListOf(index, s), r) ELSE ListOf(index, s)
  <2>1. Only(big, Stimulus(s, big)) = IF r \in Stimulus(s, big)
                                        THEN Append(Only(ring, Stimulus(s, big)), r)
                                        ELSE Only(ring, Stimulus(s, big))
    BY OnlyAppend
  <2>2. Only(ring, Stimulus(s, big)) = Only(ring, Stimulus(s, ring))
    BY <1>1, StimulusOnly
  <2>3. ListOf(index, s) = Only(ring, Stimulus(s, ring))
    BY <1>2, <1>3 DEF ListedFor
  <2>4. r \in Stimulus(s, big) <=> r.stimulus = s
    BY <1>1 DEF Stimulus
  <2>5. QED
    BY <2>1, <2>2, <2>3, <2>4
<1>4. \A s : s # Absent => Append(ListOf(index, s), r) # << >>
  <2>1. \A s : s # Absent => ListOf(index, s) \in Seq(T)
    <3>1. \A s : Only(ring, Stimulus(s, ring)) \in Seq(T)
      BY OnlyFacts
    <3>2. QED
      BY <1>2, <3>1 DEF ListedFor
  <2>2. \A p \in Seq(T) : Append(p, r) # << >>
    OBVIOUS
  <2>3. QED
    BY <2>1, <2>2
<1> HIDE DEF big
<1> DEFINE new == Listed(index, r)
<1>5. Absent \notin DOMAIN new
  BY <1>2 DEF Listed, WithList
<1>6. ASSUME NEW s, s # Absent
      PROVE  ListedFor(new, big, s)
  <2>1. CASE r.stimulus = Absent
    <3>1. new = index /\ r.stimulus # s
      BY <1>6, <2>1 DEF Listed
    <3>2. QED
      BY <1>2, <1>3, <1>6, <3>1 DEF ListedFor
  <2>2. CASE r.stimulus = s
    <3>1. new = WithList(index, s, Append(ListOf(index, s), r))
      BY <1>6, <2>2 DEF Listed
    <3>2. s \in DOMAIN new /\ new[s] = Append(ListOf(index, s), r)
      BY <1>4, <1>6, <3>1 DEF WithList
    <3>3. ListOf(new, s) = Append(ListOf(index, s), r)
      BY <3>2 DEF ListOf
    <3>4. QED
      BY <1>3, <1>4, <1>6, <2>2, <3>2, <3>3 DEF ListedFor
  <2>3. CASE r.stimulus # s /\ r.stimulus # Absent
    <3>1. /\ s \in DOMAIN new <=> s \in DOMAIN index
          /\ s \in DOMAIN index => new[s] = index[s]
      BY <2>3 DEF Listed, WithList
    <3>2. ListOf(new, s) = ListOf(index, s)
      BY <3>1 DEF ListOf
    <3>3. QED
      BY <1>2, <1>3, <1>6, <2>3, <3>1, <3>2 DEF ListedFor
  <2>4. QED
    BY <2>1, <2>2, <2>3
<1>7. QED
  BY <1>1, <1>5, <1>6, IndexedIs DEF big, new

\* The oldest record leaves the ring and, at its head, the list of its stimulus.
LEMMA UnlistedIndex ==
  ASSUME NEW T, NEW ring \in Seq(T), ring # << >>, NEW index, Indexed(index, ring)
  PROVE  Indexed(Unlisted(index, Head(ring)), Tail(ring))
<1> DEFINE rest == Tail(ring)
           r == Head(ring)
           new == Unlisted(index, r)
<1>1. rest \in Seq(T) /\ ToSet(ring) = ToSet(rest) \cup {r}
  BY RangeFacts
<1>2. Absent \notin DOMAIN index /\ \A s : s # Absent => ListedFor(index, ring, s)
  BY IndexedIs
<1>3. ASSUME NEW s, s # Absent
      PROVE  IF r.stimulus = s
               THEN s \in DOMAIN index /\ Tail(index[s]) = Only(rest, Stimulus(s, rest))
               ELSE ListOf(index, s) = Only(rest, Stimulus(s, rest))
  <2>1. IF r \in Stimulus(s, ring)
          THEN /\ Only(ring, Stimulus(s, ring)) # << >>
               /\ Tail(Only(ring, Stimulus(s, ring))) = Only(rest, Stimulus(s, ring))
          ELSE Only(ring, Stimulus(s, ring)) = Only(rest, Stimulus(s, ring))
    BY OnlyTail
  <2>2. Only(rest, Stimulus(s, ring)) = Only(rest, Stimulus(s, rest))
    <3> HIDE DEF rest
    <3>1. QED
      BY <1>1, StimulusOnly
  <2>3. r \in Stimulus(s, ring) <=> r.stimulus = s
    BY <1>1 DEF Stimulus
  <2>4. ListedFor(index, ring, s)
    BY <1>2, <1>3
  <2>5. QED
    BY <2>1, <2>2, <2>3, <2>4 DEF ListedFor, ListOf
<1> HIDE DEF rest, r
<1>4. Absent \notin DOMAIN new
  BY <1>2 DEF Unlisted, WithList
<1>5. ASSUME NEW s, s # Absent
      PROVE  ListedFor(new, rest, s)
  <2> DEFINE list == Only(rest, Stimulus(s, rest))
  <2> HIDE DEF list
  <2>1. CASE r.stimulus = s
    <3>1. s \in DOMAIN index /\ Tail(index[s]) = list
      BY <1>3, <1>5, <2>1 DEF list
    <3>2. new = WithList(index, s, list)
      BY <2>1, <3>1 DEF Unlisted
    <3>3. /\ s \in DOMAIN new <=> list # << >>
          /\ list # << >> => new[s] = list
      BY <3>1, <3>2 DEF WithList
    <3>4. ListOf(new, s) = list
      BY <3>3 DEF ListOf
    <3>5. QED
      BY <3>3, <3>4 DEF ListedFor, list
  <2>2. CASE r.stimulus # s
    <3>1. /\ s \in DOMAIN new <=> s \in DOMAIN index
          /\ s \in DOMAIN index => new[s] = index[s]
      BY <2>2 DEF Unlisted, WithList
    <3>2. ListOf(new, s) = ListOf(index, s)
      BY <3>1 DEF ListOf
    <3>3. ListOf(index, s) = list
      BY <1>3, <1>5, <2>2 DEF list
    <3>4. ListedFor(index, ring, s) /\ ListOf(index, s) = Only(ring, Stimulus(s, ring))
      BY <1>2, <1>5 DEF ListedFor
    <3>5. QED
      BY <3>1, <3>2, <3>3, <3>4 DEF ListedFor, list
  <2>3. QED
    BY <2>1, <2>2
<1>6. QED
  BY <1>1, <1>4, <1>5, IndexedIs DEF rest, r, new

-----------------------------------------------------------------------------
\* What is heard goes to the ring and to the lists, and what is full drops its oldest.
LEMMA HeardKeepsRing ==
  ASSUME StoreAssumption, RingInv, NEW event, Heard(event), cleared' = cleared
  PROVE  RingInv'
<1> DEFINE r == Record(event)
           T == ToSet(heard) \cup ToSet(records) \cup {r}
           since == SubSeq(heard, cleared + 1, Len(heard))
           more == Append(records, r)
<1> HIDE DEF r
<1>1. /\ heard \in Seq(T) /\ records \in Seq(T) /\ r \in T /\ cleared \in 0..Len(heard)
      /\ MaxRecords \in Nat \ {0}
  <2>1. ToSet(heard) \subseteq T /\ ToSet(records) \subseteq T
    OBVIOUS
  <2>2. heard \in Seq(ToSet(heard)) /\ records \in Seq(ToSet(records))
    BY DEF RingInv
  <2> HIDE DEF T
  <2>3. heard \in Seq(T) /\ records \in Seq(T)
    BY <2>1, <2>2
  <2>4. QED
    BY <2>3 DEF RingInv, StoreAssumption, T
<1>2. heard' = Append(heard, r) /\ AppendRecord(r)
  BY DEF Heard, r
<1> HIDE DEF T
<1>3. heard' \in Seq(ToSet(heard')) /\ Len(heard') = Len(heard) + 1 /\ heard' \in Seq(T)
  <2>1. heard' \in Seq(T) /\ Len(heard') = Len(heard) + 1
    BY <1>1, <1>2
  <2>2. QED
    BY <2>1, RangeFacts
<1>4. more \in Seq(T) /\ more # << >>
  <2>1. \A p \in Seq(T) : Append(p, r) \in Seq(T) /\ Append(p, r) # << >>
    BY <1>1
  <2>2. QED
    BY <1>1, <2>1
<1>5. since \in Seq(T) /\ SubSeq(heard', cleared + 1, Len(heard')) = Append(since, r)
  <2>1. heard \in Seq(T)
    BY <1>1
  <2>2. r \in T
    BY <1>1
  <2>3. cleared \in 0..Len(heard)
    BY <1>1
  <2>4. /\ SubSeq(heard, cleared + 1, Len(heard)) \in Seq(T)
        /\ SubSeq(Append(heard, r), cleared + 1, Len(heard) + 1)
             = Append(SubSeq(heard, cleared + 1, Len(heard)), r)
    BY <2>1, <2>2, <2>3, RestAppend
  <2>5. QED
    BY <1>2, <1>3, <2>4
<1>6. Indexed(byStimulus, records) /\ records = LastOf(MaxRecords, since)
  BY DEF RingInv
<1>7. Indexed(Listed(byStimulus, r), more)
  BY <1>1, <1>6, ListedIndex
<1> HIDE DEF since, more
<1>8. LastOf(MaxRecords, Append(since, r)) = IF Len(records) + 1 > MaxRecords THEN Tail(more) ELSE more
  BY <1>1, <1>5, <1>6, LastOfAppend DEF more
<1>9. /\ records' = IF Len(records) + 1 > MaxRecords THEN Tail(more) ELSE more
      /\ Indexed(byStimulus', records') /\ records' \in Seq(T)
  <2>1. CASE Len(records) + 1 > MaxRecords
    <3>1. records' = Tail(more) /\ byStimulus' = Unlisted(Listed(byStimulus, r), Head(more))
      BY <1>2, <2>1 DEF AppendRecord, more
    <3>2. Indexed(Unlisted(Listed(byStimulus, r), Head(more)), Tail(more))
      BY <1>4, <1>7, UnlistedIndex
    <3>3. Tail(more) \in Seq(T)
      BY <1>4
    <3>4. QED
      BY <2>1, <3>1, <3>2, <3>3
  <2>2. CASE ~ (Len(records) + 1 > MaxRecords)
    <3>1. records' = more /\ byStimulus' = Listed(byStimulus, r)
      BY <1>2, <2>2 DEF AppendRecord, more
    <3>2. QED
      BY <1>4, <1>7, <2>2, <3>1
  <2>3. QED
    BY <2>1, <2>2
<1>10. records' \in Seq(ToSet(records'))
  BY <1>9, RangeFacts
<1>11. cleared' \in 0..Len(heard')
  BY <1>1, <1>3
<1>12. records' = LastOf(MaxRecords, SubSeq(heard', cleared' + 1, Len(heard')))
  BY <1>5, <1>8, <1>9
<1>13. Indexed(byStimulus, records)' <=> Indexed(byStimulus', records')
  BY DEF Indexed, Stimulus
<1>14. QED
  BY <1>3, <1>9, <1>10, <1>11, <1>12, <1>13 DEF RingInv

\* The traces are the last completed ones.
LEMMA TraceKept ==
  ASSUME StoreAssumption, TraceInv, NEW event, RecordTrace(event)
  PROVE  TraceInv'
<1>1. CASE IsTrace(event)
  <2> DEFINE x == ExtractStimulusId(event.at)
             T == ToSet(completed) \cup {x}
  <2> HIDE DEF x
  <2>1. completed \in Seq(T) /\ x \in T
    <3>1. completed \in Seq(ToSet(completed)) /\ ToSet(completed) \subseteq T
      BY DEF TraceInv
    <3> HIDE DEF T
    <3>2. completed \in Seq(T)
      BY <3>1
    <3>3. QED
      BY <3>2 DEF T
  <2>2. completed' = Append(completed, x) /\ traceRing' = LastOf(MaxRecords, Append(traceRing, x))
    BY <1>1 DEF RecordTrace, x
  <2> HIDE DEF T
  <2>3. completed' \in Seq(ToSet(completed'))
    <3>1. completed' \in Seq(T)
      BY <2>1, <2>2
    <3>2. QED
      BY <3>1, RangeFacts
  <2>4. MaxRecords \in Nat \ {0}
    BY DEF StoreAssumption
  <2>5. LastOf(MaxRecords, Append(LastOf(MaxRecords, completed), x))
          = LastOf(MaxRecords, Append(completed, x))
    BY <2>1, <2>4, LastOfAppend
  <2>6. QED
    BY <2>2, <2>3, <2>5 DEF TraceInv
<1>2. CASE ~ IsTrace(event)
  BY <1>2 DEF RecordTrace, TraceInv
<1>3. QED
  BY <1>1, <1>2

\* clear() starts the ring again.
LEMMA ClearKeepsRing ==
  ASSUME StoreAssumption, RingInv, Clear
  PROVE  RingInv'
<1>1. /\ records' = << >> /\ byStimulus' = << >> /\ cleared' = Len(heard) /\ heard' = heard
      /\ heard \in Seq(ToSet(heard))
  BY DEF Clear, RingInv
<1>2. SubSeq(heard, Len(heard) + 1, Len(heard)) = << >> /\ Len(heard) \in 0..Len(heard)
  BY <1>1
<1>3. LastOf(MaxRecords, << >>) = << >>
  <2>1. Len(<< >>) <= MaxRecords
    BY DEF StoreAssumption
  <2>2. QED
    BY <2>1 DEF LastOf
<1>4. Indexed(byStimulus, records)'
  BY <1>1 DEF Indexed, ToSet
<1>5. << >> \in Seq(ToSet(<< >>))
  OBVIOUS
<1>6. QED
  BY <1>1, <1>2, <1>3, <1>4, <1>5 DEF RingInv

-----------------------------------------------------------------------------
\* What is recorded of a gateway's event.
LEMMA GatewayRecord ==
  ASSUME NEW status, NEW about, NEW diagnostics
  PROVE  LET r == Record(GatewayEvent(status, about, diagnostics))
         IN  /\ r.name = Gateway(status) /\ r.kind = "gateway"
             /\ r.status = IF status \in Statuses THEN status ELSE "completed"
             /\ r.stimulus = FirstString(about)
             /\ r.meta.diagnostics = diagnostics /\ r.meta.component = Absent
<1> DEFINE event == GatewayEvent(status, about, diagnostics)
           at == event.at
           strings == [i \in DOMAIN StimulusPaths |-> StringAt(at, StimulusPaths[i])]
<1>1. /\ event.name = << "gateway", status >>
      /\ at = [path \in {"request.metadata.sourceStimulusIds"} |-> about]
      /\ event.meta.diagnostics = diagnostics /\ event.meta.component = Absent
  BY DEF GatewayEvent, Gateway, NoDetail
<1>2. Head(event.name) = "gateway" /\ Last(event.name) = status
  BY <1>1 DEF Last
<1>3. KindFromEvent(event.name) = "gateway"
  BY <1>2 DEF KindFromEvent, Kinds
<1>4. StatusFromEvent(event.name) = IF status \in Statuses THEN status ELSE "completed"
  <2> HIDE DEF event
  <2>1. QED
    BY <1>2 DEF StatusFromEvent
<1>5. ExtractStimulusId(at) = FirstString(about)
  <2>1. /\ DOMAIN StimulusPaths = 1..12
        /\ \A i \in 1..12 : StimulusPaths[i] = "request.metadata.sourceStimulusIds" <=> i = 4
    BY DEF StimulusPaths
  <2> HIDE DEF at
  <2>2. \A i \in 1..12 : strings[i] = IF i = 4 THEN FirstString(about) ELSE Absent
    BY <1>1, <2>1 DEF StringAt
  <2>3. DOMAIN strings = 1..12
    BY <2>1
  <2> HIDE DEF strings
  <2>4. FirstString(strings) = FirstString(about)
    <3> DEFINE x == FirstString(about)
    <3> HIDE DEF x
    <3>1. CASE x = Absent
      BY <2>2, <2>3, <3>1 DEF FirstString, x
    <3>2. CASE x # Absent
      <4> DEFINE First(i) == strings[i] # Absent /\ \A j \in 1..(i - 1) : strings[j] = Absent
      <4>1. \A i \in 1..12 : First(i) <=> i = 4
        BY <2>2, <3>2 DEF x
      <4>2. (CHOOSE i \in DOMAIN strings : First(i)) = 4
        BY <2>3, <4>1
      <4>3. strings[4] = x /\ 4 \in DOMAIN strings
        BY <2>2, <2>3 DEF x
      <4>4. QED
        BY <3>2, <4>2, <4>3 DEF FirstString, x
    <3>3. QED
      BY <3>1, <3>2
  <2>5. QED
    BY <2>4 DEF ExtractStimulusId, strings
<1> HIDE DEF event, at
<1>6. QED
  BY <1>1, <1>3, <1>4, <1>5 DEF Record, Gateway, event, at

\* What is heard is told apart by its name; a repository's replacement follows.
LEMMA HeardKeepsHeard ==
  ASSUME RingInv, HeardInv, NEW event, Heard(event),
         LET r == Record(event)
         IN  r.kind = "repository" /\ r.status # "failed" =>
               \/ r.name = Repository("initialized")
               \/ \E q \in ToSet(heard) : /\ q.name = Repository("initialized")
                                          /\ q.meta.component = r.meta.component
  PROVE  HeardInv'
<1> DEFINE r == Record(event)
<1>1. r.kind = KindFromEvent(r.name) /\ r.status = StatusFromEvent(r.name)
  BY DEF Record
<1> HIDE DEF r
<1>2. ToSet(heard') = ToSet(heard) \cup {r}
  <2> DEFINE T == ToSet(heard) \cup {r}
  <2>1. heard \in Seq(ToSet(heard)) /\ ToSet(heard) \subseteq T /\ r \in T
    BY DEF RingInv
  <2> HIDE DEF T
  <2>2. heard \in Seq(T)
    BY <2>1
  <2>3. heard' = Append(heard, r)
    BY DEF Heard, r
  <2>4. QED
    BY <2>1, <2>2, <2>3, RangeFacts
<1>3. SUFFICES ASSUME NEW q \in ToSet(heard')
               PROVE  /\ q.kind = KindFromEvent(q.name) /\ q.status = StatusFromEvent(q.name)
                      /\ q.kind = "repository" /\ q.status # "failed" =>
                           \E x \in ToSet(heard') : /\ x.name = Repository("initialized")
                                                    /\ x.meta.component = q.meta.component
  BY DEF HeardInv
<1>4. CASE q \in ToSet(heard)
  BY <1>2, <1>4 DEF HeardInv
<1>5. CASE q = r
  BY <1>1, <1>2, <1>5 DEF r
<1>6. QED
  BY <1>2, <1>4, <1>5

-----------------------------------------------------------------------------
\* Whatever of the gateway's records is picked.
LEMMA Picked ==
  ASSUME RingInv, AccountInv, NEW picked, \A r \in ToSet(heard) : r \in picked => r.kind = "gateway"
  PROVE  Len(Only(heard, picked)) = Cardinality(AskedOf(picked)) + Cardinality(ToldOf(picked))
<1> DEFINE old == picked \cap ToSet(heard)
<1>1. old \in SUBSET GatewayRecords
  BY DEF GatewayRecords
<1>2. Only(heard, picked) = Only(heard, old)
  <2>1. \A i \in 1..Len(heard) : heard[i] \in ToSet(heard)
    BY DEF ToSet
  <2>2. \A i \in 1..Len(heard) : heard[i] \in picked <=> heard[i] \in old
    BY <2>1
  <2>3. heard \in Seq(ToSet(heard))
    BY DEF RingInv
  <2> HIDE DEF old
  <2>4. QED
    BY <2>2, <2>3, OnlySame
<1>3. AskedOf(picked) = AskedOf(old) /\ ToldOf(picked) = ToldOf(old)
  BY DEF AccountInv, AskedOf, ToldOf
<1> HIDE DEF old
<1>4. Len(Only(heard, old)) = Cardinality(AskedOf(old)) + Cardinality(ToldOf(old))
  BY <1>1 DEF AccountInv
<1>5. QED
  BY <1>2, <1>3, <1>4

\* One more record is heard.
LEMMA HeardOneMoreCall ==
  ASSUME RingInv, NEW r, heard' = Append(heard, r)
  PROVE  /\ ToSet(heard') = ToSet(heard) \cup {r}
         /\ \A picked : Len(Only(heard', picked)) =
              IF r \in picked THEN Len(Only(heard, picked)) + 1 ELSE Len(Only(heard, picked))
         /\ \A picked : Len(Only(heard, picked)) \in Nat
<1> DEFINE T == ToSet(heard) \cup {r}
<1>1. heard \in Seq(T) /\ r \in T
  <2>1. heard \in Seq(ToSet(heard)) /\ ToSet(heard) \subseteq T
    BY DEF RingInv
  <2> HIDE DEF T
  <2>2. heard \in Seq(T)
    BY <2>1
  <2>3. QED
    BY <2>2 DEF T
<1> HIDE DEF T
<1>2. ToSet(heard') = ToSet(heard) \cup {r}
  BY <1>1, RangeFacts
<1>3. ASSUME NEW picked
      PROVE  /\ Len(Only(heard', picked)) =
                  IF r \in picked THEN Len(Only(heard, picked)) + 1 ELSE Len(Only(heard, picked))
             /\ Len(Only(heard, picked)) \in Nat
  <2> DEFINE p == Only(heard, picked)
  <2>1. p \in Seq(T)
    BY <1>1, OnlyFacts
  <2>2. Only(heard', picked) = IF r \in picked THEN Append(p, r) ELSE p
    BY <1>1, OnlyAppend
  <2> HIDE DEF p
  <2>3. Len(Append(p, r)) = Len(p) + 1 /\ Len(p) \in Nat
    BY <1>1, <2>1
  <2>4. QED
    BY <2>2, <2>3 DEF p
<1>4. QED
  BY <1>2, <1>3

\* One more call is counted if its record is among the picked.
LEMMA OneMoreCall ==
  ASSUME NEW S, NEW S2, NEW c, NEW yes, IsFiniteSet(S), c \notin S,
         \A d : d \in S2 <=> d \in S \/ (d = c /\ yes = TRUE), yes \in BOOLEAN
  PROVE  Cardinality(S2) = IF yes THEN Cardinality(S) + 1 ELSE Cardinality(S)
<1>1. CASE yes
  <2>1. S2 = S \cup {c}
    BY <1>1
  <2>2. QED
    BY <1>1, <2>1, FS_AddElement
<1>2. CASE ~ yes
  <2>1. S2 = S
    BY <1>2
  <2>2. QED
    BY <1>2, <2>1
<1>3. QED
  BY <1>1, <1>2

\* Calls are finitely many.
LEMMA CallsFinite ==
  ASSUME StoreAssumption, NEW picked
  PROVE  /\ IsFiniteSet(AskedOf(picked)) /\ IsFiniteSet(ToldOf(picked))
         /\ Cardinality(AskedOf(picked)) \in Nat /\ Cardinality(ToldOf(picked)) \in Nat
<1>1. AskedOf(picked) \in SUBSET Calls /\ ToldOf(picked) \in SUBSET Calls
  BY DEF AskedOf, ToldOf, Requested, Reported, CallsIn
<1>2. IsFiniteSet(Calls)
  BY DEF StoreAssumption
<1>3. IsFiniteSet(AskedOf(picked)) /\ IsFiniteSet(ToldOf(picked))
  BY <1>1, <1>2, FS_Subset
<1>4. QED
  BY <1>3, FS_CardinalityType

\* A call asks.
LEMMA AskedIsAccounted ==
  ASSUME StoreAssumption, RingInv, AccountInv, NEW c \in Calls, c \notin Requested,
         Requested' = Requested \cup {c}, Reported' = Reported,
         \A d \in Calls : d # c => calls'[d] = calls[d],
         heard' = Append(heard, Asked(calls'[c])), Asked(calls'[c]).kind = "gateway"
  PROVE  AccountInv'
<1> DEFINE r == Asked(calls'[c])
<1>1. ToSet(heard') = ToSet(heard) \cup {r}
  BY HeardOneMoreCall
<1>2. Requested \subseteq Calls /\ Reported \subseteq Requested
  BY DEF Requested, Reported, CallsIn
<1>3. \A d \in Requested' : Asked(calls'[d]) \in ToSet(heard')
  BY <1>1, <1>2 DEF AccountInv
<1>4. \A d \in Reported' : Told(calls'[d]) \in ToSet(heard')
  BY <1>1, <1>2 DEF AccountInv
<1>5. ASSUME NEW picked \in SUBSET GatewayRecords'
      PROVE  Len(Only(heard', picked)) = Cardinality(AskedOf(picked)') + Cardinality(ToldOf(picked)')
  <2>1. \A q \in ToSet(heard) : q \in picked => q.kind = "gateway"
    BY DEF GatewayRecords
  <2>2. Len(Only(heard, picked)) = Cardinality(AskedOf(picked)) + Cardinality(ToldOf(picked))
    BY <2>1, Picked
  <2> DEFINE yes == r \in picked
  <2>3. Len(Only(heard', picked)) = IF yes THEN Len(Only(heard, picked)) + 1
                                           ELSE Len(Only(heard, picked))
    BY HeardOneMoreCall
  <2>4. /\ IsFiniteSet(AskedOf(picked)) /\ Cardinality(AskedOf(picked)) \in Nat
        /\ Cardinality(ToldOf(picked)) \in Nat
    BY CallsFinite
  <2>5. c \notin AskedOf(picked)
    BY DEF AskedOf
  <2>6. \A d : d \in AskedOf(picked)' <=> d \in AskedOf(picked) \/ (d = c /\ yes = TRUE)
    BY <1>2 DEF AskedOf
  <2>7. ToldOf(picked)' = ToldOf(picked)
    BY <1>2 DEF ToldOf
  <2>8. yes \in BOOLEAN
    OBVIOUS
  <2> HIDE DEF yes
  <2>9. Cardinality(AskedOf(picked)') = IF yes THEN Cardinality(AskedOf(picked)) + 1
                                               ELSE Cardinality(AskedOf(picked))
    BY <2>4, <2>5, <2>6, <2>8, OneMoreCall
  <2>10. QED
    BY <2>2, <2>3, <2>4, <2>7, <2>9
<1>6. QED
  BY <1>3, <1>4, <1>5 DEF AccountInv

\* A call tells how it ended.
LEMMA ToldIsAccounted ==
  ASSUME StoreAssumption, RingInv, AccountInv, NEW c \in Requested, c \notin Reported,
         Requested' = Requested, Reported' = Reported \cup {c},
         \A d \in Calls : d # c => calls'[d] = calls[d], Asked(calls'[c]) = Asked(calls[c]),
         heard' = Append(heard, Told(calls'[c])), Told(calls'[c]).kind = "gateway"
  PROVE  AccountInv'
<1> DEFINE r == Told(calls'[c])
<1>1. ToSet(heard') = ToSet(heard) \cup {r}
  BY HeardOneMoreCall
<1>2. Requested \subseteq Calls /\ Reported \subseteq Requested
  BY DEF Requested, Reported, CallsIn
<1>3. \A d \in Requested : Asked(calls'[d]) = Asked(calls[d])
  BY <1>2
<1>4. \A d \in Requested' : Asked(calls'[d]) \in ToSet(heard')
  BY <1>1, <1>3 DEF AccountInv
<1>5. \A d \in Reported' : Told(calls'[d]) \in ToSet(heard')
  BY <1>1, <1>2 DEF AccountInv
<1>6. ASSUME NEW picked \in SUBSET GatewayRecords'
      PROVE  Len(Only(heard', picked)) = Cardinality(AskedOf(picked)') + Cardinality(ToldOf(picked)')
  <2>1. \A q \in ToSet(heard) : q \in picked => q.kind = "gateway"
    BY DEF GatewayRecords
  <2>2. Len(Only(heard, picked)) = Cardinality(AskedOf(picked)) + Cardinality(ToldOf(picked))
    BY <2>1, Picked
  <2> DEFINE yes == r \in picked
  <2>3. Len(Only(heard', picked)) = IF yes THEN Len(Only(heard, picked)) + 1
                                           ELSE Len(Only(heard, picked))
    BY HeardOneMoreCall
  <2>4. /\ IsFiniteSet(ToldOf(picked)) /\ Cardinality(AskedOf(picked)) \in Nat
        /\ Cardinality(ToldOf(picked)) \in Nat
    BY CallsFinite
  <2>5. c \notin ToldOf(picked)
    BY DEF ToldOf
  <2>6. \A d : d \in ToldOf(picked)' <=> d \in ToldOf(picked) \/ (d = c /\ yes = TRUE)
    BY <1>2 DEF ToldOf
  <2>7. AskedOf(picked)' = AskedOf(picked)
    BY <1>3 DEF AskedOf
  <2>8. yes \in BOOLEAN
    OBVIOUS
  <2> HIDE DEF yes
  <2>9. Cardinality(ToldOf(picked)') = IF yes THEN Cardinality(ToldOf(picked)) + 1
                                              ELSE Cardinality(ToldOf(picked))
    BY <2>4, <2>5, <2>6, <2>8, OneMoreCall
  <2>10. QED
    BY <2>2, <2>3, <2>4, <2>7, <2>9
<1>7. QED
  BY <1>4, <1>5, <1>6 DEF AccountInv

\* Neither asks nor tells: at most another component's event is heard.
LEMMA OthersAreNotAccounted ==
  ASSUME StoreAssumption, RingInv, AccountInv, Requested' = Requested, Reported' = Reported,
         \A c \in Requested : Asked(calls'[c]) = Asked(calls[c]),
         \A c \in Reported : Told(calls'[c]) = Told(calls[c]),
         heard' = heard \/ \E r : heard' = Append(heard, r) /\ r.kind # "gateway"
  PROVE  AccountInv'
<1>1. /\ ToSet(heard) \subseteq ToSet(heard') /\ GatewayRecords' = GatewayRecords
      /\ \A picked \in SUBSET GatewayRecords : Len(Only(heard', picked)) = Len(Only(heard, picked))
  <2>1. CASE heard' = heard
    BY <2>1 DEF GatewayRecords
  <2>2. ASSUME NEW r, heard' = Append(heard, r), r.kind # "gateway"
        PROVE  /\ ToSet(heard) \subseteq ToSet(heard') /\ GatewayRecords' = GatewayRecords
               /\ \A picked \in SUBSET GatewayRecords :
                    Len(Only(heard', picked)) = Len(Only(heard, picked))
    <3>1. ToSet(heard') = ToSet(heard) \cup {r}
      BY <2>2, HeardOneMoreCall
    <3>2. GatewayRecords' = GatewayRecords /\ r \notin GatewayRecords
      BY <2>2, <3>1 DEF GatewayRecords
    <3>3. \A picked : r \notin picked => Len(Only(heard', picked)) = Len(Only(heard, picked))
      BY <2>2, HeardOneMoreCall
    <3>4. QED
      BY <3>1, <3>2, <3>3
  <2>3. QED
    BY <2>1, <2>2
<1>2. \A picked : AskedOf(picked)' = AskedOf(picked) /\ ToldOf(picked)' = ToldOf(picked)
  BY DEF AskedOf, ToldOf
<1>3. QED
  BY <1>1, <1>2 DEF AccountInv

-----------------------------------------------------------------------------
\* Attempts, and how a call that fails blames its last one.
LEMMA TriedFacts ==
  ASSUME NEW call \in CallRecords, NEW code, NEW class, Attempt(code, class) \in Attempts
  PROVE  /\ Tried(call, code, class) \in CallRecords /\ Tried(call, code, class).pc = call.pc
         /\ Tried(call, code, class).about = call.about
         /\ Tried(call, code, class).attempts = Append(call.attempts, Attempt(code, class))
<1> DEFINE list == Append(call.attempts, Attempt(code, class))
<1>1. call.attempts \in Seq(Attempts) /\ call.tried + 1 \in Nat
  BY DEF CallRecords
<1>2. list \in Seq(Attempts)
  BY <1>1
<1> HIDE DEF list
<1>3. Tried(call, code, class) = [call EXCEPT !.attempts = list, !.tried = call.tried + 1]
  BY DEF Tried, list
<1>4. QED
  BY <1>1, <1>2, <1>3 DEF CallRecords, list

\* An attempt that fails is the one its call blames.
LEMMA FailedFacts ==
  ASSUME NEW call \in CallRecords, NEW code, NEW class, Attempt(code, class) \in Attempts,
         code # Absent
  PROVE  /\ Failed(call, code, class) \in CallRecords /\ Failed(call, code, class).pc = call.pc
         /\ Failed(call, code, class).about = call.about /\ Blamed(Failed(call, code, class))
<1> DEFINE tried == Tried(call, code, class)
           failed == Failed(call, code, class)
<1>1. /\ tried \in CallRecords /\ tried.pc = call.pc /\ tried.about = call.about
      /\ tried.attempts = Append(call.attempts, Attempt(code, class))
  BY TriedFacts
<1>2. failed = [tried EXCEPT !.code = code]
  BY DEF Failed
<1> HIDE DEF tried, failed
<1>3. Attempt(code, class).code = code /\ code \in {a.code : a \in Attempts}
  BY DEF Attempt
<1>4. /\ failed \in CallRecords /\ failed.pc = tried.pc /\ failed.about = tried.about
      /\ failed.attempts = tried.attempts /\ failed.code = code
  BY <1>1, <1>2, <1>3 DEF CallRecords
<1>5. Blamed(failed)
  <2> DEFINE attempt == Attempt(code, class)
             list == Append(call.attempts, attempt)
  <2>1. attempt \in Attempts /\ attempt.code = code /\ call.attempts \in Seq(Attempts)
    BY <1>3 DEF CallRecords
  <2> HIDE DEF attempt
  <2>2. list # << >> /\ list[Len(list)] = attempt
    BY <2>1
  <2>3. failed.attempts = list
    BY <1>1, <1>4 DEF attempt
  <2> HIDE DEF list
  <2>4. QED
    BY <1>4, <2>1, <2>2, <2>3 DEF Blamed, Last
<1>6. QED
  BY <1>1, <1>4, <1>5 DEF failed

\* The gateway tells nothing of a repository.
LEMMA GatewayHeard ==
  ASSUME RingInv, HeardInv, NEW status, NEW about, NEW diagnostics,
         Heard(GatewayEvent(status, about, diagnostics))
  PROVE  HeardInv'
<1>1. Record(GatewayEvent(status, about, diagnostics)).kind # "repository"
  BY GatewayRecord
<1>2. QED
  BY <1>1, HeardKeepsHeard

\* A call starts.
LEMMA RequestKeeps ==
  ASSUME StoreAssumption, ObservatoryInv, NEW c \in Calls, NEW request \in RequestsOf[c],
         Request(c, request.about, request.slots)
  PROVE  ObservatoryInv'
<1> USE DEF ObservatoryInv
<1> DEFINE about == request.about
           state == IF request.slots = 0 THEN "thrown" ELSE "trying"
           call == [NoCall EXCEPT !.pc = state, !.about = about, !.slots = request.slots, !.slot = 1]
           event == GatewayEvent("requested", about, << >>)
<1>1. /\ calls[c] = NoCall /\ calls' = [calls EXCEPT ![c] = call] /\ Heard(event)
      /\ cleared' = cleared /\ traceRing' = traceRing /\ completed' = completed
  BY DEF Request
<1>2. RingInv'
  BY <1>1, HeardKeepsRing
<1>3. HeardInv'
  BY <1>1, GatewayHeard
<1>4. call \in CallRecords /\ call.pc = state /\ call.about = about
  <2>1. request \in Requests
    BY DEF Requests
  <2>2. Absent \in {a.code : a \in Attempts}
    <3>1. Attempt(Absent, Absent) \in Attempts
      BY DEF Attempts
    <3>2. Attempt(Absent, Absent).code = Absent
      BY DEF Attempt
    <3>3. QED
      BY <3>1, <3>2
  <2>3. << >> \in Seq(Attempts)
    OBVIOUS
  <2>4. QED
    BY <2>1, <2>2, <2>3 DEF CallRecords, NoCall
<1> HIDE DEF call
<1>5. calls' \in [Calls -> CallRecords] /\ calls'[c] = call /\ \A d \in Calls : d # c => calls'[d] = calls[d]
  BY <1>1, <1>4 DEF CallInv
<1>6. calls[c].pc = "idle" /\ calls'[c].pc \in {"thrown", "trying"}
  BY <1>1, <1>4, <1>5 DEF NoCall
<1>7. CallInv'
  BY <1>5, <1>6 DEF CallInv, CallsIn
<1>8. c \notin Requested /\ Requested' = Requested \cup {c} /\ Reported' = Reported
  BY <1>5, <1>6 DEF Requested, Reported, CallsIn
<1>9. Asked(calls'[c]) = Record(event)
  BY <1>4, <1>5 DEF Asked
<1>10. heard' = Append(heard, Asked(calls'[c])) /\ Asked(calls'[c]).kind = "gateway"
  BY <1>1, <1>9, GatewayRecord DEF Heard
<1>11. AccountInv'
  BY <1>5, <1>8, <1>10, AskedIsAccounted
<1>12. TraceInv'
  BY <1>1 DEF TraceInv
<1>13. QED
  BY <1>2, <1>3, <1>7, <1>11, <1>12

\* A call ends and is told of.
LEMMA EndedKeeps ==
  ASSUME StoreAssumption, ObservatoryInv, NEW c \in Calls, calls[c].pc = "trying",
         NEW call \in CallRecords, call.about = calls[c].about,
         NEW status \in {"responded", "failed"}, status = "failed" => Blamed(call),
         Ended(c, status, call)
  PROVE  ObservatoryInv'
<1> USE DEF ObservatoryInv
<1> DEFINE new == [call EXCEPT !.pc = status]
           event == GatewayEvent(status, call.about, Finalized(call))
<1>1. /\ calls' = [calls EXCEPT ![c] = new] /\ Heard(event)
      /\ cleared' = cleared /\ traceRing' = traceRing /\ completed' = completed
  BY DEF Ended
<1>2. RingInv'
  BY <1>1, HeardKeepsRing
<1>3. HeardInv'
  BY <1>1, GatewayHeard
<1>4. /\ new \in CallRecords /\ new.pc = status /\ new.about = call.about /\ new.slot = call.slot
      /\ new.attempts = call.attempts /\ new.code = call.code
  BY DEF CallRecords
<1> HIDE DEF new
<1>5. calls' \in [Calls -> CallRecords] /\ calls'[c] = new /\ \A d \in Calls : d # c => calls'[d] = calls[d]
  BY <1>1, <1>4 DEF CallInv
<1>6. CallInv'
  <2>1. status = "failed" => Blamed(new)
    BY <1>4 DEF Blamed
  <2>2. QED
    BY <1>4, <1>5, <2>1 DEF CallInv, CallsIn
<1>7. /\ c \in Requested /\ c \notin Reported
      /\ Requested' = Requested /\ Reported' = Reported \cup {c}
  BY <1>4, <1>5 DEF Requested, Reported, CallsIn
<1>8. Asked(calls'[c]) = Asked(calls[c])
  BY <1>4, <1>5 DEF Asked
<1>9. Told(calls'[c]) = Record(event)
  BY <1>4, <1>5 DEF Told, Finalized
<1>10. heard' = Append(heard, Told(calls'[c])) /\ Told(calls'[c]).kind = "gateway"
  BY <1>1, <1>9, GatewayRecord DEF Heard
<1>11. AccountInv'
  BY <1>5, <1>7, <1>8, <1>10, ToldIsAccounted
<1>12. TraceInv'
  BY <1>1 DEF TraceInv
<1>13. QED
  BY <1>2, <1>3, <1>6, <1>11, <1>12

\* A call tries again, unheard.
LEMMA AgainKeeps ==
  ASSUME StoreAssumption, ObservatoryInv, NEW c \in Calls, calls[c].pc = "trying",
         NEW call \in CallRecords, call.pc = "trying", call.about = calls[c].about, Again(c, call)
  PROVE  ObservatoryInv'
<1> USE DEF ObservatoryInv
<1>1. /\ calls' = [calls EXCEPT ![c] = call] /\ records' = records /\ byStimulus' = byStimulus
      /\ traceRing' = traceRing /\ heard' = heard /\ completed' = completed /\ cleared' = cleared
  BY DEF Again
<1>2. calls' \in [Calls -> CallRecords] /\ calls'[c] = call /\ \A d \in Calls : d # c => calls'[d] = calls[d]
  BY <1>1 DEF CallInv
<1>3. CallInv'
  BY <1>2 DEF CallInv, CallsIn
<1>4. Requested' = Requested /\ Reported' = Reported /\ c \notin Reported /\ Reported \subseteq Calls
      /\ Requested \subseteq Calls
  BY <1>2 DEF Requested, Reported, CallsIn
<1>5. \A d \in Requested : Asked(calls'[d]) = Asked(calls[d])
  BY <1>2, <1>4 DEF Asked
<1>6. \A d \in Reported : Told(calls'[d]) = Told(calls[d])
  BY <1>2, <1>4
<1>7. AccountInv'
  BY <1>1, <1>4, <1>5, <1>6, OthersAreNotAccounted
<1>8. RingInv' /\ TraceInv' /\ HeardInv'
  BY <1>1 DEF RingInv, TraceInv, HeardInv, Indexed, Stimulus
<1>9. QED
  BY <1>3, <1>7, <1>8

\* A candidate fails: the next one is tried, or the call fails.
LEMMA FailAtKeeps ==
  ASSUME StoreAssumption, ObservatoryInv, NEW c \in Calls, calls[c].pc = "trying",
         NEW code, NEW class, Attempt(code, class) \in Attempts, code # Absent,
         NEW fallback, FailAt(c, Failed(calls[c], code, class), fallback)
  PROVE  ObservatoryInv'
<1> DEFINE call == Failed(calls[c], code, class)
           next == [call EXCEPT !.slot = @ + 1, !.tried = 0]
<1>1. calls[c] \in CallRecords
  BY DEF ObservatoryInv, CallInv
<1>2. /\ call \in CallRecords /\ call.pc = "trying" /\ call.about = calls[c].about
      /\ Blamed(call)
  BY <1>1, FailedFacts
<1> HIDE DEF call
<1>3. CASE fallback /\ call.slot < call.slots
  <2>1. Again(c, next)
    BY <1>3 DEF FailAt, call
  <2>2. next \in CallRecords /\ next.pc = "trying" /\ next.about = calls[c].about
    <3> DEFINE slot == call.slot + 1
    <3>1. slot \in Nat /\ next = [call EXCEPT !.slot = slot, !.tried = 0]
      BY <1>2 DEF CallRecords
    <3> HIDE DEF slot, next
    <3>2. QED
      BY <1>2, <3>1 DEF CallRecords
  <2> HIDE DEF next
  <2>3. QED
    BY <2>1, <2>2, AgainKeeps
<1>4. CASE ~ (fallback /\ call.slot < call.slots)
  <2>1. Ended(c, "failed", call)
    BY <1>4 DEF FailAt, call
  <2>2. QED
    BY <1>2, <2>1, EndedKeeps
<1>5. QED
  BY <1>3, <1>4

\* A call is answered.
LEMMA RespondKeeps ==
  ASSUME StoreAssumption, ObservatoryInv, NEW c \in Calls, Respond(c)
  PROVE  ObservatoryInv'
<1> DEFINE call == Tried(calls[c], Absent, Absent)
<1>1. calls[c] \in CallRecords
  BY DEF ObservatoryInv, CallInv
<1>2. Attempt(Absent, Absent) \in Attempts
  BY DEF Attempts
<1>3. call \in CallRecords /\ call.about = calls[c].about
  BY <1>1, <1>2, TriedFacts
<1>4. calls[c].pc = "trying" /\ Ended(c, "responded", call)
  BY DEF Respond
<1> HIDE DEF call
<1>5. QED
  BY <1>3, <1>4, EndedKeeps

\* A candidate is tried again.
LEMMA RetryKeeps ==
  ASSUME StoreAssumption, ErrorAssumption, ObservatoryInv, NEW c \in Calls, NEW error \in Errors,
         Retry(c, error)
  PROVE  ObservatoryInv'
<1> DEFINE call == Failed(calls[c], error.code, error.class)
<1>1. calls[c] \in CallRecords
  BY DEF ObservatoryInv, CallInv
<1>2. Attempt(error.code, error.class) \in Attempts /\ error.code # Absent
  BY DEF Attempts, ErrorAssumption
<1>3. calls[c].pc = "trying" /\ Again(c, call)
  BY DEF Retry
<1>4. call \in CallRecords /\ call.pc = "trying" /\ call.about = calls[c].about
  BY <1>1, <1>2, <1>3, FailedFacts
<1> HIDE DEF call
<1>5. QED
  BY <1>3, <1>4, AgainKeeps

\* Another component tells of something.
LEMMA ObserveKeeps ==
  ASSUME StoreAssumption, EventAssumption, ObservatoryInv, NEW event \in Ambient, Observe(event)
  PROVE  ObservatoryInv'
<1> USE DEF ObservatoryInv
<1> DEFINE r == Record(event)
<1>1. /\ InTurn(event) /\ RecordTrace(event) /\ Heard(event)
      /\ calls' = calls /\ cleared' = cleared /\ heard' = Append(heard, r)
  BY DEF Observe, Heard
<1>2. Head(event.name) # "gateway" /\ r.name = event.name /\ r.meta = event.meta
      /\ r.kind = KindFromEvent(event.name)
  BY DEF EventAssumption, Record
<1>3. r.kind # "gateway"
  BY <1>2 DEF KindFromEvent
<1>4. RingInv' /\ TraceInv'
  BY <1>1, HeardKeepsRing, TraceKept
<1>5. HeardInv'
  <2>1. r.kind = "repository" => Head(event.name) = "repository"
    BY <1>2 DEF KindFromEvent
  <2>2. r.kind = "repository" /\ r.status # "failed" =>
          event.name \in {Repository("initialized"), Repository("fallback-to-memory")}
    <3>1. r.status = StatusFromEvent(event.name)
      BY DEF Record
    <3>2. \A what : Last(RepositoryFailed(what)) = "failed"
      BY DEF RepositoryFailed, Last
    <3>3. \A what : StatusFromEvent(RepositoryFailed(what)) = "failed"
      BY <3>2 DEF StatusFromEvent, Statuses
    <3> HIDE DEF r
    <3>4. QED
      BY <2>1, <3>1, <3>3 DEF EventAssumption
  <2>3. r.kind = "repository" /\ r.status # "failed" =>
          \/ r.name = Repository("initialized")
          \/ \E q \in ToSet(heard) : /\ q.name = Repository("initialized")
                                     /\ q.meta.component = r.meta.component
    BY <1>1, <1>2, <2>2 DEF InTurn, ToSet
  <2>4. QED
    BY <1>1, <2>3, HeardKeepsHeard
<1> HIDE DEF r
<1>6. AccountInv'
  <2>1. Requested' = Requested /\ Reported' = Reported
    BY <1>1 DEF Requested, Reported, CallsIn
  <2>2. \A c : Asked(calls'[c]) = Asked(calls[c]) /\ Told(calls'[c]) = Told(calls[c])
    BY <1>1
  <2>3. QED
    BY <1>1, <1>3, <2>1, <2>2, OthersAreNotAccounted
<1>7. CallInv'
  BY <1>1 DEF CallInv, CallsIn
<1>8. QED
  BY <1>4, <1>5, <1>6, <1>7

\* The store is emptied.
LEMMA ClearKeeps ==
  ASSUME StoreAssumption, ObservatoryInv, Clear
  PROVE  ObservatoryInv'
<1> USE DEF ObservatoryInv
<1>1. calls' = calls /\ heard' = heard /\ traceRing' = traceRing /\ completed' = completed
  BY DEF Clear
<1>2. RingInv'
  BY ClearKeepsRing
<1>3. TraceInv' /\ HeardInv'
  BY <1>1 DEF TraceInv, HeardInv
<1>4. CallInv' /\ AccountInv'
  BY <1>1 DEF CallInv, CallsIn, AccountInv, AskedOf, ToldOf, Requested, Reported, GatewayRecords
<1>5. QED
  BY <1>2, <1>3, <1>4

\* Nothing is heard yet.
LEMMA ObservatoryStart ==
  ASSUME StoreAssumption, ObservatoryInit
  PROVE  ObservatoryInv
<1>1. /\ records = << >> /\ byStimulus = << >> /\ traceRing = << >> /\ heard = << >>
      /\ completed = << >> /\ cleared = 0 /\ calls = [c \in Calls |-> NoCall]
  BY DEF ObservatoryInit
<1>2. LastOf(MaxRecords, << >>) = << >>
  <2>1. Len(<< >>) <= MaxRecords
    BY DEF StoreAssumption
  <2>2. QED
    BY <2>1 DEF LastOf
<1>3. ToSet(<< >>) = {}
  BY DEF ToSet
<1>4. RingInv
  <2>1. SubSeq(heard, cleared + 1, Len(heard)) = << >> /\ cleared \in 0..Len(heard)
    BY <1>1
  <2>2. Indexed(byStimulus, records)
    BY <1>1, <1>3 DEF Indexed
  <2>3. << >> \in Seq(ToSet(<< >>))
    OBVIOUS
  <2>4. QED
    BY <1>1, <1>2, <2>1, <2>2, <2>3 DEF RingInv
<1>5. TraceInv
  <2>1. << >> \in Seq(ToSet(<< >>))
    OBVIOUS
  <2>2. QED
    BY <1>1, <1>2, <2>1 DEF TraceInv
<1>6. HeardInv
  BY <1>1, <1>3 DEF HeardInv
<1>7. NoCall \in CallRecords /\ NoCall.pc = "idle"
  <2>1. Absent \in {a.code : a \in Attempts}
    <3>1. Attempt(Absent, Absent) \in Attempts
      BY DEF Attempts
    <3>2. Attempt(Absent, Absent).code = Absent
      BY DEF Attempt
    <3>3. QED
      BY <3>1, <3>2
  <2>2. << >> \in Seq(Attempts)
    OBVIOUS
  <2>3. QED
    BY <2>1, <2>2 DEF NoCall, CallRecords
<1>8. CallInv
  BY <1>1, <1>7 DEF CallInv, CallsIn
<1>9. AccountInv
  <2>1. Requested = {} /\ Reported = {}
    BY <1>1, <1>7 DEF Requested, Reported, CallsIn
  <2>2. \A picked : AskedOf(picked) = {} /\ ToldOf(picked) = {}
    BY <2>1 DEF AskedOf, ToldOf
  <2>3. \A picked : Len(Only(heard, picked)) = 0
    <3>1. heard \in Seq({}) /\ Len(heard) = 0
      BY <1>1
    <3>2. \A picked : Only(heard, picked) \in Seq({}) /\ Len(Only(heard, picked)) <= Len(heard)
      BY <3>1, OnlyFacts
    <3>3. QED
      BY <3>1, <3>2
  <2>4. Cardinality({}) = 0
    BY FS_EmptySet
  <2>5. \A picked : Len(Only(heard, picked))
                     = Cardinality(AskedOf(picked)) + Cardinality(ToldOf(picked))
    <3> TAKE picked
    <3>1. AskedOf(picked) = {} /\ ToldOf(picked) = {}
      BY <2>2
    <3>2. Cardinality(AskedOf(picked)) = 0 /\ Cardinality(ToldOf(picked)) = 0
      BY <2>4, <3>1
    <3>3. QED
      BY <2>3, <3>2
  <2>6. QED
    BY <2>1, <2>5 DEF AccountInv
<1>10. QED
  BY <1>4, <1>5, <1>6, <1>8, <1>9 DEF ObservatoryInv

\* Whatever happens next.
LEMMA ObservatoryStep ==
  ASSUME StoreAssumption, EventAssumption, ErrorAssumption, ObservatoryInv,
         [ObservatoryNext]_observatoryVars
  PROVE  ObservatoryInv'
<1>1. ASSUME NEW event \in Ambient, Observe(event)
      PROVE  ObservatoryInv'
  BY <1>1, ObserveKeeps
<1>2. CASE Clear
  BY <1>2, ClearKeeps
<1>3. ASSUME NEW c \in Calls, NEW request \in RequestsOf[c],
             Request(c, request.about, request.slots)
      PROVE  ObservatoryInv'
  BY <1>3, RequestKeeps
<1>4. ASSUME NEW c \in Calls, Respond(c)
      PROVE  ObservatoryInv'
  BY <1>4, RespondKeeps
<1>5. ASSUME NEW c \in Calls, CircuitOpen(c)
      PROVE  ObservatoryInv'
  <2>1. Attempt("circuit-open", Absent) \in Attempts /\ "circuit-open" # Absent
    BY DEF Attempts, Absent
  <2>2. calls[c].pc = "trying" /\ FailAt(c, Failed(calls[c], "circuit-open", Absent), TRUE)
    BY <1>5 DEF CircuitOpen
  <2>3. QED
    BY <2>1, <2>2, FailAtKeeps
<1>6. ASSUME NEW c \in Calls, NEW error \in Errors, Retry(c, error)
      PROVE  ObservatoryInv'
  BY <1>6, RetryKeeps
<1>7. ASSUME NEW c \in Calls, NEW error \in Errors, GiveUp(c, error)
      PROVE  ObservatoryInv'
  <2>1. Attempt(error.code, error.class) \in Attempts /\ error.code # Absent
    BY DEF Attempts, ErrorAssumption
  <2>2. /\ calls[c].pc = "trying"
        /\ FailAt(c, Failed(calls[c], error.code, error.class), error.retryable)
    BY <1>7 DEF GiveUp
  <2>3. QED
    BY <2>1, <2>2, FailAtKeeps
<1>8. CASE UNCHANGED observatoryVars
  BY <1>8 DEF observatoryVars, ObservatoryInv, RingInv, TraceInv, HeardInv, CallInv, AccountInv,
              Indexed, Stimulus, CallsIn, AskedOf, ToldOf, Requested, Reported, GatewayRecords
<1>9. QED
  BY <1>1, <1>2, <1>3, <1>4, <1>5, <1>6, <1>7, <1>8 DEF ObservatoryNext

\* The lists are the ring filtered, and the gateway's records are the calls' questions
\* and answers, however they are picked.
THEOREM ObservatoryInvariant == ObservatorySpec => []ObservatoryInv
<1>1. ObservatoryInit => ObservatoryInv
  BY StoreAssumption, ObservatoryStart
<1>2. ObservatoryInv /\ [ObservatoryNext]_observatoryVars => ObservatoryInv'
  BY StoreAssumption, EventAssumption, ErrorAssumption, ObservatoryStep
<1>3. QED
  BY <1>1, <1>2, PTL DEF ObservatorySpec

-----------------------------------------------------------------------------
\* Ring, lists and traces are what was heard last.
LEMMA StoreIsExact ==
  ASSUME StoreAssumption, RingInv, TraceInv
  PROVE  StoreExact
<1>1. records \in Seq(ToSet(records)) /\ heard \in Seq(ToSet(heard)) /\ MaxRecords \in Nat
  BY DEF RingInv, StoreAssumption
<1>2. Len(records) <= MaxRecords
  <2> DEFINE since == SubSeq(heard, cleared + 1, Len(heard))
  <2>1. since \in Seq(ToSet(heard))
    <3>1. cleared \in 0..Len(heard)
      BY DEF RingInv
    <3>2. QED
      BY <1>1, <3>1
  <2>2. records = LastOf(MaxRecords, since)
    BY DEF RingInv
  <2> HIDE DEF since
  <2>3. Len(records) = IF Len(since) <= MaxRecords THEN Len(since) ELSE MaxRecords
    BY <1>1, <2>1, <2>2, LastOfFacts
  <2>4. QED
    BY <1>1, <2>3
<1>3. ASSUME NEW s \in DOMAIN byStimulus
      PROVE  GetTraceByStimulusId(s) = Query({r \in Shown : r.stimulus = s}, MaxRecords)
  <2> DEFINE list == Only(records, Stimulus(s, records))
  <2>1. ListOf(byStimulus, s) = list
    BY DEF RingInv, Indexed, ListOf
  <2>2. list \in Seq(ToSet(records)) /\ Len(list) <= Len(records)
    BY <1>1, OnlyFacts
  <2>3. Len(list) <= MaxRecords
    <3> HIDE DEF list
    <3>1. Len(list) \in Nat /\ Len(records) \in Nat
      BY <1>1, <2>2
    <3>2. QED
      BY <1>1, <1>2, <2>2, <3>1
  <2>4. LastOf(MaxRecords, list) = list
    BY <2>3 DEF LastOf
  <2>5. QED
    BY <2>1, <2>4 DEF GetTraceByStimulusId, Query, Stimulus, Shown
<1>4. DOMAIN byStimulus = {r.stimulus : r \in Shown} \ {Absent}
  BY DEF RingInv, Indexed, Shown
<1>5. QED
  BY <1>3, <1>4 DEF StoreExact, RingInv, TraceInv

\* Nothing has left the ring.
Whole == records = heard

\* As long as nothing was evicted or cleared.
LEMMA IsWhole ==
  ASSUME StoreAssumption, RingInv, Len(heard) <= MaxRecords, cleared = 0
  PROVE  Whole
<1>1. heard \in Seq(ToSet(heard)) /\ records = LastOf(MaxRecords, SubSeq(heard, 0 + 1, Len(heard)))
  BY DEF RingInv
<1>2. SubSeq(heard, 0 + 1, Len(heard)) = heard
  BY <1>1
<1>3. QED
  BY <1>1, <1>2 DEF LastOf, Whole

\* Who said what.
LEMMA CallRecordFacts ==
  ASSUME NEW call
  PROVE  /\ Asked(call).name = Gateway("requested") /\ Asked(call).kind = "gateway"
         /\ Asked(call).stimulus = FirstString(call.about) /\ Asked(call).meta.diagnostics = << >>
         /\ Told(call).name = Gateway(call.pc) /\ Told(call).kind = "gateway"
         /\ Told(call).stimulus = FirstString(call.about)
         /\ Told(call).meta.diagnostics # << >>
         /\ Diagnosis(Told(call)).code = call.code
         /\ Diagnosis(Told(call)).failedOver = (call.slot > 1)
         /\ Diagnosis(Told(call)).attempts = Sanitized(call.attempts)
<1>1. /\ Told(call).name = Gateway(call.pc) /\ Told(call).kind = "gateway"
      /\ Told(call).stimulus = FirstString(call.about)
      /\ Told(call).meta.diagnostics = Finalized(call)
  BY GatewayRecord DEF Told
<1>2. /\ Finalized(call) # << >> /\ Finalized(call)[1].code = call.code
      /\ Finalized(call)[1].failedOver = (call.slot > 1)
      /\ Finalized(call)[1].attempts = Sanitized(call.attempts)
  BY DEF Finalized
<1>3. QED
  BY <1>1, <1>2, GatewayRecord DEF Asked, Diagnosis

\* The names of the gateway's events, and what is read from them.
LEMMA GatewayNames ==
  ASSUME HeardInv
  PROVE  /\ \A r \in ToSet(heard) : \A status : r.name = Gateway(status) => r.kind = "gateway"
         /\ \A r \in ToSet(heard) : r.name = Gateway("failed") => r.status = "failed"
         /\ \A x, y : Gateway(x) = Gateway(y) <=> x = y
<1>1. \A x, y : Gateway(x) = Gateway(y) <=> x = y
  BY DEF Gateway
<1>2. \A status : KindFromEvent(Gateway(status)) = "gateway"
  <2> TAKE status
  <2>1. Head(Gateway(status)) = "gateway"
    BY DEF Gateway
  <2>2. QED
    BY <2>1 DEF KindFromEvent, Kinds
<1>3. StatusFromEvent(Gateway("failed")) = "failed"
  <2>1. Last(Gateway("failed")) = "failed"
    BY DEF Gateway, Last
  <2>2. QED
    BY <2>1 DEF StatusFromEvent, Statuses
<1>4. QED
  BY <1>1, <1>2, <1>3 DEF HeardInv

\* As many records are counted as calls made them.
LEMMA Counting ==
  ASSUME RingInv, AccountInv, Whole, NEW S, \A r \in Shown : r \in S => r.kind = "gateway"
  PROVE  Count(S) = Cardinality(AskedOf(S)) + Cardinality(ToldOf(S))
BY Picked DEF Whole, Count, Shown

\* Records that only answers can be.
LEMMA CountingAnswers ==
  ASSUME StoreAssumption, RingInv, AccountInv, Whole, NEW S,
         \A r \in Shown : r \in S => r.kind = "gateway",
         NEW C, \A c \in Requested : Asked(calls[c]) \notin S,
         \A c : c \in C <=> c \in Reported /\ Told(calls[c]) \in S
  PROVE  Count(S) = Cardinality(C)
<1>1. AskedOf(S) = {} /\ ToldOf(S) = C
  BY DEF AskedOf, ToldOf
<1>2. Cardinality(AskedOf(S)) = 0 /\ Cardinality(ToldOf(S)) = Cardinality(C)
  BY <1>1, FS_EmptySet
<1>3. Cardinality(ToldOf(S)) \in Nat
  BY CallsFinite
<1>4. Count(S) = Cardinality(AskedOf(S)) + Cardinality(ToldOf(S))
  BY Counting
<1>5. QED
  BY <1>2, <1>3, <1>4

\* Every record of the gateway is some call's.
LEMMA WhoseRecord ==
  ASSUME StoreAssumption, RingInv, AccountInv, NEW r \in ToSet(heard), r.kind = "gateway"
  PROVE  \/ \E c \in Requested : r = Asked(calls[c])
         \/ \E c \in Reported : r = Told(calls[c])
<1> SUFFICES ASSUME \A c \in Requested : r # Asked(calls[c]), \A c \in Reported : r # Told(calls[c])
             PROVE  FALSE
  OBVIOUS
<1>1. Len(Only(heard, {r})) = Cardinality(AskedOf({r})) + Cardinality(ToldOf({r}))
  BY Picked
<1>2. AskedOf({r}) = {} /\ ToldOf({r}) = {}
  BY DEF AskedOf, ToldOf
<1>3. Cardinality(AskedOf({r})) = 0 /\ Cardinality(ToldOf({r})) = 0
  BY <1>2, FS_EmptySet
<1> DEFINE p == Only(heard, {r})
<1>4. heard \in Seq(ToSet(heard))
  BY DEF RingInv
<1>5. p \in Seq(ToSet(heard)) /\ r \in ToSet(p)
  BY <1>4, OnlyFacts
<1>6. Len(p) = 0
  BY <1>1, <1>3
<1> HIDE DEF p
<1>7. p = << >>
  BY <1>5, <1>6
<1>8. QED
  BY <1>5, <1>7 DEF ToSet

\* The failures shown are the records of the failed calls.
LEMMA FailuresAre ==
  ASSUME StoreAssumption, ObservatoryInv, Whole
  PROVE  Failures = {Told(calls[c]) : c \in CallsIn({"failed"})}
<1> USE DEF ObservatoryInv
<1>1. Shown = ToSet(heard)
  BY DEF Shown, Whole
<1>2. ASSUME NEW r \in Failures
      PROVE  \E c \in CallsIn({"failed"}) : r = Told(calls[c])
  <2>1. r \in ToSet(heard) /\ r.name = Gateway("failed")
    BY <1>1 DEF Failures, Named
  <2>2. r.kind = "gateway"
    BY <2>1, GatewayNames
  <2>3. \A c : r # Asked(calls[c])
    <3>1. Gateway("failed") # Gateway("requested")
      BY GatewayNames
    <3>2. QED
      BY <2>1, <3>1, CallRecordFacts
  <2>4. PICK c \in Reported : r = Told(calls[c])
    BY <2>1, <2>2, <2>3, WhoseRecord
  <2>5. calls[c].pc = "failed"
    <3>1. Told(calls[c]).name = Gateway(calls[c].pc)
      BY CallRecordFacts
    <3>2. Gateway("failed") = Gateway(calls[c].pc)
      BY <2>1, <2>4, <3>1
    <3>3. QED
      BY <3>2, GatewayNames
  <2>6. QED
    BY <2>4, <2>5 DEF Reported, CallsIn
<1>3. ASSUME NEW c \in CallsIn({"failed"})
      PROVE  Told(calls[c]) \in Failures
  <2>1. c \in Reported /\ calls[c].pc = "failed"
    BY DEF CallsIn, Reported
  <2>2. Told(calls[c]) \in ToSet(heard)
    BY <2>1 DEF AccountInv
  <2>3. Told(calls[c]).name = Gateway("failed")
    BY <2>1, CallRecordFacts
  <2>4. QED
    BY <1>1, <2>2, <2>3 DEF Failures, Named
<1>4. QED
  BY <1>2, <1>3

\* Where the records of a call are to be found.
LEMMA Answers ==
  ASSUME StoreAssumption, ObservatoryInv, Whole
  PROVE  /\ \A c \in Requested : /\ Asked(calls[c]) \in Named(Gateway("requested"))
                                 /\ Asked(calls[c]) \notin Named(Gateway("responded"))
                                 /\ Asked(calls[c]) \notin Failures
                                 /\ Asked(calls[c]) \notin Diagnosed
         /\ \A c \in Reported : /\ Told(calls[c]) \notin Named(Gateway("requested"))
                                /\ Told(calls[c]) \in Named(Gateway("responded"))
                                     <=> calls[c].pc = "responded"
                                /\ Told(calls[c]) \in Failures <=> calls[c].pc = "failed"
                                /\ Told(calls[c]) \in Diagnosed
         /\ \A status : \A r \in Named(Gateway(status)) : r.kind = "gateway"
<1>1. Shown = ToSet(heard)
  BY DEF Shown, Whole
<1>2. HeardInv /\ AccountInv
  BY DEF ObservatoryInv
<1>3. /\ Gateway("requested") # Gateway("responded") /\ Gateway("requested") # Gateway("failed")
      /\ \A x : Gateway(x) = Gateway("requested") => x = "requested"
      /\ \A x : Gateway(x) = Gateway("responded") <=> x = "responded"
      /\ \A x : Gateway(x) = Gateway("failed") <=> x = "failed"
  BY <1>2, GatewayNames
<1>4. ASSUME NEW c \in Requested
      PROVE  /\ Asked(calls[c]) \in Named(Gateway("requested"))
             /\ Asked(calls[c]) \notin Named(Gateway("responded"))
             /\ Asked(calls[c]) \notin Failures
             /\ Asked(calls[c]) \notin Diagnosed
  <2>1. Asked(calls[c]) \in Shown
    BY <1>1, <1>2 DEF AccountInv
  <2>2. Asked(calls[c]).name = Gateway("requested") /\ Asked(calls[c]).meta.diagnostics = << >>
    BY CallRecordFacts
  <2>3. QED
    BY <1>3, <2>1, <2>2 DEF Named, Failures, Diagnosed
<1>5. ASSUME NEW c \in Reported
      PROVE  /\ Told(calls[c]) \notin Named(Gateway("requested"))
             /\ Told(calls[c]) \in Named(Gateway("responded")) <=> calls[c].pc = "responded"
             /\ Told(calls[c]) \in Failures <=> calls[c].pc = "failed"
             /\ Told(calls[c]) \in Diagnosed
  <2>1. Told(calls[c]) \in Shown
    BY <1>1, <1>2 DEF AccountInv
  <2>2. /\ Told(calls[c]).name = Gateway(calls[c].pc) /\ Told(calls[c]).kind = "gateway"
        /\ Told(calls[c]).meta.diagnostics # << >>
    BY CallRecordFacts
  <2>3. calls[c].pc # "requested"
    BY DEF Reported, CallsIn
  <2>4. QED
    BY <1>3, <2>1, <2>2, <2>3 DEF Named, Failures, Diagnosed
<1>6. \A status : \A r \in Named(Gateway(status)) : r.kind = "gateway"
  BY <1>1, <1>2, GatewayNames DEF Named
<1>7. QED
  BY <1>4, <1>5, <1>6

\* What a failed call is blamed for, as its record has it.
LEMMA BlamedFacts ==
  ASSUME ObservatoryInv, NEW c \in CallsIn({"failed"})
  PROVE  /\ calls[c].attempts # << >> /\ LastAttempt(c).code # Absent
         /\ Diagnosis(Told(calls[c])).code = LastAttempt(c).code
         /\ Len(calls[c].attempts) <= MaxItems =>
              ErrorClass(Diagnosis(Told(calls[c]))) = LastAttempt(c).class
<1>1. Blamed(calls[c])
  BY DEF ObservatoryInv, CallInv
<1>2. /\ Diagnosis(Told(calls[c])).code = calls[c].code
      /\ Diagnosis(Told(calls[c])).attempts = Sanitized(calls[c].attempts)
  BY CallRecordFacts
<1>3. Len(calls[c].attempts) <= MaxItems => Sanitized(calls[c].attempts) = calls[c].attempts
  BY DEF Sanitized
<1>4. QED
  BY <1>1, <1>2, <1>3 DEF Blamed, LastAttempt, ErrorClass

\* A call's outcome is counted as often as it came.
LEMMA CodesCounted ==
  ASSUME StoreAssumption, ObservatoryInv, Whole, NEW tally,
         tally = Tally([r \in Failures |-> Diagnosis(r).code])
  PROVE  /\ DOMAIN tally = {LastAttempt(c).code : c \in CallsIn({"failed"})}
         /\ \A code \in DOMAIN tally :
              tally[code] = Cardinality({c \in CallsIn({"failed"}) : LastAttempt(c).code = code})
<1> DEFINE failed == CallsIn({"failed"})
           key == [r \in Failures |-> Diagnosis(r).code]
<1>1. DOMAIN key = Failures /\ \A r \in Failures : key[r] = Diagnosis(r).code
  OBVIOUS
<1>2. Failures = {Told(calls[c]) : c \in failed}
  BY FailuresAre
<1>3. \A c \in failed : Diagnosis(Told(calls[c])).code = LastAttempt(c).code
                        /\ LastAttempt(c).code # Absent
  BY BlamedFacts
<1>4. \A c : c \in failed <=> c \in Reported /\ calls[c].pc = "failed"
  BY DEF CallsIn, Reported
<1>5. /\ DOMAIN tally = {key[r] : r \in DOMAIN key} \ {Absent}
      /\ \A k \in DOMAIN tally : tally[k] = Count({r \in DOMAIN key : key[r] = k})
  BY DEF Tally
<1> HIDE DEF failed, key
<1>6. DOMAIN tally = {LastAttempt(c).code : c \in failed}
  <2>1. \A c \in failed : Told(calls[c]) \in DOMAIN key
                         /\ key[Told(calls[c])] = LastAttempt(c).code
    BY <1>1, <1>2, <1>3
  <2>2. \A r \in DOMAIN key : \E c \in failed : key[r] = LastAttempt(c).code
    BY <1>1, <1>2, <2>1
  <2>3. {key[r] : r \in DOMAIN key} = {LastAttempt(c).code : c \in failed}
    <3> DEFINE Of(c) == LastAttempt(c).code
    <3>1. \A c \in failed : Told(calls[c]) \in DOMAIN key /\ key[Told(calls[c])] = Of(c)
      BY <2>1
    <3>2. \A r \in DOMAIN key : \E c \in failed : key[r] = Of(c)
      BY <2>2
    <3> HIDE DEF Of
    <3>3. {key[r] : r \in DOMAIN key} \subseteq {Of(c) : c \in failed}
      BY <3>2
    <3>4. {Of(c) : c \in failed} \subseteq {key[r] : r \in DOMAIN key}
      BY <3>1
    <3>5. {key[r] : r \in DOMAIN key} = {Of(c) : c \in failed}
      BY <3>3, <3>4
    <3>6. QED
      BY <3>5 DEF Of
  <2>4. Absent \notin {LastAttempt(c).code : c \in failed}
    BY <1>3
  <2>5. QED
    BY <1>5, <2>3, <2>4
<1>7. ASSUME NEW code \in DOMAIN tally
      PROVE  tally[code] = Cardinality({c \in failed : LastAttempt(c).code = code})
  <2> DEFINE S == {r \in DOMAIN key : key[r] = code}
             C == {c \in failed : LastAttempt(c).code = code}
  <2>1. \A r : r \in S <=> r \in Failures /\ Diagnosis(r).code = code
    BY <1>1
  <2>2. \A r \in Shown : r \in S => r.kind = "gateway"
    BY <2>1, Answers DEF Failures
  <2>3. \A c \in Requested : Asked(calls[c]) \notin S
    BY <2>1, Answers
  <2>4. \A c : c \in C <=> c \in Reported /\ Told(calls[c]) \in S
    <3>1. \A c \in Reported : Told(calls[c]) \in Failures <=> calls[c].pc = "failed"
      BY Answers
    <3>2. QED
      BY <1>3, <1>4, <2>1, <3>1
  <2>5. tally[code] = Count(S)
    BY <1>5
  <2> HIDE DEF S, C
  <2>6. RingInv /\ AccountInv
    BY DEF ObservatoryInv
  <2>7. Count(S) = Cardinality(C)
    BY <2>2, <2>3, <2>4, <2>6, CountingAnswers
  <2>8. QED
    BY <2>5, <2>7 DEF C
<1>8. QED
  BY <1>6, <1>7 DEF failed

\* And so are the classes of their errors, where no attempt was cut off.
LEMMA ClassesCounted ==
  ASSUME StoreAssumption, ObservatoryInv, Whole, NEW tally,
         tally = Tally([r \in Failures |-> ErrorClass(Diagnosis(r))]),
         \A c \in Reported : Len(calls[c].attempts) <= MaxItems
  PROVE  /\ DOMAIN tally = {LastAttempt(c).class : c \in CallsIn({"failed"})} \ {Absent}
         /\ \A class \in DOMAIN tally :
              tally[class] = Cardinality({c \in CallsIn({"failed"}) : LastAttempt(c).class = class})
<1> DEFINE failed == CallsIn({"failed"})
           key == [r \in Failures |-> ErrorClass(Diagnosis(r))]
<1>1. DOMAIN key = Failures /\ \A r \in Failures : key[r] = ErrorClass(Diagnosis(r))
  OBVIOUS
<1>2. Failures = {Told(calls[c]) : c \in failed}
  BY FailuresAre
<1>3. \A c : c \in failed <=> c \in Reported /\ calls[c].pc = "failed"
  BY DEF CallsIn, Reported
<1>4. \A c \in failed : ErrorClass(Diagnosis(Told(calls[c]))) = LastAttempt(c).class
  BY <1>3, BlamedFacts
<1>5. /\ DOMAIN tally = {key[r] : r \in DOMAIN key} \ {Absent}
      /\ \A k \in DOMAIN tally : tally[k] = Count({r \in DOMAIN key : key[r] = k})
  BY DEF Tally
<1> HIDE DEF failed, key
<1>6. DOMAIN tally = {LastAttempt(c).class : c \in failed} \ {Absent}
  <2>1. \A c \in failed : Told(calls[c]) \in DOMAIN key
                         /\ key[Told(calls[c])] = LastAttempt(c).class
    BY <1>1, <1>2, <1>4
  <2>2. \A r \in DOMAIN key : \E c \in failed : key[r] = LastAttempt(c).class
    BY <1>1, <1>2, <2>1
  <2>3. {key[r] : r \in DOMAIN key} = {LastAttempt(c).class : c \in failed}
    <3> DEFINE Of(c) == LastAttempt(c).class
    <3>1. \A c \in failed : Told(calls[c]) \in DOMAIN key /\ key[Told(calls[c])] = Of(c)
      BY <2>1
    <3>2. \A r \in DOMAIN key : \E c \in failed : key[r] = Of(c)
      BY <2>2
    <3> HIDE DEF Of
    <3>3. {key[r] : r \in DOMAIN key} \subseteq {Of(c) : c \in failed}
      BY <3>2
    <3>4. {Of(c) : c \in failed} \subseteq {key[r] : r \in DOMAIN key}
      BY <3>1
    <3>5. {key[r] : r \in DOMAIN key} = {Of(c) : c \in failed}
      BY <3>3, <3>4
    <3>6. QED
      BY <3>5 DEF Of
  <2>4. QED
    BY <1>5, <2>3
<1>7. ASSUME NEW class \in DOMAIN tally
      PROVE  tally[class] = Cardinality({c \in failed : LastAttempt(c).class = class})
  <2> DEFINE S == {r \in DOMAIN key : key[r] = class}
             C == {c \in failed : LastAttempt(c).class = class}
  <2>1. \A r : r \in S <=> r \in Failures /\ ErrorClass(Diagnosis(r)) = class
    BY <1>1
  <2>2. \A r \in Shown : r \in S => r.kind = "gateway"
    BY <2>1, Answers DEF Failures
  <2>3. \A c \in Requested : Asked(calls[c]) \notin S
    BY <2>1, Answers
  <2>4. \A c : c \in C <=> c \in Reported /\ Told(calls[c]) \in S
    <3>1. \A c \in Reported : Told(calls[c]) \in Failures <=> calls[c].pc = "failed"
      BY Answers
    <3>2. QED
      BY <1>3, <1>4, <2>1, <3>1
  <2>5. tally[class] = Count(S)
    BY <1>5
  <2> HIDE DEF S, C
  <2>6. RingInv /\ AccountInv
    BY DEF ObservatoryInv
  <2>7. Count(S) = Cardinality(C)
    BY <2>2, <2>3, <2>4, <2>6, CountingAnswers
  <2>8. QED
    BY <2>5, <2>7 DEF C
<1>8. QED
  BY <1>6, <1>7 DEF failed

\* The counters of the gateway's analytics.
LEMMA CallsCounted ==
  ASSUME StoreAssumption, ObservatoryInv, Whole
  PROVE  /\ Count(Named(Gateway("requested"))) = Cardinality(Requested)
         /\ Count(Named(Gateway("responded"))) = Cardinality(CallsIn({"responded"}))
         /\ Count(Failures) = Cardinality(CallsIn({"failed"}))
         /\ Count({r \in Diagnosed : Diagnosis(r).failedOver})
              = Cardinality({c \in Reported : calls[c].slot > 1})
         /\ (\A c \in Reported : Len(calls[c].attempts) <= MaxItems) =>
              Count({r \in Diagnosed : Met("circuit-open", Diagnosis(r).attempts)})
                = Cardinality({c \in Reported : Met("circuit-open", calls[c].attempts)})
<1>1. RingInv /\ AccountInv
  BY DEF ObservatoryInv
<1>2. \A r \in Failures : r.kind = "gateway"
  BY Answers DEF Failures
<1>3. Count(Named(Gateway("requested"))) = Cardinality(Requested)
  <2> DEFINE S == Named(Gateway("requested"))
  <2>1. \A r \in Shown : r \in S => r.kind = "gateway"
    BY Answers
  <2>2. AskedOf(S) = Requested /\ ToldOf(S) = {}
    BY Answers DEF AskedOf, ToldOf
  <2> HIDE DEF S
  <2>3. Count(S) = Cardinality(AskedOf(S)) + Cardinality(ToldOf(S))
    BY <1>1, <2>1, Counting
  <2>4. Cardinality(ToldOf(S)) = 0 /\ Cardinality(AskedOf(S)) \in Nat
    BY <2>2, CallsFinite, FS_EmptySet
  <2>5. QED
    BY <2>2, <2>3, <2>4 DEF S
<1>4. Count(Named(Gateway("responded"))) = Cardinality(CallsIn({"responded"}))
  <2> DEFINE S == Named(Gateway("responded"))
             C == CallsIn({"responded"})
  <2>1. \A r \in Shown : r \in S => r.kind = "gateway"
    BY Answers
  <2>2. \A c \in Requested : Asked(calls[c]) \notin S
    BY Answers
  <2>3. \A c : c \in C <=> c \in Reported /\ calls[c].pc = "responded"
    BY DEF CallsIn, Reported
  <2>4. \A c : c \in C <=> c \in Reported /\ Told(calls[c]) \in S
    BY <2>3, Answers
  <2> HIDE DEF S, C
  <2>5. Count(S) = Cardinality(C)
    BY <1>1, <2>1, <2>2, <2>4, CountingAnswers
  <2>6. QED
    BY <2>5 DEF S, C
<1>5. Count(Failures) = Cardinality(CallsIn({"failed"}))
  <2> DEFINE C == CallsIn({"failed"})
  <2>1. \A c \in Requested : Asked(calls[c]) \notin Failures
    BY Answers
  <2>2. \A c : c \in C <=> c \in Reported /\ calls[c].pc = "failed"
    BY DEF CallsIn, Reported
  <2>3. \A c : c \in C <=> c \in Reported /\ Told(calls[c]) \in Failures
    BY <2>2, Answers
  <2> HIDE DEF C
  <2>4. Count(Failures) = Cardinality(C)
    BY <1>1, <1>2, <2>1, <2>3, CountingAnswers
  <2>5. QED
    BY <2>4 DEF C
<1>6. Count({r \in Diagnosed : Diagnosis(r).failedOver})
        = Cardinality({c \in Reported : calls[c].slot > 1})
  <2> DEFINE S == {r \in Diagnosed : Diagnosis(r).failedOver}
             C == {c \in Reported : calls[c].slot > 1}
  <2>1. \A r \in Shown : r \in S => r.kind = "gateway"
    BY DEF Diagnosed
  <2>2. \A c \in Requested : Asked(calls[c]) \notin S
    BY Answers
  <2>3. \A c : Diagnosis(Told(calls[c])).failedOver = (calls[c].slot > 1)
    BY CallRecordFacts
  <2>4. \A c : c \in C <=> c \in Reported /\ Told(calls[c]) \in S
    BY <2>3, Answers
  <2> HIDE DEF S, C
  <2>5. Count(S) = Cardinality(C)
    BY <1>1, <2>1, <2>2, <2>4, CountingAnswers
  <2>6. QED
    BY <2>5 DEF S, C
<1>7. ASSUME \A c \in Reported : Len(calls[c].attempts) <= MaxItems
      PROVE  Count({r \in Diagnosed : Met("circuit-open", Diagnosis(r).attempts)})
               = Cardinality({c \in Reported : Met("circuit-open", calls[c].attempts)})
  <2> DEFINE S == {r \in Diagnosed : Met("circuit-open", Diagnosis(r).attempts)}
             C == {c \in Reported : Met("circuit-open", calls[c].attempts)}
  <2>1. \A r \in Shown : r \in S => r.kind = "gateway"
    BY DEF Diagnosed
  <2>2. \A c \in Requested : Asked(calls[c]) \notin S
    BY Answers
  <2>3. \A c \in Reported : Diagnosis(Told(calls[c])).attempts = calls[c].attempts
    BY <1>7, CallRecordFacts DEF Sanitized
  <2>4. \A c : c \in C <=> c \in Reported /\ Told(calls[c]) \in S
    BY <2>3, Answers
  <2> HIDE DEF S, C
  <2>5. Count(S) = Cardinality(C)
    BY <1>1, <2>1, <2>2, <2>4, CountingAnswers
  <2>6. QED
    BY <2>5 DEF S, C
<1>8. QED
  BY <1>3, <1>4, <1>5, <1>6, <1>7

\* All of what is shown of the calls.
LEMMA CallsAreAccounted ==
  ASSUME StoreAssumption, ObservatoryInv, Whole
  PROVE  CallsAccounted
<1> DEFINE codes == Tally([r \in Failures |-> Diagnosis(r).code])
           classes == Tally([r \in Failures |-> ErrorClass(Diagnosis(r))])
<1>1. /\ GatewayAnalytics.byErrorCode = codes
      /\ GatewayAnalytics.byErrorClass = classes
      /\ GatewayAnalytics.requests = Count(Named(Gateway("requested")))
      /\ GatewayAnalytics.responses = Count(Named(Gateway("responded")))
      /\ GatewayAnalytics.failures = Count(Failures)
      /\ GatewayAnalytics.failedOver = Count({r \in Diagnosed : Diagnosis(r).failedOver})
      /\ GatewayAnalytics.circuitOpen
           = Count({r \in Diagnosed : Met("circuit-open", Diagnosis(r).attempts)})
  BY DEF GatewayAnalytics
<1>2. /\ DOMAIN codes = {LastAttempt(c).code : c \in CallsIn({"failed"})}
      /\ \A code \in DOMAIN codes :
           codes[code] = Cardinality({c \in CallsIn({"failed"}) : LastAttempt(c).code = code})
  BY CodesCounted
<1>3. ASSUME \A c \in Reported : Len(calls[c].attempts) <= MaxItems
      PROVE  /\ DOMAIN classes = {LastAttempt(c).class : c \in CallsIn({"failed"})} \ {Absent}
             /\ \A class \in DOMAIN classes :
                  classes[class]
                    = Cardinality({c \in CallsIn({"failed"}) : LastAttempt(c).class = class})
  BY <1>3, ClassesCounted
<1> HIDE DEF codes, classes
<1>4. QED
  BY <1>1, <1>2, <1>3, CallsCounted DEF CallsAccounted

\* The trace of a stimulus, the failures and the components that are shown.
LEMMA TracesAreAccounted ==
  ASSUME StoreAssumption, ObservatoryInv, Whole
  PROVE  TracesAccounted
<1>1. RingInv /\ HeardInv /\ AccountInv
  BY DEF ObservatoryInv
<1>2. Shown = ToSet(heard) /\ records = heard
  BY DEF Shown, Whole
<1>3. heard \in Seq(ToSet(heard)) /\ records \in Seq(ToSet(records))
  BY <1>1 DEF RingInv
<1>4. ASSUME NEW s \in DOMAIN byStimulus
      PROVE  Len(Only(byStimulus[s], {r \in Shown : r.kind = "gateway"}))
               = Cardinality({c \in Requested : FirstString(calls[c].about) = s})
                   + Cardinality({c \in Reported : FirstString(calls[c].about) = s})
  <2> DEFINE G == {r \in Shown : r.kind = "gateway"}
             S == Stimulus(s, records) \cap G
             A == {c \in Requested : FirstString(calls[c].about) = s}
             B == {c \in Reported : FirstString(calls[c].about) = s}
  <2>1. byStimulus[s] = Only(records, Stimulus(s, records))
    BY <1>1 DEF RingInv, Indexed
  <2>2. \A r : r \in S <=> r \in Shown /\ r.kind = "gateway" /\ r.stimulus = s
    BY DEF Stimulus, Shown
  <2>3. \A r \in Shown : r \in S => r.kind = "gateway"
    BY <2>2
  <2>4. AskedOf(S) = A
    <3>1. \A c \in Requested : /\ Asked(calls[c]) \in Shown /\ Asked(calls[c]).kind = "gateway"
                               /\ Asked(calls[c]).stimulus = FirstString(calls[c].about)
      BY <1>1, <1>2, CallRecordFacts DEF AccountInv
    <3>2. QED
      BY <2>2, <3>1 DEF AskedOf
  <2>5. ToldOf(S) = B
    <3>1. \A c \in Reported : /\ Told(calls[c]) \in Shown /\ Told(calls[c]).kind = "gateway"
                              /\ Told(calls[c]).stimulus = FirstString(calls[c].about)
      BY <1>1, <1>2, CallRecordFacts DEF AccountInv
    <3>2. QED
      BY <2>2, <3>1 DEF ToldOf
  <2>6. Only(byStimulus[s], G) = Only(records, S)
    <3> HIDE DEF G
    <3>1. Only(Only(records, Stimulus(s, records)), G) = Only(records, Stimulus(s, records) \cap G)
      BY <1>3, OnlyOnly
    <3>2. QED
      BY <2>1, <3>1
  <2> HIDE DEF G, S, A, B
  <2>7. Len(Only(records, S)) = Cardinality(AskedOf(S)) + Cardinality(ToldOf(S))
    BY <1>1, <2>3, Counting DEF Count
  <2>8. Len(Only(byStimulus[s], G)) = Cardinality(A) + Cardinality(B)
    BY <2>4, <2>5, <2>6, <2>7
  <2>9. QED
    BY <2>8 DEF G, A, B
<1>5. Only(records, Troubles) \in Seq(ToSet(records)) /\ FailureCount \in Nat
      /\ FailureCount = Len(Only(records, Troubles))
  <2>1. Only(records, Troubles) \in Seq(ToSet(records))
    BY <1>3, OnlyFacts
  <2>2. QED
    BY <2>1 DEF FailureCount, Count
<1>6. FailureCount >= Cardinality(CallsIn({"failed"}))
  <2>1. Troubles \cap Failures = Failures
    BY <1>1, <1>2, GatewayNames DEF Troubles, Failures, Named
  <2>2. Only(Only(records, Troubles), Failures) = Only(records, Failures)
    <3>1. Only(Only(records, Troubles), Failures) = Only(records, Troubles \cap Failures)
      BY <1>3, OnlyOnly
    <3>2. QED
      BY <2>1, <3>1
  <2>3. Len(Only(Only(records, Troubles), Failures)) <= Len(Only(records, Troubles))
    BY <1>5, OnlyFacts
  <2>4. Len(Only(records, Failures)) = Cardinality(CallsIn({"failed"}))
    BY CallsCounted DEF Count
  <2>5. QED
    BY <1>5, <2>2, <2>3, <2>4
<1>7. Len(RecentFailures) = IF FailureCount <= RecentLimit THEN FailureCount ELSE RecentLimit
  <2>1. RecentLimit \in Nat
    BY DEF StoreAssumption
  <2>2. Len(LastOf(RecentLimit, Only(records, Troubles)))
          = IF FailureCount <= RecentLimit THEN FailureCount ELSE RecentLimit
    BY <1>5, <2>1, LastOfFacts
  <2>3. QED
    BY <2>2 DEF RecentFailures, Query
<1>8. \A component \in DOMAIN RepositoryAnalytics.byComponent :
        \/ component \in LoadedComponents
        \/ \E r \in Troubles : r.kind = "repository" /\ r.meta.component = component
  <2> DEFINE told == {r \in Shown : r.kind = "repository"}
             key == [r \in told |-> r.meta.component]
  <2>1. RepositoryAnalytics.byComponent = Tally(key)
    BY DEF RepositoryAnalytics
  <2>2. DOMAIN Tally(key) = {key[r] : r \in told} \ {Absent}
    BY DEF Tally
  <2>3. ASSUME NEW r \in told, key[r] # Absent
        PROVE  \/ key[r] \in LoadedComponents
               \/ \E q \in Troubles : q.kind = "repository" /\ q.meta.component = key[r]
    <3>1. r \in Shown /\ r.kind = "repository" /\ key[r] = r.meta.component
      OBVIOUS
    <3>2. CASE r.status = "failed"
      BY <3>1, <3>2 DEF Troubles
    <3>3. CASE r.status # "failed"
      <4>1. PICK q \in Shown : /\ q.name = Repository("initialized")
                               /\ q.meta.component = r.meta.component
        BY <1>1, <1>2, <3>1, <3>3 DEF HeardInv
      <4>2. q \in Named(Repository("initialized")) /\ q.meta.component # Absent
        BY <2>3, <3>1, <4>1 DEF Named
      <4>3. QED
        BY <3>1, <4>1, <4>2 DEF LoadedComponents
    <3>4. QED
      BY <3>2, <3>3
  <2> HIDE DEF told, key
  <2>4. QED
    BY <2>1, <2>2, <2>3
<1>9. QED
  BY <1>4, <1>6, <1>7, <1>8 DEF TracesAccounted

\* ObservedAsItWent, of every execution: ObservatoryStore and the analytics of
\* DefaultObservatoryService show what the model calls and the other events were.
THEOREM AsItWent == ObservatorySpec => []ObservedAsItWent
<1>1. ObservatoryInv => ObservedAsItWent
  <2> SUFFICES ASSUME ObservatoryInv
               PROVE  ObservedAsItWent
    OBVIOUS
  <2>1. RingInv /\ TraceInv /\ StoreAssumption
    BY StoreAssumption DEF ObservatoryInv
  <2>2. StoreExact
    BY <2>1, StoreIsExact
  <2>3. ASSUME Len(heard) <= MaxRecords, cleared = 0
        PROVE  CallsAccounted /\ TracesAccounted
    <3>1. Whole
      BY <2>1, <2>3, IsWhole
    <3>2. QED
      BY <2>1, <3>1, CallsAreAccounted, TracesAreAccounted
  <2>4. QED
    BY <2>2, <2>3 DEF ObservedAsItWent
<1>2. QED
  BY <1>1, ObservatoryInvariant, PTL
=============================================================================
