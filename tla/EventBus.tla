------------------------------ MODULE EventBus ------------------------------
(***************************************************************************)
(* MemoryEventBus of @elysia-ai/kernel, for one event name: every name has *)
(* a handler set of its own and they share nothing.                        *)
(*                                                                         *)
(* A subscriber keeps the Set object it was put into (the disposer closes  *)
(* over it), while the map may by then hold another Set: sets are numbered *)
(* objects here, and heldBy says which one the map holds.  Every handler   *)
(* is a closure of its own, named by its subscription.  emit() awaits each *)
(* handler, so subscriptions, disposals and other emits come in between.   *)
(***************************************************************************)
EXTENDS Naturals, Sequences

CONSTANTS
  MaxSubscriptions,  \* on(), once() and onAny() calls
  MaxEmits,          \* emit() calls
  MaxOff             \* calls of one disposer

\* Two calls are told apart from one.
ASSUME MaxOffAssumption == MaxOff \in Nat /\ MaxOff > 1

VARIABLES
  subs,   \* the subscriptions, in order: [kind, set, off]
  sets,   \* the Set objects: the handlers of each
  heldBy, \* the Set the map holds for the event, 0 for none
  emits   \* the emits: [todo, heard, at]

busVars == <<subs, sets, heldBy, emits>>

BusInit == subs = <<>> /\ sets = <<>> /\ heldBy = 0 /\ emits = <<>>

(***************************************************************************)
(* Subscribing.                                                            *)
(***************************************************************************)
\* on() adds to the set the map holds, or to a new one.
On(kind) ==
  /\ Len(subs) < MaxSubscriptions
  /\ LET fresh  == heldBy = 0
         target == IF fresh THEN Len(sets) + 1 ELSE heldBy
     IN /\ subs' = Append(subs, [kind |-> kind, set |-> target, off |-> 0])
        /\ sets' = IF fresh THEN Append(sets, {Len(subs) + 1})
                   ELSE [sets EXCEPT ![target] = @ \cup {Len(subs) + 1}]
        /\ heldBy' = target
  /\ UNCHANGED emits

Subscribe == On("on")
Once == On("once")

\* onAny() listeners are a set of their own, which is never replaced.
OnAny ==
  /\ Len(subs) < MaxSubscriptions
  /\ subs' = Append(subs, [kind |-> "any", set |-> 0, off |-> 0])
  /\ UNCHANGED <<sets, heldBy, emits>>

(***************************************************************************)
(* The disposer of subscription i: it leaves its own set and, if that is   *)
(* empty, drops whatever set the map holds.                                *)
(***************************************************************************)
\* Mutant: the map is cleared whenever anybody leaves.
DisposedAlways(i) ==
  /\ sets' = [sets EXCEPT ![subs[i].set] = @ \ {i}]
  /\ heldBy' = 0

Disposed(i) ==
  /\ sets' = [sets EXCEPT ![subs[i].set] = @ \ {i}]
  /\ heldBy' = IF sets[subs[i].set] \subseteq {i} THEN 0 ELSE heldBy

Off(i) ==
  /\ subs[i].off < MaxOff
  /\ subs' = [subs EXCEPT ![i].off = @ + 1]
  /\ IF subs[i].kind = "any" THEN UNCHANGED <<sets, heldBy>> ELSE Disposed(i)
  /\ UNCHANGED emits

(***************************************************************************)
(* emit(): the onAny listeners are called at once, the others one by one   *)
(* from a copy of the set.  An error of a listener is logged and the next  *)
(* one is called: a throwing handler takes the same step as any other.     *)
(***************************************************************************)
AnyListeners == {i \in DOMAIN subs : subs[i].kind = "any" /\ subs[i].off = 0}

Listeners == IF heldBy = 0 THEN {} ELSE sets[heldBy]

\* `heard` counts who was called how often; `at` keeps who was subscribed when the
\* event was emitted.
Emit ==
  /\ Len(emits) < MaxEmits
  /\ emits' = Append(emits,
       [todo  |-> Listeners,
        heard |-> [i \in DOMAIN subs |-> IF i \in AnyListeners THEN 1 ELSE 0],
        at    |-> {i \in DOMAIN subs : subs[i].off = 0}])
  /\ UNCHANGED <<subs, sets, heldBy>>

\* The next handler in the order of insertion, which is that of subscription.  The
\* wrapper of once() calls its disposer before the handler.
Deliver(e) ==
  \E i \in emits[e].todo :
    /\ \A j \in emits[e].todo : i <= j
    /\ emits' = [emits EXCEPT ![e].todo = @ \ {i}, ![e].heard[i] = @ + 1]
    /\ IF subs[i].kind = "once"
       THEN Disposed(i) /\ subs' = [subs EXCEPT ![i].off = IF @ < MaxOff THEN @ + 1 ELSE @]
       ELSE UNCHANGED <<subs, sets, heldBy>>

BusNext ==
  \/ Subscribe \/ Once \/ OnAny \/ Emit
  \/ \E i \in DOMAIN subs : Off(i)
  \/ \E e \in DOMAIN emits : Deliver(e)

BusSpec == BusInit /\ [][BusNext]_busVars

(***************************************************************************)
(* Properties.                                                             *)
(***************************************************************************)
\* A disposer was called again after its subscription had already ended.
Misused == \E i \in DOMAIN subs : subs[i].kind # "any" /\ subs[i].off > 1

\* Everyone hears: as long as no disposer was called after its subscription had
\* ended, an emit that is over was heard, once, by everyone who was subscribed
\* when it started - those who left while it was going on included - and by
\* nobody else.  (A disposer called twice drops a set that belongs to others.)
HeardByAll ==
  ~Misused =>
    \A e \in DOMAIN emits : emits[e].todo = {} =>
      \A i \in DOMAIN emits[e].heard :
        emits[e].heard[i] = IF i \in emits[e].at THEN 1 ELSE 0
=============================================================================
