-------------------------- MODULE LifeMemoryProofs --------------------------
(***************************************************************************)
(* Proofs about the memory service of LifeServices (MemoryService), and    *)
(* the types of all its services.                                          *)
(***************************************************************************)
EXTENDS LifeServicesProofs

(***************************************************************************)
(* Sets of numbers, and the first of them in an order.                     *)
(***************************************************************************)
Ids == 1..MaxEntries

LEMMA SameCardinality ==
  \A S : Memory!Cardinality(S) = Cardinality(S)
BY DEF Memory!Cardinality, Cardinality

LEMMA IdsFinite ==
  /\ MaxEntries \in Nat /\ Ids \subseteq Nat /\ IsFiniteSet(Ids)
  /\ \A S \in SUBSET Ids : IsFiniteSet(S) /\ Cardinality(S) \in Nat
<1>1. MaxEntries \in Nat
  BY LimitsAssumption
<1>2. IsFiniteSet(Ids)
  BY <1>1, FS_Interval DEF Ids
<1>3. \A S \in SUBSET Ids : IsFiniteSet(S)
  BY <1>2, FS_Subset
<1>4. QED
  BY <1>1, <1>2, <1>3, FS_CardinalityType DEF Ids

\* A nonempty set of numbers up to m has a smallest and a largest one.
LEMMA SmallestAndLargest ==
  ASSUME NEW m \in Nat, NEW S, S \subseteq 0..m, S # {}
  PROVE  Memory!Min(S) \in S /\ Memory!Max(S) \in S
<1> DEFINE P == {n \in Nat : \A T \in SUBSET (0..n) : T # {} =>
                   /\ \E x \in T : \A y \in T : x <= y
                   /\ \E x \in T : \A y \in T : x >= y}
<1>1. 0 \in P
  <2>1. \A T \in SUBSET (0..0) : T # {} => T = {0}
    BY 0..0 = {0}
  <2>2. QED
    BY <2>1
<1>2. ASSUME NEW n \in Nat, n \in P
      PROVE  n + 1 \in P
  <2>1. SUFFICES ASSUME NEW T \in SUBSET (0..(n + 1)), T # {}
                 PROVE  /\ \E x \in T : \A y \in T : x <= y
                        /\ \E x \in T : \A y \in T : x >= y
    OBVIOUS
  <2>2. T \ {n + 1} \in SUBSET (0..n)
    OBVIOUS
  <2>3. CASE T \ {n + 1} = {}
    <3>1. T = {n + 1}
      BY <2>1, <2>3
    <3>2. n + 1 <= n + 1 /\ n + 1 >= n + 1
      OBVIOUS
    <3>3. QED
      BY <3>1, <3>2
  <2>4. CASE T \ {n + 1} # {}
    <3>1. PICK x \in T \ {n + 1} : \A y \in T \ {n + 1} : x <= y
      BY <1>2, <2>2, <2>4
    <3>2. PICK z \in T \ {n + 1} : \A y \in T \ {n + 1} : z >= y
      BY <1>2, <2>2, <2>4
    <3>3. \A y \in T : x <= y
      BY <2>2, <3>1
    <3>4. CASE n + 1 \in T
      BY <2>1, <3>1, <3>3, <3>4
    <3>5. CASE n + 1 \notin T
      BY <3>1, <3>2, <3>3, <3>5
    <3>6. QED
      BY <3>4, <3>5
  <2>5. QED
    BY <2>3, <2>4
<1>3. m \in P
  <2> HIDE DEF P
  <2>1. Nat \subseteq P
    BY <1>1, <1>2, SetInduction
  <2>2. QED
    BY <2>1
<1>4. QED
  BY <1>3 DEF Memory!Min, Memory!Max

\* In an order of a set, the elements have the places 1, 2, ... up to its size.
Orders(order, S) ==
  /\ \A i \in S : << i, i >> \notin order
  /\ \A i, j \in S : i # j => << i, j >> \in order \/ << j, i >> \in order
  /\ \A i, j, k \in S : << i, j >> \in order /\ << j, k >> \in order => << i, k >> \in order

LEMMA Places ==
  ASSUME NEW S \in SUBSET Ids, NEW order, Orders(order, S)
  PROVE  \A n \in 1..Cardinality(S) :
           \E i \in S : Cardinality({j \in S : << j, i >> \in order}) = n - 1
<1> DEFINE Before(i) == {j \in S : << j, i >> \in order}
           places == [i \in S |-> Cardinality(Before(i)) + 1]
           N == Cardinality(S)
<1>1. IsFiniteSet(S) /\ N \in Nat /\ \A i \in S : Before(i) \in SUBSET S /\ Cardinality(Before(i)) \in Nat
  BY IdsFinite
<1>2. \A i \in S : Cardinality(Before(i)) < N
  <2>1. TAKE i \in S
  <2>2. Before(i) # S
    BY DEF Orders
  <2>3. Cardinality(Before(i)) <= N /\ (N = Cardinality(Before(i)) => S = Before(i))
    BY <1>1, FS_Subset
  <2>4. QED
    BY <1>1, <2>2, <2>3
<1>3. \A i, j \in S : << i, j >> \in order => Cardinality(Before(i)) < Cardinality(Before(j))
  <2>1. TAKE i, j \in S
  <2>2. HAVE << i, j >> \in order
  <2>3. Before(i) \in SUBSET Before(j) /\ i \in Before(j) /\ i \notin Before(i)
    BY <2>2 DEF Orders
  <2>4. IsFiniteSet(Before(j))
    BY <1>1, FS_Subset
  <2>5. /\ Cardinality(Before(i)) <= Cardinality(Before(j))
        /\ Cardinality(Before(j)) = Cardinality(Before(i)) => Before(j) = Before(i)
    BY <2>3, <2>4, FS_Subset
  <2> HIDE DEF Before
  <2>6. QED
    BY <1>1, <2>3, <2>5
<1>4. places \in [S -> 1..N] /\ \A i, j \in S : places[i] = places[j] => i = j
  <2> HIDE DEF Before, N
  <2>1. \A i \in S : Cardinality(Before(i)) + 1 \in 1..N
    BY <1>1, <1>2
  <2>2. \A i, j \in S : i # j =>
          \/ Cardinality(Before(i)) < Cardinality(Before(j))
          \/ Cardinality(Before(j)) < Cardinality(Before(i))
    BY <1>3 DEF Orders
  <2>3. QED
    BY <1>1, <2>1, <2>2
<1>5. IsFiniteSet(1..N) /\ Cardinality(1..N) = N
  BY <1>1, FS_Interval
<1>6. places \in Surjection(S, 1..N)
  <2>1. places \in Injection(S, 1..N)
    <3> HIDE DEF places
    <3>1. IsInjective(places)
      BY <1>4 DEF IsInjective
    <3>2. QED
      BY <1>4, <3>1 DEF Injection
  <2> HIDE DEF places
  <2>2. QED
    BY <1>5, <2>1, FS_Injection
<1>7. \A n \in 1..N : \E i \in S : places[i] = n
  BY <1>6 DEF Surjection
<1>8. QED
  <2>1. \A n \in 1..N : \E i \in S : Cardinality(Before(i)) + 1 = n
    BY <1>7
  <2> HIDE DEF Before, N
  <2>2. \A n \in 1..N : \E i \in S : Cardinality(Before(i)) = n - 1
    <3>1. TAKE n \in 1..N
    <3>2. PICK i \in S : Cardinality(Before(i)) + 1 = n
      BY <2>1
    <3>3. PICK k \in Nat : k = Cardinality(Before(i))
      BY <1>1
    <3>4. k = n - 1
      BY <3>2, <3>3
    <3>5. QED
      BY <3>3, <3>4
  <2>3. QED
    BY <2>2 DEF Before, N

Elements(s) == {s[i] : i \in DOMAIN s}

LEMMA FirstFacts ==
  ASSUME NEW S \in SUBSET Ids, NEW order, Orders(order, S), NEW k \in Nat
  PROVE  LET f == Memory!First(S, order, k)
         IN  /\ f \in Seq(S) /\ Elements(f) \subseteq S
             /\ Len(f) = IF k <= Cardinality(S) THEN k ELSE Cardinality(S)
             /\ Cardinality(S \ Elements(f)) = Cardinality(S) - Len(f)
<1> DEFINE Before(i) == {j \in S : << j, i >> \in order}
<1>1. PICK L \in Nat : L = (IF k <= Cardinality(S) THEN k ELSE Cardinality(S))
  BY IdsFinite
<1>2. L = Memory!Min({k, Memory!Cardinality(S)}) /\ L <= Cardinality(S) /\ Cardinality(S) \in Nat
  <2>1. Memory!Cardinality(S) = Cardinality(S) /\ Cardinality(S) \in Nat
    BY SameCardinality, IdsFinite
  <2>2. \E x \in {k, Cardinality(S)} : \A y \in {k, Cardinality(S)} : x <= y
    BY <2>1
  <2>3. /\ Memory!Min({k, Cardinality(S)}) \in {k, Cardinality(S)}
        /\ Memory!Min({k, Cardinality(S)}) <= k
        /\ Memory!Min({k, Cardinality(S)}) <= Cardinality(S)
    BY <2>2 DEF Memory!Min
  <2>4. QED
    BY <1>1, <2>1, <2>3
<1>3. PICK f : f = Memory!First(S, order, k)
  OBVIOUS
<1>4. f = [n \in 1..L |-> CHOOSE i \in S : Memory!Cardinality(Before(i)) = n - 1]
  BY <1>2, <1>3 DEF Memory!First
<1>5. \A n \in 1..L : f[n] \in S /\ Cardinality(Before(f[n])) = n - 1
  <2>1. TAKE n \in 1..L
  <2>2. n \in 1..Cardinality(S)
    BY <1>2
  <2>3. PICK i \in S : Cardinality(Before(i)) = n - 1
    BY <2>2, Places
  <2> HIDE DEF Before
  <2>4. Memory!Cardinality(Before(i)) = n - 1
    BY <2>3, SameCardinality
  <2>5. f[n] \in S /\ Memory!Cardinality(Before(f[n])) = n - 1
    BY <1>4, <2>4
  <2>6. QED
    BY <2>5, SameCardinality
<1> HIDE DEF Before
<1>6. DOMAIN f = 1..L /\ f \in Seq(S) /\ Len(f) = L
  BY <1>4, <1>5
<1>7. Elements(f) \subseteq S
  BY <1>5, <1>6 DEF Elements
<1>8. Cardinality(Elements(f)) = L
  <2>1. f \in [1..L -> Elements(f)]
    BY <1>4, <1>6 DEF Elements
  <2>2. \A n, m \in 1..L : f[n] = f[m] => n = m
    <3>1. TAKE n, m \in 1..L
    <3>2. HAVE f[n] = f[m]
    <3>3. n - 1 = m - 1
      BY <1>5, <3>2
    <3>4. QED
      BY <3>3
  <2>3. f \in Bijection(1..L, Elements(f))
    <3>1. f \in Injection(1..L, Elements(f))
      BY <1>6, <2>1, <2>2 DEF Injection, IsInjective
    <3>2. f \in Surjection(1..L, Elements(f))
      BY <1>6, <2>1 DEF Surjection, Elements
    <3>3. QED
      BY <3>1, <3>2 DEF Bijection
  <2>4. IsFiniteSet(1..L) /\ Cardinality(1..L) = L
    BY FS_Interval
  <2>5. ExistsBijection(1..L, Elements(f))
    BY <2>3 DEF ExistsBijection
  <2>6. QED
    BY <2>4, <2>5, FS_Bijection
<1>9. Cardinality(S \ Elements(f)) = Cardinality(S) - L
  <2>1. S \cap Elements(f) = Elements(f) /\ IsFiniteSet(S)
    BY <1>7, IdsFinite
  <2>2. QED
    BY <1>8, <2>1, FS_Difference
<1>10. QED
  BY <1>1, <1>3, <1>6, <1>7, <1>9

LEMMA HeadAndTail ==
  ASSUME NEW S, NEW s \in Seq(S), s # << >>
  PROVE  Head(s) \in S /\ Tail(s) \in Seq(S) /\ Elements(s) = {Head(s)} \cup Elements(Tail(s))
           /\ DOMAIN Tail(s) = 1..(Len(s) - 1) /\ Len(Tail(s)) = Len(s) - 1
<1>1. /\ Len(s) \in Nat \ {0} /\ DOMAIN s = 1..Len(s) /\ Head(s) = s[1] /\ Tail(s) \in Seq(S)
      /\ Len(Tail(s)) = Len(s) - 1 /\ DOMAIN Tail(s) = 1..(Len(s) - 1)
      /\ \A i \in 1..(Len(s) - 1) : Tail(s)[i] = s[i + 1]
  OBVIOUS
<1>2. Elements(s) \subseteq {Head(s)} \cup Elements(Tail(s))
  <2>1. SUFFICES ASSUME NEW i \in 1..Len(s) PROVE s[i] \in {Head(s)} \cup Elements(Tail(s))
    BY <1>1 DEF Elements
  <2>2. CASE i = 1
    BY <1>1, <2>2
  <2>3. CASE i # 1
    <3>1. i - 1 \in 1..(Len(s) - 1) /\ (i - 1) + 1 = i
      BY <1>1, <2>3
    <3>2. QED
      BY <1>1, <3>1 DEF Elements
  <2>4. QED
    BY <2>2, <2>3
<1>3. {Head(s)} \cup Elements(Tail(s)) \subseteq Elements(s)
  <2>1. \A i \in 1..(Len(s) - 1) : i + 1 \in 1..Len(s)
    BY <1>1
  <2>2. 1 \in 1..Len(s)
    BY <1>1
  <2>3. QED
    BY <1>1, <2>1, <2>2 DEF Elements
<1>4. QED
  BY <1>1, <1>2, <1>3

\* A set that gains at most as much as its bound stays within it, whatever is left
\* out of account.
LEMMA GainedWithin ==
  ASSUME NEW A \in SUBSET Ids, NEW B \in SUBSET Ids, NEW i, NEW m \in Nat, NEW n \in Nat,
         m <= n, B \subseteq A \cup {i}, i \in B \ A => m + 1 <= n
  PROVE  \A T : \A k \in Nat : Cardinality(A \ T) <= m + k => Cardinality(B \ T) <= n + k
<1> SUFFICES ASSUME NEW T, NEW k \in Nat, Cardinality(A \ T) <= m + k
             PROVE  Cardinality(B \ T) <= n + k
  OBVIOUS
<1>1. /\ IsFiniteSet(A \ T) /\ Cardinality(A \ T) \in Nat /\ Cardinality(B \ T) \in Nat
      /\ IsFiniteSet(B \ T)
  BY IdsFinite
<1>2. CASE i \in B \ A
  <2>1. B \ T \subseteq (A \ T) \cup {i}
    OBVIOUS
  <2>2. /\ IsFiniteSet((A \ T) \cup {i})
        /\ Cardinality((A \ T) \cup {i}) <= Cardinality(A \ T) + 1
        /\ Cardinality((A \ T) \cup {i}) \in Nat
    <3>1. /\ IsFiniteSet((A \ T) \cup {i})
          /\ Cardinality((A \ T) \cup {i}) =
               IF i \in A \ T THEN Cardinality(A \ T) ELSE Cardinality(A \ T) + 1
      BY <1>1, FS_AddElement
    <3>2. QED
      BY <1>1, <3>1
  <2>3. Cardinality(B \ T) <= Cardinality((A \ T) \cup {i})
    BY <2>1, <2>2, FS_Subset
  <2>4. QED
    BY <1>1, <1>2, <2>2, <2>3
<1>3. CASE i \notin B \ A
  <2>1. B \ T \subseteq A \ T
    BY <1>3
  <2>2. Cardinality(B \ T) <= Cardinality(A \ T)
    BY <1>1, <2>1, FS_Subset
  <2>3. QED
    BY <1>1, <2>2
<1>4. QED
  BY <1>2, <1>3

(***************************************************************************)
(* The memory service: types.                                              *)
(***************************************************************************)
Requests == Memory!Requests
Entries == Memory!Entries
Queries == {"actor", "thread", "habitat", "global", "related", "text"}

Merges ==
  [pc : {"update"}, why : {"merge"}, id : Ids, todo : {<< >>}, req : Requests, snap : Entries]
Archivings == [pc : {"update"}, why : {"archive"}, id : Ids, todo : Seq(Ids)]

Works ==
  {Memory!Idle} \cup [pc : {"find", "save"}, req : Requests] \cup Merges \cup Archivings
    \cup [pc : {"upsert"}, doc : Entries, of : Merges \cup Archivings]
    \cup [pc : {"count"}] \cup [pc : {"list"}, over : Nat]
    \cup [pc : {"query"}, actor : Consolidations]
    \cup [pc : {"pack"}, doc : Entries, todo : Seq(Ids)]
    \cup [pc : {"collect"}, ctx : Recalled, left : Seq(Queries), got : SUBSET (Ids \X Entries)]

StoredIn(st) == {i \in Ids : st[i] # Memory!Absent}
ActiveIn(st) == {i \in StoredIn(st) : st[i].status = "active"}
MergedIn(st) == {i \in StoredIn(st) : st[i].merged}

MemTyped ==
  /\ store \in [Ids -> Entries \cup {Memory!Absent}] /\ saved \in 0..MaxEntries
  /\ \A i \in StoredIn(store) : i <= saved
  /\ work \in [Chats -> Works]
  /\ told \in [Ids -> Requests \cup {None}]
  /\ revivals \in Nat /\ leaked \subseteq Requests
  /\ backend \in Backends /\ calls \in 0..MaxCalls /\ faults \in 0..MaxFaults

(***************************************************************************)
(* What a call in progress relies on.  An entry keeps its key: the         *)
(* stimulus, the actor and the owner it was made for.  One that no         *)
(* consolidation wrote tells what one request said, in its words and with  *)
(* its attribution; so does every reading of it.                           *)
(***************************************************************************)
Key(e) == << e.stim, e.actor, e.ownerType, e.ownerId >>
KeyOf(r) == << r.stim, r.actor, Memory!OwnerType(r), Memory!OwnerId(r) >>
Alike(e, f) == Key(e) = Key(f) /\ e.merged = f.merged

Tells(e) ==
  ~e.merged => \E r \in Requests :
    /\ e.from = {r} /\ e.vis = Memory!Visibility(r) /\ Key(e) = KeyOf(r)
    /\ e.habitat = r.habitat /\ e.thread = r.thread

Updating(w) == w.pc \in {"update", "upsert"}
Of(w) == IF w.pc = "upsert" THEN w.of ELSE w
Ahead(w) ==
  IF Updating(w) THEN {Of(w).id} \cup Elements(Of(w).todo)
  ELSE IF w.pc = "pack" THEN Elements(w.todo) ELSE {}

Sound(c, w, st) ==
  /\ Ahead(w) \subseteq StoredIn(st)
  /\ w.pc \in {"find", "save"} => w.req \in Told[c]
  /\ Updating(w) /\ Of(w).why = "merge" =>
       /\ Of(w).req \in Told[c] /\ Of(w).req.stim # None
       /\ Key(st[Of(w).id]) = KeyOf(Of(w).req)
       /\ Alike(Of(w).snap, st[Of(w).id]) /\ Tells(Of(w).snap) /\ Of(w).snap.status = "active"
  /\ w.pc = "upsert" =>
       /\ Alike(w.doc, st[w.of.id]) /\ Tells(w.doc)
       /\ w.doc.status = (IF w.of.why = "merge" THEN "active" ELSE "archived")
  /\ w.pc = "pack" => w.doc.merged /\ w.todo # << >>
  /\ w.pc = "collect" => \A p \in w.got :
       /\ p[1] \in StoredIn(st) /\ st[p[1]].merged = p[2].merged
       /\ Tells(p[2]) /\ Memory!Visible(p[2], w.ctx)

MemSound ==
  /\ \A c \in Chats : Sound(c, work[c], store)
  /\ \A i \in StoredIn(store) : Tells(store[i])

(***************************************************************************)
(* One active memory per source: a chat about to save found none, and one  *)
(* about to merge found the one there is.                                  *)
(***************************************************************************)
SourceOf(st, key) == {i \in ActiveIn(st) : ~st[i].merged /\ Key(st[i]) = key}

AloneWith(w, st) ==
  /\ w.pc = "save" /\ w.req.stim # None => SourceOf(st, KeyOf(w.req)) = {}
  /\ Updating(w) /\ Of(w).why = "merge" /\ ~st[Of(w).id].merged =>
       SourceOf(st, KeyOf(Of(w).req)) \subseteq {Of(w).id}

OneEach(st) ==
  \A i, j \in ActiveIn(st) :
    ~st[i].merged /\ ~st[j].merged /\ st[i].stim # None /\ Key(st[i]) = Key(st[j]) => i = j

MemSingle == OneEach(store) /\ \A c \in Chats : AloneWith(work[c], store)

(***************************************************************************)
(* The limit: there are not too many active memories, or a chat is on its  *)
(* way to archive the surplus.                                             *)
(***************************************************************************)
Bound(st, n) == Cap + n + Cardinality(MergedIn(st))

Enforces(w, st, n) ==
  \/ w.pc = "count"
  \/ w.pc = "list" /\ Cardinality(ActiveIn(st)) - w.over <= Bound(st, n)
  \/ /\ Updating(w) /\ Of(w).why = "archive"
     /\ Cardinality(ActiveIn(st) \ Ahead(w)) <= Bound(st, n)

Limited ==
  faults = 0 /\ Cap > 0 =>
    \/ Cardinality(ActiveIn(store)) <= Bound(store, revivals)
    \/ \E c \in Chats : Enforces(work[c], store, revivals)

(***************************************************************************)
(* What was told is stored, and what was recalled could be seen.           *)
(***************************************************************************)
ToldKept ==
  /\ \A i \in Ids : told[i] # None => i \in StoredIn(store)
  /\ backend = "memory" =>
       /\ \A i \in Ids : told[i] # None => store[i].from = {told[i]}
       /\ \A c \in Chats : work[c].pc # "upsert"

Discreet == MergedIn(store) = {} => leaked = {}

MemInv == MemTyped /\ MemSound /\ MemSingle /\ Limited /\ ToldKept /\ Discreet

(***************************************************************************)
(* The steps of a call are told apart by pc.                               *)
(***************************************************************************)
LEMMA WorkForms ==
  ASSUME NEW w \in Works
  PROVE  /\ w.pc \in {"idle", "find", "save", "update", "upsert", "count", "list", "query",
                      "pack", "collect"}
         /\ w.pc = "idle" => w = Memory!Idle
         /\ w.pc \in {"find", "save"} => w.req \in Requests
         /\ w.pc = "update" => w \in Merges \cup Archivings
         /\ w.pc = "upsert" => w.doc \in Entries /\ w.of \in Merges \cup Archivings
         /\ w.pc = "list" => w.over \in Nat
         /\ w.pc = "pack" => w.doc \in Entries /\ w.todo \in Seq(Ids)
         /\ w.pc = "collect" =>
              /\ w \in [pc : {"collect"}, ctx : Recalled, left : Seq(Queries),
                        got : SUBSET (Ids \X Entries)]
<1> USE DEF Works
<1>1. CASE w = Memory!Idle
  BY <1>1 DEF Memory!Idle
<1>2. CASE w \in [pc : {"find", "save"}, req : Requests]
  BY <1>2
<1>3. CASE w \in Merges \cup Archivings
  <2>1. w.pc = "update"
    BY <1>3 DEF Merges, Archivings
  <2>2. QED
    BY <1>3, <2>1
<1>4. CASE w \in [pc : {"upsert"}, doc : Entries, of : Merges \cup Archivings]
  BY <1>4
<1>5. CASE w \in [pc : {"count"}] \cup [pc : {"list"}, over : Nat]
                   \cup [pc : {"query"}, actor : Consolidations]
  BY <1>5
<1>6. CASE w \in [pc : {"pack"}, doc : Entries, todo : Seq(Ids)]
  BY <1>6
<1>7. CASE w \in [pc : {"collect"}, ctx : Recalled, left : Seq(Queries),
                  got : SUBSET (Ids \X Entries)]
  BY <1>7
<1>8. QED
  BY <1>1, <1>2, <1>3, <1>4, <1>5, <1>6, <1>7

LEMMA UpdateForms ==
  ASSUME NEW w \in Merges \cup Archivings
  PROVE  /\ w.pc = "update" /\ w.why \in {"merge", "archive"} /\ w.id \in Ids /\ w.todo \in Seq(Ids)
         /\ w.why = "merge" => w.todo = << >> /\ w.req \in Requests /\ w.snap \in Entries
<1>1. CASE w \in Merges
  <2>1. w.pc = "update" /\ w.why = "merge" /\ w.id \in Ids /\ w.todo = << >>
    BY <1>1 DEF Merges
  <2>2. w.req \in Requests /\ w.snap \in Entries
    BY <1>1 DEF Merges
  <2>3. << >> \in Seq(Ids)
    OBVIOUS
  <2>4. QED
    BY <2>1, <2>2, <2>3
<1>2. CASE w \in Archivings
  BY <1>2 DEF Archivings
<1>3. QED
  BY <1>1, <1>2

LEMMA OfForms ==
  ASSUME NEW w \in Works, Updating(w)
  PROVE  Of(w) \in Merges \cup Archivings
BY WorkForms DEF Updating, Of

(***************************************************************************)
(* A repository only gains entries, and what becomes of one keeps its key. *)
(***************************************************************************)
Grows(st, st2) ==
  /\ StoredIn(st) \subseteq StoredIn(st2)
  /\ \A i \in StoredIn(st) : Alike(st[i], st2[i])

LEMMA SoundAfterGrowth ==
  ASSUME NEW c \in Chats, NEW w \in Works, NEW st, NEW st2, Grows(st, st2), Sound(c, w, st)
  PROVE  Sound(c, w, st2)
<1>1. Ahead(w) \subseteq StoredIn(st2)
  BY DEF Grows, Sound
<1>2. ASSUME Updating(w)
      PROVE  Of(w).id \in StoredIn(st)
  BY <1>2 DEF Sound, Ahead
<1>3. ASSUME Updating(w), Of(w).why = "merge"
      PROVE  /\ Of(w).req \in Told[c] /\ Of(w).req.stim # None
             /\ Key(st2[Of(w).id]) = KeyOf(Of(w).req)
             /\ Alike(Of(w).snap, st2[Of(w).id]) /\ Tells(Of(w).snap)
             /\ Of(w).snap.status = "active"
  <2>1. Alike(st[Of(w).id], st2[Of(w).id])
    BY <1>2, <1>3 DEF Grows
  <2>2. QED
    BY <1>3, <2>1 DEF Sound, Alike
<1>4. ASSUME w.pc = "upsert"
      PROVE  /\ Alike(w.doc, st2[w.of.id]) /\ Tells(w.doc)
             /\ w.doc.status = (IF w.of.why = "merge" THEN "active" ELSE "archived")
  <2>1. Updating(w) /\ Of(w) = w.of
    BY <1>4 DEF Updating, Of
  <2>2. Alike(st[w.of.id], st2[w.of.id])
    BY <1>2, <2>1 DEF Grows
  <2>3. QED
    BY <1>4, <2>2 DEF Sound, Alike
<1>5. ASSUME w.pc = "collect"
      PROVE  \A p \in w.got :
               /\ p[1] \in StoredIn(st2) /\ st2[p[1]].merged = p[2].merged
               /\ Tells(p[2]) /\ Memory!Visible(p[2], w.ctx)
  <2>1. TAKE p \in w.got
  <2>2. /\ p[1] \in StoredIn(st) /\ st[p[1]].merged = p[2].merged
        /\ Tells(p[2]) /\ Memory!Visible(p[2], w.ctx)
    BY <1>5 DEF Sound
  <2>3. p[1] \in StoredIn(st2) /\ Alike(st[p[1]], st2[p[1]])
    BY <2>2 DEF Grows
  <2>4. QED
    BY <2>2, <2>3 DEF Alike
<1>6. w.pc \in {"find", "save"} => w.req \in Told[c]
  BY DEF Sound
<1>7. w.pc = "pack" => w.doc.merged /\ w.todo # << >>
  BY DEF Sound
<1>8. QED
  BY <1>1, <1>3, <1>4, <1>5, <1>6, <1>7 DEF Sound

(***************************************************************************)
(* The documents that are written.                                         *)
(***************************************************************************)
OwnerTypes == {"global", "event", "thread", "habitat", "actor", "life"}
Visibilities == {"global", "habitat", "shared", "private"}

LEMMA RequestFacts ==
  ASSUME NEW r \in Requests
  PROVE  /\ r # None /\ r.imp \in 0..100
         /\ Memory!OwnerType(r) \in OwnerTypes /\ Memory!Visibility(r) \in Visibilities
         /\ Memory!Relations(r) \subseteq UNION {Memory!Relations(s) : s \in Requests}
         /\ \E c \in Chats : r \in Told[c]
<1>1. r # None /\ r.imp \in 0..100
  BY RequestsAssumption DEF Requests
<1>2. Memory!OwnerType(r) \in OwnerTypes
  BY Zenon DEF Memory!OwnerType, OwnerTypes
<1>3. Memory!Visibility(r) \in Visibilities
  BY <1>2 DEF Memory!Visibility, OwnerTypes, Visibilities
<1>4. Memory!Relations(r) \subseteq UNION {Memory!Relations(s) : s \in Requests}
  OBVIOUS
<1>5. \E c \in Chats : r \in Told[c]
  BY DEF Requests, Memory!Requests
<1>6. QED
  BY <1>1, <1>2, <1>3, <1>4, <1>5

LEMMA ToldAreRequests ==
  ASSUME NEW c \in Chats, NEW r \in Told[c]
  PROVE  r \in Requests
BY DEF Requests, Memory!Requests

\* What was asked for one stimulus was asked in one chat, with one attribution.
LEMMA SameStimulus ==
  ASSUME NEW c \in Chats, NEW r \in Told[c], NEW d \in Chats, NEW s \in Told[d],
         r.stim = s.stim, r.stim # None
  PROVE  c = d /\ r.actor = s.actor /\ r.habitat = s.habitat /\ r.thread = s.thread
BY RequestsAssumption

EntryRecords ==
  [stim : {r.stim : r \in Requests}, actor : {r.actor : r \in Requests},
   habitat : {r.habitat : r \in Requests}, thread : {r.thread : r \in Requests},
   ownerType : OwnerTypes, ownerId : {Memory!OwnerId(r) : r \in Requests},
   vis : Visibilities, rel : SUBSET UNION {Memory!Relations(r) : r \in Requests},
   imp : 0..100, status : {"active", "archived"}, from : SUBSET Requests, merged : BOOLEAN]

LEMMA EntryFields ==
  Entries = EntryRecords
BY Zenon DEF EntryRecords, Entries, Memory!Entries, OwnerTypes, Visibilities, Requests

LEMMA NewEntryFacts ==
  ASSUME NEW r \in Requests
  PROVE  LET e == Memory!NewEntry(r)
         IN  /\ e \in Entries /\ Key(e) = KeyOf(r) /\ e.status = "active" /\ ~e.merged
             /\ e.from = {r} /\ Tells(e)
<1>1. PICK e : e = Memory!NewEntry(r)
  OBVIOUS
<1>2. /\ e.stim = r.stim /\ e.actor = r.actor /\ e.habitat = r.habitat /\ e.thread = r.thread
      /\ e.ownerType = Memory!OwnerType(r) /\ e.ownerId = Memory!OwnerId(r)
      /\ e.vis = Memory!Visibility(r) /\ e.status = "active" /\ e.from = {r} /\ e.merged = FALSE
  BY <1>1 DEF Memory!NewEntry
<1>3. e \in Entries
  <2>1. e = [stim |-> r.stim, actor |-> r.actor, habitat |-> r.habitat, thread |-> r.thread,
             ownerType |-> Memory!OwnerType(r), ownerId |-> Memory!OwnerId(r),
             vis |-> Memory!Visibility(r), rel |-> Memory!Relations(r), imp |-> r.imp,
             status |-> "active", from |-> {r}, merged |-> FALSE]
    BY <1>1 DEF Memory!NewEntry
  <2>2. /\ r.imp \in 0..100 /\ Memory!OwnerType(r) \in OwnerTypes
        /\ Memory!Visibility(r) \in Visibilities
        /\ Memory!Relations(r) \in SUBSET UNION {Memory!Relations(s) : s \in Requests}
    BY RequestFacts
  <2>3. QED
    BY <2>1, <2>2, EntryFields DEF EntryRecords
<1>4. Key(e) = KeyOf(r)
  BY <1>2 DEF Key, KeyOf
<1>5. Tells(e)
  BY <1>2, <1>4 DEF Tells
<1>6. QED
  BY <1>1, <1>2, <1>3, <1>4, <1>5

LEMMA HigherOfTwo ==
  ASSUME NEW m \in 0..100, NEW n \in 0..100
  PROVE  Memory!Max({m, n}) \in 0..100
<1>1. {m, n} \subseteq 0..100 /\ {m, n} # {} /\ 100 \in Nat
  OBVIOUS
<1>2. Memory!Max({m, n}) \in {m, n}
  BY <1>1, SmallestAndLargest
<1>3. QED
  BY <1>1, <1>2

LEMMA MergeFacts ==
  ASSUME NEW e \in Entries, NEW w \in Merges, NEW c \in Chats,
         w.req \in Told[c], w.req.stim # None, Key(e) = KeyOf(w.req),
         Alike(w.snap, e), Tells(w.snap), w.snap.status = "active"
  PROVE  LET f == Memory!Merged(e, w)
         IN  /\ f \in Entries /\ Alike(f, e) /\ Tells(f)
             /\ f.status = "active" /\ f.from = {w.req}
<1> DEFINE r == w.req
           s == w.snap
<1>1. r \in Requests /\ s \in Entries /\ w.why = "merge"
  BY DEF Merges
<1>2. PICK f : f = Memory!Merged(e, w)
  OBVIOUS
<1>3. f = [e EXCEPT !.from = {r}, !.imp = Memory!Max({s.imp, r.imp}),
                    !.habitat = IF r.habitat # None THEN r.habitat ELSE s.habitat,
                    !.thread = IF r.thread # None THEN r.thread ELSE s.thread,
                    !.vis = Memory!Visibility(r),
                    !.rel = s.rel \cup Memory!Relations(r),
                    !.status = s.status]
  BY <1>1, <1>2, Zenon DEF Memory!Merged, Memory!MergedText, Memory!MergedImportance
<1>4. /\ r.imp \in 0..100 /\ Memory!Visibility(r) \in Visibilities
      /\ Memory!Relations(r) \in SUBSET UNION {Memory!Relations(q) : q \in Requests}
  BY <1>1, RequestFacts
<1>5. s \in EntryRecords
  BY <1>1, EntryFields
<1>6. Memory!Max({s.imp, r.imp}) \in 0..100
  BY <1>4, <1>5, HigherOfTwo DEF EntryRecords
<1>7. PICK imp \in 0..100 : imp = Memory!Max({s.imp, r.imp})
  BY <1>6
<1>8. PICK habitat \in {q.habitat : q \in Requests} :
        habitat = IF r.habitat # None THEN r.habitat ELSE s.habitat
  BY <1>1, <1>5 DEF EntryRecords
<1>9. PICK thread \in {q.thread : q \in Requests} :
        thread = IF r.thread # None THEN r.thread ELSE s.thread
  BY <1>1, <1>5 DEF EntryRecords
<1>10. PICK rel \in SUBSET UNION {Memory!Relations(q) : q \in Requests} :
         rel = s.rel \cup Memory!Relations(r)
  BY <1>4, <1>5 DEF EntryRecords
<1>11. f = [e EXCEPT !.from = {r}, !.imp = imp, !.habitat = habitat, !.thread = thread,
                     !.vis = Memory!Visibility(r), !.rel = rel, !.status = s.status]
  BY <1>3, <1>7, <1>8, <1>9, <1>10, Zenon
<1>12. e \in EntryRecords
  BY EntryFields
<1>13. /\ f.stim = e.stim /\ f.actor = e.actor /\ f.ownerType = e.ownerType
       /\ f.ownerId = e.ownerId /\ f.merged = e.merged /\ f.status = s.status /\ f.from = {r}
       /\ f.vis = Memory!Visibility(r) /\ f.habitat = habitat /\ f.thread = thread
  BY <1>11, <1>12 DEF EntryRecords
<1>14. f \in Entries
  <2>1. s.status \in {"active", "archived"}
    BY <1>5 DEF EntryRecords
  <2>2. f \in EntryRecords
    BY <1>1, <1>4, <1>11, <1>12, <2>1 DEF EntryRecords
  <2>3. QED
    BY <2>2, EntryFields
<1>15. Alike(f, e)
  BY <1>13, Zenon DEF Alike, Key
<1>16. Tells(f)
  <2>1. SUFFICES ASSUME ~f.merged PROVE habitat = r.habitat /\ thread = r.thread
    <3>1. Key(f) = KeyOf(r)
      BY <1>15 DEF Alike
    <3>2. QED
      BY <1>1, <1>13, <3>1 DEF Tells
  <2>2. ~s.merged
    BY <1>13, <2>1 DEF Alike
  <2>3. PICK q \in Requests : Key(s) = KeyOf(q) /\ s.habitat = q.habitat /\ s.thread = q.thread
    BY <2>2 DEF Tells
  <2>4. q.stim = r.stim
    BY <2>3 DEF Alike, Key, KeyOf
  <2>5. PICK d \in Chats : q \in Told[d]
    BY <2>3, RequestFacts
  <2>6. q.habitat = r.habitat /\ q.thread = r.thread
    BY <2>4, <2>5, SameStimulus
  <2>7. QED
    BY <1>8, <1>9, <2>3, <2>6
<1>17. QED
  BY <1>2, <1>13, <1>14, <1>15, <1>16

LEMMA ArchiveFacts ==
  ASSUME NEW e \in Entries, NEW w \in Merges \cup Archivings, w.why = "archive"
  PROVE  LET f == Memory!Merged(e, w)
         IN  /\ f \in Entries /\ Alike(f, e) /\ (Tells(e) => Tells(f))
             /\ f.status = "archived" /\ f.from = e.from
<1>1. PICK f : f = [e EXCEPT !.status = "archived"]
  OBVIOUS
<1>2. f = Memory!Merged(e, w)
  BY <1>1 DEF Memory!Merged
<1>3. e \in EntryRecords
  BY EntryFields
<1>4. f \in Entries
  BY <1>1, <1>3, EntryFields DEF EntryRecords
<1>5. /\ f.stim = e.stim /\ f.actor = e.actor /\ f.ownerType = e.ownerType
      /\ f.ownerId = e.ownerId /\ f.merged = e.merged /\ f.status = "archived" /\ f.from = e.from
      /\ f.vis = e.vis /\ f.habitat = e.habitat /\ f.thread = e.thread
  BY <1>1, <1>3 DEF EntryRecords
<1>6. Key(f) = Key(e)
  BY <1>5 DEF Key
<1>7. QED
  BY <1>2, <1>4, <1>5, <1>6 DEF Alike, Tells

Stores == [Ids -> Entries \cup {Memory!Absent}]

LEMMA StoresFacts ==
  ASSUME NEW st \in Stores
  PROVE  /\ \A e \in Entries : e # Memory!Absent /\ e.status \in {"active", "archived"}
         /\ \A i \in Ids : i \in StoredIn(st) <=> st[i] \in Entries
         /\ ActiveIn(st) \in SUBSET Ids /\ MergedIn(st) \in SUBSET Ids
         /\ StoredIn(st) \in SUBSET Ids
<1>1. \A e \in Entries : e # Memory!Absent /\ e.status \in {"active", "archived"}
  BY EntryFields DEF EntryRecords, Memory!Absent
<1>2. \A i \in Ids : i \in StoredIn(st) <=> st[i] \in Entries
  BY <1>1 DEF Stores, StoredIn
<1>3. QED
  BY <1>1, <1>2 DEF StoredIn, ActiveIn, MergedIn

LEMMA SameSets ==
  /\ Memory!Ids = Ids /\ Memory!Stored = StoredIn(store) /\ Memory!Active = ActiveIn(store)
BY Zenon DEF Memory!Ids, Ids, Memory!Stored, StoredIn, Memory!Active, ActiveIn

\* What a consolidation of a nonempty set of active entries writes.
LEMMA ConsolidatedFacts ==
  ASSUME store \in Stores, NEW S \in SUBSET ActiveIn(store), S # {}
  PROVE  LET f == Memory!Consolidated(S)
         IN  f \in Entries /\ f.merged /\ f.status = "active" /\ Tells(f)
<1>1. S \subseteq Ids /\ \A i \in S : store[i] \in EntryRecords /\ store[i].status = "active"
  BY StoresFacts, EntryFields DEF ActiveIn, StoredIn
<1>2. Memory!Min(S) \in S
  <2>1. MaxEntries \in Nat /\ S \subseteq 0..MaxEntries
    BY <1>1, IdsFinite DEF Ids
  <2>2. QED
    BY <2>1, SmallestAndLargest
<1>3. PICK e \in EntryRecords : e = store[Memory!Min(S)] /\ e.status = "active"
  BY <1>1, <1>2
<1>4. Memory!Max({store[i].imp : i \in S}) \in 0..100
  <2>1. \A i \in S : store[i].imp \in 0..100
    BY <1>1 DEF EntryRecords
  <2>2. {store[i].imp : i \in S} \subseteq 0..100 /\ {store[i].imp : i \in S} # {}
    BY <2>1
  <2>3. Memory!Max({store[i].imp : i \in S}) \in {store[i].imp : i \in S}
    BY <2>2, SmallestAndLargest
  <2>4. QED
    BY <2>2, <2>3
<1>5. PICK imp \in 0..100 : imp = Memory!Max({store[i].imp : i \in S})
  BY <1>4
<1>6. PICK from \in SUBSET Requests : from = UNION {store[i].from : i \in S}
  <2>1. \A i \in S : store[i].from \subseteq Requests
    BY <1>1 DEF EntryRecords
  <2>2. QED
    BY <2>1
<1>7. PICK rel \in SUBSET UNION {Memory!Relations(r) : r \in Requests} :
        rel = UNION {store[i].rel : i \in S}
  <2>1. \A i \in S : store[i].rel \in SUBSET UNION {Memory!Relations(r) : r \in Requests}
    BY <1>1 DEF EntryRecords
  <2> DEFINE all == UNION {Memory!Relations(r) : r \in Requests}
  <2> HIDE DEF all
  <2>2. \A i \in S : store[i].rel \in SUBSET all
    BY <2>1 DEF all
  <2>3. UNION {store[i].rel : i \in S} \in SUBSET all
    BY <2>2
  <2>4. QED
    BY <2>3 DEF all
<1>8. PICK f : f = [e EXCEPT !.from = from, !.imp = imp, !.rel = rel, !.merged = TRUE]
  OBVIOUS
<1>9. f = Memory!Consolidated(S)
  BY <1>3, <1>5, <1>6, <1>7, <1>8 DEF Memory!Consolidated
<1>10. f.merged /\ f.status = "active"
  BY <1>3, <1>8 DEF EntryRecords
<1>11. f \in EntryRecords
  BY <1>3, <1>5, <1>6, <1>7, <1>8 DEF EntryRecords
<1>12. QED
  BY <1>9, <1>10, <1>11, EntryFields DEF Tells

(***************************************************************************)
(* Writing one entry.                                                      *)
(***************************************************************************)
\* Entry e is written under id i, over one it is alike or as a new one.
Writes(st, st2, i, e) ==
  /\ st2 = [st EXCEPT ![i] = e]
  /\ i \in StoredIn(st) => Alike(e, st[i])

LEMMA WriteFacts ==
  ASSUME NEW st \in Stores, NEW i \in Ids, NEW e \in Entries, NEW st2, Writes(st, st2, i, e)
  PROVE  /\ st2 \in Stores /\ Grows(st, st2) /\ st2[i] = e /\ \A j \in Ids \ {i} : st2[j] = st[j]
         /\ StoredIn(st2) = StoredIn(st) \cup {i}
         /\ ActiveIn(st2) = (ActiveIn(st) \ {i}) \cup (IF e.status = "active" THEN {i} ELSE {})
         /\ MergedIn(st) \subseteq MergedIn(st2) /\ (e.merged => i \in MergedIn(st2))
<1>1. st2 \in Stores /\ st2[i] = e /\ \A j \in Ids \ {i} : st2[j] = st[j]
  BY DEF Stores, Writes
<1>2. StoredIn(st2) = StoredIn(st) \cup {i}
  BY <1>1, StoresFacts DEF StoredIn
<1>3. \A j \in StoredIn(st) : Alike(st[j], st2[j])
  BY <1>1 DEF StoredIn, Writes, Alike
<1>4. ActiveIn(st2) = (ActiveIn(st) \ {i}) \cup (IF e.status = "active" THEN {i} ELSE {})
  BY <1>1, <1>2 DEF ActiveIn, StoredIn
<1>5. MergedIn(st) \subseteq MergedIn(st2) /\ (e.merged => i \in MergedIn(st2))
  BY <1>1, <1>2, <1>3 DEF MergedIn, Alike
<1>6. QED
  BY <1>1, <1>2, <1>3, <1>4, <1>5 DEF Grows

LEMMA BoundGrows ==
  ASSUME NEW st \in Stores, NEW st2 \in Stores, MergedIn(st) \subseteq MergedIn(st2),
         NEW n \in Nat, NEW n2 \in Nat, n <= n2
  PROVE  /\ Bound(st, n) \in Nat /\ Bound(st2, n2) \in Nat /\ Bound(st, n) <= Bound(st2, n2)
         /\ n < n2 => Bound(st, n) + 1 <= Bound(st2, n2)
         /\ MergedIn(st) # MergedIn(st2) => Bound(st, n) + 1 <= Bound(st2, n2)
<1>1. Cap \in Nat
  BY LimitsAssumption
<1>2. MergedIn(st) \in SUBSET Ids /\ MergedIn(st2) \in SUBSET Ids
  BY StoresFacts
<1>3. PICK m \in Nat, m2 \in Nat : m = Cardinality(MergedIn(st)) /\ m2 = Cardinality(MergedIn(st2))
  BY <1>2, IdsFinite
<1>4. m <= m2 /\ (m = m2 => MergedIn(st) = MergedIn(st2))
  BY <1>2, <1>3, IdsFinite, FS_Subset
<1>5. QED
  BY <1>1, <1>3, <1>4 DEF Bound

LEMMA EnforcesStill ==
  ASSUME NEW st \in Stores, NEW st2 \in Stores, NEW n \in Nat, NEW n2 \in Nat, n <= n2,
         MergedIn(st) \subseteq MergedIn(st2),
         NEW i \in Ids, ActiveIn(st2) \subseteq ActiveIn(st) \cup {i},
         i \in ActiveIn(st2) \ ActiveIn(st) => Bound(st, n) + 1 <= Bound(st2, n2)
  PROVE  /\ Cardinality(ActiveIn(st)) <= Bound(st, n)
              => Cardinality(ActiveIn(st2)) <= Bound(st2, n2)
         /\ \A w \in Works : Enforces(w, st, n) => Enforces(w, st2, n2)
<1>1. ActiveIn(st) \in SUBSET Ids /\ ActiveIn(st2) \in SUBSET Ids
  BY StoresFacts
<1>2. PICK m \in Nat, m2 \in Nat : m = Bound(st, n) /\ m2 = Bound(st2, n2) /\ m <= m2
  BY BoundGrows
<1>3. \A T : \A k \in Nat :
        Cardinality(ActiveIn(st) \ T) <= m + k => Cardinality(ActiveIn(st2) \ T) <= m2 + k
  BY <1>1, <1>2, GainedWithin
<1>4. /\ Cardinality(ActiveIn(st)) \in Nat /\ Cardinality(ActiveIn(st2)) \in Nat
      /\ ActiveIn(st) \ {} = ActiveIn(st) /\ ActiveIn(st2) \ {} = ActiveIn(st2)
  BY <1>1, IdsFinite
<1>5. Cardinality(ActiveIn(st)) <= m => Cardinality(ActiveIn(st2)) <= m2
  <2>1. Cardinality(ActiveIn(st) \ {}) <= m + 0 => Cardinality(ActiveIn(st2) \ {}) <= m2 + 0
    BY <1>3, 0 \in Nat
  <2>2. QED
    BY <1>2, <1>4, <2>1
<1>6. ASSUME NEW w \in Works, Enforces(w, st, n)
      PROVE  Enforces(w, st2, n2)
  <2>1. CASE w.pc = "count"
    BY <2>1 DEF Enforces
  <2>2. CASE w.pc = "list" /\ Cardinality(ActiveIn(st)) - w.over <= Bound(st, n)
    <3>1. PICK k \in Nat : k = w.over
      BY <2>2, WorkForms
    <3>2. Cardinality(ActiveIn(st) \ {}) <= m + k
      BY <1>2, <1>4, <2>2, <3>1
    <3>3. Cardinality(ActiveIn(st2) \ {}) <= m2 + k
      BY <1>3, <3>2
    <3>4. Cardinality(ActiveIn(st2)) - k <= m2
      BY <1>2, <1>4, <3>3
    <3>5. QED
      BY <1>2, <2>2, <3>1, <3>4 DEF Enforces
  <2>3. CASE /\ Updating(w) /\ Of(w).why = "archive"
             /\ Cardinality(ActiveIn(st) \ Ahead(w)) <= Bound(st, n)
    <3>1. Cardinality(ActiveIn(st) \ Ahead(w)) \in Nat /\ Cardinality(ActiveIn(st2) \ Ahead(w)) \in Nat
      BY <1>1, IdsFinite
    <3>2. Cardinality(ActiveIn(st) \ Ahead(w)) <= m + 0
      BY <1>2, <2>3, <3>1
    <3>3. Cardinality(ActiveIn(st2) \ Ahead(w)) <= m2 + 0
      BY <1>3, <3>2, 0 \in Nat
    <3>4. Cardinality(ActiveIn(st2) \ Ahead(w)) <= m2
      BY <1>2, <3>1, <3>3
    <3>5. QED
      BY <1>2, <2>3, <3>4 DEF Enforces
  <2>4. QED
    BY <1>6, <2>1, <2>2, <2>3 DEF Enforces
<1>7. QED
  BY <1>2, <1>5, <1>6

(***************************************************************************)
(* Every step moves one call, and at most writes one entry.                *)
(***************************************************************************)
LEMMA MoveKeeps ==
  ASSUME MemInv, NEW c \in Chats, NEW w \in Works, work' = [work EXCEPT ![c] = w],
         UNCHANGED << backend, store, saved, told, revivals >>,
         calls' \in 0..MaxCalls, faults' \in 0..MaxFaults, faults' = 0 => faults = 0,
         leaked' \subseteq Requests, MergedIn(store) = {} /\ leaked = {} => leaked' = {},
         Sound(c, w, store), AloneWith(w, store), w.pc = "upsert" => backend # "memory",
         faults' = 0 /\ Cap > 0 /\ Enforces(work[c], store, revivals) =>
           \/ Cardinality(ActiveIn(store)) <= Bound(store, revivals)
           \/ Enforces(w, store, revivals)
  PROVE  MemInv'
<1>1. work'[c] = w /\ \A d \in Chats \ {c} : work'[d] = work[d]
  BY DEF MemInv, MemTyped
<1>2. MemTyped'
  <2>1. work' \in [Chats -> Works]
    BY DEF MemInv, MemTyped
  <2>2. QED
    BY <2>1 DEF MemInv, MemTyped
<1>3. MemSound'
  <2>1. \A d \in Chats : Sound(d, work'[d], store)
    BY <1>1 DEF MemInv, MemSound
  <2>2. QED
    BY <2>1 DEF MemInv, MemSound
<1>4. MemSingle'
  <2>1. \A d \in Chats : AloneWith(work'[d], store)
    BY <1>1 DEF MemInv, MemSingle
  <2>2. QED
    BY <2>1 DEF MemInv, MemSingle
<1>5. Limited'
  <2>1. SUFFICES ASSUME faults' = 0, faults = 0, Cap > 0
                 PROVE  \/ Cardinality(ActiveIn(store)) <= Bound(store, revivals)
                        \/ \E d \in Chats : Enforces(work'[d], store, revivals)
    BY DEF Limited
  <2>2. CASE Cardinality(ActiveIn(store)) <= Bound(store, revivals)
    BY <2>2
  <2>3. CASE \E d \in Chats : Enforces(work[d], store, revivals)
    <3>1. PICK d \in Chats : Enforces(work[d], store, revivals)
      BY <2>3
    <3>2. CASE d = c
      BY <1>1, <2>1, <3>1, <3>2
    <3>3. CASE d # c
      BY <1>1, <3>1, <3>3
    <3>4. QED
      BY <3>2, <3>3
  <2>4. QED
    BY <2>1, <2>2, <2>3 DEF MemInv, Limited
<1>6. ToldKept'
  <2>1. backend = "memory" => \A d \in Chats : work'[d].pc # "upsert"
    BY <1>1 DEF MemInv, ToldKept
  <2>2. QED
    BY <2>1 DEF MemInv, ToldKept
<1>7. Discreet'
  BY DEF MemInv, Discreet
<1>8. QED
  BY <1>2, <1>3, <1>4, <1>5, <1>6, <1>7 DEF MemInv

\* The key of an entry that a chat makes active is one that only its own requests
\* have, and no active entry but that one has it.
Fresh(c, st, i, e) ==
  i \notin ActiveIn(st) /\ e.status = "active" /\ ~e.merged =>
    /\ \E r \in Told[c] : Key(e) = KeyOf(r)
    /\ e.stim # None => SourceOf(st, Key(e)) \subseteq {i}

LEMMA SingleAfterWrite ==
  ASSUME NEW st \in Stores, NEW i \in Ids, NEW e \in Entries, NEW st2, Writes(st, st2, i, e),
         NEW c \in Chats, Fresh(c, st, i, e), OneEach(st)
  PROVE  /\ OneEach(st2)
         /\ \A d \in Chats \ {c} : \A w \in Works :
              Sound(d, w, st) /\ AloneWith(w, st) => AloneWith(w, st2)
<1> USE WriteFacts
<1>1. \A key : SourceOf(st2, key) \subseteq SourceOf(st, key) \cup {i}
  <2>1. TAKE key
  <2>2. SUFFICES ASSUME NEW j \in SourceOf(st2, key), j # i
                 PROVE  j \in SourceOf(st, key)
    OBVIOUS
  <2>3. j \in ActiveIn(st) /\ st2[j] = st[j]
    BY <2>2, StoresFacts DEF SourceOf
  <2>4. QED
    BY <2>2, <2>3 DEF SourceOf
<1>2. \A key : i \in SourceOf(st2, key) \ SourceOf(st, key) =>
        key = Key(e) /\ i \notin ActiveIn(st) /\ e.status = "active" /\ ~e.merged
  <2>1. TAKE key
  <2>2. HAVE i \in SourceOf(st2, key) \ SourceOf(st, key)
  <2>3. i \in ActiveIn(st2) /\ ~e.merged /\ Key(e) = key /\ e.status = "active"
    BY <2>2 DEF SourceOf, ActiveIn
  <2>4. i \notin ActiveIn(st)
    <3>1. SUFFICES ASSUME i \in ActiveIn(st) PROVE i \in SourceOf(st, key)
      BY <2>2
    <3>2. Alike(e, st[i])
      BY <3>1 DEF Writes, ActiveIn
    <3>3. QED
      BY <2>3, <3>1, <3>2 DEF SourceOf, Alike
  <2>5. QED
    BY <2>3, <2>4
<1>3. OneEach(st2)
  <2>1. SUFFICES ASSUME NEW k \in ActiveIn(st2), NEW j \in ActiveIn(st2),
                        ~st2[k].merged, ~st2[j].merged, st2[k].stim # None,
                        Key(st2[k]) = Key(st2[j])
                 PROVE  k = j
    BY DEF OneEach
  <2> DEFINE key == Key(st2[k])
  <2>2. k \in SourceOf(st2, key) /\ j \in SourceOf(st2, key)
    BY <2>1 DEF SourceOf
  <2>3. key[1] # None
    BY <2>1 DEF Key
  <2>4. \A m, n \in SourceOf(st, key) : m = n
    <3>1. TAKE m, n \in SourceOf(st, key)
    <3>2. /\ m \in ActiveIn(st) /\ n \in ActiveIn(st) /\ ~st[m].merged /\ ~st[n].merged
          /\ Key(st[m]) = key /\ Key(st[n]) = key
      BY DEF SourceOf
    <3>3. st[m].stim # None
      <4>1. Key(st[m])[1] = st[m].stim
        BY DEF Key
      <4>2. QED
        BY <2>3, <3>2, <4>1
    <3>4. Key(st[m]) = Key(st[n])
      BY <3>2
    <3>5. QED
      BY <3>2, <3>3, <3>4 DEF OneEach
  <2>5. CASE i \in SourceOf(st2, key) \ SourceOf(st, key)
    <3>1. key = Key(e) /\ i \notin ActiveIn(st) /\ e.status = "active" /\ ~e.merged
      BY <1>2, <2>5
    <3>2. e.stim # None
      BY <2>3, <3>1 DEF Key
    <3>3. SourceOf(st, key) \subseteq {i}
      BY <3>1, <3>2 DEF Fresh
    <3>4. QED
      BY <1>1, <2>2, <3>3
  <2>6. CASE i \notin SourceOf(st2, key) \ SourceOf(st, key)
    <3>1. SourceOf(st2, key) \subseteq SourceOf(st, key)
      BY <1>1, <2>6
    <3>2. QED
      BY <2>2, <2>4, <3>1
  <2>7. QED
    BY <2>5, <2>6
<1>4. ASSUME NEW d \in Chats \ {c}, NEW r \in Told[d], r.stim # None
      PROVE  SourceOf(st2, KeyOf(r)) \subseteq SourceOf(st, KeyOf(r))
  <2>1. SUFFICES ASSUME i \in SourceOf(st2, KeyOf(r)) \ SourceOf(st, KeyOf(r)) PROVE FALSE
    BY <1>1
  <2>2. PICK s \in Told[c] : KeyOf(r) = KeyOf(s)
    BY <1>2, <2>1 DEF Fresh
  <2>3. r.stim = s.stim
    BY <2>2 DEF KeyOf
  <2>4. QED
    BY <1>4, <2>3, SameStimulus
<1>5. ASSUME NEW d \in Chats \ {c}, NEW w \in Works, Sound(d, w, st), AloneWith(w, st)
      PROVE  AloneWith(w, st2)
  <2>1. ASSUME w.pc = "save", w.req.stim # None
        PROVE  SourceOf(st2, KeyOf(w.req)) = {}
    <3>1. w.req \in Told[d] /\ SourceOf(st, KeyOf(w.req)) = {}
      BY <1>5, <2>1 DEF Sound, AloneWith
    <3>2. QED
      BY <1>4, <2>1, <3>1
  <2>2. ASSUME Updating(w), Of(w).why = "merge", ~st2[Of(w).id].merged
        PROVE  SourceOf(st2, KeyOf(Of(w).req)) \subseteq {Of(w).id}
    <3>1. Of(w).req \in Told[d] /\ Of(w).req.stim # None /\ Of(w).id \in StoredIn(st)
      BY <1>5, <2>2 DEF Sound, Ahead
    <3>2. ~st[Of(w).id].merged
      BY <2>2, <3>1 DEF Grows, Alike
    <3>3. SourceOf(st, KeyOf(Of(w).req)) \subseteq {Of(w).id}
      BY <1>5, <2>2, <3>2 DEF AloneWith
    <3>4. QED
      BY <1>4, <3>1, <3>3
  <2>3. QED
    BY <2>1, <2>2 DEF AloneWith
<1>6. QED
  BY <1>3, <1>5

LEMMA WriteKeeps ==
  ASSUME MemInv, NEW c \in Chats, NEW w \in Works, work' = [work EXCEPT ![c] = w],
         NEW i \in Ids, NEW e \in Entries, NEW st2, store' = st2, Writes(store, st2, i, e),
         saved' \in 0..MaxEntries, saved <= saved', i <= saved',
         UNCHANGED << backend, calls, faults, leaked >>,
         NEW n2 \in Nat, revivals' = n2, revivals <= n2,
         told' \in [Ids -> Requests \cup {None}], \A j \in Ids \ {i} : told'[j] = told[j],
         backend = "memory" /\ told'[i] # None => e.from = {told'[i]},
         Tells(e), Fresh(c, store, i, e),
         Sound(c, w, st2), AloneWith(w, st2), w.pc = "upsert" => backend # "memory",
         faults = 0 /\ Cap > 0 =>
           \/ Enforces(w, st2, n2)
           \/ /\ i \in ActiveIn(st2) \ ActiveIn(store) => Bound(store, revivals) + 1 <= Bound(st2, n2)
              /\ Enforces(work[c], store, revivals) =>
                   Cardinality(ActiveIn(st2)) <= Bound(st2, n2)
  PROVE  MemInv'
<1>1. work'[c] = w /\ \A d \in Chats \ {c} : work'[d] = work[d]
  BY DEF MemInv, MemTyped
<1>2. /\ store \in Stores /\ \A d \in Chats : work[d] \in Works
      /\ saved \in Nat /\ saved' \in Nat /\ revivals \in Nat
  BY IdsFinite DEF MemInv, MemTyped, Stores
<1>3. /\ st2 \in Stores /\ Grows(store, st2) /\ st2[i] = e /\ \A j \in Ids \ {i} : st2[j] = store[j]
      /\ StoredIn(st2) = StoredIn(store) \cup {i}
      /\ ActiveIn(st2) \subseteq ActiveIn(store) \cup {i}
      /\ MergedIn(store) \subseteq MergedIn(st2)
  BY <1>2, WriteFacts
<1>4. MemTyped'
  <2>1. work' \in [Chats -> Works]
    BY DEF MemInv, MemTyped
  <2>2. \A j \in StoredIn(st2) : j <= saved'
    <3>1. \A j \in StoredIn(store) : j <= saved /\ j \in Nat
      BY IdsFinite DEF MemInv, MemTyped, StoredIn
    <3>2. \A j \in StoredIn(store) : j <= saved'
      BY <1>2, <3>1
    <3>3. QED
      BY <1>3, <3>2
  <2>3. QED
    BY <1>3, <2>1, <2>2 DEF MemInv, MemTyped, Stores
<1>5. MemSound'
  <2>1. \A d \in Chats : Sound(d, work'[d], st2)
    <3>1. TAKE d \in Chats
    <3>2. CASE d = c
      BY <1>1, <3>2
    <3>3. CASE d # c
      <4>1. work[d] \in Works /\ Sound(d, work[d], store)
        BY <1>2 DEF MemInv, MemSound
      <4>2. Sound(d, work[d], st2)
        BY <1>3, <4>1, SoundAfterGrowth
      <4>3. QED
        BY <1>1, <3>3, <4>2
    <3>4. QED
      BY <3>2, <3>3
  <2>2. \A j \in StoredIn(st2) : Tells(st2[j])
    <3>1. \A j \in StoredIn(store) : Tells(store[j]) /\ j \in Ids
      BY DEF MemInv, MemSound, StoredIn
    <3>2. QED
      BY <1>3, <3>1
  <2>3. QED
    BY <2>1, <2>2 DEF MemSound
<1>6. MemSingle'
  <2>1. OneEach(store) /\ \A d \in Chats : Sound(d, work[d], store) /\ AloneWith(work[d], store)
    BY DEF MemInv, MemSingle, MemSound
  <2>2. OneEach(st2)
    BY <1>2, <2>1, SingleAfterWrite
  <2>3. \A d \in Chats \ {c} : AloneWith(work[d], st2)
    BY <1>2, <2>1, SingleAfterWrite
  <2>4. \A d \in Chats : AloneWith(work'[d], st2)
    BY <1>1, <2>3
  <2>5. QED
    BY <2>2, <2>4 DEF MemSingle
<1>7. Limited'
  <2>1. SUFFICES ASSUME faults = 0, Cap > 0
                 PROVE  \/ Cardinality(ActiveIn(st2)) <= Bound(st2, n2)
                        \/ \E d \in Chats : Enforces(work'[d], st2, n2)
    BY DEF Limited
  <2>2. CASE Enforces(w, st2, n2)
    BY <1>1, <2>2
  <2>3. CASE /\ i \in ActiveIn(st2) \ ActiveIn(store) =>
                  Bound(store, revivals) + 1 <= Bound(st2, n2)
             /\ Enforces(work[c], store, revivals) =>
                  Cardinality(ActiveIn(st2)) <= Bound(st2, n2)
    <3>1. /\ Cardinality(ActiveIn(store)) <= Bound(store, revivals)
               => Cardinality(ActiveIn(st2)) <= Bound(st2, n2)
          /\ \A v \in Works : Enforces(v, store, revivals) => Enforces(v, st2, n2)
      BY <1>2, <1>3, <2>3, EnforcesStill
    <3>2. \/ Cardinality(ActiveIn(store)) <= Bound(store, revivals)
          \/ \E d \in Chats : Enforces(work[d], store, revivals)
      BY <2>1 DEF MemInv, Limited
    <3>3. ASSUME NEW d \in Chats, Enforces(work[d], store, revivals)
          PROVE  \/ Cardinality(ActiveIn(st2)) <= Bound(st2, n2)
                 \/ Enforces(work'[d], st2, n2)
      <4>1. CASE d = c
        BY <2>3, <3>3, <4>1
      <4>2. CASE d # c
        BY <1>1, <1>2, <3>1, <3>3, <4>2
      <4>3. QED
        BY <4>1, <4>2
    <3>4. QED
      BY <3>1, <3>2, <3>3
  <2>4. QED
    BY <2>1, <2>2, <2>3
<1>8. ToldKept'
  <2>1. \A j \in Ids : told'[j] # None => j \in StoredIn(st2)
    <3>1. \A j \in Ids : told[j] # None => j \in StoredIn(store)
      BY DEF MemInv, ToldKept
    <3>2. QED
      BY <1>3, <3>1
  <2>2. ASSUME backend = "memory"
        PROVE  \A j \in Ids : told'[j] # None => st2[j].from = {told'[j]}
    <3>1. \A j \in Ids : told[j] # None => store[j].from = {told[j]}
      BY <2>2 DEF MemInv, ToldKept
    <3>2. QED
      BY <1>3, <2>2, <3>1
  <2>3. backend = "memory" => \A d \in Chats : work'[d].pc # "upsert"
    BY <1>1 DEF MemInv, ToldKept
  <2>4. QED
    BY <2>1, <2>2, <2>3 DEF ToldKept
<1>9. Discreet'
  BY <1>3 DEF MemInv, Discreet
<1>10. QED
  BY <1>4, <1>5, <1>6, <1>7, <1>8, <1>9 DEF MemInv

(***************************************************************************)
(* The actions.                                                            *)
(***************************************************************************)
LEMMA Here ==
  ASSUME MemInv, NEW c \in Chats
  PROVE  /\ work[c] \in Works /\ Sound(c, work[c], store) /\ AloneWith(work[c], store)
         /\ store \in Stores /\ saved \in 0..MaxEntries /\ revivals \in Nat
         /\ \A i \in StoredIn(store) : i <= saved /\ store[i] \in Entries /\ Tells(store[i])
         /\ leaked \subseteq Requests /\ calls \in 0..MaxCalls /\ faults \in 0..MaxFaults
         /\ told \in [Ids -> Requests \cup {None}]
         /\ backend = "memory" => work[c].pc # "upsert"
         /\ MaxEntries \in Nat /\ MaxCalls \in Nat /\ MaxFaults \in Nat
<1>1. MaxEntries \in Nat /\ MaxCalls \in Nat /\ MaxFaults \in Nat
  BY LimitsAssumption
<1>2. store \in Stores
  BY DEF MemInv, MemTyped, Stores
<1>3. \A i \in StoredIn(store) : store[i] \in Entries
  BY <1>2, StoresFacts
<1>4. QED
  BY <1>1, <1>2, <1>3 DEF MemInv, MemTyped, MemSound, MemSingle, ToldKept

\* A call that begins or goes on to nothing in particular.
LEMMA CalmMoves ==
  ASSUME NEW c \in Chats, NEW w \in Works, NEW st,
         w.pc \in {"idle", "find", "count", "list", "query", "collect"},
         w.pc = "find" => w.req \in Told[c], w.pc = "collect" => w.got = {}
  PROVE  Sound(c, w, st) /\ AloneWith(w, st)
<1>1. ~Updating(w) /\ w.pc \notin {"pack", "upsert", "save"} /\ Ahead(w) = {}
  BY DEF Updating, Ahead
<1>2. Sound(c, w, st)
  BY <1>1 DEF Sound
<1>3. AloneWith(w, st)
  BY <1>1 DEF AloneWith
<1>4. QED
  BY <1>2, <1>3

LEMMA IdleFacts ==
  /\ Memory!Idle \in Works /\ Memory!Idle.pc = "idle"
  /\ \A st, n : ~Enforces(Memory!Idle, st, n)
<1>1. Memory!Idle \in Works /\ Memory!Idle.pc = "idle"
  BY DEF Works, Memory!Idle
<1>2. \A st, n : ~Enforces(Memory!Idle, st, n)
  BY <1>1 DEF Enforces, Updating
<1>3. QED
  BY <1>1, <1>2

LEMMA BeginKeeps ==
  ASSUME MemInv, NEW c \in Chats, NEW w \in Works, Memory!Begin(c, w),
         w.pc \in {"find", "query", "collect"},
         w.pc = "find" => w.req \in Told[c], w.pc = "collect" => w.got = {}
  PROVE  MemInv'
<1>1. /\ work[c] = Memory!Idle /\ calls < MaxCalls /\ calls' = calls + 1
      /\ work' = [work EXCEPT ![c] = w]
      /\ UNCHANGED << backend, store, saved, told, revivals >>
      /\ leaked' = leaked /\ faults' = faults
  BY DEF Memory!Begin, Memory!history
<1>2. calls' \in 0..MaxCalls
  BY <1>1, Here
<1>3. leaked' \subseteq Requests /\ faults' \in 0..MaxFaults
  BY <1>1, Here
<1>4. Sound(c, w, store) /\ AloneWith(w, store)
  BY CalmMoves
<1>5. ~Enforces(work[c], store, revivals)
  BY <1>1, IdleFacts
<1>6. w.pc = "upsert" => backend # "memory"
  OBVIOUS
<1>7. QED
  BY <1>1, <1>2, <1>3, <1>4, <1>5, <1>6, MoveKeeps

LEMMA QueriesAreASequence ==
  ASSUME NEW q
  PROVE  Memory!Queries(q) \in Seq(Queries)
<1> DEFINE names == << "actor", "thread", "habitat", "global", "related", "text" >>
           S == {name \in Memory!ToSet(names) : Memory!Needed(q, name)}
<1>1. names \in Seq(Queries)
  BY DEF Queries
<1> HIDE DEF names
<1>2. Memory!Only(names, S) = Only(names, S)
  BY DEF Memory!Only, Only
<1> HIDE DEF S
<1>3. Only(names, S) \in Seq(Queries)
  BY <1>1, OnlyFacts
<1> USE DEF names, S
<1>4. Memory!Queries(q) = Memory!Only(names, S)
  BY DEF Memory!Queries
<1>5. QED
  BY <1>2, <1>3, <1>4

LEMMA CallKeeps ==
  ASSUME MemInv, NEW c \in Chats, Memory!Call(c)
  PROVE  MemInv'
<1>1. ASSUME NEW r \in Told[c], Memory!Request(c, r)
      PROVE  MemInv'
  <2>1. PICK w : w = [pc |-> "find", req |-> r]
    OBVIOUS
  <2>2. w.pc = "find" /\ w.req = r /\ w \in Works
    BY <2>1, ToldAreRequests DEF Works
  <2>3. Memory!Begin(c, w)
    BY <1>1, <2>1 DEF Memory!Request
  <2>4. QED
    BY <2>2, <2>3, BeginKeeps
<1>2. ASSUME NEW a \in Consolidations, Memory!Consolidate(c, a)
      PROVE  MemInv'
  <2>1. PICK w : w = [pc |-> "query", actor |-> a]
    OBVIOUS
  <2>2. w.pc = "query" /\ w \in Works
    BY <2>1 DEF Works
  <2>3. Memory!Begin(c, w)
    BY <1>2, <2>1 DEF Memory!Consolidate
  <2>4. QED
    BY <2>2, <2>3, BeginKeeps
<1>3. ASSUME NEW q \in Recalled, Memory!BuildContext(c, q)
      PROVE  MemInv'
  <2>1. PICK left \in Seq(Queries) : left = Memory!Queries(q)
    BY QueriesAreASequence
  <2>2. PICK w : w = [pc |-> "collect", ctx |-> q, left |-> left, got |-> {}]
    OBVIOUS
  <2>3. w.pc = "collect" /\ w.got = {} /\ w \in Works
    BY <2>1, <2>2 DEF Works
  <2>4. Memory!Begin(c, w)
    BY <1>3, <2>1, <2>2 DEF Memory!BuildContext
  <2>5. QED
    BY <2>3, <2>4, BeginKeeps
<1>4. QED
  BY <1>1, <1>2, <1>3 DEF Memory!Call

LEMMA ThrowKeeps ==
  ASSUME MemInv, NEW c \in Chats, Memory!Throw(c)
  PROVE  MemInv'
<1>1. /\ faults < MaxFaults /\ faults' = faults + 1
      /\ work' = [work EXCEPT ![c] = Memory!Idle]
      /\ UNCHANGED << backend, store, saved, told, revivals >>
      /\ leaked' = leaked /\ calls' = calls
  BY DEF Memory!Throw, Memory!Done, Memory!Goto, Memory!history
<1>2. faults' \in 0..MaxFaults /\ faults' # 0
  BY <1>1, Here
<1>3. leaked' \subseteq Requests /\ calls' \in 0..MaxCalls
  BY <1>1, Here
<1>4. Sound(c, Memory!Idle, store) /\ AloneWith(Memory!Idle, store)
  BY IdleFacts, CalmMoves
<1>5. Memory!Idle \in Works /\ Memory!Idle.pc # "upsert"
  BY IdleFacts
<1>6. QED
  BY <1>1, <1>2, <1>3, <1>4, <1>5, MoveKeeps

LEMMA GotoKeeps ==
  ASSUME MemInv, NEW c \in Chats, NEW w \in Works, Memory!Goto(c, w),
         UNCHANGED << backend, store, saved, calls, faults, told, revivals, leaked >>,
         Sound(c, w, store), AloneWith(w, store), w.pc # "upsert",
         Cap > 0 /\ Enforces(work[c], store, revivals) =>
           \/ Cardinality(ActiveIn(store)) <= Bound(store, revivals)
           \/ Enforces(w, store, revivals)
  PROVE  MemInv'
<1>1. work' = [work EXCEPT ![c] = w]
  BY DEF Memory!Goto
<1>2. UNCHANGED << backend, store, saved, told, revivals >>
  OBVIOUS
<1>3. calls' \in 0..MaxCalls /\ faults' \in 0..MaxFaults /\ leaked' \subseteq Requests
  BY Here
<1>4. /\ faults' = 0 => faults = 0
      /\ MergedIn(store) = {} /\ leaked = {} => leaked' = {}
      /\ w.pc = "upsert" => backend # "memory"
  OBVIOUS
<1>5. faults' = 0 /\ Cap > 0 /\ Enforces(work[c], store, revivals) =>
        \/ Cardinality(ActiveIn(store)) <= Bound(store, revivals)
        \/ Enforces(w, store, revivals)
  OBVIOUS
<1>6. QED
  BY <1>1, <1>2, <1>3, <1>4, <1>5, MoveKeeps

LEMMA NothingAfter ==
  Elements(<< >>) = {}
BY DEF Elements

\* findExistingEntry finds active entries of the request's key, and only those.
LEMMA FoundFacts ==
  ASSUME MemInv, NEW c \in Chats, NEW r \in Told[c]
  PROVE  /\ Memory!SameSource(r) \in SUBSET Ids
         /\ \A i : i \in Memory!SameSource(r) <=>
              r.stim # None /\ i \in ActiveIn(store) /\ Key(store[i]) = KeyOf(r)
<1>1. \A i \in StoredIn(store) : store[i].status \in {"active", "archived"}
  BY Here, StoresFacts
<1>2. \A i : i \in Memory!SameSource(r) <=>
        r.stim # None /\ i \in ActiveIn(store) /\ Key(store[i]) = KeyOf(r)
  BY <1>1, SameSets DEF Memory!SameSource, ActiveIn, Key, KeyOf
<1>3. QED
  BY <1>2, Here, StoresFacts

LEMMA FindKeeps ==
  ASSUME MemInv, NEW c \in Chats, Memory!Find(c)
  PROVE  MemInv'
<1> DEFINE r == work[c].req
           found == Memory!SameSource(r)
<1>1. /\ work[c].pc = "find"
      /\ UNCHANGED << backend, store, saved, calls, faults, told, revivals, leaked >>
  BY DEF Memory!Find, Memory!bounds, Memory!history
<1>2. r \in Told[c] /\ r \in Requests
  BY <1>1, Here, ToldAreRequests DEF Sound
<1>3. /\ found \in SUBSET Ids
      /\ \A i : i \in found <=> r.stim # None /\ i \in ActiveIn(store) /\ Key(store[i]) = KeyOf(r)
  BY <1>2, FoundFacts
<1>4. SourceOf(store, KeyOf(r)) = {i \in ActiveIn(store) : ~store[i].merged /\ Key(store[i]) = KeyOf(r)}
  BY DEF SourceOf
<1>5. ~Enforces(work[c], store, revivals)
  BY <1>1 DEF Enforces, Updating
<1>6. CASE found # {}
  <2>1. PICK i : i = Memory!Max(found)
    OBVIOUS
  <2>2. i \in found
    <3>1. MaxEntries \in Nat /\ found \subseteq 0..MaxEntries
      BY <1>3, IdsFinite DEF Ids
    <3>2. QED
      BY <1>6, <2>1, <3>1, SmallestAndLargest
  <2>3. PICK e \in Entries : e = store[i]
    BY <1>3, <2>2, Here DEF ActiveIn
  <2>4. PICK w : w = [pc |-> "update", why |-> "merge", id |-> i, todo |-> << >>,
                      req |-> r, snap |-> e]
    OBVIOUS
  <2>5. /\ w.pc = "update" /\ w.why = "merge" /\ w.id = i /\ w.todo = << >> /\ w.req = r
        /\ w.snap = e
    BY <2>4
  <2>6. w \in Works
    <3>1. w \in Merges
      BY <1>2, <1>3, <2>2, <2>4 DEF Merges
    <3>2. QED
      BY <3>1 DEF Works
  <2>7. Updating(w) /\ Of(w) = w /\ Ahead(w) = {i}
    BY <2>5, NothingAfter DEF Updating, Of, Ahead
  <2>8. /\ r.stim # None /\ i \in ActiveIn(store) /\ i \in StoredIn(store)
        /\ Key(e) = KeyOf(r) /\ e.status = "active" /\ Tells(e)
    BY <1>3, <2>2, <2>3, Here DEF ActiveIn
  <2>9. Sound(c, w, store)
    BY <1>2, <2>3, <2>5, <2>7, <2>8 DEF Sound, Alike
  <2>10. AloneWith(w, store)
    <3>1. SUFFICES ASSUME ~store[i].merged, NEW j \in SourceOf(store, KeyOf(r)) PROVE j = i
      BY <2>5, <2>7 DEF AloneWith
    <3>2. /\ j \in ActiveIn(store) /\ ~store[j].merged /\ Key(store[j]) = KeyOf(r)
      BY DEF SourceOf
    <3>3. store[j].stim # None
      BY <2>8, <3>2 DEF Key, KeyOf
    <3>4. Key(store[i]) = Key(store[j])
      BY <2>3, <2>8, <3>2
    <3>5. OneEach(store)
      BY DEF MemInv, MemSingle
    <3>6. QED
      BY <2>8, <3>1, <3>2, <3>3, <3>4, <3>5 DEF OneEach
  <2>11. Memory!Goto(c, w)
    BY <1>6, <2>1, <2>3, <2>4 DEF Memory!Find
  <2>12. QED
    BY <1>1, <1>5, <2>5, <2>6, <2>9, <2>10, <2>11, GotoKeeps
<1>7. CASE found = {}
  <2>1. PICK w : w = [pc |-> "save", req |-> r]
    OBVIOUS
  <2>2. w.pc = "save" /\ w.req = r
    BY <2>1
  <2>3. w \in Works
    BY <1>2, <2>1 DEF Works
  <2>4. ~Updating(w) /\ Ahead(w) = {}
    BY <2>2 DEF Updating, Ahead
  <2>5. Sound(c, w, store)
    BY <1>2, <2>2, <2>4 DEF Sound
  <2>6. AloneWith(w, store)
    BY <1>3, <1>4, <1>7, <2>2, <2>4 DEF AloneWith
  <2>7. Memory!Goto(c, w)
    BY <1>7, <2>1 DEF Memory!Find
  <2>8. QED
    BY <1>1, <1>5, <2>2, <2>3, <2>5, <2>6, <2>7, GotoKeeps
<1>8. QED
  BY <1>6, <1>7

LEMMA GoesIdle ==
  ASSUME MemInv, NEW c \in Chats, Memory!Done(c),
         UNCHANGED << backend, store, saved, calls, faults, told, revivals, leaked >>,
         Cap > 0 /\ Enforces(work[c], store, revivals) =>
           Cardinality(ActiveIn(store)) <= Bound(store, revivals)
  PROVE  MemInv'
<1>1. Memory!Idle \in Works /\ Memory!Idle.pc = "idle"
  BY IdleFacts
<1>2. Sound(c, Memory!Idle, store) /\ AloneWith(Memory!Idle, store)
  BY <1>1, CalmMoves
<1>3. Memory!Goto(c, Memory!Idle) /\ Memory!Idle.pc # "upsert"
  BY <1>1 DEF Memory!Done
<1>4. QED
  BY <1>1, <1>2, <1>3, GotoKeeps

LEMMA CountKeeps ==
  ASSUME MemInv, NEW c \in Chats, Memory!Count(c)
  PROVE  MemInv'
<1>1. /\ work[c].pc = "count"
      /\ UNCHANGED << backend, store, saved, calls, faults, told, revivals, leaked >>
  BY DEF Memory!Count, Memory!bounds, Memory!history
<1>2. PICK k \in Nat : k = Cardinality(ActiveIn(store))
  BY Here, StoresFacts, IdsFinite
<1>3. PICK b \in Nat : b = Bound(store, revivals)
  BY Here, BoundGrows
<1>4. Cap \in Nat /\ Cap <= b
  <2>1. Cap \in Nat /\ Cardinality(MergedIn(store)) \in Nat /\ revivals \in Nat
    BY Here, StoresFacts, IdsFinite, LimitsAssumption
  <2>2. QED
    BY <1>3, <2>1 DEF Bound
<1>5. Memory!Surplus = k - Cap
  BY <1>2, SameSets, SameCardinality DEF Memory!Surplus
<1>6. CASE Cap = 0 \/ k - Cap <= 0
  <2>1. Memory!Done(c)
    BY <1>5, <1>6 DEF Memory!Count
  <2>2. Cap > 0 => Cardinality(ActiveIn(store)) <= Bound(store, revivals)
    BY <1>2, <1>3, <1>4, <1>6
  <2>3. QED
    BY <1>1, <2>1, <2>2, GoesIdle
<1>7. CASE ~(Cap = 0 \/ k - Cap <= 0)
  <2>1. PICK n \in Nat : n = k - Cap
    BY <1>4, <1>7
  <2>2. PICK w : w = [pc |-> "list", over |-> n]
    OBVIOUS
  <2>3. w.pc = "list" /\ w.over = n /\ w \in Works
    BY <2>2 DEF Works
  <2>4. Memory!Goto(c, w)
    BY <1>5, <1>7, <2>1, <2>2 DEF Memory!Count
  <2>5. Sound(c, w, store) /\ AloneWith(w, store)
    BY <2>3, CalmMoves
  <2>6. k - n <= b
    BY <1>4, <2>1
  <2>7. Enforces(w, store, revivals)
    BY <1>2, <1>3, <2>3, <2>6 DEF Enforces
  <2>8. QED
    BY <1>1, <2>3, <2>4, <2>5, <2>7, GotoKeeps
<1>8. QED
  BY <1>6, <1>7

\* Archiving the entries of a list one after the other.
LEMMA ArchivingFacts ==
  ASSUME NEW st, NEW c \in Chats, NEW ids \in Seq(Ids), ids # << >>, Elements(ids) \subseteq StoredIn(st),
         NEW w, w = [pc |-> "update", why |-> "archive", id |-> Head(ids), todo |-> Tail(ids)]
  PROVE  /\ w \in Works /\ w.pc = "update" /\ Ahead(w) = Elements(ids)
         /\ Updating(w) /\ Of(w).why = "archive"
         /\ Sound(c, w, st) /\ AloneWith(w, st)
<1>1. Head(ids) \in Ids /\ Tail(ids) \in Seq(Ids) /\ Elements(ids) = {Head(ids)} \cup Elements(Tail(ids))
  BY HeadAndTail
<1>2. w.pc = "update" /\ w.why = "archive" /\ w.id = Head(ids) /\ w.todo = Tail(ids)
  OBVIOUS
<1>3. w \in Works
  <2>1. w \in Archivings
    BY <1>1 DEF Archivings
  <2>2. QED
    BY <2>1 DEF Works
<1>4. Updating(w) /\ Of(w) = w /\ Ahead(w) = Elements(ids)
  BY <1>1, <1>2 DEF Updating, Of, Ahead
<1>5. Sound(c, w, st)
  BY <1>2, <1>4 DEF Sound
<1>6. AloneWith(w, st)
  BY <1>2, <1>4 DEF AloneWith
<1>7. QED
  BY <1>2, <1>3, <1>4, <1>5, <1>6

LEMMA ByImportance ==
  ASSUME store \in Stores
  PROVE  Orders(Memory!LessImportant, ActiveIn(store))
<1>1. \A i \in ActiveIn(store) : i \in StoredIn(store) /\ i \in Int /\ store[i].imp \in Int
  BY StoresFacts, EntryFields, IdsFinite DEF EntryRecords, ActiveIn, StoredIn
<1>2. \A i, j \in ActiveIn(store) :
        << i, j >> \in Memory!LessImportant <=>
          \/ store[i].imp < store[j].imp
          \/ store[i].imp = store[j].imp /\ i < j
  BY <1>1, SameSets DEF Memory!LessImportant
<1>3. QED
  BY <1>1, <1>2 DEF Orders

LEMMA ByAge ==
  ASSUME NEW S \in SUBSET Ids
  PROVE  Orders(Memory!Earlier, S)
<1>1. \A i \in S : i \in Int
  BY IdsFinite
<1>2. \A i, j \in S : << i, j >> \in Memory!Earlier <=> i < j
  BY SameSets DEF Memory!Earlier
<1>3. QED
  BY <1>1, <1>2 DEF Orders

LEMMA ListOverflowKeeps ==
  ASSUME MemInv, NEW c \in Chats, Memory!ListOverflow(c)
  PROVE  MemInv'
<1>1. /\ work[c].pc = "list"
      /\ UNCHANGED << backend, store, saved, calls, faults, told, revivals, leaked >>
  BY DEF Memory!ListOverflow, Memory!bounds, Memory!history
<1>2. PICK k \in Nat : k = work[c].over
  BY <1>1, Here, WorkForms
<1>3. ActiveIn(store) \in SUBSET Ids /\ Orders(Memory!LessImportant, ActiveIn(store))
  BY Here, StoresFacts, ByImportance
<1>4. PICK n \in Nat, b \in Nat : n = Cardinality(ActiveIn(store)) /\ b = Bound(store, revivals)
  BY <1>3, Here, IdsFinite, BoundGrows
<1>5. PICK over : over = Memory!First(ActiveIn(store), Memory!LessImportant, k)
  OBVIOUS
<1>6. /\ over \in Seq(ActiveIn(store)) /\ Elements(over) \subseteq ActiveIn(store)
      /\ Len(over) = (IF k <= n THEN k ELSE n)
      /\ Cardinality(ActiveIn(store) \ Elements(over)) = n - Len(over)
  <2>1. /\ over \in Seq(ActiveIn(store)) /\ Elements(over) \subseteq ActiveIn(store)
        /\ Len(over) = IF k <= Cardinality(ActiveIn(store)) THEN k ELSE Cardinality(ActiveIn(store))
        /\ Cardinality(ActiveIn(store) \ Elements(over))
             = Cardinality(ActiveIn(store)) - Len(over)
    BY <1>3, <1>5, FirstFacts
  <2>2. QED
    BY <1>4, <2>1
<1>7. over = Memory!Overflow(work[c].over)
  BY <1>2, <1>5, SameSets DEF Memory!Overflow
<1>8. Enforces(work[c], store, revivals) => n - k <= b
  BY <1>1, <1>2, <1>4 DEF Enforces, Updating
<1>9. CASE over = << >>
  <2>1. Memory!Done(c)
    BY <1>7, <1>9 DEF Memory!ListOverflow
  <2>2. Enforces(work[c], store, revivals) => n <= b
    <3>1. k = 0 \/ n = 0
      BY <1>6, <1>9
    <3>2. QED
      BY <1>8, <3>1
  <2>3. QED
    BY <1>1, <1>4, <2>1, <2>2, GoesIdle
<1>10. CASE over # << >>
  <2>1. over \in Seq(Ids) /\ Elements(over) \subseteq StoredIn(store)
    BY <1>3, <1>6 DEF ActiveIn
  <2>2. PICK w : w = [pc |-> "update", why |-> "archive", id |-> Head(over), todo |-> Tail(over)]
    OBVIOUS
  <2>3. /\ w \in Works /\ w.pc = "update" /\ Ahead(w) = Elements(over)
        /\ Updating(w) /\ Of(w).why = "archive"
        /\ Sound(c, w, store) /\ AloneWith(w, store)
    BY <1>10, <2>1, <2>2, ArchivingFacts
  <2>4. Memory!Goto(c, w)
    BY <1>7, <1>10, <2>2 DEF Memory!ListOverflow, Memory!ArchiveFirst
  <2>5. ASSUME Enforces(work[c], store, revivals)
        PROVE  Enforces(w, store, revivals)
    <3>1. n - k <= b
      BY <1>8, <2>5
    <3>2. n - Len(over) <= b
      BY <1>6, <3>1
    <3>3. Cardinality(ActiveIn(store) \ Ahead(w)) <= Bound(store, revivals)
      BY <1>4, <1>6, <2>3, <3>2
    <3>4. QED
      BY <2>3, <3>3 DEF Enforces
  <2>6. w.pc # "upsert"
    BY <2>3
  <2>7. QED
    BY <1>1, <2>3, <2>4, <2>5, <2>6, GotoKeeps
<1>11. QED
  BY <1>9, <1>10

LEMMA QueryActiveKeeps ==
  ASSUME MemInv, NEW c \in Chats, Memory!QueryActive(c)
  PROVE  MemInv'
<1>1. /\ work[c].pc = "query"
      /\ UNCHANGED << backend, store, saved, calls, faults, told, revivals, leaked >>
  BY DEF Memory!QueryActive, Memory!bounds, Memory!history
<1>2. PICK ids : ids = {i \in ActiveIn(store) : work[c].actor \in {None, store[i].actor}}
  OBVIOUS
<1>3. ids \in SUBSET ActiveIn(store) /\ ids \in SUBSET Ids
  BY <1>2, Here, StoresFacts
<1>4. PICK n \in Nat : n = Cardinality(ids) /\ n = Memory!Cardinality(ids)
  BY <1>3, IdsFinite, SameCardinality
<1>5. ~Enforces(work[c], store, revivals)
  BY <1>1 DEF Enforces, Updating
<1>6. CASE n < 2
  <2>1. Memory!Done(c)
    BY <1>2, <1>4, <1>6, SameSets DEF Memory!QueryActive
  <2>2. QED
    BY <1>1, <1>5, <2>1, GoesIdle
<1>7. CASE ~(n < 2)
  <2>1. PICK list : list = Memory!First(ids, Memory!Earlier, n)
    OBVIOUS
  <2>2. Orders(Memory!Earlier, ids)
    BY <1>3, ByAge
  <2>3. list \in Seq(ids) /\ Elements(list) \subseteq ids /\ Len(list) = n
    BY <1>3, <1>4, <2>1, <2>2, FirstFacts
  <2>4. list \in Seq(Ids) /\ list # << >>
    BY <1>3, <1>7, <2>3
  <2>5. PICK todo : todo = Tail(list)
    OBVIOUS
  <2>6. todo \in Seq(Ids) /\ todo # << >> /\ Elements(todo) \subseteq StoredIn(store)
    <3>1. todo \in Seq(Ids) /\ Elements(list) = {Head(list)} \cup Elements(todo) /\ Len(todo) = n - 1
      BY <2>3, <2>4, <2>5, HeadAndTail
    <3>2. todo # << >>
      BY <1>7, <3>1
    <3>3. QED
      BY <1>3, <2>3, <3>1, <3>2 DEF ActiveIn
  <2>7. PICK doc : doc = Memory!Consolidated(ids)
    OBVIOUS
  <2>8. doc \in Entries /\ doc.merged
    <3>1. ids # {}
      <4>1. Cardinality({}) = 0
        BY FS_EmptySet
      <4>2. ids = {} => n = 0
        BY <1>4, <4>1
      <4>3. QED
        BY <1>7, <4>2
    <3>2. QED
      BY <1>3, <2>7, <3>1, Here, ConsolidatedFacts
  <2>9. PICK w : w = [pc |-> "pack", doc |-> doc, todo |-> todo]
    OBVIOUS
  <2>10. w.pc = "pack" /\ w.doc = doc /\ w.todo = todo /\ w \in Works
    BY <2>6, <2>8, <2>9 DEF Works
  <2>11. ~Updating(w) /\ Ahead(w) = Elements(todo)
    BY <2>10 DEF Updating, Ahead
  <2>12. Sound(c, w, store)
    BY <2>6, <2>8, <2>10, <2>11 DEF Sound
  <2>13. AloneWith(w, store)
    BY <2>10, <2>11 DEF AloneWith
  <2>14. Memory!Goto(c, w)
    BY <1>2, <1>4, <1>7, <2>1, <2>5, <2>7, <2>9, SameSets DEF Memory!QueryActive
  <2>15. QED
    BY <1>1, <1>5, <2>10, <2>12, <2>13, <2>14, GotoKeeps
<1>8. QED
  BY <1>6, <1>7

LEMMA ByImportanceFalling ==
  ASSUME store \in Stores, NEW S \in SUBSET ActiveIn(store)
  PROVE  Orders(Memory!MoreImportant, S)
<1>1. \A i \in S : i \in StoredIn(store) /\ i \in Int /\ store[i].imp \in Int
  BY StoresFacts, EntryFields, IdsFinite DEF EntryRecords, ActiveIn, StoredIn
<1>2. \A i, j \in S :
        << i, j >> \in Memory!MoreImportant <=>
          \/ store[i].imp > store[j].imp
          \/ store[i].imp = store[j].imp /\ i > j
  BY <1>1, SameSets DEF Memory!MoreImportant
<1>3. QED
  BY <1>1, <1>2 DEF Orders

LEMMA CollectKeeps ==
  ASSUME MemInv, NEW c \in Chats, Memory!Collect(c)
  PROVE  MemInv'
<1>1. /\ work[c].pc = "collect" /\ work[c].left # << >>
      /\ UNCHANGED << backend, store, saved, calls, faults, told, revivals, leaked >>
  BY DEF Memory!Collect, Memory!bounds, Memory!history
<1>2. PICK w \in [pc : {"collect"}, ctx : Recalled, left : Seq(Queries), got : SUBSET (Ids \X Entries)] :
        w = work[c]
  BY <1>1, Here, WorkForms
<1>3. PICK match : match = {i \in ActiveIn(store) : Memory!Matches(store[i], w.ctx, Head(w.left))}
  OBVIOUS
<1>4a. PICK held \in (IF Head(w.left) = "text" THEN SUBSET match ELSE {match}) :
         LET read == {i \in Memory!Range(Memory!First(held, Memory!MoreImportant, CandidateLimit)) :
                        Memory!Visible(store[i], w.ctx)}
         IN  Memory!Goto(c, [w EXCEPT !.left = Tail(@),
                                      !.got = {p \in @ : p[1] \notin read}
                                                \cup {<< i, store[i] >> : i \in read}])
  BY <1>2, <1>3, SameSets, Zenon DEF Memory!Collect
<1>4. PICK read :
        /\ read = {i \in Memory!Range(Memory!First(held, Memory!MoreImportant, CandidateLimit)) :
                     Memory!Visible(store[i], w.ctx)}
        /\ Memory!Goto(c, [w EXCEPT !.left = Tail(@),
                                    !.got = {p \in @ : p[1] \notin read}
                                              \cup {<< i, store[i] >> : i \in read}])
  BY <1>4a, Zenon
<1>5. held \in SUBSET ActiveIn(store) /\ held \in SUBSET Ids
  BY <1>3, <1>4a, Here, StoresFacts
<1>6. read \subseteq StoredIn(store) /\ \A i \in read : Memory!Visible(store[i], w.ctx)
  <2>1. PICK first : first = Memory!First(held, Memory!MoreImportant, CandidateLimit)
    OBVIOUS
  <2>2. Orders(Memory!MoreImportant, held) /\ CandidateLimit \in Nat
    BY <1>5, Here, ByImportanceFalling, LimitsAssumption
  <2>3. Elements(first) \subseteq held
    BY <1>5, <2>1, <2>2, FirstFacts
  <2>4. Memory!Range(first) = Elements(first)
    BY DEF Memory!Range, Elements
  <2>5. QED
    BY <1>4, <1>5, <2>1, <2>3, <2>4 DEF ActiveIn
<1>7. PICK got : got = {p \in w.got : p[1] \notin read} \cup {<< i, store[i] >> : i \in read}
  OBVIOUS
<1>8. got \in SUBSET (Ids \X Entries)
  <2>1. \A i \in read : i \in Ids /\ store[i] \in Entries
    BY <1>6, Here DEF StoredIn
  <2>2. w.got \in SUBSET (Ids \X Entries)
    BY <1>2
  <2>3. QED
    BY <1>7, <2>1, <2>2
<1>9. PICK left \in Seq(Queries) : left = Tail(w.left)
  <2>1. w.left \in Seq(Queries) /\ w.left # << >>
    BY <1>1, <1>2
  <2>2. QED
    BY <2>1, HeadAndTail
<1>10. PICK v : v = [w EXCEPT !.left = left, !.got = got]
  OBVIOUS
<1>11. /\ v \in [pc : {"collect"}, ctx : Recalled, left : Seq(Queries), got : SUBSET (Ids \X Entries)]
       /\ v.pc = "collect" /\ v.ctx = w.ctx /\ v.got = got
  BY <1>2, <1>8, <1>9, <1>10
<1>12. v \in Works
  BY <1>11 DEF Works
<1>13. Memory!Goto(c, v)
  BY <1>4, <1>7, <1>9, <1>10, Zenon
<1>14. Sound(c, v, store)
  <2>1. \A p \in got : /\ p[1] \in StoredIn(store) /\ store[p[1]].merged = p[2].merged
                       /\ Tells(p[2]) /\ Memory!Visible(p[2], w.ctx)
    <3>1. TAKE p \in got
    <3>2. CASE p \in w.got
      BY <1>1, <1>2, <3>2, Here DEF Sound
    <3>3. CASE p \in {<< i, store[i] >> : i \in read}
      <4>1. PICK i \in read : p = << i, store[i] >>
        BY <3>3
      <4>2. p[1] = i /\ p[2] = store[i]
        BY <4>1
      <4>3. i \in StoredIn(store) /\ Tells(store[i]) /\ Memory!Visible(store[i], w.ctx)
        BY <1>6, Here
      <4>4. QED
        BY <4>2, <4>3
    <3>4. QED
      BY <1>7, <3>2, <3>3
  <2>2. ~Updating(v) /\ Ahead(v) = {}
    BY <1>11 DEF Updating, Ahead
  <2>3. QED
    BY <1>11, <2>1, <2>2 DEF Sound
<1>15. AloneWith(v, store)
  BY <1>11 DEF AloneWith, Updating
<1>16. ~Enforces(work[c], store, revivals) /\ v.pc # "upsert"
  BY <1>1, <1>11 DEF Enforces, Updating
<1>17. QED
  BY <1>1, <1>12, <1>13, <1>14, <1>15, <1>16, GotoKeeps

\* isVisibleToRequest lets nobody see an unmerged entry but those who may recall
\* what it tells.
LEMMA SeenByThoseWhoMay ==
  ASSUME NEW e \in Entries, NEW q, Tells(e), ~e.merged, Memory!Visible(e, q)
  PROVE  \A r \in e.from : Memory!MaySee(r, q)
<1>1. PICK r \in Requests :
        /\ e.from = {r} /\ e.vis = Memory!Visibility(r) /\ Key(e) = KeyOf(r)
        /\ e.habitat = r.habitat /\ e.thread = r.thread
  BY DEF Tells
<1>2. /\ e.actor = r.actor /\ e.ownerType = Memory!OwnerType(r) /\ e.ownerId = Memory!OwnerId(r)
  BY <1>1 DEF Key, KeyOf
<1>3. CASE e.vis = "global"
  BY <1>1, <1>3 DEF Memory!MaySee
<1>4. CASE e.vis = "habitat"
  <2>1. e.habitat \in {None, q.habitat}
    BY <1>4 DEF Memory!Visible
  <2>2. r.habitat # None
    <3>1. Memory!OwnerType(r) = "habitat"
      BY <1>1, <1>4 DEF Memory!Visibility
    <3>2. QED
      BY <3>1 DEF Memory!OwnerType
  <2>3. QED
    BY <1>1, <1>4, <2>1, <2>2 DEF Memory!MaySee
<1>5. CASE e.vis = "shared"
  <2>1. IF e.thread # None THEN e.thread = q.thread
        ELSE e.habitat = None \/ q.habitat \in {None, e.habitat}
    BY <1>5 DEF Memory!Visible
  <2>2. r.habitat # None
    BY <1>1, <1>5 DEF Memory!Visibility
  <2>3. QED
    BY <1>1, <1>5, <2>1, <2>2 DEF Memory!MaySee
<1>6. CASE e.vis = "private"
  <2>1. IF e.ownerType = "actor" THEN e.ownerId = q.actor
        ELSE e.actor # None /\ e.actor = q.actor
    BY <1>6 DEF Memory!Visible
  <2>2. e.ownerType = "actor" => e.ownerId = r.actor /\ r.actor # None
    BY <1>2 DEF Memory!OwnerId, Memory!OwnerType
  <2>3. r.actor # None /\ r.actor = q.actor
    BY <1>2, <2>1, <2>2
  <2>4. QED
    BY <1>1, <1>6, <2>3 DEF Memory!MaySee
<1>7. e.vis \in Visibilities
  BY EntryFields DEF EntryRecords
<1>8. QED
  BY <1>3, <1>4, <1>5, <1>6, <1>7 DEF Visibilities

LEMMA SelectKeeps ==
  ASSUME MemInv, NEW c \in Chats, Memory!Select(c)
  PROVE  MemInv'
<1>1. /\ work[c].pc = "collect" /\ Memory!Done(c)
      /\ UNCHANGED << backend, store, saved, calls, faults, told, revivals >>
  BY DEF Memory!Select, Memory!bounds
<1>2. PICK w \in [pc : {"collect"}, ctx : Recalled, left : Seq(Queries), got : SUBSET (Ids \X Entries)] :
        w = work[c]
  BY <1>1, Here, WorkForms
<1>3. PICK items \in Memory!Selections({p[2] : p \in w.got}, w.ctx) :
        leaked' = leaked \cup {r \in UNION {e.from : e \in items} : ~Memory!MaySee(r, w.ctx)}
  BY <1>2 DEF Memory!Select
<1>4. items \subseteq {p[2] : p \in w.got}
  BY <1>3 DEF Memory!Selections, Memory!RuleBased, Memory!AiAssisted
<1>5. \A e \in items : /\ e \in Entries /\ Tells(e) /\ Memory!Visible(e, w.ctx)
                       /\ MergedIn(store) = {} => ~e.merged
  <2>1. TAKE e \in items
  <2>2. PICK p \in w.got : e = p[2]
    BY <1>4
  <2>3. /\ p[1] \in StoredIn(store) /\ store[p[1]].merged = p[2].merged
        /\ Tells(p[2]) /\ Memory!Visible(p[2], w.ctx)
    BY <1>1, <1>2, Here DEF Sound
  <2>4. MergedIn(store) = {} => ~e.merged
    BY <2>2, <2>3 DEF MergedIn
  <2>5. p \in Ids \X Entries
    BY <1>2
  <2>6. QED
    BY <2>2, <2>3, <2>4, <2>5
<1>6. leaked' \subseteq Requests
  <2>1. \A e \in items : e.from \subseteq Requests
    BY <1>5, EntryFields DEF EntryRecords
  <2>2. QED
    BY <1>3, <2>1, Here
<1>7. MergedIn(store) = {} /\ leaked = {} => leaked' = {}
  <2>1. SUFFICES ASSUME MergedIn(store) = {}, NEW e \in items, NEW r \in e.from
                 PROVE  Memory!MaySee(r, w.ctx)
    BY <1>3
  <2>2. QED
    BY <1>5, <2>1, SeenByThoseWhoMay
<1>8. calls' \in 0..MaxCalls /\ faults' \in 0..MaxFaults
  BY <1>1, Here
<1>9. Memory!Idle \in Works /\ Memory!Idle.pc = "idle" /\ Memory!Idle.pc # "upsert"
  BY IdleFacts
<1>10. Sound(c, Memory!Idle, store) /\ AloneWith(Memory!Idle, store)
  BY <1>9, CalmMoves
<1>11. ~Enforces(work[c], store, revivals)
  BY <1>1 DEF Enforces, Updating
<1>12. work' = [work EXCEPT ![c] = Memory!Idle]
  BY <1>1 DEF Memory!Done, Memory!Goto
<1>13. faults' = 0 => faults = 0
  BY <1>1
<1>14. UNCHANGED << backend, store, saved, told, revivals >>
  BY <1>1
<1>15. QED
  BY <1>6, <1>7, <1>8, <1>9, <1>10, <1>11, <1>12, <1>13, <1>14, MoveKeeps

LEMMA WrittenFacts ==
  ASSUME MemInv, NEW c \in Chats, NEW i \in Ids, NEW e \in Entries, NEW st2, store' = st2,
         Memory!Write(i, e), i \in StoredIn(store) => Alike(e, store[i])
  PROVE  /\ Writes(store, st2, i, e)
         /\ st2 \in Stores /\ MergedIn(store) \subseteq MergedIn(st2)
         /\ StoredIn(st2) = StoredIn(store) \cup {i}
         /\ ActiveIn(st2) = (ActiveIn(store) \ {i}) \cup (IF e.status = "active" THEN {i} ELSE {})
         /\ e.merged => i \in MergedIn(st2)
         /\ revivals' \in Nat /\ revivals <= revivals'
         /\ Bound(store, revivals) \in Nat /\ Bound(st2, revivals') \in Nat
         /\ Bound(store, revivals) <= Bound(st2, revivals')
         /\ i \in StoredIn(store) /\ i \in ActiveIn(st2) \ ActiveIn(store) =>
              Bound(store, revivals) + 1 <= Bound(st2, revivals')
<1>1. store \in Stores /\ revivals \in Nat
  BY Here
<1>2. /\ st2 = [store EXCEPT ![i] = e]
      /\ revivals' = IF store[i].status = "archived" /\ e.status = "active"
                       THEN revivals + 1 ELSE revivals
  BY DEF Memory!Write
<1>3. Writes(store, st2, i, e)
  BY <1>2 DEF Writes
<1>4. /\ st2 \in Stores /\ MergedIn(store) \subseteq MergedIn(st2)
      /\ StoredIn(st2) = StoredIn(store) \cup {i}
      /\ ActiveIn(st2) = (ActiveIn(store) \ {i}) \cup (IF e.status = "active" THEN {i} ELSE {})
      /\ e.merged => i \in MergedIn(st2)
  BY <1>1, <1>3, WriteFacts
<1>5. PICK n2 \in Nat : n2 = revivals' /\ revivals <= n2
  BY <1>1, <1>2
<1>6. /\ Bound(store, revivals) \in Nat /\ Bound(st2, n2) \in Nat
      /\ Bound(store, revivals) <= Bound(st2, n2)
      /\ revivals < n2 => Bound(store, revivals) + 1 <= Bound(st2, n2)
  BY <1>1, <1>4, <1>5, BoundGrows
<1>7. i \in StoredIn(store) /\ i \in ActiveIn(st2) \ ActiveIn(store) => revivals < n2
  <2>1. SUFFICES ASSUME i \in StoredIn(store), i \notin ActiveIn(store), e.status = "active"
                 PROVE  revivals' = revivals + 1
    BY <1>1, <1>4, <1>5
  <2>2. store[i].status = "archived"
    BY <1>1, <2>1, Here, StoresFacts DEF ActiveIn
  <2>3. QED
    BY <1>2, <2>1, <2>2
<1>8. QED
  BY <1>3, <1>4, <1>5, <1>6, <1>7

LEMMA AfterMergeKeeps ==
  ASSUME MemInv, NEW c \in Chats, NEW w \in Merges, Updating(work[c]), Of(work[c]) = w,
         NEW e \in Entries, Memory!Write(w.id, e), Memory!AfterUpdate(c, w),
         Alike(e, store[w.id]), Tells(e), e.status = "active",
         backend = "memory" => e.from = {w.req},
         UNCHANGED << backend, saved, calls, faults, leaked >>
  PROVE  MemInv'
<1> DEFINE i == w.id
<1>1. /\ w.why = "merge" /\ i \in Ids /\ w.todo = << >> /\ w.req \in Requests
  BY DEF Merges
<1>2. PICK st2 : store' = st2
  OBVIOUS
<1>3. /\ w.req \in Told[c] /\ Key(store[i]) = KeyOf(w.req) /\ i \in StoredIn(store)
      /\ ~store[i].merged => SourceOf(store, KeyOf(w.req)) \subseteq {i}
  BY <1>1, Here DEF Sound, AloneWith, Ahead
<1>4. /\ told' = [told EXCEPT ![i] = w.req] /\ work' = [work EXCEPT ![c] = Memory!Idle]
  BY <1>1 DEF Memory!AfterUpdate, Memory!Done, Memory!Goto
<1>5. PICK n2 \in Nat : revivals' = n2
  BY <1>1, <1>2, WrittenFacts
<1> HIDE DEF i
<1>6. /\ Writes(store, st2, i, e) /\ revivals <= n2
      /\ i \in ActiveIn(st2) \ ActiveIn(store) => Bound(store, revivals) + 1 <= Bound(st2, n2)
  BY <1>1, <1>2, <1>3, <1>5, WrittenFacts DEF i
<1>7. saved' \in 0..MaxEntries /\ saved <= saved' /\ i <= saved'
  BY <1>3, Here
<1>8. told' \in [Ids -> Requests \cup {None}] /\ told'[i] = w.req /\ \A j \in Ids \ {i} : told'[j] = told[j]
  <2>1. told \in [Ids -> Requests \cup {None}]
    BY Here
  <2>2. QED
    BY <1>1, <1>4, <2>1
<1>9. backend = "memory" /\ told'[i] # None => e.from = {told'[i]}
  BY <1>8
<1>10. Fresh(c, store, i, e)
  <2>1. Key(e) = KeyOf(w.req) /\ e.merged = store[i].merged
    BY <1>3 DEF Alike, i
  <2>2. QED
    BY <1>3, <2>1 DEF Fresh
<1>11. ~Enforces(work[c], store, revivals)
  BY <1>1 DEF Enforces, Updating
<1>12. Memory!Idle \in Works /\ Memory!Idle.pc # "upsert"
  BY IdleFacts
<1>13. Sound(c, Memory!Idle, st2) /\ AloneWith(Memory!Idle, st2)
  BY IdleFacts, CalmMoves
<1>14. UNCHANGED << backend, calls, faults, leaked >>
  OBVIOUS
<1>15. QED
  BY <1>1, <1>2, <1>4, <1>5, <1>6, <1>7, <1>8, <1>9, <1>10, <1>11, <1>12, <1>13, <1>14, WriteKeeps

LEMMA AfterArchiveKeeps ==
  ASSUME MemInv, NEW c \in Chats, NEW w \in Archivings, Updating(work[c]), Of(work[c]) = w,
         NEW e \in Entries, Memory!Write(w.id, e), Memory!AfterUpdate(c, w),
         Alike(e, store[w.id]), Tells(e), e.status = "archived",
         backend = "memory" => e.from = store[w.id].from,
         UNCHANGED << backend, saved, calls, faults, leaked >>
  PROVE  MemInv'
<1>1. w.why = "archive" /\ w.id \in Ids /\ w.todo \in Seq(Ids)
  BY DEF Archivings
<1>2. PICK st2, i : store' = st2 /\ i = w.id
  OBVIOUS
<1>3. i \in Ids /\ Ahead(work[c]) = {i} \cup Elements(w.todo) /\ Ahead(work[c]) \subseteq StoredIn(store)
  BY <1>1, <1>2, Here DEF Sound, Ahead
<1>4. told' = told
  BY <1>1 DEF Memory!AfterUpdate
<1>5. PICK n2 \in Nat : revivals' = n2
  BY <1>1, <1>2, WrittenFacts
<1>6. /\ Writes(store, st2, i, e) /\ revivals <= n2
      /\ StoredIn(st2) = StoredIn(store) \cup {i} /\ ActiveIn(st2) = ActiveIn(store) \ {i}
      /\ Bound(store, revivals) \in Nat /\ Bound(st2, n2) \in Nat
      /\ Bound(store, revivals) <= Bound(st2, n2)
  BY <1>1, <1>2, <1>5, WrittenFacts
<1>7. saved' \in 0..MaxEntries /\ saved <= saved' /\ i <= saved'
  BY <1>3, Here
<1>8. told' \in [Ids -> Requests \cup {None}] /\ \A j \in Ids \ {i} : told'[j] = told[j]
  BY <1>4, Here
<1>9. backend = "memory" /\ told'[i] # None => e.from = {told'[i]}
  BY <1>2, <1>3, <1>4 DEF MemInv, ToldKept
<1>10. Fresh(c, store, i, e)
  BY DEF Fresh
<1>11. i \notin ActiveIn(st2) \ ActiveIn(store)
  BY <1>6
<1>12. Enforces(work[c], store, revivals) =>
         Cardinality(ActiveIn(st2) \ Elements(w.todo)) <= Bound(st2, n2)
  <2>1. SUFFICES ASSUME Enforces(work[c], store, revivals)
                 PROVE  Cardinality(ActiveIn(st2) \ Elements(w.todo)) <= Bound(st2, n2)
    OBVIOUS
  <2>2. Cardinality(ActiveIn(store) \ Ahead(work[c])) <= Bound(store, revivals)
    BY <2>1 DEF Enforces, Updating
  <2>3. ActiveIn(store) \ Ahead(work[c]) = ActiveIn(st2) \ Elements(w.todo)
    BY <1>3, <1>6
  <2>4. ActiveIn(st2) \ Elements(w.todo) \in SUBSET Ids
    BY <1>6, Here, StoresFacts
  <2>5. Cardinality(ActiveIn(st2) \ Elements(w.todo)) \in Nat
    BY <2>4, IdsFinite
  <2>6. QED
    BY <1>6, <2>2, <2>3, <2>5
<1>13. UNCHANGED << backend, calls, faults, leaked >>
  OBVIOUS
<1>14. CASE w.todo = << >>
  <2>1. work' = [work EXCEPT ![c] = Memory!Idle]
    BY <1>14 DEF Memory!AfterUpdate, Memory!Done, Memory!Goto
  <2>2. Memory!Idle \in Works /\ Memory!Idle.pc # "upsert"
    BY IdleFacts
  <2>3. Sound(c, Memory!Idle, st2) /\ AloneWith(Memory!Idle, st2)
    BY IdleFacts, CalmMoves
  <2>4. Enforces(work[c], store, revivals) => Cardinality(ActiveIn(st2)) <= Bound(st2, n2)
    <3>1. ActiveIn(st2) \ Elements(w.todo) = ActiveIn(st2)
      BY <1>14, NothingAfter
    <3>2. QED
      BY <1>12, <3>1
  <2>5. QED
    BY <1>2, <1>3, <1>5, <1>6, <1>7, <1>8, <1>9, <1>10, <1>11, <1>13, <2>1, <2>2, <2>3, <2>4,
       WriteKeeps
<1>15. CASE w.todo # << >>
  <2>1. PICK v : v = [pc |-> "update", why |-> "archive", id |-> Head(w.todo), todo |-> Tail(w.todo)]
    OBVIOUS
  <2>2. work' = [work EXCEPT ![c] = v]
    BY <1>15, <2>1 DEF Memory!AfterUpdate, Memory!ArchiveFirst, Memory!Goto
  <2>3. Elements(w.todo) \subseteq StoredIn(st2)
    BY <1>3, <1>6
  <2>4. /\ v \in Works /\ v.pc = "update" /\ Ahead(v) = Elements(w.todo)
        /\ Updating(v) /\ Of(v).why = "archive"
        /\ Sound(c, v, st2) /\ AloneWith(v, st2)
    BY <1>1, <1>15, <2>1, <2>3, ArchivingFacts
  <2>5. Enforces(work[c], store, revivals) => Enforces(v, st2, n2)
    BY <1>12, <2>4 DEF Enforces
  <2>6. v.pc # "upsert"
    BY <2>4
  <2>7. QED
    BY <1>2, <1>3, <1>5, <1>6, <1>7, <1>8, <1>9, <1>10, <1>11, <1>13, <2>2, <2>4, <2>5, <2>6,
       WriteKeeps
<1>16. QED
  BY <1>14, <1>15

\* What is known of the update that a chat is about to write.
LEMMA UpdateFacts ==
  ASSUME MemInv, NEW c \in Chats, Updating(work[c])
  PROVE  /\ Of(work[c]) \in Merges \cup Archivings
         /\ Of(work[c]).id \in StoredIn(store) /\ Of(work[c]).id \in Ids
         /\ store[Of(work[c]).id] \in Entries /\ Tells(store[Of(work[c]).id])
         /\ Of(work[c]) \in Merges <=> Of(work[c]).why = "merge"
<1>1. Of(work[c]) \in Merges \cup Archivings
  BY Here, OfForms
<1>2. Of(work[c]).id \in StoredIn(store)
  BY Here DEF Sound, Ahead
<1>3. Of(work[c]) \in Merges <=> Of(work[c]).why = "merge"
  BY <1>1 DEF Merges, Archivings
<1>4. QED
  BY <1>1, <1>2, <1>3, Here DEF StoredIn

\* The document an update computes of the entry as it is.
LEMMA DocFacts ==
  ASSUME MemInv, NEW c \in Chats, Updating(work[c]),
         NEW w, w = Of(work[c]), NEW doc, doc = Memory!Merged(store[w.id], w)
  PROVE  /\ doc \in Entries /\ Alike(doc, store[w.id]) /\ Tells(doc)
         /\ doc.status = (IF w.why = "merge" THEN "active" ELSE "archived")
         /\ doc.from = (IF w.why = "merge" THEN {w.req} ELSE store[w.id].from)
<1>1. /\ w \in Merges \cup Archivings /\ store[w.id] \in Entries /\ Tells(store[w.id])
      /\ w \in Merges <=> w.why = "merge"
  BY UpdateFacts
<1>2. CASE w.why = "merge"
  <2>1. /\ w \in Merges /\ w.req \in Told[c] /\ w.req.stim # None
        /\ Key(store[w.id]) = KeyOf(w.req) /\ Alike(w.snap, store[w.id]) /\ Tells(w.snap)
        /\ w.snap.status = "active"
    BY <1>1, <1>2, Here DEF Sound
  <2>2. QED
    BY <1>1, <1>2, <2>1, MergeFacts
<1>3. CASE w.why # "merge"
  <2>1. w.why = "archive"
    BY <1>1, <1>3, UpdateForms
  <2>2. QED
    BY <1>1, <2>1, ArchiveFacts
<1>4. QED
  BY <1>2, <1>3

LEMMA WrittenKeeps ==
  ASSUME MemInv, NEW c \in Chats, Updating(work[c]), NEW w, w = Of(work[c]),
         NEW e \in Entries, Memory!Write(w.id, e), Memory!AfterUpdate(c, w),
         Alike(e, store[w.id]), Tells(e),
         e.status = (IF w.why = "merge" THEN "active" ELSE "archived"),
         backend = "memory" => e.from = (IF w.why = "merge" THEN {w.req} ELSE store[w.id].from),
         UNCHANGED << backend, saved, calls, faults, leaked >>
  PROVE  MemInv'
<1>1. w \in Merges \cup Archivings /\ (w \in Merges <=> w.why = "merge") /\ Of(work[c]) = w
  BY UpdateFacts
<1>2. UNCHANGED << backend, saved, calls, faults, leaked >>
  OBVIOUS
<1>3. CASE w \in Merges
  <2>1. e.status = "active" /\ (backend = "memory" => e.from = {w.req})
    BY <1>1, <1>3
  <2>2. QED
    BY <1>1, <1>2, <1>3, <2>1, AfterMergeKeeps
<1>4. CASE w \notin Merges
  <2>1. w \in Archivings /\ e.status = "archived" /\ (backend = "memory" => e.from = store[w.id].from)
    BY <1>1, <1>4
  <2>2. QED
    BY <1>1, <1>2, <2>1, AfterArchiveKeeps
<1>5. QED
  BY <1>3, <1>4

LEMMA UpdateKeeps ==
  ASSUME MemInv, NEW c \in Chats, Memory!Update(c)
  PROVE  MemInv'
<1>1. PICK w : w = work[c]
  OBVIOUS
<1>2. w.pc = "update" /\ Updating(work[c]) /\ w = Of(work[c])
  BY <1>1 DEF Memory!Update, Updating, Of
<1>3. PICK doc : doc = Memory!Merged(store[w.id], w)
  OBVIOUS
<1>4. /\ doc \in Entries /\ Alike(doc, store[w.id]) /\ Tells(doc)
      /\ doc.status = (IF w.why = "merge" THEN "active" ELSE "archived")
      /\ doc.from = (IF w.why = "merge" THEN {w.req} ELSE store[w.id].from)
  BY <1>2, <1>3, DocFacts
<1>5. CASE backend = "memory" /\ Memory!Write(w.id, doc) /\ Memory!AfterUpdate(c, w)
             /\ UNCHANGED leaked
  <2>1. UNCHANGED << backend, saved, calls, faults, leaked >>
    BY <1>5 DEF Memory!Update, Memory!bounds
  <2>2. Memory!Write(w.id, doc) /\ Memory!AfterUpdate(c, w)
    BY <1>5
  <2>3. backend = "memory" => doc.from = (IF w.why = "merge" THEN {w.req} ELSE store[w.id].from)
    BY <1>4
  <2>4. QED
    BY <1>2, <1>4, <2>1, <2>2, <2>3, WrittenKeeps
<1>6. CASE /\ backend = "mongo" /\ Memory!Goto(c, [pc |-> "upsert", doc |-> doc, of |-> w])
           /\ UNCHANGED << store, told, revivals, leaked >>
  <2>1. UNCHANGED << backend, store, saved, told, revivals >> /\ leaked' = leaked
          /\ calls' = calls /\ faults' = faults
    BY <1>6 DEF Memory!Update, Memory!bounds
  <2>2. PICK v : v = [pc |-> "upsert", doc |-> doc, of |-> w]
    OBVIOUS
  <2>3. v.pc = "upsert" /\ v.doc = doc /\ v.of = w /\ Updating(v) /\ Of(v) = w
    BY <2>2 DEF Updating, Of
  <2>4. Ahead(v) = Ahead(work[c])
    BY <1>2, <2>3 DEF Ahead
  <2>5. v \in Works
    <3>1. w \in Merges \cup Archivings
      BY <1>2, UpdateFacts
    <3>2. QED
      BY <1>4, <2>2, <3>1 DEF Works
  <2>6. Sound(c, work[c], store) /\ AloneWith(work[c], store)
    BY Here
  <2>7. Sound(c, v, store)
    BY <1>2, <1>4, <2>3, <2>4, <2>6 DEF Sound
  <2>8. AloneWith(v, store)
    BY <1>2, <2>3, <2>6 DEF AloneWith
  <2>9. Enforces(work[c], store, revivals) => Enforces(v, store, revivals)
    BY <1>1, <1>2, <2>3, <2>4 DEF Enforces
  <2>10. work' = [work EXCEPT ![c] = v]
    BY <1>6, <2>2 DEF Memory!Goto
  <2>11. calls' \in 0..MaxCalls /\ faults' \in 0..MaxFaults /\ leaked' \subseteq Requests
    BY <2>1, Here
  <2>12. backend # "memory"
    BY <1>6
  <2>13. faults' = 0 => faults = 0
    BY <2>1
  <2>14. MergedIn(store) = {} /\ leaked = {} => leaked' = {}
    BY <2>1
  <2>15. UNCHANGED << backend, store, saved, told, revivals >>
    BY <2>1
  <2>16. QED
    BY <2>5, <2>7, <2>8, <2>9, <2>10, <2>11, <2>12, <2>13, <2>14, <2>15, MoveKeeps
<1>7. QED
  BY <1>1, <1>3, <1>5, <1>6 DEF Memory!Update, Memory!history

LEMMA UpsertKeeps ==
  ASSUME MemInv, NEW c \in Chats, Memory!Upsert(c)
  PROVE  MemInv'
<1>1. PICK w, doc : w = work[c].of /\ doc = work[c].doc
  OBVIOUS
<1>2. /\ work[c].pc = "upsert" /\ Memory!Write(w.id, doc) /\ Memory!AfterUpdate(c, w)
      /\ UNCHANGED << backend, saved, calls, faults, leaked >>
  BY <1>1 DEF Memory!Upsert, Memory!bounds
<1>3. Updating(work[c]) /\ w = Of(work[c])
  BY <1>1, <1>2 DEF Updating, Of
<1>4. /\ doc \in Entries /\ Alike(doc, store[w.id]) /\ Tells(doc)
      /\ doc.status = (IF w.why = "merge" THEN "active" ELSE "archived")
      /\ backend # "memory"
  BY <1>1, <1>2, Here, WorkForms DEF Sound
<1>5. UNCHANGED << backend, saved, calls, faults, leaked >>
  BY <1>2
<1>6. Memory!Write(w.id, doc) /\ Memory!AfterUpdate(c, w)
  BY <1>2
<1>7. backend = "memory" => doc.from = (IF w.why = "merge" THEN {w.req} ELSE store[w.id].from)
  BY <1>4
<1>8. QED
  BY <1>3, <1>4, <1>5, <1>6, <1>7, WrittenKeeps

\* The id an entry is saved under is new.
LEMMA NextIdFacts ==
  ASSUME MemInv, NEW c \in Chats, saved < MaxEntries, NEW i, i = saved + 1
  PROVE  /\ i \in Ids /\ i \in 0..MaxEntries /\ saved <= i /\ i <= i
         /\ i \notin StoredIn(store) /\ told[i] = None
<1>1. i \in Ids /\ i \in 0..MaxEntries /\ saved <= i /\ i <= i
  BY Here DEF Ids
<1>2. i \notin StoredIn(store)
  BY Here
<1>3. told[i] = None
  BY <1>1, <1>2 DEF MemInv, ToldKept
<1>4. QED
  BY <1>1, <1>2, <1>3

LEMMA SaveKeeps ==
  ASSUME MemInv, NEW c \in Chats, Memory!Save(c)
  PROVE  MemInv'
<1> DEFINE r == work[c].req
<1>1. PICK i : i = saved + 1
  OBVIOUS
<1>2. PICK e : e = Memory!NewEntry(r)
  OBVIOUS
<1>3. PICK w : w = [pc |-> "count"]
  OBVIOUS
<1>4. /\ work[c].pc = "save" /\ saved < MaxEntries /\ saved' = i
      /\ Memory!Write(i, e) /\ told' = [told EXCEPT ![i] = r]
      /\ work' = [work EXCEPT ![c] = w]
      /\ UNCHANGED << backend, calls, faults, leaked >>
  BY <1>1, <1>2, <1>3 DEF Memory!Save, Memory!Write, Memory!Goto, Memory!bounds
<1>5. r \in Told[c] /\ r \in Requests
  BY <1>4, Here, ToldAreRequests DEF Sound
<1>6. /\ i \in Ids /\ i \in 0..MaxEntries /\ saved <= i /\ i <= i
      /\ i \notin StoredIn(store) /\ told[i] = None
  BY <1>1, <1>4, NextIdFacts
<1>7. /\ e \in Entries /\ Key(e) = KeyOf(r) /\ ~e.merged /\ e.from = {r} /\ Tells(e)
  BY <1>2, <1>5, NewEntryFacts
<1>8. PICK st2 : store' = st2
  OBVIOUS
<1>9. PICK n2 \in Nat : revivals' = n2 /\ revivals <= n2
  BY <1>4, <1>6, <1>7, <1>8, WrittenFacts
<1>10. Writes(store, st2, i, e)
  BY <1>4, <1>6, <1>7, <1>8, WrittenFacts
<1>11. w \in Works /\ w.pc = "count"
  BY <1>3 DEF Works
<1>12. Sound(c, w, st2) /\ AloneWith(w, st2)
  BY <1>11, CalmMoves
<1>13. Enforces(w, st2, n2)
  BY <1>11 DEF Enforces
<1>14. /\ told' \in [Ids -> Requests \cup {None}] /\ told'[i] = r
       /\ \A j \in Ids \ {i} : told'[j] = told[j]
  <2>1. told \in [Ids -> Requests \cup {None}]
    BY Here
  <2>2. QED
    BY <1>4, <1>5, <1>6, <2>1
<1>15. Fresh(c, store, i, e)
  <2>1. e.stim # None => SourceOf(store, Key(e)) = {}
    <3>1. e.stim = r.stim
      BY <1>7 DEF Key, KeyOf
    <3>2. QED
      BY <1>4, <1>7, <3>1, Here DEF AloneWith
  <2>2. QED
    BY <1>5, <1>7, <2>1 DEF Fresh
<1>16. saved' \in 0..MaxEntries /\ saved <= saved' /\ i <= saved'
  BY <1>4, <1>6
<1>17. backend = "memory" /\ told'[i] # None => e.from = {told'[i]}
  BY <1>7, <1>14
<1>18. w.pc = "upsert" => backend # "memory"
  BY <1>11
<1>19. UNCHANGED << backend, calls, faults, leaked >>
  BY <1>4
<1>20. QED
  BY <1>4, <1>6, <1>7, <1>8, <1>9, <1>10, <1>11, <1>12, <1>13, <1>14, <1>15, <1>16, <1>17,
     <1>18, <1>19, WriteKeeps

LEMMA SaveConsolidatedKeeps ==
  ASSUME MemInv, NEW c \in Chats, Memory!SaveConsolidated(c)
  PROVE  MemInv'
<1>1. PICK i, e, todo : i = saved + 1 /\ e = work[c].doc /\ todo = work[c].todo
  OBVIOUS
<1>2. PICK w : w = [pc |-> "update", why |-> "archive", id |-> Head(todo), todo |-> Tail(todo)]
  OBVIOUS
<1>3. /\ work[c].pc = "pack" /\ saved < MaxEntries /\ saved' = i
      /\ Memory!Write(i, e) /\ work' = [work EXCEPT ![c] = w]
      /\ UNCHANGED << backend, calls, faults, told, leaked >>
  BY <1>1, <1>2 DEF Memory!SaveConsolidated, Memory!Write, Memory!ArchiveFirst, Memory!Goto,
                    Memory!bounds
<1>4. /\ e \in Entries /\ e.merged /\ todo \in Seq(Ids) /\ todo # << >>
      /\ Elements(todo) \subseteq StoredIn(store)
  <2>1. work[c].pc = "pack" /\ ~Updating(work[c])
    BY <1>3 DEF Updating
  <2>2. QED
    BY <1>1, <2>1, Here, WorkForms DEF Sound, Ahead
<1>5. Tells(e) /\ Fresh(c, store, i, e)
  BY <1>4 DEF Tells, Fresh
<1>6. /\ i \in Ids /\ i \in 0..MaxEntries /\ saved <= i /\ i <= i
      /\ i \notin StoredIn(store) /\ told[i] = None
  BY <1>1, <1>3, NextIdFacts
<1>7. PICK st2 : store' = st2
  OBVIOUS
<1>8. PICK n2 \in Nat : revivals' = n2 /\ revivals <= n2
  BY <1>3, <1>4, <1>6, <1>7, WrittenFacts
<1>9. /\ Writes(store, st2, i, e) /\ st2 \in Stores
      /\ MergedIn(store) \subseteq MergedIn(st2) /\ i \in MergedIn(st2)
      /\ StoredIn(st2) = StoredIn(store) \cup {i}
  BY <1>3, <1>4, <1>6, <1>7, WrittenFacts
<1>10. Bound(store, revivals) + 1 <= Bound(st2, n2)
  <2>1. MergedIn(store) # MergedIn(st2)
    BY <1>6, <1>9 DEF MergedIn
  <2>2. QED
    BY <1>8, <1>9, <2>1, Here, BoundGrows
<1>11. Elements(todo) \subseteq StoredIn(st2)
  BY <1>4, <1>9
<1>12. /\ w \in Works /\ w.pc = "update" /\ Sound(c, w, st2) /\ AloneWith(w, st2)
  BY <1>2, <1>4, <1>11, ArchivingFacts
<1>13. ~Enforces(work[c], store, revivals)
  BY <1>3 DEF Enforces, Updating
<1>14. told' \in [Ids -> Requests \cup {None}] /\ \A j \in Ids \ {i} : told'[j] = told[j]
  BY <1>3, Here
<1>15. backend = "memory" /\ told'[i] # None => e.from = {told'[i]}
  BY <1>3, <1>6
<1>16. saved' \in 0..MaxEntries /\ saved <= saved' /\ i <= saved'
  BY <1>3, <1>6
<1>17. w.pc = "upsert" => backend # "memory"
  BY <1>12
<1>18. UNCHANGED << backend, calls, faults, leaked >>
  BY <1>3
<1>19. QED
  BY <1>3, <1>4, <1>5, <1>6, <1>7, <1>8, <1>9, <1>10, <1>12, <1>13, <1>14, <1>15, <1>16, <1>17,
     <1>18, WriteKeeps

LEMMA MemoryNextKeeps ==
  ASSUME MemInv, Memory!Next
  PROVE  MemInv'
<1>1. PICK c \in Chats : Memory!Call(c) \/ Memory!Step(c)
  BY DEF Memory!Next
<1>2. CASE Memory!Call(c)
  BY <1>2, CallKeeps
<1>3. CASE Memory!Step(c)
  BY <1>3, FindKeeps, UpdateKeeps, UpsertKeeps, SaveKeeps, CountKeeps, ListOverflowKeeps,
     QueryActiveKeeps, SaveConsolidatedKeeps, CollectKeeps, SelectKeeps, ThrowKeeps
     DEF Memory!Step
<1>4. QED
  BY <1>1, <1>2, <1>3

LEMMA MemoryInitHolds ==
  ASSUME Memory!Init
  PROVE  MemInv
<1>1. /\ backend \in Backends /\ store = [i \in Ids |-> Memory!Absent] /\ saved = 0
      /\ work = [c \in Chats |-> Memory!Idle] /\ calls = 0 /\ faults = 0
      /\ told = [i \in Ids |-> None] /\ revivals = 0 /\ leaked = {}
  BY SameSets DEF Memory!Init
<1>2. StoredIn(store) = {} /\ ActiveIn(store) = {} /\ MergedIn(store) = {}
  BY <1>1 DEF StoredIn, ActiveIn, MergedIn
<1>3. /\ 0 \in 0..MaxEntries /\ 0 \in 0..MaxCalls /\ 0 \in 0..MaxFaults /\ Cap \in Nat
  BY LimitsAssumption
<1>4. /\ Memory!Idle \in Works /\ Memory!Idle.pc = "idle"
      /\ \A c \in Chats : Sound(c, Memory!Idle, store) /\ AloneWith(Memory!Idle, store)
  BY IdleFacts, CalmMoves
<1>5. MemTyped
  BY <1>1, <1>2, <1>3, <1>4 DEF MemTyped
<1>6. MemSound
  BY <1>1, <1>2, <1>4 DEF MemSound
<1>7. MemSingle
  BY <1>1, <1>2, <1>4 DEF MemSingle, OneEach
<1>8. Limited
  <2>1. Cardinality(ActiveIn(store)) = 0 /\ Cardinality(MergedIn(store)) = 0
    BY <1>2, FS_EmptySet
  <2>2. QED
    BY <1>1, <1>3, <2>1 DEF Limited, Bound
<1>9. ToldKept
  BY <1>1, <1>2, <1>4 DEF ToldKept
<1>10. Discreet
  BY <1>1 DEF Discreet
<1>11. QED
  BY <1>5, <1>6, <1>7, <1>8, <1>9, <1>10 DEF MemInv

(***************************************************************************)
(* The life: its memory service runs alone, or not at all.                 *)
(***************************************************************************)
Untouched ==
  store = [i \in Ids |-> Memory!Absent] /\ told = [i \in Ids |-> None]
    /\ revivals = 0 /\ leaked = {}

MemoryInv == IF part = "memory" THEN MemInv ELSE Untouched

\* The invariant of the memory service, whatever part of the life a behaviour
\* follows.
THEOREM MemoryInvariant ==
  Spec => []MemoryInv
<1>1. Init => MemoryInv
  BY MemoryInitHolds, SameSets DEF Init, MemoryInv, Untouched, Memory!Init
<1>2. MemoryInv /\ [Next]_vars => MemoryInv'
  <2>1. SUFFICES ASSUME MemoryInv, [Next]_vars PROVE MemoryInv'
    OBVIOUS
  <2>2. part' = part
    BY <2>1 DEF Next, vars
  <2>3. CASE part = "memory"
    <3>1. MemInv
      BY <2>1, <2>3 DEF MemoryInv
    <3>2. CASE Next
      <4>1. Memory!Next
        BY <2>3, <3>2 DEF Next
      <4>2. MemInv'
        BY <3>1, <4>1, MemoryNextKeeps
      <4>3. QED
        BY <2>2, <2>3, <4>2 DEF MemoryInv
    <3>3. CASE UNCHANGED vars
      <4>1. UNCHANGED << backend, calls, faults, store, saved, work, told, revivals, leaked >>
        BY <3>3 DEF vars, memoryVars
      <4>2. MemInv'
        BY <3>1, <4>1 DEF MemInv, MemTyped, MemSound, MemSingle, Limited, ToldKept, Discreet
      <4>3. QED
        BY <2>2, <2>3, <4>2 DEF MemoryInv
    <3>4. QED
      BY <2>1, <3>2, <3>3
  <2>4. CASE part # "memory"
    <3>1. UNCHANGED memoryVars
      BY <2>1, <2>4 DEF Next, vars
    <3>2. QED
      BY <2>1, <2>2, <2>4, <3>1 DEF MemoryInv, Untouched, memoryVars
  <2>5. QED
    BY <2>3, <2>4
<1>3. QED
  BY <1>1, <1>2, PTL DEF Spec

LEMMA UntouchedIsEmpty ==
  ASSUME Untouched
  PROVE  StoredIn(store) = {} /\ ActiveIn(store) = {} /\ MergedIn(store) = {}
BY DEF Untouched, StoredIn, ActiveIn, MergedIn

\* However counts, lists, archivings, merges and consolidations of several chats
\* interleave, a life at rest has no more active memories than maxEntriesPerLife
\* (enforceMaxEntries), one more for every archived one that a merge brought back
\* and for every one that a consolidation wrote.
THEOREM CapCorrect ==
  Spec => []CapAtRest
<1>1. ASSUME MemInv, \A c \in Chats : work[c] = Memory!Idle, faults = 0, Cap > 0
      PROVE  Cardinality(ActiveIn(store)) <= Bound(store, revivals)
  <2>1. \A c \in Chats : ~Enforces(work[c], store, revivals)
    BY <1>1, IdleFacts
  <2>2. QED
    BY <1>1, <2>1 DEF MemInv, Limited
<1>2. MemInv => CapAtRest
  <2>1. SUFFICES ASSUME MemInv, \A c \in Chats : work[c] = Memory!Idle, faults = 0, Cap > 0
                 PROVE  Memory!Cardinality(Memory!Active) <=
                          Cap + revivals
                            + Memory!Cardinality({i \in Memory!Stored : store[i].merged})
    BY DEF CapAtRest, Memory!CapAtRest
  <2>2. Cardinality(ActiveIn(store)) <= Bound(store, revivals)
    BY <1>1, <2>1
  <2>3. {i \in Memory!Stored : store[i].merged} = MergedIn(store) /\ Memory!Active = ActiveIn(store)
    BY SameSets DEF MergedIn
  <2>4. QED
    BY <2>2, <2>3, SameCardinality DEF Bound
<1>3. Untouched => CapAtRest
  <2>1. SUFFICES ASSUME Untouched
                 PROVE  Memory!Cardinality(Memory!Active) <=
                          Cap + revivals
                            + Memory!Cardinality({i \in Memory!Stored : store[i].merged})
    BY DEF CapAtRest, Memory!CapAtRest
  <2>2. Memory!Active = {} /\ {i \in Memory!Stored : store[i].merged} = {} /\ revivals = 0
    BY <2>1, SameSets, UntouchedIsEmpty DEF Untouched
  <2>3. Memory!Cardinality({}) = 0 /\ Cap \in Nat
    BY SameCardinality, FS_EmptySet, LimitsAssumption
  <2>4. QED
    BY <2>2, <2>3
<1>4. MemoryInv => CapAtRest
  BY <1>2, <1>3 DEF MemoryInv
<1>5. QED
  BY <1>4, MemoryInvariant, PTL

\* With the repository of the process, what an update was told is stored stays
\* the entry's text.
THEOREM ToldStaysStored ==
  Spec => []ToldIsStored
<1>1. MemInv => ToldIsStored
  BY SameSets DEF MemInv, ToldKept, ToldIsStored, Memory!ToldIsStored, StoredIn
<1>2. Untouched => ToldIsStored
  BY SameSets, UntouchedIsEmpty DEF ToldIsStored, Memory!ToldIsStored
<1>3. MemoryInv => ToldIsStored
  BY <1>1, <1>2 DEF MemoryInv
<1>4. QED
  BY <1>3, MemoryInvariant, PTL

\* One stimulus leaves one active memory for one actor and owner
\* (findExistingEntry), however the updates of several chats interleave with
\* archivings.
THEOREM SourcesCorrect ==
  Spec => []OneActivePerSource
<1>1. MemInv => OneActivePerSource
  BY SameSets DEF MemInv, MemSingle, OneEach, Key, OneActivePerSource, Memory!OneActivePerSource
<1>2. Untouched => OneActivePerSource
  BY SameSets, UntouchedIsEmpty DEF OneActivePerSource, Memory!OneActivePerSource
<1>3. MemoryInv => OneActivePerSource
  BY <1>1, <1>2 DEF MemoryInv
<1>4. QED
  BY <1>3, MemoryInvariant, PTL

\* No context shows what its reader may not see: of memories, as long as nothing
\* was consolidated (isVisibleToRequest), or of bonds.
THEOREM ContextsCorrect ==
  Spec => []ContextKeepsVisibility
<1>1. MemInv => Memory!ContextKeepsVisibility
  BY SameSets DEF MemInv, Discreet, MergedIn, Memory!ContextKeepsVisibility
<1>2. Untouched => Memory!ContextKeepsVisibility
  BY DEF Untouched, Memory!ContextKeepsVisibility
<1>3. MemoryInv /\ Plans!ContextNamesAsked => ContextKeepsVisibility
  BY <1>1, <1>2 DEF MemoryInv, ContextKeepsVisibility
<1>4. QED
  BY <1>3, MemoryInvariant, BondContextsCorrect, PTL
(***************************************************************************)
(* Types.  What the parts of a life leave within its bounds, besides what  *)
(* their invariants say.                                                   *)
(***************************************************************************)
Statuses == {"none", "completed", "partial", "failed"}

\* Every plan in execution has been counted, and every report has a status.
Counted ==
  /\ \A c \in Chats : exec[c] # Plans!NoPlan => exec[c].id >= 1
  /\ \A c \in Chats : report[c].status \in Statuses

PlansBounded ==
  /\ Counted
  /\ backend \in Backends /\ policy \in Policies /\ memoryUp \in BOOLEAN
  /\ calls \in 0..MaxPlans /\ faults \in 0..MaxFaults

Bounded ==
  /\ part = "plans" => PlansBounded
  /\ part = "turns" => faults \in 0..MaxFaults

LEMMA Counts ==
  ASSUME ExecInv, Counted, NEW c \in Chats, NEW e,
         exec' = [exec EXCEPT ![c] = e], e # Plans!NoPlan => e.id >= 1,
         \/ report' = report
         \/ \E r : report' = [report EXCEPT ![c] = r] /\ r.status \in Statuses
  PROVE  Counted'
<1>1. DOMAIN exec = Chats /\ DOMAIN report = Chats
  BY DEF ExecInv, ExecTyped
<1>2. \A d \in Chats : exec'[d] = IF d = c THEN e ELSE exec[d]
  BY <1>1
<1>3. \A d \in Chats : report'[d].status \in Statuses
  <2>1. CASE report' = report
    BY <2>1 DEF Counted
  <2>2. CASE \E r : report' = [report EXCEPT ![c] = r] /\ r.status \in Statuses
    <3>1. PICK r : report' = [report EXCEPT ![c] = r] /\ r.status \in Statuses
      BY <2>2
    <3>2. \A d \in Chats : report'[d] = IF d = c THEN r ELSE report[d]
      BY <1>1, <3>1
    <3>3. QED
      BY <3>1, <3>2 DEF Counted
  <2>3. QED
    BY <2>1, <2>2
<1>4. QED
  BY <1>2, <1>3 DEF Counted

\* What an execution keeps of its id.
LEMMA SameId ==
  ASSUME ExecInv, Counted, NEW c \in Chats, exec[c].pc # "none"
  PROVE  /\ exec[c] \in ExecSet /\ exec[c].id >= 1
         /\ \A pc : [exec[c] EXCEPT !.pc = pc].id = exec[c].id
         /\ \A pc, stored : [exec[c] EXCEPT !.pc = pc, !.stored = stored].id = exec[c].id
         /\ \A pc, stored, failed :
              [exec[c] EXCEPT !.pc = pc, !.stored = stored, !.failed = failed].id = exec[c].id
         /\ \A pc, left, results :
              [exec[c] EXCEPT !.pc = pc, !.left = left, !.results = results].id = exec[c].id
<1>1. exec[c] \in ExecSet /\ exec[c].id >= 1
  BY PlanKinds DEF Counted
<1>2. PICK e \in ExecSet : e = exec[c]
  BY <1>1
<1>3. /\ \A pc : [e EXCEPT !.pc = pc].id = e.id
      /\ \A pc, stored : [e EXCEPT !.pc = pc, !.stored = stored].id = e.id
      /\ \A pc, stored, failed :
           [e EXCEPT !.pc = pc, !.stored = stored, !.failed = failed].id = e.id
      /\ \A pc, left, results : [e EXCEPT !.pc = pc, !.left = left, !.results = results].id = e.id
  BY DEF ExecSet
<1>4. QED
  BY <1>1, <1>2, <1>3

LEMMA ConcludeCounts ==
  ASSUME ExecInv, Counted, NEW c \in Chats, exec[c].pc # "none", NEW a, NEW completed,
         Plans!Conclude(c, a, completed)
  PROVE  Counted'
<1>1. PICK results : results = Append(exec[c].results, [type |-> a, completed |-> completed])
  OBVIOUS
<1> DEFINE r == [status |-> "failed", plan |-> exec[c].plan, results |-> results,
                 stored |-> exec[c].stored, failed |-> exec[c].failed]
           e == [exec[c] EXCEPT !.pc = "next", !.left = @ \ {a}, !.results = results]
<1>2. \/ report' = [report EXCEPT ![c] = r] /\ exec' = [exec EXCEPT ![c] = Plans!NoPlan]
      \/ report' = report /\ exec' = [exec EXCEPT ![c] = e]
  BY <1>1 DEF Plans!Conclude, Plans!Enter
<1>3. r.status \in Statuses
  BY DEF Statuses
<1>4. e.id >= 1
  BY SameId
<1> HIDE DEF r, e
<1>5. QED
  BY <1>2, <1>3, <1>4, Counts

LEMMA BondStepBackend ==
  ASSUME NEW c, Plans!BondStep(c) \/ Plans!BondThrows(c)
  PROVE  backend' = backend
BY DEF Plans!BondStep, Plans!BondThrows, Plans!FindBond, Plans!UpdateBond, Plans!SaveBond,
       Plans!CollectBonds, Plans!SelectBonds

LEMMA PlansStayBounded ==
  ASSUME ExecInv, PlansBounded, Plans!Next
  PROVE  PlansBounded'
<1>1. PICK c \in Chats :
        \/ Plans!Step(c)
        \/ \E p \in PlansOf[c] : Plans!Execute(c, p)
        \/ \E q \in Asked : Plans!BuildContext(c, q)
  BY DEF Plans!Next
<1>2. Counted /\ MaxPlans \in Nat /\ MaxFaults \in Nat
  BY LimitsAssumption DEF PlansBounded
<1>3. Plans!NoPlan.pc = "none"
  BY PlanKinds
<1> DEFINE Same == UNCHANGED << backend, policy, memoryUp, calls, faults >>
<1>4. ASSUME Counted', Same PROVE PlansBounded'
  BY <1>4 DEF PlansBounded
<1>5. CASE Plans!Finish(c)
  <2> DEFINE r == [status |-> IF \A i \in DOMAIN exec[c].results : exec[c].results[i].completed
                                THEN "completed" ELSE "partial",
                   plan |-> exec[c].plan, results |-> exec[c].results, stored |-> exec[c].stored,
                   failed |-> exec[c].failed]
  <2>1. report' = [report EXCEPT ![c] = r] /\ r.status \in Statuses
    BY <1>5 DEF Plans!Finish, Statuses
  <2> HIDE DEF r
  <2>2. exec' = [exec EXCEPT ![c] = Plans!NoPlan] /\ Same
    BY <1>5 DEF Plans!Finish, Plans!Enter, Plans!bondvars
  <2>3. QED
    BY <1>2, <1>4, <2>1, <2>2, Counts
<1>6. CASE Plans!DispatchEvent(c)
  <2>1. PICK a : Plans!Conclude(c, a, TRUE) /\ exec[c].pc = "next"
    BY <1>6 DEF Plans!DispatchEvent, Plans!Turn
  <2>2. Same
    BY <1>6 DEF Plans!DispatchEvent, Plans!bondvars
  <2>3. QED
    BY <1>2, <1>4, <2>1, <2>2, ConcludeCounts
<1>7. CASE Plans!DispatchMemory(c)
  <2>1. PICK pc : exec' = [exec EXCEPT ![c] = [exec[c] EXCEPT !.pc = pc]] /\ report' = report
    BY <1>7 DEF Plans!DispatchMemory, Plans!Enter
  <2>2. exec[c].pc = "next" /\ Same
    BY <1>7 DEF Plans!DispatchMemory, Plans!Turn, Plans!bondvars
  <2>3. [exec[c] EXCEPT !.pc = pc].id >= 1
    BY <1>2, <2>2, SameId
  <2>4. QED
    BY <1>2, <1>4, <2>1, <2>2, <2>3, Counts
<1>8. CASE Plans!MemoryAnswers(c)
  <2>1. exec[c].pc = "memory" /\ report' = report
        /\ UNCHANGED << backend, policy, memoryUp, calls >>
    BY <1>8 DEF Plans!MemoryAnswers, Plans!bondvars
  <2>2. faults' = faults \/ (faults < MaxFaults /\ faults' = faults + 1)
    BY <1>8, Zenon DEF Plans!MemoryAnswers
  <2>3. faults' \in 0..MaxFaults
    BY <1>2, <2>2 DEF PlansBounded
  <2>4. PICK stored \in BOOLEAN :
          \/ Plans!Enter(c, [exec[c] EXCEPT !.pc = "told", !.stored = TRUE])
          \/ Plans!Enter(c, [exec[c] EXCEPT !.pc = "told", !.stored = stored, !.failed = TRUE])
    BY <1>8 DEF Plans!MemoryAnswers
  <2>5. Counted'
    <3>1. CASE Plans!Enter(c, [exec[c] EXCEPT !.pc = "told", !.stored = TRUE])
      <4>1. exec' = [exec EXCEPT ![c] = [exec[c] EXCEPT !.pc = "told", !.stored = TRUE]]
        BY <3>1 DEF Plans!Enter
      <4>2. [exec[c] EXCEPT !.pc = "told", !.stored = TRUE].id >= 1
        BY <1>2, <2>1, SameId
      <4>3. QED
        BY <1>2, <2>1, <4>1, <4>2, Counts
    <3>2. CASE Plans!Enter(c, [exec[c] EXCEPT !.pc = "told", !.stored = stored, !.failed = TRUE])
      <4>1. exec' = [exec EXCEPT ![c] =
              [exec[c] EXCEPT !.pc = "told", !.stored = stored, !.failed = TRUE]]
        BY <3>2 DEF Plans!Enter
      <4>2. [exec[c] EXCEPT !.pc = "told", !.stored = stored, !.failed = TRUE].id >= 1
        BY <1>2, <2>1, SameId
      <4>3. QED
        BY <1>2, <2>1, <4>1, <4>2, Counts
    <3>3. QED
      BY <2>4, <3>1, <3>2
  <2>6. QED
    BY <2>1, <2>3, <2>5 DEF PlansBounded
<1>9. CASE Plans!MemoryReturns(c)
  <2>1. Plans!Conclude(c, "memory-update", ~listening[exec[c].id]) /\ exec[c].pc = "told"
    BY <1>9 DEF Plans!MemoryReturns
  <2>2. Same
    BY <1>9 DEF Plans!MemoryReturns, Plans!bondvars
  <2>3. QED
    BY <1>2, <1>4, <2>1, <2>2, ConcludeCounts
<1>10. CASE Plans!DispatchBond(c)
  <2>1. exec' = [exec EXCEPT ![c] = [exec[c] EXCEPT !.pc = "bond"]] /\ report' = report
    BY <1>10 DEF Plans!DispatchBond, Plans!Enter
  <2>2. exec[c].pc = "next" /\ Same
    BY <1>10 DEF Plans!DispatchBond, Plans!Turn, Plans!AskBond
  <2>3. [exec[c] EXCEPT !.pc = "bond"].id >= 1
    BY <1>2, <2>2, SameId
  <2>4. QED
    BY <1>2, <1>4, <2>1, <2>2, <2>3, Counts
<1>11. CASE Plans!BondReturns(c)
  <2>1. Plans!Conclude(c, "bond-update", TRUE) /\ exec[c].pc = "bond"
    BY <1>11 DEF Plans!BondReturns
  <2>2. Same
    BY <1>11 DEF Plans!BondReturns, Plans!bondvars
  <2>3. QED
    BY <1>2, <1>4, <2>1, <2>2, ConcludeCounts
<1>12. CASE Plans!ServiceStep(c)
  <2>1. backend' = backend
    BY <1>12, BondStepBackend DEF Plans!ServiceStep
  <2>2. UNCHANGED << policy, memoryUp, exec, report, calls >>
    BY <1>12 DEF Plans!ServiceStep, Plans!planvars
  <2>3. faults' \in 0..MaxFaults
    BY <1>2, <1>12 DEF Plans!ServiceStep, PlansBounded
  <2>4. QED
    BY <2>1, <2>2, <2>3 DEF PlansBounded, Counted
<1>13. CASE \E p \in PlansOf[c] : Plans!Execute(c, p)
  <2>1. PICK p \in PlansOf[c] : Plans!Execute(c, p)
    BY <1>13
  <2>2. calls' = calls + 1 /\ calls < MaxPlans /\ report' = report
        /\ UNCHANGED << backend, policy, memoryUp, faults >>
    BY <2>1 DEF Plans!Execute, Plans!bondvars
  <2>3. calls' \in 0..MaxPlans /\ calls' >= 1
    BY <1>2, <2>2 DEF PlansBounded
  <2> DEFINE e == [pc |-> "next", id |-> calls', plan |-> p, left |-> Plans!Actions(p),
                   results |-> << >>, stored |-> FALSE, failed |-> FALSE]
  <2>4. exec' = [exec EXCEPT ![c] = e]
    BY <2>1 DEF Plans!Execute, Plans!Enter
  <2>5. e.id >= 1
    BY <2>3
  <2> HIDE DEF e
  <2>6. Counted'
    BY <1>2, <2>2, <2>4, <2>5, Counts
  <2>7. QED
    BY <2>2, <2>3, <2>6 DEF PlansBounded
<1>14. CASE \E q \in Asked : Plans!BuildContext(c, q)
  <2>1. calls' = calls + 1 /\ calls < MaxPlans
        /\ UNCHANGED << backend, policy, memoryUp, exec, report, faults >>
    BY <1>14 DEF Plans!BuildContext, Plans!AskContext, Plans!planvars
  <2>2. calls' \in 0..MaxPlans
    BY <1>2, <2>1 DEF PlansBounded
  <2>3. QED
    BY <2>1, <2>2 DEF PlansBounded, Counted
<1>15. QED
  BY <1>1, <1>5, <1>6, <1>7, <1>8, <1>9, <1>10, <1>11, <1>12, <1>13, <1>14 DEF Plans!Step

LEMMA TurnsStayBounded ==
  ASSUME faults \in 0..MaxFaults, Turns!Next
  PROVE  faults' \in 0..MaxFaults
<1>1. MaxFaults \in Nat
  BY LimitsAssumption
<1>2. PICK c \in TurnChats :
        \/ Turns!Arrive(c) \/ Turns!ModelThrows(c) \/ Turns!Send(c) \/ Turns!SendFails(c)
        \/ Turns!Rest(c)
        \/ \E l \in LivesOf[c], routed \in BOOLEAN : Turns!Wake(c, l, routed)
        \/ \E said \in AnswersOf[c] : Turns!ModelAnswers(c, said)
  BY DEF Turns!Next
<1>3. faults' = faults \/ (faults < MaxFaults /\ faults' = faults + 1)
  BY <1>2 DEF Turns!Arrive, Turns!ModelThrows, Turns!Send, Turns!SendFails, Turns!Rest,
              Turns!Wake, Turns!ModelAnswers
<1>4. QED
  BY <1>1, <1>3

LEMMA StaysBounded ==
  Spec => []Bounded
<1>1. Init => Bounded
  <2>1. SUFFICES ASSUME Init PROVE Bounded
    OBVIOUS
  <2>2. /\ backend \in Backends /\ policy \in Policies /\ memoryUp \in BOOLEAN
        /\ calls = 0 /\ faults = 0
        /\ exec = [c \in Chats |-> Plans!NoPlan] /\ report = [c \in Chats |-> Plans!NoReport]
    BY <2>1 DEF Init, Plans!Init, Plans!BondInit
  <2>3. MaxPlans \in Nat /\ MaxFaults \in Nat /\ Plans!NoReport.status \in Statuses
    BY LimitsAssumption DEF Plans!NoReport, Statuses
  <2>4. Counted
    BY <2>2, <2>3 DEF Counted
  <2>5. QED
    BY <2>2, <2>3, <2>4 DEF Bounded, PlansBounded
<1>2. (BondsInv /\ ExecInv) /\ Bounded /\ [Next]_vars => Bounded'
  <2>1. SUFFICES ASSUME ExecInv, Bounded, [Next]_vars PROVE Bounded'
    OBVIOUS
  <2>2. CASE UNCHANGED vars
    <3>1. UNCHANGED << part, backend, calls, faults, policy, memoryUp, exec, report >>
      BY <2>2 DEF vars, planVars
    <3>2. QED
      BY <2>1, <3>1 DEF Bounded, PlansBounded, Counted
  <2>3. CASE Next
    <3>1. part' = part
      BY <2>3 DEF Next
    <3>2. CASE part = "plans"
      <4>1. Plans!Next /\ PlansBounded
        BY <2>1, <2>3, <3>2 DEF Next, Bounded
      <4>2. PlansBounded'
        BY <2>1, <4>1, PlansStayBounded
      <4>3. QED
        BY <3>1, <3>2, <4>2 DEF Bounded
    <3>3. CASE part = "turns"
      <4>1. Turns!Next /\ faults \in 0..MaxFaults
        BY <2>1, <2>3, <3>3 DEF Next, Bounded
      <4>2. faults' \in 0..MaxFaults
        BY <4>1, TurnsStayBounded
      <4>3. QED
        BY <3>1, <3>3, <4>2 DEF Bounded
    <3>4. CASE part \notin {"plans", "turns"}
      BY <3>1, <3>4 DEF Bounded
    <3>5. QED
      BY <3>2, <3>3, <3>4
  <2>4. QED
    BY <2>1, <2>2, <2>3
<1>3. QED
  BY <1>1, <1>2, PlansInvariant, PTL DEF Spec

LEMMA PlansTypes ==
  ASSUME BondsInv, ExecInv, PlansBounded
  PROVE  Plans!TypeOK
<1>1. made \in 0..MaxBonds /\ bonds \in [BondIds -> BondSet \cup {Plans!NoBond}]
      /\ \A i \in BondIds : bonds[i] # Plans!NoBond => i <= made
  BY DEF BondsInv, BondsTyped
<1>2. Plans!BondIds = BondIds
  BY DEF Plans!BondIds, BondIds
<1>3. \A b \in BondSet : b.metrics \in MetricsSet
  BY DEF BondSet
<1>4. ASSUME NEW i \in Plans!BondIds, bonds[i] # Plans!NoBond
      PROVE  i <= made /\ bonds[i].metrics \in [Plans!Metrics -> 0..Plans!Full]
  <2>1. bonds[i] \in BondSet /\ i <= made
    BY <1>1, <1>2, <1>4
  <2>2. QED
    BY <1>3, <2>1 DEF MetricsSet
<1>5. Plans!BondTypeOK
  BY <1>1, <1>4 DEF Plans!BondTypeOK, PlansBounded
<1>6. ASSUME NEW c \in Chats
      PROVE  /\ exec[c].pc \in {"none", "next", "memory", "told", "bond"}
             /\ report[c].status \in {"none", "completed", "partial", "failed"}
  <2>1. report[c].status \in {"none", "completed", "partial", "failed"}
    BY DEF PlansBounded, Counted, Statuses
  <2>2. CASE exec[c] = Plans!NoPlan
    BY <2>1, <2>2, PlanKinds
  <2>3. CASE exec[c] # Plans!NoPlan
    <3>1. exec[c] \in ExecSet
      BY <2>3, PlanKinds
    <3>2. exec[c].pc \in {"next", "memory", "told", "bond"}
      BY <3>1 DEF ExecSet
    <3>3. QED
      BY <2>1, <3>2
  <2>4. QED
    BY <2>2, <2>3
<1>7. ASSUME NEW l \in DOMAIN listening
      PROVE  l \in 1..calls
  <2>1. PICK c \in Chats : exec[c] # Plans!NoPlan /\ exec[c].id = l
    BY DEF ExecInv
  <2>2. exec[c] \in ExecSet /\ exec[c].id >= 1 /\ exec[c].id <= calls
    BY <2>1, PlanKinds DEF ExecInv, PlansBounded, Counted
  <2>3. exec[c].id \in Nat /\ calls \in Nat
    BY <2>2 DEF ExecSet, ExecInv, ExecTyped
  <2>4. QED
    BY <2>1, <2>2, <2>3
<1>8. QED
  BY <1>5, <1>6, <1>7 DEF Plans!TypeOK, PlansBounded

LEMMA MemoryTypes ==
  ASSUME MemInv
  PROVE  Memory!TypeOK
<1>1. MemTyped
  BY DEF MemInv
<1>2. /\ store \in [Ids -> Entries \cup {Memory!Absent}] /\ saved \in 0..MaxEntries
      /\ \A i \in StoredIn(store) : i <= saved
      /\ work \in [Chats -> Works] /\ told \in [Ids -> Requests \cup {None}]
      /\ revivals \in Nat /\ leaked \subseteq Requests
      /\ backend \in Backends /\ calls \in 0..MaxCalls /\ faults \in 0..MaxFaults
  BY <1>1 DEF MemTyped
<1>3. Memory!Ids = Ids
  BY SameSets
<1>4. \A i \in Memory!Ids : store[i] = Memory!Absent \/ (i <= saved /\ store[i] \in Entries)
  BY <1>2, <1>3 DEF StoredIn
<1>5. ASSUME NEW c \in Chats
      PROVE  work[c].pc \in {"idle", "find", "update", "upsert", "save", "count",
                             "list", "query", "pack", "collect"}
  <2>1. work[c] \in Works
    BY <1>2
  <2>2. QED
    BY <2>1, WorkForms
<1>6. told \in [Memory!Ids -> Requests \cup {None}]
  BY <1>2, <1>3
<1>7. QED
  BY <1>2, <1>4, <1>5, <1>6 DEF Memory!TypeOK, Entries, Requests

LEMMA TurnTypes ==
  ASSUME WakeInv, faults \in 0..MaxFaults
  PROVE  Turns!TypeOK
<1>1. bot \in BOOLEAN /\ Len(channels) <= MaxChannels
  BY DEF WakeInv, TurnInv, TurnsTyped, RegistryInv
<1>2. ASSUME NEW c \in TurnChats
      PROVE  /\ turn[c].pc \in {"none", "model", "send"}
             /\ turn[c].pc = "model" => turn[c].loop.round < MaxRounds
  BY TurnKind DEF WakeInv, TurnInv, LoopsKept, Looping
<1>3. \A k \in Turns!Keys : Len(history[k]) <= MaxHistory
  BY DEF WakeInv, TurnInv, HistoryTyped
<1>4. \A w \in DOMAIN created : w \in 1..wakes /\ Len(created[w]) <= MaxSegments
  BY DEF WakeInv, TurnInv, CreatedTyped
<1>5. QED
  BY <1>1, <1>2, <1>3, <1>4 DEF Turns!TypeOK

\* The types of the services: stored memories and bonds, the calls of every chat,
\* the listeners of plans, the turns of wake-ups, and the bounds on them.
THEOREM TypeCorrect ==
  Spec => []TypeOK
<1>1. MemoryInv /\ part = "memory" => Memory!TypeOK
  BY MemoryTypes DEF MemoryInv
<1>2. (BondsInv /\ ExecInv) /\ Bounded /\ part = "plans" => Plans!TypeOK
  BY PlansTypes DEF Bounded
<1>3. WakeInv /\ Bounded /\ part = "turns" => Turns!TypeOK
  BY TurnTypes DEF Bounded
<1>4. MemoryInv /\ (BondsInv /\ ExecInv) /\ WakeInv /\ Bounded => TypeOK
  BY <1>1, <1>2, <1>3 DEF TypeOK
<1>5. QED
  BY <1>4, MemoryInvariant, PlansInvariant, WakesInvariant, StaysBounded, PTL
=============================================================================
