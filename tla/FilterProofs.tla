---------------------------- MODULE FilterProofs ----------------------------
(***************************************************************************)
(* What Only(s, S) is for every sequence s and set S: its length, its      *)
(* elements, and that it repeats nothing that s does not repeat; and what  *)
(* the tails and concatenations of sequences that repeat nothing are.      *)
(***************************************************************************)
EXTENDS Filters, SequencesExt, WellFoundedInduction, TLAPS

LOCAL Below == {p \in Nat \X Nat : p[1] < p[2]}

\* Induction over the naturals, for the numbers of a set.
LEMMA SetInduction ==
  ASSUME NEW S, 0 \in S, \A n \in Nat : n \in S => n + 1 \in S
  PROVE  Nat \subseteq S
<1> DEFINE T == Nat \ S
<1>1. SUFFICES ASSUME T # {} PROVE FALSE
  OBVIOUS
<1>2. PICK x \in T : \A y \in T : ~ (<< y, x >> \in Below)
  <2>1. IsWellFoundedOn(Below, Nat)
    BY NatLessThanWellFounded DEF OpToRel, Below
  <2>2. QED
    BY <1>1, <2>1, WFMin
<1>3. x # 0 /\ x - 1 \in Nat /\ (x - 1) + 1 = x
  BY <1>2
<1>4. x - 1 \in S
  <2>1. << x - 1, x >> \in Below
    BY <1>3 DEF Below
  <2>2. QED
    BY <1>2, <1>3, <2>1
<1>5. QED
  BY <1>2, <1>3, <1>4

\* What is kept of the first n elements: the function that Only(s, S) defines.
Keeps(f, s, S, n) ==
  /\ f[0] = << >>
  /\ \A i \in 1..n : f[i] = IF s[i] \in S THEN Append(f[i - 1], s[i]) ELSE f[i - 1]

LEMMA KeepsExists ==
  ASSUME NEW T, NEW s \in Seq(T), NEW S
  PROVE  \E f \in [0..Len(s) -> Seq(T)] : Keeps(f, s, S, Len(s))
<1> DEFINE P == {n \in Nat : n <= Len(s) => \E f \in [0..n -> Seq(T)] : Keeps(f, s, S, n)}
<1>1. 0 \in P
  <2>1. /\ [i \in 0..0 |-> << >>] \in [0..0 -> Seq(T)]
        /\ Keeps([i \in 0..0 |-> << >>], s, S, 0)
    BY DEF Keeps
  <2>2. QED
    BY <2>1
<1>2. ASSUME NEW n \in Nat, n \in P
      PROVE  n + 1 \in P
  <2>1. ASSUME n + 1 <= Len(s)
        PROVE  \E f \in [0..(n + 1) -> Seq(T)] : Keeps(f, s, S, n + 1)
    <3>1. PICK g \in [0..n -> Seq(T)] : Keeps(g, s, S, n)
      BY <1>2, <2>1
    <3> DEFINE last == IF s[n + 1] \in S THEN Append(g[n], s[n + 1]) ELSE g[n]
               h == [i \in 0..(n + 1) |-> IF i = n + 1 THEN last ELSE g[i]]
    <3>2. last \in Seq(T)
      <4>1. s[n + 1] \in T /\ g[n] \in Seq(T)
        BY <2>1
      <4>2. QED
        BY <4>1
    <3>3. h \in [0..(n + 1) -> Seq(T)]
      <4> HIDE DEF last
      <4>1. QED
        BY <3>2
    <3>4. h[n + 1] = last /\ \A i \in 0..n : h[i] = g[i]
      OBVIOUS
    <3>5. Keeps(h, s, S, n + 1)
      <4> HIDE DEF h
      <4>1. ASSUME NEW i \in 1..n
            PROVE  h[i] = IF s[i] \in S THEN Append(h[i - 1], s[i]) ELSE h[i - 1]
        <5>1. i \in 0..n /\ i - 1 \in 0..n
          OBVIOUS
        <5>2. g[i] = IF s[i] \in S THEN Append(g[i - 1], s[i]) ELSE g[i - 1]
          BY <3>1 DEF Keeps
        <5>3. QED
          BY <3>4, <5>1, <5>2
      <4>2. h[n + 1] = IF s[n + 1] \in S THEN Append(h[(n + 1) - 1], s[n + 1])
                                         ELSE h[(n + 1) - 1]
        <5>1. (n + 1) - 1 = n /\ n \in 0..n
          OBVIOUS
        <5>2. QED
          BY <3>4, <5>1
      <4>3. h[0] = << >>
        BY <3>1, <3>4 DEF Keeps
      <4>4. \A i \in 1..(n + 1) : i \in 1..n \/ i = n + 1
        OBVIOUS
      <4>5. QED
        BY <4>1, <4>2, <4>3, <4>4 DEF Keeps
    <3>6. QED
      BY <3>3, <3>5
  <2>2. QED
    BY <2>1
<1>3. Len(s) \in P
  <2> HIDE DEF P
  <2>1. QED
    BY <1>1, <1>2, SetInduction
<1>4. QED
  BY <1>3

LEMMA OnlyKeeps ==
  ASSUME NEW T, NEW s \in Seq(T), NEW S
  PROVE  \E f \in [0..Len(s) -> Seq(T)] : Keeps(f, s, S, Len(s)) /\ Only(s, S) = f[Len(s)]
<1>1. PICK g \in [0..Len(s) -> Seq(T)] : Keeps(g, s, S, Len(s))
  BY KeepsExists
<1> DEFINE Body(f) == [n \in 0..Len(s) |->
                         IF n = 0 THEN << >>
                         ELSE IF s[n] \in S THEN Append(f[n - 1], s[n]) ELSE f[n - 1]]
           kept == CHOOSE f : f = Body(f)
<1>2. g = Body(g)
  <2>1. ASSUME NEW i \in 0..Len(s)
        PROVE  g[i] = Body(g)[i]
    <3>1. CASE i = 0
      BY <1>1, <3>1 DEF Keeps
    <3>2. CASE i # 0
      <4>1. i \in 1..Len(s)
        BY <3>2
      <4>2. QED
        BY <1>1, <3>2, <4>1 DEF Keeps
    <3>3. QED
      BY <3>1, <3>2
  <2>2. DOMAIN g = 0..Len(s) /\ DOMAIN Body(g) = 0..Len(s)
    OBVIOUS
  <2> HIDE DEF Body
  <2>3. g = [i \in 0..Len(s) |-> g[i]]
    BY <2>2
  <2>4. Body(g) = [i \in 0..Len(s) |-> Body(g)[i]]
    BY DEF Body
  <2>5. QED
    BY <2>1, <2>3, <2>4
<1>3. kept = Body(kept)
  BY <1>2
<1> DEFINE P == {n \in Nat : n <= Len(s) => kept[n] = g[n]}
<1>4. kept[0] = << >> /\ g[0] = << >>
  <2> HIDE DEF kept
  <2>1. QED
    BY <1>1, <1>3 DEF Keeps
<1>5. ASSUME NEW n \in Nat, n \in P
      PROVE  n + 1 \in P
  <2> HIDE DEF kept
  <2> SUFFICES ASSUME n + 1 <= Len(s)
               PROVE  kept[n + 1] = g[n + 1]
    OBVIOUS
  <2>1. n + 1 \in 1..Len(s) /\ kept[n] = g[n] /\ (n + 1) - 1 = n
    BY <1>5
  <2>2. kept[n + 1] = IF s[n + 1] \in S THEN Append(kept[n], s[n + 1]) ELSE kept[n]
    <3>1. Body(kept)[n + 1] = IF s[n + 1] \in S THEN Append(kept[n], s[n + 1]) ELSE kept[n]
      BY <2>1
    <3> HIDE DEF Body
    <3>2. QED
      BY <1>3, <3>1
  <2>3. g[n + 1] = IF s[n + 1] \in S THEN Append(g[n], s[n + 1]) ELSE g[n]
    BY <1>1, <2>1 DEF Keeps
  <2>4. QED
    BY <2>1, <2>2, <2>3
<1>6. Len(s) \in P
  <2>1. 0 \in P
    BY <1>4
  <2> HIDE DEF P
  <2>2. QED
    BY <1>5, <2>1, SetInduction
<1>7. Only(s, S) = kept[Len(s)]
  BY DEF Only
<1>8. QED
  <2> HIDE DEF kept
  <2>1. QED
    BY <1>1, <1>6, <1>7

Distinct(p) == \A i, j \in 1..Len(p) : p[i] = p[j] => i = j

\* p is what S keeps of the first n elements.
Kept(p, s, S, n) ==
  /\ Len(p) <= n
  /\ \A j \in 1..Len(p) : p[j] \in S /\ \E i \in 1..n : s[i] = p[j]
  /\ \A i \in 1..n : s[i] \in S => \E j \in 1..Len(p) : p[j] = s[i]
  /\ Distinct(s) => Distinct(p)

\* One element more is added at the end, or left out.
LEMMA KeptNext ==
  ASSUME NEW T, NEW s \in Seq(T), NEW S, NEW n \in Nat, n + 1 <= Len(s),
         NEW p \in Seq(T), Kept(p, s, S, n)
  PROVE  Kept(IF s[n + 1] \in S THEN Append(p, s[n + 1]) ELSE p, s, S, n + 1)
<1> DEFINE e == s[n + 1]
<1>1. /\ e \in T /\ n + 1 \in 1..Len(s) /\ Len(p) \in Nat /\ Len(p) <= n
      /\ \A i : i \in 1..(n + 1) <=> i \in 1..n \/ i = n + 1
  BY DEF Kept
<1>2. CASE e \notin S
  BY <1>1, <1>2 DEF Kept
<1>3. CASE e \in S
  <2> DEFINE q == Append(p, e)
  <2>1. /\ Len(q) = Len(p) + 1 /\ q[Len(p) + 1] = e
        /\ \A j \in 1..Len(p) : q[j] = p[j]
        /\ \A j : j \in 1..Len(q) <=> j \in 1..Len(p) \/ j = Len(p) + 1
    BY <1>1
  <2> HIDE DEF q
  <2>2. \A j \in 1..Len(q) : q[j] \in S /\ \E i \in 1..(n + 1) : s[i] = q[j]
    <3> SUFFICES ASSUME NEW j \in 1..Len(q)
                 PROVE  q[j] \in S /\ \E i \in 1..(n + 1) : s[i] = q[j]
      OBVIOUS
    <3>1. CASE j \in 1..Len(p)
      BY <1>1, <2>1, <3>1 DEF Kept
    <3>2. CASE j = Len(p) + 1
      BY <1>1, <1>3, <2>1, <3>2
    <3>3. QED
      BY <2>1, <3>1, <3>2
  <2>3. \A i \in 1..(n + 1) : s[i] \in S => \E j \in 1..Len(q) : q[j] = s[i]
    <3> SUFFICES ASSUME NEW i \in 1..(n + 1), s[i] \in S
                 PROVE  \E j \in 1..Len(q) : q[j] = s[i]
      OBVIOUS
    <3>1. CASE i \in 1..n
      BY <2>1, <3>1 DEF Kept
    <3>2. CASE i = n + 1
      BY <1>1, <2>1, <3>2
    <3>3. QED
      BY <1>1, <3>1, <3>2
  <2>4. ASSUME Distinct(s) PROVE Distinct(q)
    <3>1. \A j \in 1..Len(p) : p[j] # e
      <4> SUFFICES ASSUME NEW j \in 1..Len(p), p[j] = e
                   PROVE  FALSE
        OBVIOUS
      <4>1. PICK i \in 1..n : s[i] = p[j]
        BY DEF Kept
      <4>2. i \in 1..Len(s) /\ i # n + 1
        OBVIOUS
      <4>3. QED
        BY <1>1, <2>4, <4>1, <4>2 DEF Distinct
    <3>2. \A i, j \in 1..Len(p) : p[i] = p[j] => i = j
      BY <2>4 DEF Kept, Distinct
    <3>3. QED
      BY <2>1, <3>1, <3>2 DEF Distinct
  <2>5. Len(q) <= n + 1
    BY <1>1, <2>1
  <2>6. QED
    BY <1>3, <2>2, <2>3, <2>4, <2>5 DEF Kept, q
<1>4. QED
  BY <1>2, <1>3

LEMMA OnlyKept ==
  ASSUME NEW T, NEW s \in Seq(T), NEW S
  PROVE  Only(s, S) \in Seq(T) /\ Kept(Only(s, S), s, S, Len(s))
<1>1. PICK f \in [0..Len(s) -> Seq(T)] : Keeps(f, s, S, Len(s)) /\ Only(s, S) = f[Len(s)]
  BY OnlyKeeps
<1> DEFINE P == {n \in Nat : n <= Len(s) => Kept(f[n], s, S, n)}
<1>2. 0 \in P
  <2>1. Kept(<< >>, s, S, 0)
    BY DEF Kept, Distinct
  <2>2. QED
    BY <1>1, <2>1 DEF Keeps
<1>3. ASSUME NEW n \in Nat, n \in P
      PROVE  n + 1 \in P
  <2> SUFFICES ASSUME n + 1 <= Len(s)
               PROVE  Kept(f[n + 1], s, S, n + 1)
    OBVIOUS
  <2>1. n + 1 \in 1..Len(s) /\ (n + 1) - 1 = n /\ f[n] \in Seq(T) /\ Kept(f[n], s, S, n)
    BY <1>3
  <2>2. f[n + 1] = IF s[n + 1] \in S THEN Append(f[n], s[n + 1]) ELSE f[n]
    BY <1>1, <2>1 DEF Keeps
  <2>3. Kept(IF s[n + 1] \in S THEN Append(f[n], s[n + 1]) ELSE f[n], s, S, n + 1)
    BY <2>1, KeptNext
  <2>4. QED
    BY <2>2, <2>3
<1>4. Len(s) \in P
  <2> HIDE DEF P
  <2>1. QED
    BY <1>2, <1>3, SetInduction
<1>5. QED
  BY <1>1, <1>4

\* What filtering a sequence keeps.
LEMMA OnlyFacts ==
  ASSUME NEW T, NEW s \in Seq(T), NEW S
  PROVE  /\ Only(s, S) \in Seq(T) /\ Len(Only(s, S)) <= Len(s)
         /\ \A x : x \in ToSet(Only(s, S)) <=> x \in ToSet(s) /\ x \in S
         /\ IsInjective(s) => IsInjective(Only(s, S))
<1> DEFINE p == Only(s, S)
<1>1. p \in Seq(T) /\ Kept(p, s, S, Len(s))
  BY OnlyKept
<1> HIDE DEF p
<1>2. DOMAIN p = 1..Len(p) /\ DOMAIN s = 1..Len(s)
  BY <1>1
<1>3. \A x : x \in ToSet(p) <=> x \in ToSet(s) /\ x \in S
  BY <1>1, <1>2 DEF Kept, ToSet
<1>4. IsInjective(s) => IsInjective(p)
  BY <1>1, <1>2 DEF Kept, Distinct, IsInjective
<1>5. QED
  BY <1>1, <1>3, <1>4 DEF Kept, p

\* A sequence is split in two by a set and what is outside it.
LEMMA OnlySplits ==
  ASSUME NEW T, NEW s \in Seq(T), NEW S, NEW R, \A x \in T : x \in S <=> x \notin R
  PROVE  Len(Only(s, S)) + Len(Only(s, R)) = Len(s)
<1>1. PICK f \in [0..Len(s) -> Seq(T)] : Keeps(f, s, S, Len(s)) /\ Only(s, S) = f[Len(s)]
  BY OnlyKeeps
<1>2. PICK g \in [0..Len(s) -> Seq(T)] : Keeps(g, s, R, Len(s)) /\ Only(s, R) = g[Len(s)]
  BY OnlyKeeps
<1> DEFINE P == {n \in Nat : n <= Len(s) => Len(f[n]) + Len(g[n]) = n}
<1>3. 0 \in P
  BY <1>1, <1>2 DEF Keeps
<1>4. ASSUME NEW n \in Nat, n \in P
      PROVE  n + 1 \in P
  <2> SUFFICES ASSUME n + 1 <= Len(s)
               PROVE  Len(f[n + 1]) + Len(g[n + 1]) = n + 1
    OBVIOUS
  <2>1. /\ n + 1 \in 1..Len(s) /\ (n + 1) - 1 = n /\ s[n + 1] \in T
        /\ f[n] \in Seq(T) /\ g[n] \in Seq(T)
    BY <1>4
  <2>2. f[n + 1] = IF s[n + 1] \in S THEN Append(f[n], s[n + 1]) ELSE f[n]
    BY <1>1, <2>1 DEF Keeps
  <2>3. g[n + 1] = IF s[n + 1] \in R THEN Append(g[n], s[n + 1]) ELSE g[n]
    BY <1>2, <2>1 DEF Keeps
  <2>4. /\ Len(Append(f[n], s[n + 1])) = Len(f[n]) + 1 /\ Len(f[n]) \in Nat
        /\ Len(Append(g[n], s[n + 1])) = Len(g[n]) + 1 /\ Len(g[n]) \in Nat
    BY <2>1
  <2>5. Len(f[n]) + Len(g[n]) = n
    BY <1>4
  <2> DEFINE a == Len(f[n])
             b == Len(g[n])
  <2>6. a \in Nat /\ b \in Nat /\ a + b = n
    BY <2>4, <2>5
  <2> HIDE DEF P, a, b
  <2>7. CASE s[n + 1] \in S
    <3>1. s[n + 1] \notin R
      BY <2>1, <2>7
    <3>2. Len(f[n + 1]) = a + 1 /\ Len(g[n + 1]) = b
      BY <2>2, <2>3, <2>4, <2>7, <3>1 DEF a, b
    <3>3. QED
      BY <2>6, <3>2
  <2>8. CASE s[n + 1] \notin S
    <3>1. s[n + 1] \in R
      BY <2>1, <2>8
    <3>2. Len(f[n + 1]) = a /\ Len(g[n + 1]) = b + 1
      BY <2>2, <2>3, <2>4, <2>8, <3>1 DEF a, b
    <3>3. QED
      BY <2>6, <3>2
  <2>9. QED
    BY <2>7, <2>8
<1>5. Len(s) \in P
  <2> HIDE DEF P
  <2>1. QED
    BY <1>3, <1>4, SetInduction
<1>6. QED
  BY <1>1, <1>2, <1>5

-----------------------------------------------------------------------------
(***************************************************************************)
(* Sequences that repeat nothing: their tails and their concatenations.    *)
(***************************************************************************)
LEMMA InjectiveIsDistinct ==
  ASSUME NEW T, NEW p \in Seq(T)
  PROVE  /\ IsInjective(p) <=> Distinct(p)
         /\ \A x : x \in ToSet(p) <=> \E i \in 1..Len(p) : p[i] = x
<1>1. DOMAIN p = 1..Len(p)
  OBVIOUS
<1>2. QED
  BY <1>1 DEF IsInjective, Distinct, ToSet

LEMMA ConcatFacts ==
  ASSUME NEW T, NEW p \in Seq(T), NEW q \in Seq(T),
         IsInjective(p), IsInjective(q), \A x \in ToSet(p) : x \notin ToSet(q)
  PROVE  /\ p \o q \in Seq(T) /\ Len(p \o q) = Len(p) + Len(q)
         /\ IsInjective(p \o q)
         /\ \A x : x \in ToSet(p \o q) <=> x \in ToSet(p) \/ x \in ToSet(q)
<1> DEFINE r == p \o q
<1>1. /\ r \in Seq(T) /\ Len(r) = Len(p) + Len(q) /\ Len(p) \in Nat /\ Len(q) \in Nat
      /\ \A i \in 1..Len(p) : r[i] = p[i]
  OBVIOUS
<1>2. \A i \in 1..Len(r) : ~ (i \in 1..Len(p)) =>
        i - Len(p) \in 1..Len(q) /\ r[i] = q[i - Len(p)]
  OBVIOUS
<1>3. \A i \in 1..Len(q) : Len(p) + i \in 1..Len(r) /\ r[Len(p) + i] = q[i]
  OBVIOUS
<1> HIDE DEF r
<1>4. \A i \in 1..Len(p) : i \in 1..Len(r)
  BY <1>1
<1>5. \A i \in 1..Len(p), j \in 1..Len(q) : p[i] # q[j]
  BY InjectiveIsDistinct
<1>6. Distinct(p) /\ Distinct(q)
  BY InjectiveIsDistinct
<1>7. Distinct(r)
  <2> SUFFICES ASSUME NEW i \in 1..Len(r), NEW j \in 1..Len(r), r[i] = r[j]
               PROVE  i = j
    BY DEF Distinct
  <2>1. CASE i \in 1..Len(p) /\ j \in 1..Len(p)
    BY <1>1, <1>6, <2>1 DEF Distinct
  <2>2. CASE i \in 1..Len(p) /\ j \notin 1..Len(p)
    BY <1>1, <1>2, <1>5, <2>2
  <2>3. CASE i \notin 1..Len(p) /\ j \in 1..Len(p)
    BY <1>1, <1>2, <1>5, <2>3
  <2>4. CASE i \notin 1..Len(p) /\ j \notin 1..Len(p)
    <3>1. i - Len(p) = j - Len(p)
      BY <1>2, <1>6, <2>4 DEF Distinct
    <3>2. QED
      BY <1>1, <3>1
  <2>5. QED
    BY <2>1, <2>2, <2>3, <2>4
<1>8. \A x : (\E i \in 1..Len(r) : r[i] = x)
               <=> (\E i \in 1..Len(p) : p[i] = x) \/ (\E i \in 1..Len(q) : q[i] = x)
  <2> TAKE x
  <2>1. ASSUME NEW i \in 1..Len(r), r[i] = x
        PROVE  (\E j \in 1..Len(p) : p[j] = x) \/ (\E j \in 1..Len(q) : q[j] = x)
    <3>1. CASE i \in 1..Len(p)
      BY <1>1, <2>1, <3>1
    <3>2. CASE i \notin 1..Len(p)
      BY <1>2, <2>1, <3>2
    <3>3. QED
      BY <3>1, <3>2
  <2>2. ASSUME NEW i \in 1..Len(p), p[i] = x
        PROVE  \E j \in 1..Len(r) : r[j] = x
    BY <1>1, <1>4, <2>2
  <2>3. ASSUME NEW i \in 1..Len(q), q[i] = x
        PROVE  \E j \in 1..Len(r) : r[j] = x
    BY <1>3, <2>3
  <2>4. QED
    BY <2>1, <2>2, <2>3
<1>9. /\ IsInjective(r) <=> Distinct(r)
      /\ \A x : x \in ToSet(r) <=> \E i \in 1..Len(r) : r[i] = x
  <2>1. r \in Seq(T)
    BY <1>1
  <2>2. QED
    BY <2>1, InjectiveIsDistinct
<1>10. /\ \A x : x \in ToSet(p) <=> \E i \in 1..Len(p) : p[i] = x
       /\ \A x : x \in ToSet(q) <=> \E i \in 1..Len(q) : q[i] = x
  BY InjectiveIsDistinct
<1>11. \A x : x \in ToSet(r) <=> x \in ToSet(p) \/ x \in ToSet(q)
  BY <1>8, <1>9, <1>10
<1>12. QED
  BY <1>1, <1>7, <1>9, <1>11 DEF r

LEMMA ConcatAt ==
  ASSUME NEW T, NEW p \in Seq(T), NEW q \in Seq(T)
  PROVE  /\ p \o q \in Seq(T) /\ DOMAIN (p \o q) = 1..(Len(p) + Len(q))
         /\ Len(p \o q) = Len(p) + Len(q)
         /\ \A i \in 1..Len(p) : (p \o q)[i] = p[i]
         /\ \A i \in 1..Len(q) : (p \o q)[Len(p) + i] = q[i]
OBVIOUS

LEMMA AppendFacts ==
  ASSUME NEW T, NEW p \in Seq(T), NEW e \in T, IsInjective(p), e \notin ToSet(p)
  PROVE  /\ Append(p, e) \in Seq(T) /\ Len(Append(p, e)) = Len(p) + 1
         /\ IsInjective(Append(p, e))
         /\ \A x : x \in ToSet(Append(p, e)) <=> x \in ToSet(p) \/ x = e
<1> DEFINE q == << e >>
<1>1. /\ q \in Seq(T) /\ Len(q) = 1 /\ Append(p, e) = p \o q /\ DOMAIN q = {1} /\ q[1] = e
      /\ Append(p, e) \in Seq(T) /\ Len(Append(p, e)) = Len(p) + 1
  OBVIOUS
<1> HIDE DEF q
<1>2. IsInjective(q) /\ \A x : x \in ToSet(q) <=> x = e
  BY <1>1 DEF IsInjective, ToSet
<1>3. \A x \in ToSet(p) : x \notin ToSet(q)
  BY <1>2
<1>4. /\ IsInjective(p \o q)
      /\ \A x : x \in ToSet(p \o q) <=> x \in ToSet(p) \/ x \in ToSet(q)
  BY <1>1, <1>2, <1>3, ConcatFacts
<1>5. QED
  BY <1>1, <1>2, <1>4

LEMMA TailFacts ==
  ASSUME NEW T, NEW p \in Seq(T), IsInjective(p), p # << >>
  PROVE  /\ Tail(p) \in Seq(T) /\ Len(Tail(p)) = Len(p) - 1 /\ IsInjective(Tail(p))
         /\ Head(p) \in T /\ Head(p) \in ToSet(p)
         /\ \A x : x \in ToSet(p) <=> x \in ToSet(Tail(p)) \/ x = Head(p)
         /\ Head(p) \notin ToSet(Tail(p))
<1> DEFINE r == Tail(p)
<1>1. /\ r \in Seq(T) /\ Len(r) = Len(p) - 1 /\ Len(p) \in Nat /\ Len(p) # 0
      /\ Head(p) = p[1] /\ Head(p) \in T
      /\ \A i \in 1..Len(r) : r[i] = p[i + 1] /\ i + 1 \in 1..Len(p) /\ i + 1 # 1
  OBVIOUS
<1>2. \A i \in 1..Len(p) : i # 1 => i - 1 \in 1..Len(r) /\ r[i - 1] = p[i]
  OBVIOUS
<1> HIDE DEF r
<1>3. Distinct(p)
  BY InjectiveIsDistinct
<1>4. Distinct(r) /\ \A i \in 1..Len(r) : r[i] # p[1]
  <2>1. 1 \in 1..Len(p)
    BY <1>1
  <2>2. \A i, j \in 1..Len(r) : r[i] = r[j] => i + 1 = j + 1
    BY <1>1, <1>3 DEF Distinct
  <2>3. \A i \in 1..Len(r) : r[i] # p[1]
    BY <1>1, <1>3, <2>1 DEF Distinct
  <2>4. QED
    BY <1>1, <2>2, <2>3 DEF Distinct
<1>5. \A x : (\E i \in 1..Len(p) : p[i] = x) <=> (\E i \in 1..Len(r) : r[i] = x) \/ x = p[1]
  <2>1. 1 \in 1..Len(p)
    BY <1>1
  <2>2. QED
    BY <1>1, <1>2, <2>1
<1>6. \A x : x \in ToSet(p) <=> \E i \in 1..Len(p) : p[i] = x
  BY InjectiveIsDistinct
<1>7. /\ IsInjective(r) <=> Distinct(r)
      /\ \A x : x \in ToSet(r) <=> \E i \in 1..Len(r) : r[i] = x
  <2>1. r \in Seq(T)
    BY <1>1
  <2>2. QED
    BY <2>1, InjectiveIsDistinct
<1>8. /\ \A x : x \in ToSet(p) <=> x \in ToSet(r) \/ x = p[1]
      /\ p[1] \notin ToSet(r)
  BY <1>4, <1>5, <1>6, <1>7
<1>9. IsInjective(r) /\ p[1] \in ToSet(p)
  BY <1>4, <1>7, <1>8
<1>10. QED
  BY <1>1, <1>8, <1>9 DEF r

-----------------------------------------------------------------------------
(***************************************************************************)
(* What filtering does to the end, and to the order, of a sequence.        *)
(***************************************************************************)
\* Two functions that keep the same elements are the same.
LEMMA KeepsUnique ==
  ASSUME NEW n \in Nat, NEW s, NEW r, NEW S, NEW R, NEW f, NEW g,
         Keeps(f, s, S, n), Keeps(g, r, R, n),
         \A i \in 1..n : s[i] = r[i] /\ (s[i] \in S <=> r[i] \in R)
  PROVE  f[n] = g[n]
<1> DEFINE P == {m \in Nat : m <= n => f[m] = g[m]}
<1>1. 0 \in P
  BY DEF Keeps
<1>2. ASSUME NEW m \in Nat, m \in P
      PROVE  m + 1 \in P
  <2> SUFFICES ASSUME m + 1 <= n
               PROVE  f[m + 1] = g[m + 1]
    OBVIOUS
  <2>1. m + 1 \in 1..n /\ (m + 1) - 1 = m /\ f[m] = g[m]
    BY <1>2
  <2>2. f[m + 1] = IF s[m + 1] \in S THEN Append(f[m], s[m + 1]) ELSE f[m]
    BY <2>1 DEF Keeps
  <2>3. g[m + 1] = IF r[m + 1] \in R THEN Append(g[m], r[m + 1]) ELSE g[m]
    BY <2>1 DEF Keeps
  <2>4. QED
    BY <2>1, <2>2, <2>3
<1>3. n \in P
  <2> HIDE DEF P
  <2>1. QED
    BY <1>1, <1>2, SetInduction
<1>4. QED
  BY <1>3

\* Only the elements of the sequence matter to a filter.
LEMMA OnlySame ==
  ASSUME NEW T, NEW s \in Seq(T), NEW S, NEW R, \A i \in 1..Len(s) : s[i] \in S <=> s[i] \in R
  PROVE  Only(s, S) = Only(s, R)
<1>1. PICK f \in [0..Len(s) -> Seq(T)] : Keeps(f, s, S, Len(s)) /\ Only(s, S) = f[Len(s)]
  BY OnlyKeeps
<1>2. PICK g \in [0..Len(s) -> Seq(T)] : Keeps(g, s, R, Len(s)) /\ Only(s, R) = g[Len(s)]
  BY OnlyKeeps
<1>3. Len(s) \in Nat
  OBVIOUS
<1>4. QED
  BY <1>1, <1>2, <1>3, KeepsUnique

\* A filter of a longer sequence goes on where the shorter one's stopped.
LEMMA OnlyAppend ==
  ASSUME NEW T, NEW s \in Seq(T), NEW e \in T, NEW S
  PROVE  Only(Append(s, e), S) = IF e \in S THEN Append(Only(s, S), e) ELSE Only(s, S)
<1> DEFINE r == Append(s, e)
           n == Len(s)
<1>1. r \in Seq(T) /\ Len(r) = n + 1 /\ n \in Nat /\ r[n + 1] = e /\ \A i \in 1..n : r[i] = s[i]
  OBVIOUS
<1> HIDE DEF r
<1>2. PICK f \in [0..Len(r) -> Seq(T)] : Keeps(f, r, S, Len(r)) /\ Only(r, S) = f[Len(r)]
  BY <1>1, OnlyKeeps
<1>3. PICK g \in [0..Len(s) -> Seq(T)] : Keeps(g, s, S, Len(s)) /\ Only(s, S) = g[Len(s)]
  BY OnlyKeeps
<1>4. Keeps(f, r, S, n)
  BY <1>1, <1>2 DEF Keeps
<1>5. f[n] = Only(s, S)
  <2>1. Keeps(g, s, S, n) /\ Only(s, S) = g[n]
    BY <1>3
  <2>2. \A i \in 1..n : r[i] = s[i] /\ (r[i] \in S <=> s[i] \in S)
    BY <1>1
  <2> HIDE DEF n
  <2>3. f[n] = g[n]
    <3>1. n \in Nat
      BY <1>1
    <3>2. QED
      BY <1>4, <2>1, <2>2, <3>1, KeepsUnique
  <2>4. QED
    BY <2>1, <2>3
<1>6. f[n + 1] = IF r[n + 1] \in S THEN Append(f[(n + 1) - 1], r[n + 1]) ELSE f[(n + 1) - 1]
  <2>1. n + 1 \in 1..(n + 1)
    BY <1>1
  <2>2. QED
    BY <1>1, <1>2, <2>1 DEF Keeps
<1>7. (n + 1) - 1 = n
  BY <1>1
<1>8. QED
  BY <1>1, <1>2, <1>5, <1>6, <1>7 DEF r

\* What is kept stays in its order.
InOrder(p, s, n) ==
  \A i, j \in 1..Len(p) : i < j =>
    \E a, b \in 1..n : a < b /\ s[a] = p[i] /\ s[b] = p[j]

LEMMA OnlyOrdered ==
  ASSUME NEW T, NEW s \in Seq(T), NEW S
  PROVE  InOrder(Only(s, S), s, Len(s))
<1>1. PICK f \in [0..Len(s) -> Seq(T)] : Keeps(f, s, S, Len(s)) /\ Only(s, S) = f[Len(s)]
  BY OnlyKeeps
<1> DEFINE Placed(p, n) == \A j \in 1..Len(p) : \E b \in 1..n : s[b] = p[j]
           P == {n \in Nat : n <= Len(s) => InOrder(f[n], s, n) /\ Placed(f[n], n)}
<1>2. 0 \in P
  <2>1. f[0] = << >>
    BY <1>1 DEF Keeps
  <2>2. InOrder(<< >>, s, 0) /\ Placed(<< >>, 0)
    BY DEF InOrder
  <2>3. QED
    BY <2>1, <2>2
<1>3. ASSUME NEW n \in Nat, n \in P
      PROVE  n + 1 \in P
  <2> SUFFICES ASSUME n + 1 <= Len(s)
               PROVE  InOrder(f[n + 1], s, n + 1) /\ Placed(f[n + 1], n + 1)
    OBVIOUS
  <2>1. /\ n + 1 \in 1..Len(s) /\ (n + 1) - 1 = n /\ f[n] \in Seq(T) /\ s[n + 1] \in T
        /\ InOrder(f[n], s, n) /\ Placed(f[n], n)
    BY <1>3
  <2>2. f[n + 1] = IF s[n + 1] \in S THEN Append(f[n], s[n + 1]) ELSE f[n]
    BY <1>1, <2>1 DEF Keeps
  <2>3. \A i \in 1..n : i \in 1..(n + 1) /\ i < n + 1
    OBVIOUS
  <2>4. CASE s[n + 1] \notin S
    <3>1. f[n + 1] = f[n]
      BY <2>2, <2>4
    <3>2. QED
      BY <2>1, <2>3, <3>1 DEF InOrder
  <2>5. CASE s[n + 1] \in S
    <3> DEFINE q == f[n + 1]
               m == Len(f[n])
    <3>1. /\ m \in Nat /\ Len(q) = m + 1 /\ q[m + 1] = s[n + 1]
          /\ \A i \in 1..m : q[i] = f[n][i]
      BY <2>1, <2>2, <2>5
    <3> HIDE DEF q, m
    <3>2. \A i \in 1..(m + 1) : i \in 1..m \/ i = m + 1
      BY <3>1
    <3>3. Placed(q, n + 1)
      <4>1. ASSUME NEW j \in 1..m PROVE \E b \in 1..(n + 1) : s[b] = q[j]
        BY <2>1, <2>3, <3>1 DEF m
      <4>2. n + 1 \in 1..(n + 1)
        OBVIOUS
      <4>3. QED
        BY <3>1, <3>2, <4>1, <4>2
    <3>4. InOrder(q, s, n + 1)
      <4>1. SUFFICES ASSUME NEW i \in 1..(m + 1), NEW j \in 1..(m + 1), i < j
                     PROVE  \E a, b \in 1..(n + 1) : a < b /\ s[a] = q[i] /\ s[b] = q[j]
        BY <3>1 DEF InOrder
      <4>2. i \in 1..m
        BY <3>1, <4>1
      <4>3. CASE j \in 1..m
        <5>1. \E x, y \in 1..n : x < y /\ s[x] = f[n][i] /\ s[y] = f[n][j]
          BY <2>1, <4>1, <4>2, <4>3 DEF InOrder, m
        <5>2. q[i] = f[n][i] /\ q[j] = f[n][j]
          BY <3>1, <4>2, <4>3
        <5>3. QED
          BY <2>3, <5>1, <5>2
      <4>4. CASE j = m + 1
        <5>1. PICK a \in 1..n : s[a] = q[i]
          BY <2>1, <3>1, <4>2 DEF m
        <5>2. n + 1 \in 1..(n + 1)
          OBVIOUS
        <5>3. QED
          BY <2>3, <3>1, <4>4, <5>1, <5>2
      <4>5. QED
        BY <3>2, <4>3, <4>4
    <3>5. QED
      BY <3>3, <3>4 DEF q
  <2>6. QED
    BY <2>4, <2>5
<1>4. Len(s) \in P
  <2> HIDE DEF P
  <2>1. QED
    BY <1>2, <1>3, SetInduction
<1>5. QED
  BY <1>1, <1>4

\* A filter of what is filtered keeps what both keep.
LEMMA OnlyOnly ==
  ASSUME NEW T, NEW s \in Seq(T), NEW S, NEW R
  PROVE  Only(Only(s, S), R) = Only(s, S \cap R)
<1>1. PICK f \in [0..Len(s) -> Seq(T)] : Keeps(f, s, S, Len(s)) /\ Only(s, S) = f[Len(s)]
  BY OnlyKeeps
<1>2. PICK g \in [0..Len(s) -> Seq(T)] :
        Keeps(g, s, S \cap R, Len(s)) /\ Only(s, S \cap R) = g[Len(s)]
  BY OnlyKeeps
<1> DEFINE P == {n \in Nat : n <= Len(s) => Only(f[n], R) = g[n]}
<1>3. 0 \in P
  <2>1. f[0] = << >> /\ g[0] = << >> /\ f[0] \in Seq(T)
    BY <1>1, <1>2 DEF Keeps
  <2>2. Only(f[0], R) \in Seq(T) /\ Len(Only(f[0], R)) <= 0
    BY <2>1, OnlyFacts
  <2>3. Only(f[0], R) = << >>
    BY <2>2
  <2>4. QED
    BY <2>1, <2>3
<1>4. ASSUME NEW n \in Nat, n \in P
      PROVE  n + 1 \in P
  <2> SUFFICES ASSUME n + 1 <= Len(s)
               PROVE  Only(f[n + 1], R) = g[n + 1]
    OBVIOUS
  <2>1. /\ n + 1 \in 1..Len(s) /\ (n + 1) - 1 = n /\ f[n] \in Seq(T) /\ s[n + 1] \in T
        /\ Only(f[n], R) = g[n]
    BY <1>4
  <2>2. f[n + 1] = IF s[n + 1] \in S THEN Append(f[n], s[n + 1]) ELSE f[n]
    BY <1>1, <2>1 DEF Keeps
  <2>3. g[n + 1] = IF s[n + 1] \in S \cap R THEN Append(g[n], s[n + 1]) ELSE g[n]
    BY <1>2, <2>1 DEF Keeps
  <2>4. Only(Append(f[n], s[n + 1]), R) =
          IF s[n + 1] \in R THEN Append(Only(f[n], R), s[n + 1]) ELSE Only(f[n], R)
    <3> DEFINE p == f[n]
               e == s[n + 1]
    <3>1. p \in Seq(T) /\ e \in T
      BY <2>1
    <3> HIDE DEF p, e
    <3>2. Only(Append(p, e), R) = IF e \in R THEN Append(Only(p, R), e) ELSE Only(p, R)
      BY <3>1, OnlyAppend
    <3>3. QED
      BY <3>2 DEF p, e
  <2>5. CASE s[n + 1] \in S
    BY <2>1, <2>2, <2>3, <2>4, <2>5
  <2>6. CASE s[n + 1] \notin S
    BY <2>1, <2>2, <2>3, <2>6
  <2>7. QED
    BY <2>5, <2>6
<1>5. Len(s) \in P
  <2> HIDE DEF P
  <2>1. QED
    BY <1>3, <1>4, SetInduction
<1>6. QED
  BY <1>1, <1>2, <1>5

LEMMA AppendSplits ==
  ASSUME NEW T, NEW p \in Seq(T), NEW e \in T, p # << >>
  PROVE  /\ Append(p, e) # << >> /\ Head(Append(p, e)) = Head(p)
         /\ Tail(Append(p, e)) = Append(Tail(p), e)
<1>1. Append(p, e) # << >> /\ Head(Append(p, e)) = Head(p)
  OBVIOUS
<1>2. Tail(Append(p, e)) = Append(Tail(p), e)
  <2> DEFINE a == Tail(Append(p, e))
             b == Append(Tail(p), e)
  <2>1. /\ a \in Seq(T) /\ b \in Seq(T) /\ Len(a) = Len(p) /\ Len(b) = Len(p)
        /\ \A i \in 1..Len(p) : a[i] = b[i]
    OBVIOUS
  <2> HIDE DEF a, b
  <2>2. QED
    BY <2>1
<1>3. QED
  BY <1>1, <1>2

\* A filter without the first element.
LEMMA OnlyTail ==
  ASSUME NEW T, NEW s \in Seq(T), NEW S, s # << >>
  PROVE  IF Head(s) \in S
           THEN /\ Only(s, S) # << >> /\ Head(Only(s, S)) = Head(s)
                /\ Tail(Only(s, S)) = Only(Tail(s), S)
           ELSE Only(s, S) = Only(Tail(s), S)
<1> DEFINE r == Tail(s)
           x == Head(s)
           Split(p, q) == IF x \in S THEN p # << >> /\ Head(p) = x /\ Tail(p) = q ELSE p = q
<1>1. /\ r \in Seq(T) /\ Len(s) = Len(r) + 1 /\ Len(r) \in Nat /\ x = s[1] /\ x \in T
      /\ \A i \in 1..Len(r) : r[i] = s[i + 1]
  OBVIOUS
<1> HIDE DEF r, x
<1>2. PICK f \in [0..Len(s) -> Seq(T)] : Keeps(f, s, S, Len(s)) /\ Only(s, S) = f[Len(s)]
  BY OnlyKeeps
<1>3. PICK g \in [0..Len(r) -> Seq(T)] : Keeps(g, r, S, Len(r)) /\ Only(r, S) = g[Len(r)]
  <2>1. r \in Seq(T)
    BY <1>1
  <2>2. QED
    BY <2>1, OnlyKeeps
<1> DEFINE P == {n \in Nat : n <= Len(r) => Split(f[n + 1], g[n])}
<1>4. 0 \in P
  <2>1. 1 \in 1..Len(s) /\ 1 - 1 = 0 /\ 0 + 1 = 1
    BY <1>1
  <2>2. f[1] = IF s[1] \in S THEN Append(f[0], s[1]) ELSE f[0]
    BY <1>2, <2>1 DEF Keeps
  <2>3. f[0] = << >> /\ g[0] = << >>
    BY <1>2, <1>3 DEF Keeps
  <2>4. Split(f[1], g[0])
    BY <1>1, <2>2, <2>3
  <2>5. QED
    BY <2>1, <2>4
<1>5. ASSUME NEW n \in Nat, n \in P
      PROVE  n + 1 \in P
  <2> SUFFICES ASSUME n + 1 <= Len(r)
               PROVE  Split(f[(n + 1) + 1], g[n + 1])
    OBVIOUS
  <2> DEFINE m == n + 1
             e == r[m]
             p == f[m]
             q == g[n]
  <2>1. /\ m \in 1..Len(r) /\ m - 1 = n /\ m + 1 \in 1..Len(s) /\ (m + 1) - 1 = m
        /\ n \in 0..Len(r) /\ m \in 0..Len(s)
    BY <1>1
  <2>2. e \in T /\ e = s[m + 1]
    BY <1>1, <2>1
  <2>3. Split(p, q)
    BY <1>5, <2>1
  <2>4. p \in Seq(T) /\ q \in Seq(T)
    BY <2>1
  <2>5. f[m + 1] = IF e \in S THEN Append(p, e) ELSE p
    <3> HIDE DEF m, e
    <3>1. f[m + 1] = IF s[m + 1] \in S THEN Append(f[(m + 1) - 1], s[m + 1])
                                        ELSE f[(m + 1) - 1]
      BY <1>2, <2>1 DEF Keeps
    <3>2. QED
      BY <2>1, <2>2, <3>1
  <2>6. g[m] = IF e \in S THEN Append(q, e) ELSE q
    <3> HIDE DEF m
    <3>1. QED
      BY <1>3, <2>1 DEF Keeps
  <2> HIDE DEF m, e, p, q
  <2>7. Split(Append(p, e), Append(q, e))
    <3>1. CASE x \in S
      <4>1. p # << >> /\ Head(p) = x /\ Tail(p) = q
        BY <2>3, <3>1
      <4>2. /\ Append(p, e) # << >> /\ Head(Append(p, e)) = Head(p)
            /\ Tail(Append(p, e)) = Append(Tail(p), e)
        BY <2>2, <2>4, <4>1, AppendSplits
      <4>3. QED
        BY <3>1, <4>1, <4>2
    <3>2. CASE x \notin S
      BY <2>3, <3>2
    <3>3. QED
      BY <3>1, <3>2
  <2>8. Split(f[m + 1], g[m])
    <3>1. CASE e \in S
      BY <2>5, <2>6, <2>7, <3>1
    <3>2. CASE e \notin S
      BY <2>3, <2>5, <2>6, <3>2
    <3>3. QED
      BY <3>1, <3>2
  <2>9. QED
    BY <2>8 DEF m
<1>6. Len(r) \in P
  <2> HIDE DEF P
  <2>1. QED
    BY <1>1, <1>4, <1>5, SetInduction
<1>7. Split(Only(s, S), Only(r, S))
  <2>1. Split(f[Len(r) + 1], g[Len(r)])
    BY <1>1, <1>6
  <2> HIDE DEF P, Split
  <2>2. QED
    BY <1>1, <1>2, <1>3, <2>1
<1>8. QED
  BY <1>7 DEF r, x

-----------------------------------------------------------------------------
\* A step taken n times, from a start.
StaysIn(step, T, n) == \A x \in T, i \in 1..n : step[<< x, i >>] \in T
Taken(f, start, step, n) == f[0] = start /\ \A i \in 1..n : f[i] = step[<< f[i - 1], i >>]

LEMMA StepsExist ==
  ASSUME NEW T, NEW start \in T, NEW n \in Nat, NEW step, StaysIn(step, T, n)
  PROVE  \E f \in [0..n -> T] : Taken(f, start, step, n)
<1> DEFINE P == {m \in Nat : m <= n => \E f \in [0..m -> T] : Taken(f, start, step, m)}
<1>1. 0 \in P
  <2>1. [i \in 0..0 |-> start] \in [0..0 -> T] /\ Taken([i \in 0..0 |-> start], start, step, 0)
    BY DEF Taken
  <2>2. QED
    BY <2>1
<1>2. ASSUME NEW m \in Nat, m \in P
      PROVE  m + 1 \in P
  <2> SUFFICES ASSUME m + 1 <= n
               PROVE  \E f \in [0..(m + 1) -> T] : Taken(f, start, step, m + 1)
    OBVIOUS
  <2>1. PICK g \in [0..m -> T] : Taken(g, start, step, m)
    BY <1>2
  <2> DEFINE last == step[<< g[m], m + 1 >>]
             h == [i \in 0..(m + 1) |-> IF i = m + 1 THEN last ELSE g[i]]
  <2>2. last \in T
    <3>1. g[m] \in T /\ m + 1 \in 1..n
      OBVIOUS
    <3>2. QED
      BY <3>1 DEF StaysIn
  <2>3. h \in [0..(m + 1) -> T] /\ h[m + 1] = last /\ \A i \in 0..m : h[i] = g[i]
    <3> HIDE DEF last
    <3>1. QED
      BY <2>2
  <2> HIDE DEF h
  <2>4. ASSUME NEW i \in 1..(m + 1)
        PROVE  h[i] = step[<< h[i - 1], i >>]
    <3>1. CASE i = m + 1
      <4>1. i - 1 = m /\ m \in 0..m
        BY <3>1
      <4>2. QED
        BY <2>3, <3>1, <4>1
    <3>2. CASE i # m + 1
      <4>1. i \in 1..m /\ i \in 0..m /\ i - 1 \in 0..m
        BY <3>2
      <4>2. g[i] = step[<< g[i - 1], i >>]
        BY <2>1, <4>1 DEF Taken
      <4>3. QED
        BY <2>3, <4>1, <4>2
    <3>3. QED
      BY <3>1, <3>2
  <2>5. h[0] = start
    BY <2>1, <2>3 DEF Taken
  <2>6. QED
    BY <2>3, <2>4, <2>5 DEF Taken
<1>3. n \in P
  <2> HIDE DEF P
  <2>1. QED
    BY <1>1, <1>2, SetInduction
<1>4. QED
  BY <1>3
=============================================================================
