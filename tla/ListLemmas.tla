---------------------------- MODULE ListLemmas ----------------------------
(***************************************************************************)
(* What inserting into a list at a place and erasing from it do, for the   *)
(* lists of TaskList, the boxes of FlowBox and the kernel's queue of       *)
(* RobustMutex; what can be said of functions defined by recursion over    *)
(* the numbers up to one; division; and sequences joined by FlattenSeq.    *)
(***************************************************************************)
EXTENDS Integers, SequencesExt, SequenceTheorems, FiniteSetTheorems,
        WellFoundedInduction, TLAPS

\* A slice of a sequence, element by element.
LEMMA Slice ==
  ASSUME NEW S, NEW s \in Seq(S),
         NEW m \in 1..(Len(s) + 1), NEW n \in (m - 1)..Len(s)
  PROVE  /\ SubSeq(s, m, n) \in Seq(S)
         /\ Len(SubSeq(s, m, n)) = n - m + 1
         /\ \A j \in 1..(n - m + 1) : SubSeq(s, m, n)[j] = s[m + j - 1]
OBVIOUS

\* insert() makes the list one longer, of tasks, in its three parts.
LEMMA InsertAtProps ==
  ASSUME NEW S, NEW s \in Seq(S), NEW i \in 1..(Len(s) + 1), NEW e \in S
  PROVE  /\ InsertAt(s, i, e) \in Seq(S)
         /\ Len(InsertAt(s, i, e)) = Len(s) + 1
         /\ \A j \in 1..(Len(s) + 1) :
              InsertAt(s, i, e)[j] = IF j < i THEN s[j]
                                     ELSE IF j = i THEN e ELSE s[j - 1]
<1> DEFINE front == SubSeq(s, 1, i - 1)
           back == SubSeq(s, i, Len(s))
<1>1. /\ front \in Seq(S) /\ Len(front) = i - 1
      /\ \A j \in 1..(i - 1) : front[j] = s[j]
  BY Slice
<1>2. /\ back \in Seq(S) /\ Len(back) = Len(s) - i + 1
      /\ \A j \in 1..(Len(s) - i + 1) : back[j] = s[i + j - 1]
  BY Slice
<1>3. <<e>> \in Seq(S) /\ Len(<<e>>) = 1 /\ <<e>>[1] = e
  OBVIOUS
<1>4. InsertAt(s, i, e) = (front \o <<e>>) \o back
  BY DEF InsertAt
<1> HIDE DEF front, back
<1>5. /\ front \o <<e>> \in Seq(S) /\ Len(front \o <<e>>) = i
      /\ \A j \in 1..i : (front \o <<e>>)[j] = IF j < i THEN s[j] ELSE e
  BY <1>1, <1>3, ConcatProperties
<1>6. /\ (front \o <<e>>) \o back \in Seq(S)
      /\ Len((front \o <<e>>) \o back) = Len(s) + 1
      /\ \A j \in 1..(Len(s) + 1) :
           ((front \o <<e>>) \o back)[j] =
             IF j <= i THEN (front \o <<e>>)[j] ELSE back[j - i]
  BY <1>2, <1>5, ConcatProperties
<1>7. ASSUME NEW j \in 1..(Len(s) + 1), j > i
      PROVE  back[j - i] = s[j - 1]
  BY <1>2, <1>7
<1>8. QED BY <1>4, <1>5, <1>6, <1>7

\* erase(it) makes the list one shorter and closes the gap.
LEMMA RemoveAtProps ==
  ASSUME NEW S, NEW s \in Seq(S), NEW i \in 1..Len(s)
  PROVE  /\ RemoveAt(s, i) \in Seq(S)
         /\ Len(RemoveAt(s, i)) = Len(s) - 1
         /\ \A j \in 1..(Len(s) - 1) :
              RemoveAt(s, i)[j] = IF j < i THEN s[j] ELSE s[j + 1]
<1> DEFINE front == SubSeq(s, 1, i - 1)
           back == SubSeq(s, i + 1, Len(s))
<1>1. /\ front \in Seq(S) /\ Len(front) = i - 1
      /\ \A j \in 1..(i - 1) : front[j] = s[j]
  BY Slice
<1>2. /\ back \in Seq(S) /\ Len(back) = Len(s) - i
      /\ \A j \in 1..(Len(s) - i) : back[j] = s[i + j]
  BY Slice
<1>3. RemoveAt(s, i) = front \o back
  BY DEF RemoveAt
<1> HIDE DEF front, back
<1>4. /\ front \o back \in Seq(S)
      /\ Len(front \o back) = (i - 1) + (Len(s) - i)
      /\ \A j \in 1..((i - 1) + (Len(s) - i)) :
           (front \o back)[j] = IF j <= i - 1 THEN front[j] ELSE back[j - (i - 1)]
  <2>1. /\ front \o back \in Seq(S)
        /\ Len(front \o back) = Len(front) + Len(back)
        /\ \A j \in 1..(Len(front) + Len(back)) :
             (front \o back)[j] = IF j <= Len(front) THEN front[j]
                                  ELSE back[j - Len(front)]
    <3>1. front \in Seq(S) /\ back \in Seq(S)
      BY <1>1, <1>2
    <3>2. QED BY ONLY <3>1, ConcatProperties
  <2>2. QED BY <2>1, <1>1, <1>2, Zenon
<1>5. (i - 1) + (Len(s) - i) = Len(s) - 1
  OBVIOUS
<1>6. ASSUME NEW j \in 1..(Len(s) - 1)
      PROVE  (front \o back)[j] = IF j < i THEN s[j] ELSE s[j + 1]
  <2>1. CASE j < i
    <3>1. j \in 1..(i - 1)
      BY <2>1
    <3>2. QED BY <3>1, <2>1, <1>1, <1>4, <1>5
  <2>2. CASE j >= i
    <3>1. j - (i - 1) \in 1..(Len(s) - i) /\ i + (j - (i - 1)) = j + 1
      BY <2>2
    <3>2. back[j - (i - 1)] = s[j + 1]
      BY <3>1, <1>2
    <3>3. QED BY <3>2, <2>2, <1>4, <1>5
  <2>3. j < i \/ j >= i
    OBVIOUS
  <2>4. QED BY <2>1, <2>2, <2>3
<1>7. QED BY <1>3, <1>4, <1>5, <1>6

\* Distinct elements are as many as there are places.
LEMMA LenIsCardinality ==
  ASSUME NEW S, NEW s \in Seq(S), \A i, j \in 1..Len(s) : s[i] = s[j] => i = j
  PROVE  Cardinality(ToSet(s)) = Len(s) /\ IsFiniteSet(ToSet(s))
<1>1. Len(s) \in Nat /\ ToSet(s) = {s[i] : i \in 1..Len(s)}
  BY DEF ToSet
<1>2. s \in Bijection(1..Len(s), ToSet(s))
  <2>1. s \in [1..Len(s) -> ToSet(s)]
    BY <1>1
  <2> QED BY <1>1, <2>1
          DEF Bijection, Injection, Surjection, IsInjective
<1>3. ExistsBijection(1..Len(s), ToSet(s))
  BY <1>2 DEF ExistsBijection
<1>4. Len(s) = Cardinality(ToSet(s))
  <2> DEFINE n == Len(s)
             R == ToSet(s)
  <2>1. n \in Nat /\ ExistsBijection(1..n, R)
    BY <1>1, <1>3
  <2> HIDE DEF n, R
  <2>2. Cardinality(R) = n
    BY <2>1, FS_CountingElements
  <2> QED BY <2>2 DEF n, R
<1>5. IsFiniteSet(ToSet(s))
  BY <1>1, <1>3, FS_NatBijection
<1> QED BY <1>4, <1>5

-----------------------------------------------------------------------------
(***************************************************************************)
(* Induction over a set of numbers, and recursion.                         *)
(***************************************************************************)
LEMMA Smallest ==
  ASSUME NEW T \in SUBSET Nat, T # {}
  PROVE  \E n \in T : \A m \in T : n <= m
<1>1. PICK n \in T : \A y \in T : ~(<<y, n>> \in OpToRel(<, Nat))
  BY NatLessThanWellFounded, WFMin
<1>2. \A y \in T : ~(y < n)
  BY <1>1 DEF OpToRel
<1> QED BY <1>2

LEMMA Induction ==
  ASSUME NEW T \in SUBSET Nat, 0 \in T, \A n \in T : n + 1 \in T
  PROVE  T = Nat
<1> SUFFICES ASSUME Nat \ T # {} PROVE FALSE
  OBVIOUS
<1>1. PICK n \in Nat \ T : \A m \in Nat \ T : n <= m
  BY Smallest
<1>2. n - 1 \in Nat /\ n - 1 \in T
  BY <1>1
<1> QED BY <1>1, <1>2

LEMMA InductionUpTo ==
  ASSUME NEW n \in Nat, NEW T, 0 \in T,
         \A i \in 1..n : i - 1 \in T => i \in T
  PROVE  \A i \in 0..n : i \in T
<1> DEFINE U == {i \in Nat : i <= n => i \in T}
<1>1. 0 \in U
  OBVIOUS
<1>2. ASSUME NEW i \in U PROVE i + 1 \in U
  <2>1. CASE i + 1 <= n
    <3>1. i \in T /\ i + 1 \in 1..n /\ (i + 1) - 1 = i
      BY <2>1
    <3> QED BY <3>1
  <2>2. CASE ~(i + 1 <= n)
    BY <2>2
  <2> QED BY <2>1, <2>2
<1>3. U \in SUBSET Nat
  OBVIOUS
<1> HIDE DEF U
<1>4. U = Nat
  BY <1>1, <1>2, <1>3, Induction
<1> QED BY <1>4 DEF U

\* A value and a step define a function on 0..n.
DefinedFrom(f, n, a, g) == f[0] = a /\ \A i \in 1..n : f[i] = g[<<i, f[i - 1]>>]

LEMMA Recursion ==
  ASSUME NEW n \in Nat, NEW S, NEW a \in S, NEW g \in [(1..n) \X S -> S]
  PROVE  \E f \in [0..n -> S] : DefinedFrom(f, n, a, g)
<1> DEFINE Is(f, k) == f[0] = a /\ \A i \in 1..k : f[i] = g[<<i, f[i - 1]>>]
           T == {k \in 0..n : \E f \in [0..k -> S] : Is(f, k)}
<1>1. 0 \in T
  <2>1. [i \in 0..0 |-> a] \in [0..0 -> S] /\ Is([i \in 0..0 |-> a], 0)
    OBVIOUS
  <2> HIDE DEF Is
  <2> QED BY <2>1
<1>2. ASSUME NEW k \in 1..n, k - 1 \in T PROVE k \in T
  <2>1. PICK f \in [0..(k - 1) -> S] : Is(f, k - 1)
    BY <1>2
  <2> DEFINE h == [i \in 0..k |-> IF i = k THEN g[<<k, f[k - 1]>>] ELSE f[i]]
  <2>2. g[<<k, f[k - 1]>>] \in S
    BY k - 1 \in 0..(k - 1)
  <2>3. h \in [0..k -> S]
    BY <2>2
  <2>4. ASSUME NEW i \in 1..k PROVE h[i] = g[<<i, h[i - 1]>>]
    <3>1. i - 1 \in 0..k /\ i - 1 # k /\ h[i - 1] = f[i - 1]
      OBVIOUS
    <3>2. i # k => i \in 1..(k - 1) /\ h[i] = f[i]
      OBVIOUS
    <3> QED BY <2>1, <3>1, <3>2
  <2>5. h[0] = a
    BY <2>1
  <2>6. Is(h, k)
    BY <2>4, <2>5
  <2> HIDE DEF h, Is
  <2> QED BY <2>3, <2>6
<1> HIDE DEF T
<1>3. n \in T
  BY <1>1, <1>2, InductionUpTo
<1> QED BY <1>3 DEF T, DefinedFrom

-----------------------------------------------------------------------------
(***************************************************************************)
(* Division with a remainder.                                              *)
(***************************************************************************)
LEMMA Division ==
  ASSUME NEW D \in Nat \ {0}, NEW n \in Int
  PROVE  \E d \in Int : \E u \in 0..(D - 1) :
           n \div D = d /\ n % D = u /\ n = d * D + u
<1> DEFINE q == n \div D
           r == n % D
<1>1. r = n - D * q
  OBVIOUS
<1>2. q \in Int /\ r \in 0..(D - 1)
  OBVIOUS
<1>3. n \div D = q /\ n % D = r
  OBVIOUS
<1> HIDE DEF q, r
<1>4. n = q * D + r
  BY <1>1, <1>2
<1> QED BY <1>2, <1>3, <1>4, Zenon

LEMMA Remainder ==
  ASSUME NEW D \in Nat \ {0}, NEW d \in Int, NEW u \in 0..(D - 1)
  PROVE  (d * D + u) \div D = d /\ (d * D + u) % D = u
OBVIOUS

\* What is joined, list by list.
Joins(f, S, ss) ==
  /\ f \in [0..Len(ss) -> Seq(S)]
  /\ f[0] = <<>>
  /\ \A i \in 1..Len(ss) : f[i] = f[i - 1] \o ss[i]

LEMMA JoinsExists ==
  ASSUME NEW S, NEW ss \in Seq(Seq(S))
  PROVE  \E f : Joins(f, S, ss)
<1> DEFINE n == Len(ss)
           g == [x \in (1..n) \X Seq(S) |-> x[2] \o ss[x[1]]]
<1>1. n \in Nat /\ <<>> \in Seq(S)
  OBVIOUS
<1>2. g \in [(1..n) \X Seq(S) -> Seq(S)]
  OBVIOUS
<1>3. ASSUME NEW i \in 1..n, NEW x \in Seq(S)
      PROVE  g[<<i, x>>] = x \o ss[i]
  OBVIOUS
<1> HIDE DEF g
<1>4. PICK f \in [0..n -> Seq(S)] : DefinedFrom(f, n, <<>>, g)
  <2> HIDE DEF n
  <2> QED BY <1>1, <1>2, Recursion
<1>5. ASSUME NEW i \in 1..n PROVE f[i] = f[i - 1] \o ss[i]
  BY <1>3, <1>4, i - 1 \in 0..n DEF DefinedFrom
<1>6. Joins(f, S, ss)
  BY <1>4, <1>5 DEF Joins, DefinedFrom
<1> QED BY <1>6

\* A joining is what FlattenSeq gives.
LEMMA JoinsIsFlat ==
  ASSUME NEW S, NEW ss \in Seq(Seq(S)), NEW f, Joins(f, S, ss)
  PROVE  FlattenSeq(ss) = f[Len(ss)]
<1> DEFINE n == Len(ss)
<1>1. n \in Nat
  OBVIOUS
<1>2. CASE n = 0
  BY <1>2 DEF Joins, FlattenSeq
<1>3. CASE n # 0
  <2> DEFINE Is(g) == g = [i \in 1..n |-> IF i = 1 THEN ss[i]
                                          ELSE g[i - 1] \o ss[i]]
             h == [i \in 1..n |-> f[i]]
             flatten == CHOOSE g : Is(g)
  <2>1. ASSUME NEW i \in 1..n
        PROVE  h[i] = IF i = 1 THEN ss[i] ELSE h[i - 1] \o ss[i]
    <3>1. f[i] = f[i - 1] \o ss[i]
      BY DEF Joins
    <3>2. CASE i = 1
      <4>1. f[i] = <<>> \o ss[i]
        <5>1. i - 1 = 0 /\ f[0] = <<>>
          BY <3>2 DEF Joins
        <5> HIDE DEF h, n
        <5> QED BY <3>1, <5>1
      <4>3. ss[i] \in Seq(S)
        OBVIOUS
      <4>2. <<>> \o ss[i] = ss[i]
        BY <4>3
      <4> QED BY <4>1, <4>2, <3>2
    <3>3. CASE i # 1
      BY <3>1, <3>3, i - 1 \in 1..n
    <3> QED BY <3>2, <3>3
  <2>2. Is(h)
    <3> DEFINE k == [i \in 1..n |-> IF i = 1 THEN ss[i] ELSE h[i - 1] \o ss[i]]
    <3>1. \A i \in 1..n : h[i] = k[i]
      BY <2>1
    <3>2. h = k
      <4>1. h = [i \in 1..n |-> h[i]] /\ k = [i \in 1..n |-> k[i]]
        OBVIOUS
      <4> HIDE DEF h, k
      <4> QED BY <3>1, <4>1
    <3> QED BY <3>2
  <2> HIDE DEF h, Is
  <2>3. Is(flatten)
    BY <2>2
  <2>4. FlattenSeq(ss) = flatten[n]
    BY <1>3 DEF FlattenSeq, Is
  <2> HIDE DEF flatten
  <2>5. ASSUME NEW i \in 1..n
        PROVE  flatten[i] = IF i = 1 THEN ss[i] ELSE flatten[i - 1] \o ss[i]
    BY <2>3 DEF Is
  <2> DEFINE T == {i \in 0..n : i # 0 => flatten[i] = f[i]}
  <2>6. 0 \in T
    BY <1>1
  <2>7. ASSUME NEW i \in 1..n, i - 1 \in T PROVE i \in T
    <3>1. f[i] = IF i = 1 THEN ss[i] ELSE f[i - 1] \o ss[i]
      <4>1. h[i] = f[i]
        BY DEF h
      <4>2. i # 1 => h[i - 1] = f[i - 1]
        BY i # 1 => i - 1 \in 1..n DEF h
      <4> QED BY <2>1, <4>1, <4>2
    <3>2. i # 1 => flatten[i - 1] = f[i - 1]
      BY <2>7
    <3> QED BY <2>5, <3>1, <3>2
  <2> HIDE DEF T
  <2>8. n \in T
    BY <1>1, <2>6, <2>7, InductionUpTo, n \in 0..n
  <2> QED BY <1>3, <2>4, <2>8 DEF T
<1> QED BY <1>2, <1>3

\* Three sequences are joined the same from either end.
Regroups(a, b, c) == (a \o b) \o c = a \o (b \o c)

LEMMA JoinRegroups ==
  ASSUME NEW S, NEW a \in Seq(S), NEW b \in Seq(S), NEW c \in Seq(S)
  PROVE  Regroups(a, b, c)
BY ConcatAssociative DEF Regroups

\* FlattenSeq and what is added at one of its ends.
LEMMA FlatProps ==
  ASSUME NEW S, NEW ss \in Seq(Seq(S)), NEW s \in Seq(S)
  PROVE  /\ FlattenSeq(ss) \in Seq(S)
         /\ FlattenSeq(Append(ss, s)) = FlattenSeq(ss) \o s
         /\ FlattenSeq(<<s>> \o ss) = s \o FlattenSeq(ss)
<1> DEFINE n == Len(ss)
<1>1. PICK f : Joins(f, S, ss)
  BY JoinsExists
<1>2. /\ n \in Nat /\ f \in [0..n -> Seq(S)] /\ f[0] = <<>>
      /\ \A i \in 1..n : f[i] = f[i - 1] \o ss[i] /\ ss[i] \in Seq(S)
  <2>1. \A i \in 1..n : ss[i] \in Seq(S)
    OBVIOUS
  <2> QED BY <1>1, <2>1 DEF Joins
<1>3. FlattenSeq(ss) = f[n] /\ f[n] \in Seq(S)
  BY <1>1, <1>2, JoinsIsFlat
<1>4. FlattenSeq(Append(ss, s)) = f[n] \o s
  <2> DEFINE tt == Append(ss, s)
             h == [i \in 0..(n + 1) |-> IF i = n + 1 THEN f[n] \o s ELSE f[i]]
  <2>1. /\ tt \in Seq(Seq(S)) /\ Len(tt) = n + 1 /\ tt[n + 1] = s
        /\ \A i \in 1..n : tt[i] = ss[i]
    BY <1>2, AppendProperties
  <2>2. f[n] \o s \in Seq(S)
    BY <1>3
  <2>3. h \in [0..(n + 1) -> Seq(S)] /\ h[0] = <<>>
    BY <1>2, <2>2
  <2>4. ASSUME NEW i \in 1..(n + 1) PROVE h[i] = h[i - 1] \o tt[i]
    <3>1. i - 1 \in 0..n /\ h[i - 1] = f[i - 1]
      BY <1>2
    <3>2. i # n + 1 => i \in 1..n /\ h[i] = f[i]
      BY <1>2
    <3>3. i = n + 1 => i - 1 = n /\ h[i] = f[n] \o s
      BY <1>2
    <3> HIDE DEF h, tt
    <3> QED BY <1>2, <2>1, <3>1, <3>2, <3>3
  <2> HIDE DEF h, tt
  <2>5. Joins(h, S, tt)
    BY <2>1, <2>3, <2>4 DEF Joins
  <2>6. FlattenSeq(tt) = h[n + 1]
    BY <2>1, <2>5, JoinsIsFlat
  <2> QED BY <1>2, <2>6 DEF h, tt
<1>5. FlattenSeq(<<s>> \o ss) = s \o f[n]
  <2> DEFINE tt == <<s>> \o ss
             h == [i \in 0..(n + 1) |-> IF i = 0 THEN <<>> ELSE s \o f[i - 1]]
  <2>1. /\ tt \in Seq(Seq(S)) /\ Len(tt) = n + 1 /\ tt[1] = s
        /\ \A i \in 2..(n + 1) : tt[i] = ss[i - 1]
    <3>1. <<s>> \in Seq(Seq(S)) /\ Len(<<s>>) = 1 /\ <<s>>[1] = s
      OBVIOUS
    <3> QED BY <1>2, <3>1, ConcatProperties
  <2>2. ASSUME NEW i \in 1..(n + 1)
        PROVE  h[i] = s \o f[i - 1] /\ f[i - 1] \in Seq(S)
    <3>1. i \in 0..(n + 1) /\ i # 0 /\ i - 1 \in 0..n
      BY <1>2
    <3> QED BY <1>2, <3>1
  <2>3. h \in [0..(n + 1) -> Seq(S)] /\ h[0] = <<>>
    <3>1. <<>> \in Seq(S)
      OBVIOUS
    <3>2. ASSUME NEW i \in 1..(n + 1) PROVE s \o f[i - 1] \in Seq(S)
      <4>1. f[i - 1] \in Seq(S) /\ s \in Seq(S)
        BY <1>2, <2>2
      <4> QED BY ONLY <4>1, ConcatProperties
    <3> QED BY <1>2, <3>1, <3>2
  <2> HIDE DEF h
  <2>4. ASSUME NEW i \in 1..(n + 1) PROVE h[i] = h[i - 1] \o tt[i]
    <3>1. CASE i = 1
      <4>1. h[1] = s \o <<>> /\ h[0] = <<>> /\ tt[1] = s
        <5>1. h[1] = s \o f[0]
          BY <2>2, <3>1, 1 - 1 = 0
        <5> HIDE DEF tt
        <5> QED BY <1>2, <2>1, <2>3, <5>1
      <4>2. s \o <<>> = s /\ <<>> \o s = s
        OBVIOUS
      <4> QED BY <3>1, <4>1, <4>2
    <3>2. CASE i # 1
      <4> DEFINE a == f[i - 2]
                 b == ss[i - 1]
      <4>1. i - 1 \in 1..n /\ i \in 2..(n + 1) /\ (i - 1) - 1 = i - 2
        BY <1>2, <3>2
      <4>2. a \in Seq(S) /\ b \in Seq(S) /\ f[i - 1] = a \o b
        <5>1. i - 2 \in 0..n
          BY <4>1
        <5> HIDE DEF tt
        <5> QED BY <1>2, <4>1, <5>1
      <4>3. h[i] = s \o (a \o b) /\ h[i - 1] = s \o a /\ tt[i] = b
        <5>1. f[i - 1] = a \o b /\ f[(i - 1) - 1] = a
          BY <4>1, <4>2
        <5>2. h[i] = s \o f[i - 1] /\ h[i - 1] = s \o f[(i - 1) - 1]
          <6>1. i \in 1..(n + 1) /\ i - 1 \in 1..(n + 1)
            BY <1>2, <4>1
          <6> HIDE DEF tt
          <6> QED BY <2>2, <6>1
        <5> HIDE DEF tt
        <5>3. tt[i] = ss[i - 1]
          BY <2>1, <4>1
        <5> QED BY <5>1, <5>2, <5>3
      <4> HIDE DEF a, b, tt
      <4>4. s \o (a \o b) = (s \o a) \o b
        <5>1. s \in Seq(S) /\ a \in Seq(S) /\ b \in Seq(S)
          BY <1>2, <4>2
        <5>2. Regroups(s, a, b)
          BY ONLY <5>1, JoinRegroups
        <5> QED BY ONLY <5>2 DEF Regroups
      <4> QED BY <4>3, <4>4
    <3> QED BY <3>1, <3>2
  <2> HIDE DEF tt
  <2>5. Joins(h, S, tt)
    BY <2>1, <2>3, <2>4 DEF Joins
  <2>6. FlattenSeq(tt) = h[n + 1]
    BY <2>1, <2>5, JoinsIsFlat
  <2>7. (n + 1) - 1 = n /\ n + 1 \in 1..(n + 1)
    BY <1>2
  <2> QED BY <2>2, <2>6, <2>7 DEF tt
<1> QED BY <1>3, <1>4, <1>5

\* Two sequences are the same if their elements are.
LEMMA SameSeq ==
  ASSUME NEW S, NEW a \in Seq(S), NEW b \in Seq(S), Len(a) = Len(b),
         \A i \in 1..Len(a) : a[i] = b[i]
  PROVE  a = b
OBVIOUS

\* A sequence without its last, or its first, element.
LEMMA LastApart ==
  ASSUME NEW B, NEW p \in Seq(B), Len(p) >= 1
  PROVE  \E q \in Seq(B) : /\ p = Append(q, p[Len(p)]) /\ Len(q) = Len(p) - 1
                           /\ \A i \in 1..(Len(p) - 1) : q[i] = p[i]
<1> DEFINE n == Len(p) - 1
           q == SubSeq(p, 1, n)
           a == Append(q, p[Len(p)])
<1>1. n \in Nat /\ Len(p) = n + 1 /\ p[n + 1] \in B
  OBVIOUS
<1>2. q \in Seq(B) /\ Len(q) = n /\ \A i \in 1..n : q[i] = p[i]
  <2>1. n \in (1 - 1)..Len(p) /\ 1 \in 1..(Len(p) + 1)
    OBVIOUS
  <2>2. /\ q \in Seq(B) /\ Len(q) = n - 1 + 1
        /\ \A j \in 1..(n - 1 + 1) : q[j] = p[1 + j - 1]
    <3> HIDE DEF n
    <3> QED BY <2>1, Slice
  <2>3. n - 1 + 1 = n /\ \A j \in 1..n : 1 + j - 1 = j
    BY <1>1
  <2> HIDE DEF q, n
  <2> QED BY <2>2, <2>3
<1> HIDE DEF q
<1>3. /\ a \in Seq(B) /\ Len(a) = n + 1 /\ a[n + 1] = p[n + 1]
      /\ \A i \in 1..n : a[i] = q[i]
  <2> DEFINE e == p[Len(p)]
  <2>1. e \in B /\ e = p[n + 1]
    BY <1>1
  <2> HIDE DEF n, e
  <2>2. /\ Append(q, e) \in Seq(B) /\ Len(Append(q, e)) = n + 1
        /\ Append(q, e)[n + 1] = e
        /\ \A i \in 1..n : Append(q, e)[i] = q[i]
    BY <1>2, <2>1, AppendProperties
  <2> QED BY <2>1, <2>2 DEF e
<1> HIDE DEF a, n
<1>4. \A i \in 1..(n + 1) : a[i] = p[i]
  BY <1>1, <1>2, <1>3, \A i \in 1..(n + 1) : i = n + 1 \/ i \in 1..n
<1>5. a = p
  BY <1>1, <1>3, <1>4, SameSeq
<1> QED BY <1>2, <1>5 DEF a, n

LEMMA FirstApart ==
  ASSUME NEW B, NEW p \in Seq(B), Len(p) >= 1
  PROVE  /\ Tail(p) \in Seq(B) /\ Len(Tail(p)) = Len(p) - 1
         /\ p = <<p[1]>> \o Tail(p) /\ p[1] \in B
         /\ \A i \in 1..(Len(p) - 1) : Tail(p)[i] = p[i + 1]
<1> DEFINE n == Len(p) - 1
           q == Tail(p)
<1>1. /\ n \in Nat /\ Len(p) = n + 1 /\ p[1] \in B
      /\ q \in Seq(B) /\ Len(q) = n /\ \A i \in 1..n : q[i] = p[i + 1]
  OBVIOUS
<1> HIDE DEF q, n
<1> DEFINE a == <<p[1]>> \o q
<1>2. /\ a \in Seq(B) /\ Len(a) = n + 1 /\ a[1] = p[1]
      /\ \A i \in 2..(n + 1) : a[i] = q[i - 1]
  <2>1. <<p[1]>> \in Seq(B) /\ Len(<<p[1]>>) = 1 /\ <<p[1]>>[1] = p[1]
    BY <1>1
  <2> QED BY <1>1, <2>1, ConcatProperties
<1> HIDE DEF a
<1>3. ASSUME NEW i \in 1..(n + 1) PROVE a[i] = p[i]
  <2>1. i = 1 \/ (i \in 2..(n + 1) /\ i - 1 \in 1..n /\ (i - 1) + 1 = i)
    BY <1>1
  <2> QED BY <1>1, <1>2, <2>1
<1>4. a = p
  BY <1>1, <1>2, <1>3, SameSeq
<1> QED BY <1>1, <1>4 DEF a, n, q
===========================================================================
