--------------------------- MODULE TaskBytesProofs ---------------------------
(***************************************************************************)
(* Proofs about TaskBytes.  parse_string reads what get_string writes, of  *)
(* any list, and Decrypt gives what Encrypt was given, of any length: both *)
(* by induction on the loops, which are functions on an initial part of    *)
(* the numbers.  The rest follows the calls: what has been copied is the   *)
(* new list's, and what a death leaves is read as what it is.              *)
(***************************************************************************)
EXTENDS TaskBytes, ListLemmas

\* The strings that are written: a header, or none, and no header after it.
Strings == {s \in Seq(Cell \union {Header}) :
              \A i \in 2..Len(s) : s[i] \in Cell}

LEMMA ConstantFacts ==
  /\ Header \in Nat /\ Header > CellStop /\ Header > BlockSize
  /\ CellStop \in Nat /\ CellStop > 0 /\ NameStop \in Nat
  /\ Cap \in Nat /\ Cap > 0 /\ BlockSize \in Nat /\ BlockSize > 0
  /\ DeathStop \in Nat
  /\ 0 \in Cell /\ 1 \in Cell /\ CellStop \in Cell \ {0}
BY TaskBytesConstants DEF Cell

LEMMA StringProps ==
  ASSUME NEW s \in Strings
  PROVE  /\ s \in Seq(Cell \union {Header}) /\ Len(s) \in Nat
         /\ \A i \in 1..Len(s) : s[i] \in Cell \union {Header}
         /\ \A i \in 1..Len(s) : i > 1 => s[i] \in Cell
<1>1. /\ s \in Seq(Cell \union {Header})
      /\ \A i \in 2..Len(s) : s[i] \in Cell
  BY DEF Strings
<1> QED BY <1>1

(***************************************************************************)
(* Parsing.                                                                *)
(***************************************************************************)
\* A name ends where it begins or later, in the string or after it; only its
\* last cell is zero.
LEMMA NameEnds ==
  ASSUME NEW s \in Strings, NEW i \in 2..(Len(s) + 1)
  PROVE  /\ NameEnd(s, i) \in i..(Len(s) + 1)
         /\ \A j \in i..(NameEnd(s, i) - 1) : s[j] # 0
         /\ NameEnd(s, i) <= Len(s) => s[NameEnd(s, i)] = 0
<1> DEFINE stops == {j \in i..Len(s) : s[j] = 0}
<1>1. Len(s) \in Nat /\ i \in Nat /\ i <= Len(s) + 1
  BY StringProps
<1>2. CASE stops = {}
  <2>1. NameEnd(s, i) = Len(s) + 1
    BY <1>2 DEF NameEnd
  <2> QED BY <1>1, <1>2, <2>1
<1>3. CASE stops # {}
  <2> DEFINE e == CHOOSE j \in stops : \A k \in stops : j <= k
  <2>1. NameEnd(s, i) = e
    BY <1>3 DEF NameEnd
  <2>2. \E j \in stops : \A k \in stops : j <= k
    <3>1. stops \in SUBSET Nat
      BY <1>1
    <3> HIDE DEF stops
    <3> QED BY <1>3, <3>1, Smallest
  <2>3. e \in stops /\ \A k \in stops : e <= k
    <3> HIDE DEF stops
    <3> QED BY <2>2
  <2> HIDE DEF e
  <2> QED BY <1>1, <2>1, <2>3
<1> QED BY <1>2, <1>3

\* A task that is read has the type, whatever the string holds.
LEMMA TaskRead ==
  ASSUME NEW s \in Strings, NEW i \in 2..(Len(s) + 2), Len(s) + 1 - i > Fields
  PROVE  /\ TaskFromStr(s, i) \in TaskType
         /\ NameEnd(s, i + Fields) + 1 \in (i + 3)..(Len(s) + 2)
<1> DEFINE n == Len(s)
           e == NameEnd(s, i + 2)
<1>1. /\ n \in Nat /\ i \in Nat /\ i >= 2 /\ i + 2 <= n /\ Fields = 2
      /\ \A j \in 1..n : j > 1 => s[j] \in Cell
      /\ s \in Seq(Cell \union {Header})
  BY StringProps DEF Fields
<1>2. /\ e \in (i + 2)..(n + 1)
      /\ \A j \in (i + 2)..(e - 1) : s[j] # 0
  BY <1>1, NameEnds
<1> HIDE DEF n, e
<1>3. s[i] \in Cell /\ s[i + 1] \in Cell
  BY <1>1
<1>4. SubSeq(s, i + 2, e - 1) \in Seq(Cell \ {0})
  <2>1. i + 2 \in 1..(n + 1) /\ e - 1 \in ((i + 2) - 1)..n
    BY <1>1, <1>2
  <2>2. /\ SubSeq(s, i + 2, e - 1) \in Seq(Cell \union {Header})
        /\ Len(SubSeq(s, i + 2, e - 1)) = (e - 1) - (i + 2) + 1
        /\ \A j \in 1..((e - 1) - (i + 2) + 1) :
             SubSeq(s, i + 2, e - 1)[j] = s[(i + 2) + j - 1]
    BY <1>1, <2>1, Slice DEF n
  <2> DEFINE q == SubSeq(s, i + 2, e - 1)
  <2> HIDE DEF q
  <2>3. ASSUME NEW j \in 1..Len(q) PROVE q[j] \in Cell \ {0}
    <3>1. /\ (i + 2) + j - 1 \in (i + 2)..(e - 1)
          /\ (i + 2) + j - 1 \in 1..n /\ (i + 2) + j - 1 > 1
      BY <1>1, <1>2, <2>2 DEF q
    <3>2. q[j] = s[(i + 2) + j - 1]
      BY <1>1, <1>2, <2>2 DEF q
    <3> QED BY <1>1, <1>2, <3>1, <3>2
  <2>4. q \in Seq(Cell \union {Header})
    BY <2>2 DEF q
  <2>5. q \in Seq(Cell \ {0})
    BY <2>3, <2>4, SeqDef
  <2> QED BY <2>5 DEF q
<1>5. TaskFromStr(s, i) = [id |-> s[i], time |-> s[i + 1],
                           name |-> SubSeq(s, i + 2, e - 1)]
  BY DEF TaskFromStr, Fields, e
<1>6. TaskFromStr(s, i) \in TaskType
  BY <1>3, <1>4, <1>5 DEF TaskType
<1>7. NameEnd(s, i + Fields) + 1 \in (i + 3)..(n + 2)
  BY <1>1, <1>2 DEF e
<1> QED BY <1>6, <1>7 DEF n

\* The loop over a string, as the function it is: what is read from a place.
ParseLoop(f, s) ==
  /\ f \in [2..(Len(s) + 2) -> Seq(TaskType)]
  /\ \A i \in 2..(Len(s) + 2) :
       f[i] = IF Len(s) + 1 - i <= Fields THEN <<>>
              ELSE <<TaskFromStr(s, i)>> \o f[NameEnd(s, i + Fields) + 1]

LEMMA ParseLoopExists ==
  ASSUME NEW s \in Strings
  PROVE  \E f : /\ ParseLoop(f, s)
                /\ s # <<>> /\ s[1] = Header => ParseString(s) = f[2]
<1> DEFINE n == Len(s)
           NextAt(i) == NameEnd(s, i + Fields) + 1
           E(f) == [i \in 2..(n + 2) |->
                      IF n + 1 - i <= Fields THEN <<>>
                      ELSE <<TaskFromStr(s, i)>> \o f[NameEnd(s, i + Fields) + 1]]
           h == CHOOSE f : f = E(f)
           Is(f, k) == \A i \in k..(n + 2) :
                         f[i] = IF n + 1 - i <= Fields THEN <<>>
                                ELSE <<TaskFromStr(s, i)>> \o f[NextAt(i)]
           S == Seq(TaskType)
           T == {k \in 0..n : \E f \in [(n + 2 - k)..(n + 2) -> S] :
                                Is(f, n + 2 - k)}
<1>1. n \in Nat /\ Fields = 2
  BY StringProps DEF Fields
<1>2. s # <<>> /\ s[1] = Header => ParseString(s) = h[2]
  BY DEF ParseString
<1>3. ASSUME NEW i \in 2..(n + 2), ~(n + 1 - i <= Fields)
      PROVE  NextAt(i) \in (i + 3)..(n + 2) /\ <<TaskFromStr(s, i)>> \in S
  <2>1. n + 1 - i > Fields
    BY <1>1, <1>3
  <2> QED BY <2>1, TaskRead
<1>4. <<>> \in S
  OBVIOUS
<1> HIDE DEF S, n, NextAt
<1>5. 0 \in T
  <2> DEFINE f == [i \in (n + 2 - 0)..(n + 2) |-> <<>>]
  <2>1. f \in [(n + 2 - 0)..(n + 2) -> S]
    BY <1>4
  <2>2. Is(f, n + 2 - 0)
    BY <1>1
  <2> HIDE DEF f, Is
  <2> QED BY <1>1, <2>1, <2>2
<1>6. ASSUME NEW k \in 1..n, k - 1 \in T PROVE k \in T
  <2> DEFINE m == n + 2 - k
  <2>1. PICK f \in [(n + 2 - (k - 1))..(n + 2) -> S] : Is(f, n + 2 - (k - 1))
    BY <1>6
  <2>2. m \in Nat /\ m \in 2..(n + 2) /\ n + 2 - (k - 1) = m + 1
        /\ m <= n + 1
    BY <1>1
  <2> HIDE DEF m
  <2>3. f \in [(m + 1)..(n + 2) -> S] /\ Is(f, m + 1)
    BY <2>1, <2>2
  <2> DEFINE v == IF n + 1 - m <= Fields THEN <<>>
                  ELSE <<TaskFromStr(s, m)>> \o f[NextAt(m)]
             g == [i \in m..(n + 2) |-> IF i = m THEN v ELSE f[i]]
  <2>4. v \in S
    <3>1. CASE n + 1 - m <= Fields
      BY <1>4, <3>1
    <3>2. CASE ~(n + 1 - m <= Fields)
      <4>1. NextAt(m) \in (m + 1)..(n + 2) /\ <<TaskFromStr(s, m)>> \in S
        BY <1>1, <1>3, <2>2, <3>2
      <4>2. f[NextAt(m)] \in S
        BY <2>3, <4>1
      <4>3. \A a, b \in S : a \o b \in S
        BY ConcatProperties DEF S
      <4> QED BY <3>2, <4>1, <4>2, <4>3
    <3> QED BY <3>1, <3>2
  <2>5. /\ g[m] = v /\ \A i \in (m + 1)..(n + 2) : g[i] = f[i]
        /\ g \in [m..(n + 2) -> S]
    <3> HIDE DEF v
    <3>1. \A i \in m..(n + 2) : i # m => i \in (m + 1)..(n + 2)
      BY <1>1, <2>2
    <3>2. \A i \in (m + 1)..(n + 2) : i # m /\ i \in m..(n + 2)
      BY <1>1, <2>2
    <3>3. m \in m..(n + 2)
      BY <1>1, <2>2
    <3> QED BY <2>3, <2>4, <3>1, <3>2, <3>3
  <2> HIDE DEF g
  <2>6. ASSUME NEW i \in m..(n + 2)
        PROVE  g[i] = IF n + 1 - i <= Fields THEN <<>>
                      ELSE <<TaskFromStr(s, i)>> \o g[NextAt(i)]
    <3>1. ~(n + 1 - i <= Fields) => NextAt(i) \in (i + 3)..(n + 2)
      <4>1. i \in 2..(n + 2)
        BY <1>1, <2>2
      <4> QED BY <1>3, <4>1
    <3>2. ~(n + 1 - i <= Fields) => NextAt(i) \in (m + 1)..(n + 2)
      BY <1>1, <2>2, <3>1
    <3>3. ~(n + 1 - i <= Fields) => g[NextAt(i)] = f[NextAt(i)]
      BY <2>5, <3>2
    <3>4. CASE i = m
      BY <2>5, <3>3, <3>4
    <3>5. CASE i # m
      <4>1. i \in (m + 1)..(n + 2)
        BY <1>1, <2>2, <3>5
      <4> QED BY <2>3, <2>5, <3>3, <4>1
    <3> QED BY <3>4, <3>5
  <2>7. Is(g, m)
    BY <2>6
  <2> HIDE DEF Is
  <2> QED BY <1>1, <2>5, <2>7 DEF m
<1>7. n \in T
  <2> HIDE DEF T
  <2>1. \A k \in 0..n : k \in T
    BY <1>1, <1>5, <1>6, InductionUpTo
  <2> QED BY <1>1, <2>1
<1>8. PICK f \in [2..(n + 2) -> S] : Is(f, 2)
  <2>1. n + 2 - n = 2
    BY <1>1
  <2> HIDE DEF Is
  <2> QED BY <1>7, <2>1
<1>9. f = E(f)
  BY <1>8 DEF NextAt
<1>10. h = E(h)
  <2> HIDE DEF E
  <2> QED BY <1>9
<1> HIDE DEF h
<1>11. /\ DOMAIN h = 2..(n + 2) /\ h = [i \in 2..(n + 2) |-> h[i]]
       /\ \A i \in 2..(n + 2) :
            h[i] = IF n + 1 - i <= Fields THEN <<>>
                   ELSE <<TaskFromStr(s, i)>> \o h[NextAt(i)]
  BY <1>10 DEF NextAt
<1> DEFINE U == {k \in 0..n : \A i \in (n + 2 - k)..(n + 2) : h[i] \in S}
<1>12. 0 \in U
  <2>1. \A i \in (n + 2 - 0)..(n + 2) :
          i \in 2..(n + 2) /\ n + 1 - i <= Fields
    BY <1>1
  <2>2. \A i \in (n + 2 - 0)..(n + 2) : h[i] = <<>>
    BY <1>11, <2>1
  <2> QED BY <1>1, <1>4, <2>2
<1>13. ASSUME NEW k \in 1..n, k - 1 \in U PROVE k \in U
  <2> DEFINE m == n + 2 - k
  <2>1. m \in 2..(n + 2) /\ \A i \in (m + 1)..(n + 2) : h[i] \in S
    BY <1>1, <1>13
  <2>2. \A i \in m..(n + 2) : i = m \/ i \in (m + 1)..(n + 2)
    BY <1>1
  <2> HIDE DEF m
  <2>3. h[m] \in S
    <3>1. CASE n + 1 - m <= Fields
      BY <1>4, <1>11, <2>1, <3>1
    <3>2. CASE ~(n + 1 - m <= Fields)
      <4>1. NextAt(m) \in (m + 1)..(n + 2) /\ <<TaskFromStr(s, m)>> \in S
        BY <1>1, <1>3, <2>1, <3>2
      <4>2. h[NextAt(m)] \in S
        BY <2>1, <4>1
      <4>3. \A a, b \in S : a \o b \in S
        BY ConcatProperties DEF S
      <4>4. h[m] = <<TaskFromStr(s, m)>> \o h[NextAt(m)]
        BY <1>11, <2>1, <3>2
      <4> QED BY <4>1, <4>2, <4>3, <4>4
    <3> QED BY <3>1, <3>2
  <2> QED BY <2>1, <2>2, <2>3 DEF m
<1>14. \A i \in 2..(n + 2) : h[i] \in S
  <2> HIDE DEF U
  <2>1. \A k \in 0..n : k \in U
    BY <1>1, <1>12, <1>13, InductionUpTo
  <2>2. n \in U /\ n + 2 - n = 2
    BY <1>1, <2>1
  <2> QED BY <2>2 DEF U
<1>15. h \in [2..(n + 2) -> S]
  BY <1>11, <1>14
<1>16. ParseLoop(h, s)
  BY <1>11, <1>15 DEF ParseLoop, n, S, NextAt
<1> QED BY <1>2, <1>16

\* What is read are tasks, whatever the string.
LEMMA ParseType ==
  ASSUME NEW s \in Strings
  PROVE  ParseString(s) \in Seq(TaskType)
<1>1. CASE s = <<>> \/ s[1] # Header
  <2>1. ParseString(s) = <<>>
    BY <1>1 DEF ParseString
  <2> QED BY <2>1
<1>2. CASE ~(s = <<>> \/ s[1] # Header)
  <2>1. PICK f : ParseLoop(f, s) /\ ParseString(s) = f[2]
    BY <1>2, ParseLoopExists
  <2>2. 2 \in 2..(Len(s) + 2)
    BY StringProps
  <2> QED BY <2>1, <2>2 DEF ParseLoop
<1> QED BY <1>1, <1>2

(***************************************************************************)
(* Making a string.                                                        *)
(***************************************************************************)
LEMMA TaskString ==
  ASSUME NEW t \in TaskType
  PROVE  LET m == Len(t.name) IN
         /\ m \in Nat /\ StrFromTask(t) \in Seq(Cell)
         /\ Len(StrFromTask(t)) = m + 3
         /\ StrFromTask(t)[1] = t.id /\ StrFromTask(t)[2] = t.time
         /\ \A j \in 1..m : /\ StrFromTask(t)[j + 2] = t.name[j]
                            /\ t.name[j] # 0
         /\ StrFromTask(t)[m + 3] = 0
<1> DEFINE m == Len(t.name)
           a == <<t.id, t.time>>
           b == a \o t.name
           q == b \o <<0>>
<1>1. /\ t.id \in Cell /\ t.time \in Cell /\ t.name \in Seq(Cell \ {0})
  BY DEF TaskType
<1>2. /\ t.name \in Seq(Cell) /\ m \in Nat
      /\ \A j \in 1..m : t.name[j] \in Cell \ {0}
  BY <1>1
<1>3. a \in Seq(Cell) /\ Len(a) = 2 /\ a[1] = t.id /\ a[2] = t.time
  BY <1>1
<1>4. <<0>> \in Seq(Cell) /\ Len(<<0>>) = 1 /\ <<0>>[1] = 0
  BY ConstantFacts
<1> HIDE DEF a
<1>5. /\ b \in Seq(Cell) /\ Len(b) = m + 2 /\ b[1] = t.id /\ b[2] = t.time
      /\ \A j \in 1..m : b[j + 2] = t.name[j]
  <2>1. /\ b \in Seq(Cell) /\ Len(b) = Len(a) + Len(t.name)
        /\ \A i \in 1..(Len(a) + Len(t.name)) :
             b[i] = IF i <= Len(a) THEN a[i] ELSE t.name[i - Len(a)]
    <3>1. \A x, y \in Seq(Cell) :
            /\ x \o y \in Seq(Cell) /\ Len(x \o y) = Len(x) + Len(y)
            /\ \A i \in 1..(Len(x) + Len(y)) :
                 (x \o y)[i] = IF i <= Len(x) THEN x[i] ELSE y[i - Len(x)]
      BY ConcatProperties
    <3> QED BY <1>2, <1>3, <3>1
  <2> HIDE DEF b, m
  <2>2. b[1] = t.id /\ b[2] = t.time
    BY <1>2, <1>3, <2>1 DEF m
  <2>3. ASSUME NEW j \in 1..m PROVE b[j + 2] = t.name[j]
    <3>1. /\ j + 2 \in 1..(Len(a) + Len(t.name)) /\ ~(j + 2 <= Len(a))
          /\ (j + 2) - Len(a) = j
      BY <1>2, <1>3 DEF m
    <3> QED BY <2>1, <3>1
  <2> QED BY <1>2, <1>3, <2>1, <2>2, <2>3 DEF m
<1> HIDE DEF b, m
<1>6. /\ q \in Seq(Cell) /\ Len(q) = m + 3
      /\ \A i \in 1..(m + 2) : q[i] = b[i]
      /\ q[m + 3] = 0
  <2>1. /\ q \in Seq(Cell) /\ Len(q) = Len(b) + 1
        /\ \A i \in 1..(Len(b) + 1) :
             q[i] = IF i <= Len(b) THEN b[i] ELSE <<0>>[i - Len(b)]
    BY <1>4, <1>5, ConcatProperties
  <2> HIDE DEF q
  <2>2. (m + 3) - Len(b) = 1 /\ m + 3 \in 1..(Len(b) + 1) /\ ~(m + 3 <= Len(b))
    BY <1>2, <1>5 DEF m
  <2>3. q[m + 3] = <<0>>[(m + 3) - Len(b)]
    BY <2>1, <2>2
  <2>4. q[m + 3] = 0
    BY <1>4, <2>2, <2>3
  <2> QED BY <1>2, <1>5, <2>1, <2>4 DEF m
<1>7. StrFromTask(t) = q
  BY DEF StrFromTask, q, b, a
<1> HIDE DEF q
<1>8. \A j \in 1..m : q[j + 2] = t.name[j] /\ t.name[j] # 0
  BY <1>2, <1>5, <1>6 DEF m
<1>9. q[1] = t.id /\ q[2] = t.time
  BY <1>2, <1>5, <1>6 DEF m
<1> QED BY <1>2, <1>6, <1>7, <1>8, <1>9 DEF m

\* The loop over a list, as the function it is: the string of its first
\* tasks.
GetLoop(g, tasks) ==
  /\ g \in [0..Len(tasks) -> Strings] /\ g[0] = <<Header>>
  /\ \A k \in 1..Len(tasks) : g[k] = g[k - 1] \o StrFromTask(tasks[k])
  /\ \A k \in 0..Len(tasks) : Len(g[k]) > 0 /\ g[k][1] = Header

LEMMA Joined ==
  ASSUME NEW s \in Strings, NEW q \in Seq(Cell)
  PROVE  /\ s \o q \in Strings /\ Len(s \o q) = Len(s) + Len(q)
         /\ \A i \in 1..Len(s) : (s \o q)[i] = s[i]
         /\ \A i \in 1..Len(q) : (s \o q)[Len(s) + i] = q[i]
<1> DEFINE A == Cell \union {Header}
           r == s \o q
<1>1. /\ s \in Seq(A) /\ q \in Seq(A)
      /\ Len(s) \in Nat /\ Len(q) \in Nat
      /\ \A i \in 1..Len(s) : i > 1 => s[i] \in Cell
      /\ \A i \in 1..Len(q) : q[i] \in Cell
  BY StringProps
<1> HIDE DEF A
<1>2. /\ r \in Seq(A) /\ Len(r) = Len(s) + Len(q)
      /\ \A i \in 1..(Len(s) + Len(q)) :
           r[i] = IF i <= Len(s) THEN s[i] ELSE q[i - Len(s)]
  BY <1>1, ConcatProperties
<1> HIDE DEF r
<1>3. \A i \in 1..Len(q) : r[Len(s) + i] = q[i]
  <2> TAKE i \in 1..Len(q)
  <2>1. /\ Len(s) + i \in 1..(Len(s) + Len(q)) /\ ~(Len(s) + i <= Len(s))
        /\ (Len(s) + i) - Len(s) = i
    BY <1>1
  <2> QED BY <1>2, <2>1
<1>4. \A i \in 1..Len(s) : r[i] = s[i]
  BY <1>1, <1>2
<1>5. ASSUME NEW i \in 2..Len(r) PROVE r[i] \in Cell
  <2>1. CASE i <= Len(s)
    BY <1>1, <1>2, <2>1
  <2>2. CASE ~(i <= Len(s))
    <3>1. i - Len(s) \in 1..Len(q) /\ i \in 1..(Len(s) + Len(q))
      BY <1>1, <1>2, <2>2
    <3> QED BY <1>1, <1>2, <2>2, <3>1
  <2> QED BY <2>1, <2>2
<1>6. r \in Strings
  BY <1>2, <1>5 DEF Strings, A
<1> QED BY <1>2, <1>3, <1>4, <1>6 DEF r

LEMMA GetLoopExists ==
  ASSUME NEW tasks \in Seq(TaskType)
  PROVE  \E g : GetLoop(g, tasks) /\ GetString(tasks) = g[Len(tasks)]
<1> DEFINE n == Len(tasks)
           A == {s \in Strings : Len(s) > 0 /\ s[1] = Header}
           E(f) == [i \in 0..n |->
                      IF i = 0 THEN <<Header>>
                      ELSE f[i - 1] \o StrFromTask(tasks[i])]
           h == CHOOSE f : f = E(f)
           g == [x \in (1..n) \X A |-> x[2] \o StrFromTask(tasks[x[1]])]
<1>1. n \in Nat /\ \A i \in 1..n : StrFromTask(tasks[i]) \in Seq(Cell)
  BY TaskString
<1>2. GetString(tasks) = h[n]
  BY DEF GetString
<1>3. <<Header>> \in A
  <2>1. <<Header>> \in Strings
    BY DEF Strings
  <2> QED BY <2>1
<1>4. \A s \in A, q \in Seq(Cell) : s \o q \in A
  <2> TAKE s \in A, q \in Seq(Cell)
  <2>1. /\ s \o q \in Strings /\ Len(s \o q) = Len(s) + Len(q)
        /\ \A i \in 1..Len(s) : (s \o q)[i] = s[i]
    BY Joined
  <2>2. Len(s) \in Nat /\ Len(q) \in Nat /\ Len(s) > 0 /\ s[1] = Header
    BY StringProps
  <2>3. (s \o q)[1] = Header /\ Len(s \o q) > 0
    BY <2>1, <2>2
  <2> QED BY <2>1, <2>3
<1> HIDE DEF n, A
<1>5. g \in [(1..n) \X A -> A]
  BY <1>1, <1>4
<1>6. \A i \in 1..n, s \in A : g[<<i, s>>] = s \o StrFromTask(tasks[i])
  OBVIOUS
<1> HIDE DEF g
<1>7. PICK f \in [0..n -> A] : DefinedFrom(f, n, <<Header>>, g)
  BY <1>1, <1>3, <1>5, Recursion
<1>8. f = E(f)
  <2>1. ASSUME NEW i \in 0..n PROVE f[i] = E(f)[i]
    <3>1. CASE i = 0
      BY <1>7, <3>1 DEF DefinedFrom
    <3>2. CASE i # 0
      <4>1. i \in 1..n /\ i - 1 \in 0..n
        BY <1>1, <3>2
      <4> QED BY <1>6, <1>7, <3>2, <4>1 DEF DefinedFrom
    <3> QED BY <3>1, <3>2
  <2> QED BY <1>7, <2>1
<1>9. h = E(h)
  <2> HIDE DEF E
  <2> QED BY <1>8
<1> HIDE DEF h
<1>10. /\ DOMAIN h = 0..n /\ h = [i \in 0..n |-> h[i]] /\ h[0] = <<Header>>
       /\ \A i \in 1..n : h[i] = h[i - 1] \o StrFromTask(tasks[i])
  <2>1. \A i \in 0..n : h[i] = IF i = 0 THEN <<Header>>
                               ELSE h[i - 1] \o StrFromTask(tasks[i])
    BY <1>9
  <2>2. 0 \in 0..n /\ \A i \in 1..n : i \in 0..n /\ i # 0
    BY <1>1
  <2> QED BY <1>9, <2>1, <2>2
<1> DEFINE T == {i \in 0..n : h[i] \in A}
<1>11. 0 \in T
  BY <1>1, <1>3, <1>10
<1>12. ASSUME NEW i \in 1..n, i - 1 \in T PROVE i \in T
  <2>1. h[i - 1] \in A /\ i \in 0..n
    BY <1>1, <1>12
  <2> QED BY <1>1, <1>4, <1>10, <2>1
<1> HIDE DEF T
<1>13. \A i \in 0..n : i \in T
  BY <1>1, <1>11, <1>12, InductionUpTo
<1>14. \A i \in 0..n : h[i] \in A
  BY <1>13 DEF T
<1>15. h \in [0..n -> Strings]
  BY <1>10, <1>14 DEF A
<1>16. GetLoop(h, tasks)
  BY <1>10, <1>14, <1>15 DEF GetLoop, n, A
<1> QED BY <1>2, <1>16 DEF n

\* One string begins another.
Begins(s, r) == Len(s) <= Len(r) /\ \A i \in 1..Len(s) : r[i] = s[i]

LEMMA BeginsAgain ==
  ASSUME NEW s \in Strings, NEW r \in Strings, NEW q \in Strings,
         Begins(s, r), Begins(r, q)
  PROVE  Begins(s, q)
<1>1. Len(s) \in Nat /\ Len(r) \in Nat /\ Len(q) \in Nat
  BY StringProps
<1> QED BY <1>1 DEF Begins

\* One turn of that loop.
LEMMA GetTurn ==
  ASSUME NEW tasks \in Seq(TaskType), NEW g, GetLoop(g, tasks),
         NEW k \in 1..Len(tasks)
  PROVE  /\ tasks[k] \in TaskType /\ StrFromTask(tasks[k]) \in Seq(Cell)
         /\ Len(StrFromTask(tasks[k])) \in Nat
         /\ g[k - 1] \in Strings /\ g[k] \in Strings
         /\ Len(g[k - 1]) \in Nat /\ Len(g[k - 1]) >= 1
         /\ Len(g[k]) = Len(g[k - 1]) + Len(StrFromTask(tasks[k]))
         /\ Begins(g[k - 1], g[k])
         /\ \A i \in 1..Len(StrFromTask(tasks[k])) :
              g[k][Len(g[k - 1]) + i] = StrFromTask(tasks[k])[i]
<1> DEFINE q == StrFromTask(tasks[k])
           a == g[k - 1]
<1>1. /\ Len(tasks) \in Nat /\ tasks[k] \in TaskType
      /\ k - 1 \in 0..Len(tasks) /\ k \in 0..Len(tasks)
  OBVIOUS
<1>2. q \in Seq(Cell)
  BY <1>1, TaskString
<1>3. a \in Strings /\ Len(a) > 0 /\ g[k] = a \o q /\ g[k] \in Strings
  BY <1>1 DEF GetLoop
<1> HIDE DEF a, q
<1>4. /\ Len(a \o q) = Len(a) + Len(q)
      /\ \A i \in 1..Len(a) : (a \o q)[i] = a[i]
      /\ \A i \in 1..Len(q) : (a \o q)[Len(a) + i] = q[i]
  BY <1>2, <1>3, Joined
<1>5. Len(a) \in Nat /\ Len(q) \in Nat
  BY <1>2, <1>3, StringProps
<1>6. Len(a) >= 1
  BY <1>3, <1>5
<1>7. Begins(a, g[k])
  BY <1>3, <1>4, <1>5 DEF Begins
<1> QED BY <1>1, <1>2, <1>3, <1>4, <1>5, <1>6, <1>7 DEF a, q

\* The cells that a task adds.
LEMMA GetCells ==
  ASSUME NEW tasks \in Seq(TaskType), NEW g, GetLoop(g, tasks),
         NEW k \in 1..Len(tasks)
  PROVE  \A i \in 1..Len(StrFromTask(tasks[k])) :
           g[k][Len(g[k - 1]) + i] = StrFromTask(tasks[k])[i]
<1> SUFFICES ASSUME NEW i \in 1..Len(StrFromTask(tasks[k]))
             PROVE  g[k][Len(g[k - 1]) + i] = StrFromTask(tasks[k])[i]
  OBVIOUS
<1> QED BY GetTurn

\* The strings of the first tasks begin that of more of them.
LEMMA GetPrefix ==
  ASSUME NEW tasks \in Seq(TaskType), NEW g, GetLoop(g, tasks),
         NEW k \in 0..Len(tasks), NEW n \in k..Len(tasks)
  PROVE  Begins(g[k], g[n])
<1> DEFINE N == Len(tasks)
           T == {m \in 0..N : m >= k => Begins(g[k], g[m])}
<1>1. N \in Nat /\ k \in 0..N /\ n \in 0..N /\ k <= n
  OBVIOUS
<1>2. \A m \in 0..N : g[m] \in Strings
  BY DEF GetLoop
<1>3. \A m \in 1..N : Begins(g[m - 1], g[m])
  BY GetTurn
<1> HIDE DEF N
<1>4. Begins(g[k], g[k])
  <2>1. Len(g[k]) \in Nat
    BY <1>1, <1>2, StringProps
  <2> QED BY <2>1 DEF Begins
<1>5. 0 \in T
  BY <1>1, <1>4
<1>6. ASSUME NEW m \in 1..N, m - 1 \in T PROVE m \in T
  <2>1. m - 1 \in 0..N /\ m \in 0..N
    BY <1>1
  <2>2. CASE m - 1 >= k
    <3>1. Begins(g[k], g[m - 1])
      BY <1>6, <2>2
    <3>2. Begins(g[k], g[m])
      BY <1>1, <1>2, <1>3, <2>1, <3>1, BeginsAgain
    <3> QED BY <2>1, <3>2
  <2>3. CASE ~(m - 1 >= k)
    <3>1. m = k \/ ~(m >= k)
      BY <1>1, <2>1, <2>3
    <3> QED BY <1>4, <2>1, <3>1
  <2> QED BY <2>2, <2>3
<1> HIDE DEF T
<1>7. \A m \in 0..N : m \in T
  BY <1>1, <1>5, <1>6, InductionUpTo
<1>8. n \in T
  BY <1>1, <1>7
<1> QED BY <1>1, <1>8 DEF T

\* A task whose string is at a place is read there, and nothing of what
\* follows.
LEMMA TaskReadBack ==
  ASSUME NEW s \in Strings, NEW p \in Nat, p >= 1, NEW t \in TaskType,
         p + Len(StrFromTask(t)) <= Len(s),
         \A j \in 1..Len(StrFromTask(t)) : s[p + j] = StrFromTask(t)[j]
  PROVE  /\ Len(s) + 1 - (p + 1) > Fields
         /\ TaskFromStr(s, p + 1) = t
         /\ NameEnd(s, p + 1 + Fields) + 1 = p + Len(StrFromTask(t)) + 1
<1> DEFINE m == Len(t.name)
           n == Len(s)
           i == p + 3
           q == StrFromTask(t)
<1>1. /\ m \in Nat /\ n \in Nat /\ Len(q) = m + 3
      /\ q[1] = t.id /\ q[2] = t.time
      /\ \A j \in 1..m : q[j + 2] = t.name[j] /\ t.name[j] # 0
      /\ q[m + 3] = 0
      /\ p + m + 3 <= n
      /\ s \in Seq(Cell \union {Header})
  BY TaskString, StringProps
<1>2. \A j \in 1..(m + 3) : s[p + j] = q[j]
  BY <1>1
<1>3. t.name \in Seq(Cell \ {0}) /\ t = [id |-> t.id, time |-> t.time, name |-> t.name]
  BY DEF TaskType
<1> HIDE DEF m, n, q
<1>4. s[p + 1] = t.id /\ s[p + 2] = t.time /\ s[p + m + 3] = 0
  <2>1. 1 \in 1..(m + 3) /\ 2 \in 1..(m + 3) /\ m + 3 \in 1..(m + 3)
        /\ p + (m + 3) = p + m + 3
    BY <1>1
  <2> QED BY <1>1, <1>2, <2>1
<1>5. ASSUME NEW j \in 1..m PROVE s[i + j - 1] = t.name[j] /\ t.name[j] # 0
  <2>1. j + 2 \in 1..(m + 3) /\ p + (j + 2) = i + j - 1
    BY <1>1
  <2> QED BY <1>1, <1>2, <2>1
<1>6. NameEnd(s, i) = i + m
  <2> DEFINE e == NameEnd(s, i)
  <2>1. i \in 2..(n + 1)
    BY <1>1
  <2>2. /\ e \in i..(n + 1) /\ \A j \in i..(e - 1) : s[j] # 0
        /\ e <= n => s[e] = 0
    BY <2>1, NameEnds DEF n
  <2> HIDE DEF e
  <2>3. ~(e > i + m)
    <3>1. SUFFICES ASSUME e > i + m PROVE FALSE
      OBVIOUS
    <3>2. p + m + 3 \in i..(e - 1)
      BY <1>1, <2>2, <3>1
    <3> QED BY <1>4, <2>2, <3>2
  <2>4. ~(e < i + m)
    <3>1. SUFFICES ASSUME e < i + m PROVE FALSE
      OBVIOUS
    <3>2. e - i + 1 \in 1..m /\ i + (e - i + 1) - 1 = e /\ e <= n
      BY <1>1, <2>2, <3>1
    <3>3. s[e] # 0
      BY <1>5, <3>2
    <3> QED BY <2>2, <3>2, <3>3
  <2>5. e \in Nat /\ i + m \in Nat
    BY <1>1, <2>2
  <2>6. e = i + m
    BY ONLY <2>3, <2>4, <2>5
  <2> QED BY <2>6 DEF e
<1>7. SubSeq(s, i, (i + m) - 1) = t.name
  <2>1. i \in 1..(n + 1) /\ (i + m) - 1 \in (i - 1)..n
    BY <1>1
  <2>2. /\ SubSeq(s, i, (i + m) - 1) \in Seq(Cell \union {Header})
        /\ Len(SubSeq(s, i, (i + m) - 1)) = ((i + m) - 1) - i + 1
        /\ \A j \in 1..(((i + m) - 1) - i + 1) :
             SubSeq(s, i, (i + m) - 1)[j] = s[i + j - 1]
    BY <1>1, <2>1, Slice DEF n
  <2>3. ((i + m) - 1) - i + 1 = m
    BY <1>1
  <2> DEFINE r == SubSeq(s, i, (i + m) - 1)
  <2>4. r \in Seq(Cell \union {Header}) /\ Len(r) = m
        /\ \A j \in 1..m : r[j] = t.name[j]
    BY <1>5, <2>2, <2>3
  <2>5. t.name \in Seq(Cell \union {Header})
    BY <1>3
  <2> HIDE DEF r
  <2>6. r = t.name
    BY <2>4, <2>5, SeqEqual DEF m
  <2> QED BY <2>6 DEF r
<1>8. TaskFromStr(s, p + 1) = t
  <2>1. (p + 1) + Fields = i /\ (p + 1) + 1 = p + 2
    BY DEF Fields
  <2> HIDE DEF i
  <2>2. TaskFromStr(s, p + 1) = [id |-> s[p + 1], time |-> s[p + 2],
                                 name |-> SubSeq(s, i, NameEnd(s, i) - 1)]
    BY <2>1 DEF TaskFromStr
  <2> QED BY <1>3, <1>4, <1>6, <1>7, <2>2
<1>9. Len(s) + 1 - (p + 1) > Fields
  BY <1>1 DEF n, Fields
<1>10. NameEnd(s, p + 1 + Fields) + 1 = p + Len(q) + 1
  <2>1. p + 1 + Fields = i
    BY DEF Fields
  <2> QED BY <1>1, <1>6, <2>1
<1> QED BY <1>8, <1>9, <1>10 DEF q

\* A string that begins with that of a list is read as this list and what
\* follows.
LEMMA ReadBack ==
  ASSUME NEW tasks \in Seq(TaskType), NEW g, GetLoop(g, tasks),
         NEW s \in Strings, NEW f, ParseLoop(f, s), NEW n \in 0..Len(tasks),
         Begins(g[n], s)
  PROVE  /\ Len(g[n]) + 1 \in 2..(Len(s) + 2)
         /\ Len(f[2]) = n + Len(f[Len(g[n]) + 1])
         /\ \A j \in 1..n : f[2][j] = tasks[j]
<1> DEFINE N == Len(tasks)
           M == Len(s)
           Pos(k) == Len(g[k]) + 1
           L == Len(f[Pos(n)])
           T == {k \in 0..n : /\ Len(f[Pos(n - k)]) = k + L
                              /\ \A j \in 1..k : f[Pos(n - k)][j] = tasks[(n - k) + j]}
<1>1. /\ N \in Nat /\ M \in Nat /\ n \in Nat /\ n <= N
      /\ \A k \in 1..N : tasks[k] \in TaskType
  BY StringProps
<1>2. /\ g \in [0..N -> Strings]
      /\ g[0] = <<Header>>
      /\ \A k \in 1..N : g[k] = g[k - 1] \o StrFromTask(tasks[k])
      /\ \A k \in 0..N : Len(g[k]) > 0
  BY DEF GetLoop
<1>3. /\ f \in [2..(M + 2) -> Seq(TaskType)]
      /\ \A i \in 2..(M + 2) :
           f[i] = IF M + 1 - i <= Fields THEN <<>>
                  ELSE <<TaskFromStr(s, i)>> \o f[NameEnd(s, i + Fields) + 1]
  BY DEF ParseLoop
<1>4. ASSUME NEW k \in 0..n
      PROVE  /\ Len(g[k]) \in Nat /\ Len(g[k]) > 0 /\ Len(g[k]) <= M
             /\ Pos(k) \in 2..(M + 2)
             /\ \A i \in 1..Len(g[k]) : s[i] = g[k][i]
  <2>1. k \in 0..N /\ n \in k..N
    BY <1>1
  <2>2. Len(g[k]) \in Nat /\ Len(g[n]) \in Nat /\ Len(g[k]) > 0
    BY <1>1, <1>2, <2>1, StringProps
  <2>3. g[k] \in Strings /\ g[n] \in Strings
    BY <1>1, <1>2, <2>1
  <2>4. Begins(g[k], g[n])
    BY <2>1, GetPrefix
  <2>5. Begins(g[k], s)
    BY <2>3, <2>4, BeginsAgain
  <2> QED BY <1>1, <2>2, <2>5 DEF Begins
<1>5. ASSUME NEW k \in 1..n
      PROVE  f[Pos(k - 1)] = <<tasks[k]>> \o f[Pos(k)]
  <2> DEFINE p == Len(g[k - 1])
             q == StrFromTask(tasks[k])
  <2>1. k - 1 \in 0..n /\ k \in 0..n /\ k \in 1..N /\ k - 1 \in 0..N
    BY <1>1
  <2>t. tasks \in Seq(TaskType) /\ GetLoop(g, tasks) /\ k \in 1..Len(tasks)
    BY <1>1, <2>1
  <2>2. q \in Seq(Cell) /\ Len(q) \in Nat
    BY ONLY <2>t, GetTurn
  <2>3. /\ Len(g[k]) = p + Len(q) /\ p \in Nat /\ p >= 1
        /\ \A i \in 1..Len(q) : g[k][p + i] = q[i]
    <3>1. Len(g[k]) = p + Len(q)
      BY ONLY <2>t, GetTurn
    <3>2. p \in Nat /\ p >= 1
      BY ONLY <2>t, GetTurn
    <3>3. \A i \in 1..Len(q) : g[k][p + i] = q[i]
      BY <2>t, GetCells
    <3> QED BY <3>1, <3>2, <3>3
  <2>4. p \in Nat /\ p >= 1 /\ p + Len(q) <= M
    <3>1. Len(g[k]) <= M
      BY <1>4, <2>1
    <3> QED BY <2>3, <3>1
  <2> HIDE DEF p, q, M
  <2>5. \A j \in 1..Len(q) : s[p + j] = q[j]
    <3> TAKE j \in 1..Len(q)
    <3>1. p + j \in 1..Len(g[k])
      BY <2>2, <2>3, <2>4
    <3> QED BY <1>4, <2>1, <2>3, <3>1
  <2>6. /\ M + 1 - (p + 1) > Fields
        /\ TaskFromStr(s, p + 1) = tasks[k]
        /\ NameEnd(s, p + 1 + Fields) + 1 = p + Len(q) + 1
    BY <1>1, <2>1, <2>4, <2>5, TaskReadBack DEF M, q
  <2>7. p + 1 \in 2..(M + 2) /\ ~(M + 1 - (p + 1) <= Fields)
    BY <1>1, <2>2, <2>4, <2>6 DEF Fields
  <2>8. f[p + 1] = <<tasks[k]>> \o f[p + Len(q) + 1]
    BY <1>3, <2>6, <2>7
  <2> QED BY <2>3, <2>8 DEF p
<1>6. \A k \in 0..n : f[Pos(k)] \in Seq(TaskType)
  BY <1>3, <1>4
<1> HIDE DEF N, M, Pos
<1>7. L \in Nat
  <2>1. n \in 0..n
    BY <1>1
  <2> QED BY <1>6, <2>1
<1> HIDE DEF L
<1>8. 0 \in T
  <2>1. n - 0 = n
    BY <1>1
  <2> QED BY <1>1, <1>7, <2>1 DEF L
<1>9. ASSUME NEW k \in 1..n, k - 1 \in T PROVE k \in T
  <2> DEFINE m == n - k
             r == f[Pos(m + 1)]
  <2>1. /\ m \in 0..n /\ m + 1 \in 1..n /\ m + 1 \in 0..n /\ n - (k - 1) = m + 1
        /\ (m + 1) - 1 = m /\ k \in 0..n /\ k \in Nat
    BY <1>1
  <2> HIDE DEF m
  <2>2. /\ Len(r) = (k - 1) + L
        /\ \A j \in 1..(k - 1) : r[j] = tasks[(m + 1) + j]
    BY <1>9, <2>1
  <2>3. f[Pos(m)] = <<tasks[m + 1]>> \o r /\ r \in Seq(TaskType)
        /\ tasks[m + 1] \in TaskType
    <3>1. m + 1 \in 1..N
      BY <1>1, <2>1
    <3> QED BY <1>1, <1>5, <1>6, <2>1, <3>1
  <2> HIDE DEF r
  <2>4. /\ Len(f[Pos(m)]) = 1 + Len(r)
        /\ f[Pos(m)][1] = tasks[m + 1]
        /\ \A j \in 1..Len(r) : f[Pos(m)][j + 1] = r[j]
    <3> DEFINE a == <<tasks[m + 1]>>
    <3>1. a \in Seq(TaskType) /\ Len(a) = 1 /\ a[1] = tasks[m + 1]
      BY <2>3
    <3>2. f[Pos(m)] = a \o r
      BY <2>3
    <3> HIDE DEF a
    <3>3. /\ Len(a \o r) = Len(a) + Len(r)
          /\ \A j \in 1..(Len(a) + Len(r)) :
               (a \o r)[j] = IF j <= Len(a) THEN a[j] ELSE r[j - Len(a)]
      <4>1. r \in Seq(TaskType) /\ a \in Seq(TaskType)
        BY <2>3, <3>1
      <4> QED BY ONLY <4>1, ConcatProperties
    <3>4. Len(r) \in Nat
      BY <2>3
    <3>5. (a \o r)[1] = a[1]
      BY <3>1, <3>3, <3>4
    <3>6. ASSUME NEW j \in 1..Len(r) PROVE (a \o r)[j + 1] = r[j]
      <4>1. j + 1 \in 1..(Len(a) + Len(r)) /\ ~(j + 1 <= Len(a))
            /\ (j + 1) - Len(a) = j
        BY <3>1, <3>4
      <4> QED BY <3>3, <4>1
    <3> QED BY <3>1, <3>2, <3>3, <3>5, <3>6
  <2>5. Len(f[Pos(m)]) = k + L
    BY <1>7, <2>1, <2>2, <2>4
  <2>6. ASSUME NEW j \in 1..k PROVE f[Pos(m)][j] = tasks[m + j]
    <3>1. CASE j = 1
      BY <2>4, <3>1
    <3>2. CASE j # 1
      <4>1. j \in Nat /\ j >= 2 /\ j <= k /\ m \in Nat
        BY <2>1, <3>2
      <4>2. /\ j - 1 \in 1..(k - 1) /\ j - 1 \in 1..Len(r)
            /\ (j - 1) + 1 = j /\ (m + 1) + (j - 1) = m + j
        <5>1. Len(r) \in Nat /\ Len(r) >= k - 1
          BY <1>7, <2>1, <2>2
        <5> QED BY <2>1, <4>1, <5>1
      <4>3. f[Pos(m)][(j - 1) + 1] = r[j - 1]
        BY <2>4, <4>2
      <4>4. r[j - 1] = tasks[(m + 1) + (j - 1)]
        BY <2>2, <4>2
      <4> QED BY <4>2, <4>3, <4>4
    <3> QED BY <3>1, <3>2
  <2> QED BY <2>1, <2>5, <2>6 DEF m
<1> HIDE DEF T
<1>10. \A k \in 0..n : k \in T
  BY <1>1, <1>8, <1>9, InductionUpTo
<1>11. n \in T /\ n - n = 0 /\ \A j \in 1..n : 0 + j = j
  BY <1>1, <1>10
<1>12. Pos(0) = 2
  BY <1>2 DEF Pos
<1>13. /\ Len(f[Pos(0)]) = n + L
       /\ \A j \in 1..n : f[Pos(0)][j] = tasks[0 + j]
  BY <1>11 DEF T
<1>14. Pos(n) \in 2..(M + 2)
  BY <1>1, <1>4 DEF Pos
<1> QED BY <1>11, <1>12, <1>13, <1>14 DEF Pos, L, M

\* What is read is what was written.
LEMMA ParseGet ==
  ASSUME NEW tasks \in Seq(TaskType)
  PROVE  /\ GetString(tasks) \in Strings /\ Len(GetString(tasks)) > 0
         /\ ParseString(GetString(tasks)) = tasks
<1> DEFINE n == Len(tasks)
           s == GetString(tasks)
<1>1. PICK g : GetLoop(g, tasks) /\ s = g[n]
  BY GetLoopExists
<1>2. n \in Nat /\ n \in 0..n
  OBVIOUS
<1>3. s \in Strings /\ Len(s) > 0 /\ s[1] = Header
  BY <1>1, <1>2 DEF GetLoop
<1> HIDE DEF s
<1>4. s # <<>> /\ Len(s) \in Nat
  BY <1>3, StringProps
<1>5. PICK f : ParseLoop(f, s) /\ ParseString(s) = f[2]
  BY <1>3, <1>4, ParseLoopExists
<1>6. Len(s) + 1 \in 2..(Len(s) + 2) /\ 2 \in 2..(Len(s) + 2)
      /\ Len(s) + 1 - (Len(s) + 1) <= Fields
  BY <1>3, <1>4 DEF Fields
<1>7. f[Len(s) + 1] = <<>> /\ f[2] \in Seq(TaskType)
  BY <1>5, <1>6 DEF ParseLoop
<1>8. /\ Len(f[2]) = n + Len(f[Len(s) + 1])
      /\ \A j \in 1..n : f[2][j] = tasks[j]
  <2>1. Begins(g[n], s)
    BY <1>1, <1>4 DEF Begins
  <2> QED BY <1>1, <1>2, <1>3, <1>5, <2>1, ReadBack
<1>9. Len(f[2]) = n
  BY <1>2, <1>7, <1>8
<1>10. f[2] = tasks
  BY <1>7, <1>8, <1>9, SeqEqual
<1> QED BY <1>3, <1>5, <1>10 DEF s

(***************************************************************************)
(* The cipher.                                                             *)
(***************************************************************************)
LEMMA FillProps ==
  ASSUME NEW n \in Nat, NEW v \in Cell
  PROVE  /\ Fill(n, v) \in Seq(Cell) /\ Len(Fill(n, v)) = n
         /\ \A i \in 1..n : Fill(n, v)[i] = v
BY DEF Fill

\* The first cells of a string.
LEMMA HeadOf ==
  ASSUME NEW s \in Strings, NEW m \in 0..Len(s)
  PROVE  /\ SubSeq(s, 1, m) \in Strings /\ Len(SubSeq(s, 1, m)) = m
         /\ \A i \in 1..m : SubSeq(s, 1, m)[i] = s[i]
<1>1. /\ s \in Seq(Cell \union {Header}) /\ Len(s) \in Nat
      /\ \A i \in 1..Len(s) : i > 1 => s[i] \in Cell
  BY StringProps
<1>2. 1 \in 1..(Len(s) + 1) /\ m \in (1 - 1)..Len(s) /\ m \in Nat
  BY <1>1
<1> DEFINE r == SubSeq(s, 1, m)
<1>3. /\ r \in Seq(Cell \union {Header}) /\ Len(r) = m - 1 + 1
      /\ \A j \in 1..(m - 1 + 1) : r[j] = s[1 + j - 1]
  BY <1>1, <1>2, Slice
<1> HIDE DEF r
<1>4. Len(r) = m /\ \A j \in 1..m : r[j] = s[j]
  BY <1>2, <1>3
<1>5. \A j \in 2..m : r[j] \in Cell
  BY <1>1, <1>2, <1>4
<1>6. r \in Strings
  BY <1>3, <1>4, <1>5 DEF Strings
<1> QED BY <1>4, <1>6 DEF r

\* Padding fills the last block, and no other block ends in it.
LEMMA PaddingProps ==
  ASSUME NEW n \in Nat
  PROVE  /\ Padding(n) \in 1..BlockSize /\ Padding(n) \in Cell
         /\ (n + Padding(n)) % BlockSize = 0
         /\ \A m \in Nat : n < m /\ m < n + Padding(n) => m % BlockSize # 0
<1> DEFINE B == BlockSize
<1>1. B \in Nat \ {0} /\ B < Header /\ Header \in Nat
  BY ConstantFacts
<1>2. PICK d \in Int : \E u \in 0..(B - 1) : n % B = u /\ n = d * B + u
  <2>1. n \in Int
    OBVIOUS
  <2> HIDE DEF B
  <2>2. \E d \in Int : \E u \in 0..(B - 1) :
          n \div B = d /\ n % B = u /\ n = d * B + u
    BY <1>1, <2>1, Division
  <2> QED BY <2>2
<1>3. PICK u \in 0..(B - 1) : n % B = u /\ n = d * B + u
  BY <1>2
<1>4. Padding(n) = B - u
  BY <1>3 DEF Padding
<1>5. Padding(n) \in 1..B /\ Padding(n) \in Cell
  BY <1>1, <1>4 DEF Cell
<1>6. (n + Padding(n)) % B = 0
  <2>1. (d + 1) * B = d * B + B
    BY <1>1
  <2>2. ((d + 1) * B + 0) % B = 0
    <3>1. d + 1 \in Int /\ 0 \in 0..(B - 1)
      BY <1>1
    <3> QED BY <1>1, <3>1, Remainder
  <2>3. n + Padding(n) = (d + 1) * B + 0
    <3> DEFINE c == d * B
               e == (d + 1) * B
    <3>1. c \in Int /\ e = c + B /\ n = c + u
      BY <1>1, <1>3, <2>1
    <3> HIDE DEF c, e
    <3>2. n + Padding(n) = e + 0
      BY <1>1, <1>4, <3>1
    <3> QED BY <3>2 DEF e
  <2> QED BY <2>2, <2>3
<1>7. ASSUME NEW m \in Nat, n < m, m < n + Padding(n) PROVE m % B # 0
  <2> DEFINE c == d * B
             v == m - c
  <2>1. c \in Int /\ n = c + u
    BY <1>1, <1>3
  <2> HIDE DEF c
  <2>2. v \in 0..(B - 1) /\ v # 0 /\ m = c + v
    BY <1>1, <1>4, <1>7, <2>1
  <2> HIDE DEF v
  <2>3. (d * B + v) % B = v
    BY <1>1, <2>2, Remainder
  <2> QED BY <2>2, <2>3 DEF c
<1> QED BY <1>5, <1>6, <1>7

LEMMA EncryptProps ==
  ASSUME NEW s \in Strings
  PROVE  LET p == Padding(Len(s)) IN
         /\ Encrypt(s) \in Strings /\ Len(s) \in Nat /\ p \in 1..BlockSize
         /\ Len(Encrypt(s)) = Len(s) + p
         /\ Begins(s, Encrypt(s))
         /\ \A i \in 1..p : Encrypt(s)[Len(s) + i] = p
<1> DEFINE n == Len(s)
           p == Padding(n)
           q == Fill(p, p)
<1>1. n \in Nat
  BY StringProps
<1>2. p \in 1..BlockSize /\ p \in Cell /\ p \in Nat /\ BlockSize \in Nat
  BY <1>1, PaddingProps, ConstantFacts
<1> HIDE DEF p
<1>3. q \in Seq(Cell) /\ Len(q) = p /\ \A i \in 1..p : q[i] = p
  BY <1>2, FillProps
<1>4. Encrypt(s) = s \o q
  BY DEF Encrypt, p
<1> HIDE DEF q
<1>5. /\ s \o q \in Strings /\ Len(s \o q) = Len(s) + Len(q)
      /\ \A i \in 1..Len(s) : (s \o q)[i] = s[i]
      /\ \A i \in 1..Len(q) : (s \o q)[Len(s) + i] = q[i]
  BY <1>3, Joined
<1>6. Begins(s, s \o q)
  BY <1>1, <1>2, <1>3, <1>5 DEF Begins
<1> QED BY <1>1, <1>2, <1>3, <1>4, <1>5, <1>6 DEF p

\* What was encrypted comes back.
LEMMA DecryptEncrypt ==
  ASSUME NEW s \in Strings
  PROVE  Decrypt(Encrypt(s)) = s
<1> DEFINE n == Len(s)
           p == Padding(n)
           enc == Encrypt(s)
<1>1. /\ enc \in Strings /\ n \in Nat /\ p \in 1..BlockSize
      /\ Len(enc) = n + p
      /\ Begins(s, enc)
      /\ \A i \in 1..p : enc[n + i] = p
  BY EncryptProps
<1>2. (n + p) % BlockSize = 0 /\ BlockSize \in Nat
  BY <1>1, PaddingProps, ConstantFacts
<1> HIDE DEF n, p, enc
<1>3. enc[n + p] = p
  BY <1>1, <1>2
<1>4. ASSUME NEW i \in 1..(n + p), i > (n + p) - p PROVE enc[i] = p
  <2>1. i - n \in 1..p /\ n + (i - n) = i
    BY <1>1, <1>2, <1>4
  <2> QED BY <1>1, <2>1
<1>5. Decrypt(enc) = SubSeq(enc, 1, (n + p) - p)
  <2>1. ~(n + p = 0 \/ (n + p) % BlockSize # 0)
    BY <1>1, <1>2
  <2>2. p <= BlockSize
    BY <1>1, <1>2
  <2> QED BY <1>1, <1>3, <1>4, <2>1, <2>2 DEF Decrypt
<1>6. (n + p) - p = n
  BY <1>1, <1>2
<1>7. n \in 0..Len(enc)
  BY <1>1, <1>2
<1> DEFINE r == SubSeq(enc, 1, n)
<1>8. r \in Strings /\ Len(r) = n /\ \A i \in 1..n : r[i] = enc[i]
  BY <1>1, <1>7, HeadOf
<1> HIDE DEF r
<1>9. \A i \in 1..n : r[i] = s[i]
  BY <1>1, <1>8 DEF Begins, n
<1>10. r = s
  <2>1. r \in Seq(Cell \union {Header}) /\ s \in Seq(Cell \union {Header})
    BY <1>8, StringProps
  <2> QED BY <1>8, <1>9, <2>1, SeqEqual DEF n
<1> QED BY <1>5, <1>6, <1>10 DEF r, enc

\* What a file gives: a string of at most so many cells, which begins with a
\* header or else is not read.
LEMMA DecryptCut ==
  ASSUME NEW str \in Strings, Len(str) <= Cap, NEW m \in 1..Len(Encrypt(str))
  PROVE  LET raw == Decrypt(SubSeq(Encrypt(str), 1, m)) IN
         /\ raw \in Strings
         /\ Len(raw) <= Cap \/ (Len(raw) > 0 /\ raw[1] # Header)
<1> DEFINE n == Len(str)
           p == Padding(n)
           enc == Encrypt(str)
           cut == SubSeq(enc, 1, m)
           B == BlockSize
           raw == Decrypt(cut)
<1> SUFFICES /\ raw \in Strings
             /\ Len(raw) <= Cap \/ (Len(raw) > 0 /\ raw[1] # Header)
  OBVIOUS
<1>1. /\ enc \in Strings /\ n \in Nat /\ p \in 1..B
      /\ Len(enc) = n + p /\ n <= Cap
  BY EncryptProps
<1>2. /\ (n + p) % B = 0 /\ B \in Nat /\ B > 0 /\ B < Header /\ Header \in Nat
      /\ \A k \in Nat : n < k /\ k < n + p => k % B # 0
      /\ 0 \in Cell /\ Cap \in Nat
  BY <1>1, PaddingProps, ConstantFacts
<1>3. m \in 1..(n + p) /\ m \in Nat
  BY <1>1, <1>2
<1>4. cut \in Strings /\ Len(cut) = m
  <2>1. m \in 0..Len(enc)
    BY <1>1, <1>3
  <2> HIDE DEF enc
  <2> QED BY <1>1, <2>1, HeadOf
<1>5. CASE m = n + p
  <2>1. cut = enc
    <3>1. \A i \in 1..m : cut[i] = enc[i]
      <4>1. m \in 0..Len(enc)
        BY <1>1, <1>3
      <4> HIDE DEF enc
      <4> QED BY <1>1, <4>1, HeadOf
    <3> HIDE DEF cut, enc, n, p
    <3>2. cut \in Seq(Cell \union {Header}) /\ enc \in Seq(Cell \union {Header})
      BY <1>1, <1>4, StringProps
    <3> QED BY <1>1, <1>4, <1>5, <3>1, <3>2, SeqEqual
  <2>2. raw = str
    BY <2>1, DecryptEncrypt
  <2> HIDE DEF raw
  <2> QED BY <1>1, <2>2 DEF n
<1> HIDE DEF cut, enc, n, p, B
<1>6. CASE m # n + p /\ m % B # 0
  <2>1. raw = Fill(m, 0)
    BY <1>4, <1>6 DEF Decrypt, B
  <2>2. raw \in Seq(Cell) /\ Len(raw) = m /\ raw[1] = 0
    <3>1. /\ Fill(m, 0) \in Seq(Cell) /\ Len(Fill(m, 0)) = m
          /\ \A i \in 1..m : Fill(m, 0)[i] = 0
      BY <1>2, <1>3, FillProps
    <3> QED BY <1>3, <2>1, <3>1
  <2> HIDE DEF raw
  <2>3. raw \in Strings
    BY <2>2 DEF Strings
  <2> QED BY <1>2, <1>3, <2>2, <2>3
<1>7. CASE m # n + p /\ m % B = 0
  <2> DEFINE pad == cut[m]
             z == Fill(B, 0)
  <2>1. m <= n
    BY <1>1, <1>2, <1>3, <1>7
  <2>2. m >= B
    <3>1. m \in 0..(B - 1) => m % B = m
      <4>1. m \in 0..(B - 1) => (0 * B + m) % B = m
        <5>1. B \in Nat \ {0} /\ 0 \in Int
          BY <1>2
        <5> QED BY <5>1, Remainder
      <4>2. 0 * B + m = m
        BY <1>2, <1>3
      <4> QED BY <4>1, <4>2
    <3> QED BY <1>2, <1>3, <1>7, <3>1
  <2>3. pad \in Nat
    <3>1. pad \in Cell \union {Header}
      BY <1>3, <1>4, StringProps
    <3> QED BY <1>2, <3>1 DEF Cell
  <2>4. PICK r \in Strings : Len(r) = m /\ raw = SubSeq(r, 1, m - pad)
    <3> DEFINE good == pad <= B /\ \A i \in 1..m : i > m - pad => cut[i] = pad
               head == SubSeq(cut, 1, m - B)
    <3>1. raw = SubSeq(IF good THEN cut ELSE head \o z, 1, m - pad)
      <4> DEFINE D(k) == IF k = 0 \/ k % B # 0 THEN Fill(k, 0)
                         ELSE SubSeq(
                                IF /\ cut[k] <= B
                                   /\ \A i \in 1..k : i > k - cut[k] => cut[i] = cut[k]
                                THEN cut ELSE SubSeq(cut, 1, k - B) \o Fill(B, 0),
                                1, k - cut[k])
      <4>1. raw = D(Len(cut))
        BY DEF Decrypt, B, raw
      <4>2. raw = D(m)
        <5> HIDE DEF D, raw
        <5> QED BY <1>4, <4>1
      <4>3. ~(m = 0 \/ m % B # 0)
        BY <1>3, <1>7
      <4> HIDE DEF raw
      <4> QED BY <4>2, <4>3
    <3>2. head \o z \in Strings /\ Len(head \o z) = m
      <4>1. m - B \in 0..Len(cut)
        BY <1>2, <1>3, <1>4, <2>2
      <4>2. head \in Strings /\ Len(head) = m - B
        BY <1>4, <4>1, HeadOf
      <4>3. z \in Seq(Cell) /\ Len(z) = B
        BY <1>2, FillProps
      <4> HIDE DEF head, z
      <4>4. head \o z \in Strings /\ Len(head \o z) = Len(head) + Len(z)
        BY <4>2, <4>3, Joined
      <4> QED BY <1>2, <1>3, <4>2, <4>3, <4>4
    <3> HIDE DEF good, head, z, raw, pad
    <3>3. CASE good
      BY <1>4, <3>1, <3>3
    <3>4. CASE ~good
      BY <3>1, <3>2, <3>4
    <3> QED BY <3>3, <3>4
  <2>5. raw \in Strings /\ Len(raw) <= m
    <3> HIDE DEF raw, pad
    <3>1. CASE pad <= m
      <4>1. m - pad \in 0..Len(r) /\ m - pad <= m
        BY <1>3, <2>3, <2>4, <3>1
      <4> QED BY <2>4, <4>1, HeadOf
    <3>2. CASE pad > m
      <4>1. m - pad < 1 /\ m - pad \in Int
        BY <1>3, <2>3, <3>2
      <4>2. SubSeq(r, 1, m - pad) = <<>>
        <5>1. r \in Seq(Cell \union {Header})
          BY StringProps
        <5> QED BY <4>1, <5>1
      <4>3. <<>> \in Strings
        BY DEF Strings
      <4>4. raw = <<>>
        BY <2>4, <4>2
      <4> QED BY <1>3, <4>3, <4>4
    <3> QED BY <1>3, <2>3, <3>1, <3>2
  <2> HIDE DEF raw
  <2>6. Len(raw) \in Nat
    BY <2>5, StringProps
  <2> QED BY <1>1, <1>2, <1>3, <2>1, <2>5, <2>6
<1> QED BY <1>5, <1>6, <1>7

(***************************************************************************)
(* The segment and the file.                                               *)
(***************************************************************************)
\* The file is the beginning of what was made of a string that fits.
FileFrom ==
  \/ file = <<>>
  \/ \E str \in Strings :
       /\ Len(str) <= Cap
       /\ \E m \in 1..Len(Encrypt(str)) : file = SubSeq(Encrypt(str), 1, m)

\* While cells are copied, the size is theirs and those before are the new
\* list's; a file that is written is not whole.
CallInv ==
  /\ phase = "copy" =>
       /\ size = Len(GetString(new)) /\ at <= size
       /\ \A i \in 1..at : data[i] = GetString(new)[i]
  /\ phase \in {"open", "write"} => Len(GetString(new)) <= Cap
  /\ phase = "write" => ~whole

BytesIInv ==
  TypeOK /\ data \in Strings /\ FileFrom /\ CallInv /\ SegmentHoldsList
         /\ FileHoldsSaved

LEMMA Segment ==
  ASSUME NEW d \in Strings, NEW A, d \in [1..Cap -> A]
  PROVE  Len(d) = Cap
<1>1. Cap \in Nat /\ Len(d) \in Nat /\ d \in Seq(Cell \union {Header})
  BY ConstantFacts, StringProps
<1> QED BY <1>1

\* What a call makes of a list is a list.
LEMMA ChangesType ==
  ASSUME NEW tasks \in Seq(TaskType)
  PROVE  Changes(tasks) \subseteq Seq(TaskType)
<1> DEFINE n == Len(tasks)
<1>1. n \in Nat /\ \A i \in 1..n : tasks[i] \in TaskType
  OBVIOUS
<1>2. ASSUME NEW name \in Name PROVE name \in Seq(Cell \ {0})
  <2>1. PICK k \in 0..NameStop : name \in [1..k -> {CellStop}]
    BY <1>2 DEF Name
  <2>2. k \in Nat /\ CellStop \in Cell \ {0}
    BY ConstantFacts
  <2>3. name \in [1..k -> Cell \ {0}]
    BY <2>1, <2>2
  <2> QED BY <2>2, <2>3, SeqDef
<1>3. ASSUME NEW i \in 1..(n + 1), NEW id \in 1..CellStop, NEW name \in Name
      PROVE  InsertAt(tasks, i, [id |-> id, time |-> 1, name |-> name])
               \in Seq(TaskType)
  <2>1. id \in Cell /\ 1 \in Cell
    BY ConstantFacts DEF Cell
  <2>2. [id |-> id, time |-> 1, name |-> name] \in TaskType
    BY <1>2, <2>1 DEF TaskType
  <2> QED BY <2>2, InsertAtProps
<1>4. ASSUME NEW i \in 1..n PROVE RemoveAt(tasks, i) \in Seq(TaskType)
  BY RemoveAtProps
<1>5. ASSUME NEW i \in 1..n, NEW name \in Name
      PROVE  [tasks EXCEPT ![i].name = name] \in Seq(TaskType)
  <2>1. [tasks[i] EXCEPT !.name = name] \in TaskType
    BY <1>1, <1>2 DEF TaskType
  <2>2. [tasks EXCEPT ![i].name = name] =
          [tasks EXCEPT ![i] = [tasks[i] EXCEPT !.name = name]]
    OBVIOUS
  <2>3. ASSUME NEW r \in TaskType PROVE [tasks EXCEPT ![i] = r] \in Seq(TaskType)
    OBVIOUS
  <2> QED BY <2>1, <2>2, <2>3
<1> SUFFICES ASSUME NEW new1 \in Changes(tasks) PROVE new1 \in Seq(TaskType)
  OBVIOUS
<1>6. CASE \E i \in 1..(n + 1), id \in 1..CellStop, name \in Name :
             new1 = InsertAt(tasks, i, [id |-> id, time |-> 1, name |-> name])
  BY <1>3, <1>6
<1>7. CASE \E i \in 1..n : new1 = RemoveAt(tasks, i)
  BY <1>4, <1>7
<1>8. CASE \E i \in 1..n, name \in Name : new1 = [tasks EXCEPT ![i].name = name]
  BY <1>5, <1>8
<1> HIDE DEF Name
<1>9. \/ \E i \in 1..(n + 1), id \in 1..CellStop, name \in Name :
            new1 = InsertAt(tasks, i, [id |-> id, time |-> 1, name |-> name])
      \/ \E i \in 1..n : new1 = RemoveAt(tasks, i)
      \/ \E i \in 1..n, name \in Name : new1 = [tasks EXCEPT ![i].name = name]
  <2> DEFINE ids == {j \in 1..CellStop : \A m \in 1..Len(tasks) : tasks[m].id < j}
             A == {InsertAt(tasks, i, [id |-> id, time |-> 1, name |-> name]) :
                     i \in 1..(Len(tasks) + 1), id \in ids, name \in Name}
             B == {RemoveAt(tasks, i) : i \in 1..Len(tasks)}
             changed(i, name) == [tasks EXCEPT ![i].name = name]
             D == {changed(i, name) : i \in 1..Len(tasks), name \in Name}
  <2>1. Changes(tasks) = A \union B \union D
    BY DEF Changes
  <2>2. ids \subseteq 1..CellStop
    OBVIOUS
  <2>3. ASSUME new1 \in A
        PROVE  \E i \in 1..(n + 1), id \in 1..CellStop, name \in Name :
                 new1 = InsertAt(tasks, i, [id |-> id, time |-> 1, name |-> name])
    <3> HIDE DEF ids
    <3> QED BY <2>2, <2>3
  <2>4. ASSUME new1 \in B PROVE \E i \in 1..n : new1 = RemoveAt(tasks, i)
    BY <2>4
  <2>5. ASSUME new1 \in D
        PROVE  \E i \in 1..n, name \in Name : new1 = changed(i, name)
    <3> HIDE DEF changed
    <3> QED BY <2>5
  <2> HIDE DEF A, B, D
  <2> QED BY <2>1, <2>3, <2>4, <2>5
<1> QED BY <1>6, <1>7, <1>8, <1>9

LEMMA BytesInit == Init => BytesIInv
<1> SUFFICES ASSUME Init PROVE BytesIInv
  OBVIOUS
<1>1. /\ size = 0 /\ data = Fill(Cap, 0) /\ file = <<>> /\ phase = "idle"
      /\ new = <<>> /\ at = 0 /\ list = <<>> /\ saved = <<>>
      /\ torn = FALSE /\ whole = TRUE /\ deaths = 0
  BY DEF Init
<1>2. Cap \in Nat /\ DeathStop \in Nat /\ 0 \in Cell
  BY ConstantFacts
<1>3. /\ data \in Seq(Cell) /\ Len(data) = Cap
  BY <1>1, <1>2, FillProps
<1>4. data \in Strings
  BY <1>3 DEF Strings
<1>5. data \in [1..Cap -> Cell \union {Header}]
  BY <1>1, <1>2 DEF Fill
<1>6. SubSeq(data, 1, 0) = <<>> /\ ParseString(<<>>) = <<>>
  BY <1>3 DEF ParseString
<1>7. TypeOK
  <2>1. /\ <<>> \in Seq(TaskType) /\ <<>> \in Seq(Cell \union {Header})
    OBVIOUS
  <2>2. {torn, whole} \subseteq BOOLEAN
    BY <1>1
  <2> QED BY <1>1, <1>2, <1>5, <2>1, <2>2 DEF TypeOK
<1>8. SegmentHoldsList
  BY <1>1, <1>6 DEF SegmentHoldsList, Loaded
<1>9. FileHoldsSaved
  BY <1>1, <1>6 DEF FileHoldsSaved
<1> QED BY <1>1, <1>4, <1>7, <1>8, <1>9 DEF BytesIInv, FileFrom, CallInv

\* What is in the segment.
LEMMA LoadedProps ==
  ASSUME BytesIInv
  PROVE  /\ SubSeq(data, 1, size) \in Strings /\ Len(SubSeq(data, 1, size)) = size
         /\ \A i \in 1..size : SubSeq(data, 1, size)[i] = data[i]
         /\ Loaded \in Seq(TaskType)
<1>1. data \in Strings /\ size \in 0..Cap /\ data \in [1..Cap -> Cell \union {Header}]
  BY DEF BytesIInv, TypeOK
<1>2. size \in 0..Len(data)
  BY <1>1, Segment
<1>3. /\ SubSeq(data, 1, size) \in Strings /\ Len(SubSeq(data, 1, size)) = size
      /\ \A i \in 1..size : SubSeq(data, 1, size)[i] = data[i]
  BY <1>1, <1>2, HeadOf
<1> QED BY <1>3, ParseType DEF Loaded

LEMMA CallKeeps == BytesIInv /\ Call => BytesIInv'
<1> SUFFICES ASSUME BytesIInv, Call PROVE BytesIInv'
  OBVIOUS
<1>1. PICK tasks \in Changes(Loaded) :
        /\ Len(GetString(tasks)) <= Cap
        /\ new' = tasks /\ size' = Len(GetString(tasks))
  BY DEF Call
<1>2. tasks \in Seq(TaskType)
  BY <1>1, LoadedProps, ChangesType
<1>3. GetString(tasks) \in Strings /\ Len(GetString(tasks)) \in Nat
  BY <1>2, ParseGet, StringProps
<1>4. /\ phase' = "copy" /\ at' = 0 /\ phase = "idle"
      /\ UNCHANGED <<data, file, list, saved, torn, whole, deaths>>
  BY DEF Call
<1>5. TypeOK'
  BY <1>1, <1>2, <1>3, <1>4, ConstantFacts DEF BytesIInv, TypeOK
<1>6. CallInv'
  BY <1>1, <1>3, <1>4 DEF CallInv
<1>7. data' \in Strings /\ FileFrom' /\ SegmentHoldsList' /\ FileHoldsSaved'
  BY <1>4 DEF BytesIInv, FileFrom, SegmentHoldsList, FileHoldsSaved
<1> QED BY <1>5, <1>6, <1>7 DEF BytesIInv

LEMMA CopyKeeps == BytesIInv /\ Copy => BytesIInv'
<1> SUFFICES ASSUME BytesIInv, Copy PROVE BytesIInv'
  OBVIOUS
<1> DEFINE s == GetString(new)
<1>1. /\ phase = "copy" /\ at < Len(s) /\ at' = at + 1
      /\ data' = [data EXCEPT ![at + 1] = s[at + 1]]
      /\ UNCHANGED <<size, file, phase, new, list, saved, torn, whole, deaths>>
  BY DEF Copy
<1>2. /\ TypeOK /\ data \in Strings /\ size = Len(s) /\ at <= size
      /\ \A i \in 1..at : data[i] = s[i]
  BY <1>1 DEF BytesIInv, CallInv
<1>3. /\ s \in Strings /\ Len(s) \in Nat
      /\ \A i \in 1..Len(s) : s[i] \in Cell \union {Header}
      /\ \A i \in 1..Len(s) : i > 1 => s[i] \in Cell
  BY <1>2, ParseGet, StringProps DEF TypeOK
<1>4. /\ size \in 0..Cap /\ at \in 0..Cap /\ Cap \in Nat
      /\ data \in [1..Cap -> Cell \union {Header}]
  BY <1>2, ConstantFacts DEF TypeOK
<1> HIDE DEF s
<1>5. at + 1 \in 1..Cap /\ at + 1 \in 1..Len(s) /\ at' \in 0..Cap /\ at' <= size
  BY <1>1, <1>2, <1>3, <1>4
<1>6. /\ data' \in [1..Cap -> Cell \union {Header}]
      /\ \A i \in 1..Cap : data'[i] = IF i = at + 1 THEN s[at + 1] ELSE data[i]
  BY <1>1, <1>3, <1>4, <1>5
<1>7. data' \in Strings
  <2>1. Len(data) = Cap /\ \A i \in 2..Cap : data[i] \in Cell
    BY <1>2, <1>4, Segment DEF Strings
  <2>2. data' \in Seq(Cell \union {Header}) /\ Len(data') = Cap
    BY <1>4, <1>6, SeqDef
  <2>3. \A i \in 2..Cap : data'[i] \in Cell
    BY <1>3, <1>4, <1>5, <1>6, <2>1
  <2> QED BY <2>2, <2>3 DEF Strings
<1>8. \A i \in 1..at' : data'[i] = s[i]
  <2> TAKE i \in 1..at'
  <2>1. i \in 1..Cap /\ (i = at + 1 \/ (i # at + 1 /\ i \in 1..at))
    BY <1>1, <1>4, <1>5
  <2> QED BY <1>2, <1>6, <2>1
<1>9. TypeOK'
  BY <1>1, <1>2, <1>5, <1>6 DEF TypeOK
<1>10. CallInv'
  BY <1>1, <1>2, <1>5, <1>8 DEF CallInv, s
<1>11. FileFrom' /\ SegmentHoldsList' /\ FileHoldsSaved'
  BY <1>1 DEF BytesIInv, FileFrom, SegmentHoldsList, FileHoldsSaved
<1> QED BY <1>7, <1>9, <1>10, <1>11 DEF BytesIInv

LEMMA CopiedKeeps == BytesIInv /\ Copied => BytesIInv'
<1> SUFFICES ASSUME BytesIInv, Copied PROVE BytesIInv'
  OBVIOUS
<1> DEFINE s == GetString(new)
           r == SubSeq(data, 1, size)
<1>1. /\ phase = "copy" /\ at = Len(s) /\ phase' = "open"
      /\ list' = new /\ torn' = FALSE
      /\ UNCHANGED <<size, data, file, new, at, saved, whole, deaths>>
  BY DEF Copied
<1>2. /\ TypeOK /\ data \in Strings /\ size = Len(s)
      /\ \A i \in 1..at : data[i] = s[i]
  BY <1>1 DEF BytesIInv, CallInv
<1>3. s \in Strings /\ ParseString(s) = new /\ size \in 0..Cap
  BY <1>2, ParseGet DEF TypeOK
<1>4. r \in Strings /\ Len(r) = size /\ \A i \in 1..size : r[i] = data[i]
  BY LoadedProps
<1> HIDE DEF s, r
<1>5. r = s
  <2>1. r \in Seq(Cell \union {Header}) /\ s \in Seq(Cell \union {Header})
    BY <1>3, <1>4, StringProps
  <2> QED BY <1>1, <1>2, <1>4, <2>1, SeqEqual
<1>6. Loaded' = new
  BY <1>1, <1>3, <1>5 DEF Loaded, r
<1>7. SegmentHoldsList'
  BY <1>1, <1>6 DEF SegmentHoldsList
<1>8. TypeOK'
  BY <1>1, <1>2 DEF TypeOK
<1>9. CallInv'
  BY <1>1, <1>2, <1>3, ConstantFacts DEF CallInv, s
<1>10. FileFrom' /\ FileHoldsSaved' /\ data' \in Strings
  BY <1>1, <1>2 DEF BytesIInv, FileFrom, FileHoldsSaved
<1> QED BY <1>7, <1>8, <1>9, <1>10 DEF BytesIInv

LEMMA OpenKeeps == BytesIInv /\ Open => BytesIInv'
<1> SUFFICES ASSUME BytesIInv, Open PROVE BytesIInv'
  OBVIOUS
<1>1. /\ phase = "open" /\ UNCHANGED <<size, data, saved, torn, list, deaths>>
      /\ \/ /\ phase' = "write" /\ file' = <<>> /\ whole' = FALSE
            /\ UNCHANGED <<new, at>>
         \/ /\ phase' = "idle" /\ new' = <<>> /\ at' = 0
            /\ UNCHANGED <<file, whole>>
  BY DEF Open, Return
<1>2. TypeOK'
  <2>1. /\ <<>> \in Seq(TaskType) /\ <<>> \in Seq(Cell \union {Header})
        /\ 0 \in 0..Cap /\ FALSE \in BOOLEAN
    BY ConstantFacts
  <2> QED BY <1>1, <2>1 DEF BytesIInv, TypeOK
<1>3. data' \in Strings /\ FileFrom'
  BY <1>1 DEF BytesIInv, FileFrom
<1>4. CallInv'
  BY <1>1 DEF BytesIInv, CallInv
<1>5. SegmentHoldsList'
  BY <1>1 DEF BytesIInv, SegmentHoldsList, Loaded
<1>6. FileHoldsSaved'
  BY <1>1 DEF BytesIInv, FileHoldsSaved
<1> QED BY <1>2, <1>3, <1>4, <1>5, <1>6 DEF BytesIInv

LEMMA WriteKeeps == BytesIInv /\ Write => BytesIInv'
<1> SUFFICES ASSUME BytesIInv, Write PROVE BytesIInv'
  OBVIOUS
<1> DEFINE s == GetString(new)
           enc == Encrypt(s)
<1>1. /\ phase = "write" /\ phase' = "idle" /\ new' = <<>> /\ at' = 0
      /\ file' = enc /\ saved' = new /\ whole' = TRUE
      /\ UNCHANGED <<size, data, list, torn, deaths>>
  BY DEF Write, Return
<1>2. s \in Strings /\ Len(s) > 0 /\ Len(s) <= Cap /\ ParseString(s) = new
  BY <1>1, ParseGet DEF BytesIInv, CallInv, TypeOK
<1>3. enc \in Strings /\ Len(enc) \in Nat /\ Len(enc) > 0
  <2>1. /\ enc \in Strings /\ Len(s) \in Nat
        /\ Padding(Len(s)) \in 1..BlockSize /\ Len(enc) = Len(s) + Padding(Len(s))
    BY <1>2, EncryptProps
  <2> QED BY <1>2, <2>1, ConstantFacts
<1>4. Decrypt(enc) = s
  BY <1>2, DecryptEncrypt
<1> HIDE DEF s, enc
<1>5. enc = SubSeq(enc, 1, Len(enc)) /\ enc # <<>>
  BY <1>3, StringProps
<1>6. FileFrom'
  <2>1. Len(enc) \in 1..Len(enc)
    BY <1>3
  <2> QED BY <1>1, <1>2, <1>5, <2>1 DEF FileFrom, enc
<1>7. FileHoldsSaved'
  BY <1>1, <1>2, <1>4, <1>5 DEF FileHoldsSaved
<1>8. TypeOK'
  <2>1. file' \in Seq(Cell \union {Header})
    BY <1>1, <1>3, StringProps
  <2> QED BY <1>1, <2>1, ConstantFacts DEF BytesIInv, TypeOK
<1>9. CallInv'
  BY <1>1 DEF CallInv
<1>10. SegmentHoldsList' /\ data' \in Strings
  BY <1>1 DEF BytesIInv, SegmentHoldsList, Loaded
<1> QED BY <1>6, <1>7, <1>8, <1>9, <1>10 DEF BytesIInv

LEMMA DieKeeps == BytesIInv /\ Die => BytesIInv'
<1> SUFFICES ASSUME BytesIInv, Die PROVE BytesIInv'
  OBVIOUS
<1> DEFINE s == GetString(new)
<1>1. /\ phase # "idle" /\ phase' = "idle" /\ new' = <<>> /\ at' = 0
      /\ deaths < DeathStop /\ deaths' = deaths + 1
      /\ list' = IF phase = "copy" THEN Loaded ELSE list
      /\ torn' = (torn \/ phase = "copy")
      /\ \/ UNCHANGED file
         \/ phase = "write" /\ \E m \in 1..Len(Encrypt(s)) :
                                  file' = SubSeq(Encrypt(s), 1, m)
      /\ UNCHANGED <<size, data, saved, whole>>
  BY DEF Die, Return
<1>2. TypeOK /\ data \in Strings /\ FileFrom
  BY DEF BytesIInv
<1>3. Loaded' = list'
  <2>1. Loaded' = Loaded
    BY <1>1 DEF Loaded
  <2> QED BY <1>1, <2>1 DEF BytesIInv, SegmentHoldsList
<1>4. SegmentHoldsList' /\ data' \in Strings /\ CallInv'
  BY <1>1, <1>2, <1>3 DEF SegmentHoldsList, CallInv
<1>5. CASE file' = file
  <2>1. FileFrom'
    BY <1>2, <1>5 DEF FileFrom
  <2>2. FileHoldsSaved'
    BY <1>1, <1>5 DEF BytesIInv, FileHoldsSaved, CallInv
  <2>3. TypeOK'
    BY <1>1, <1>2, <1>5, LoadedProps, ConstantFacts DEF TypeOK
  <2> QED BY <1>4, <2>1, <2>2, <2>3 DEF BytesIInv
<1>6. CASE phase = "write" /\ \E m \in 1..Len(Encrypt(s)) :
                                file' = SubSeq(Encrypt(s), 1, m)
  <2>1. s \in Strings /\ Len(s) <= Cap /\ ~whole
    BY <1>6, <1>2, ParseGet DEF BytesIInv, CallInv, TypeOK
  <2>2. Encrypt(s) \in Strings /\ Len(Encrypt(s)) \in Nat
    BY <2>1, EncryptProps, StringProps
  <2> HIDE DEF s
  <2>3. PICK m \in 1..Len(Encrypt(s)) : file' = SubSeq(Encrypt(s), 1, m)
    BY <1>6
  <2>4. file' \in Seq(Cell \union {Header})
    <3>1. m \in 0..Len(Encrypt(s))
      BY <2>2
    <3>2. SubSeq(Encrypt(s), 1, m) \in Strings
      BY <2>2, <3>1, HeadOf
    <3> QED BY <2>3, <3>2, StringProps
  <2>5. FileFrom'
    BY <2>1, <2>3 DEF FileFrom
  <2>6. FileHoldsSaved'
    BY <1>1, <2>1 DEF FileHoldsSaved
  <2>7. TypeOK'
    BY <1>1, <1>2, <2>4, LoadedProps, ConstantFacts DEF TypeOK
  <2> QED BY <1>4, <2>5, <2>6, <2>7 DEF BytesIInv
<1> QED BY <1>1, <1>5, <1>6

\* What is read of the file.
RawOfFile == IF file = <<>> THEN <<>> ELSE Decrypt(file)

LEMMA RawProps ==
  ASSUME FileFrom
  PROVE  /\ RawOfFile \in Strings
         /\ \/ Len(RawOfFile) <= Cap
            \/ Len(RawOfFile) > 0 /\ RawOfFile[1] # Header
<1>1. CASE file = <<>>
  <2>1. RawOfFile = <<>>
    BY <1>1 DEF RawOfFile
  <2>2. <<>> \in Strings /\ Len(<<>>) <= Cap
    BY ConstantFacts DEF Strings
  <2> QED BY <2>1, <2>2
<1>2. CASE file # <<>>
  <2>1. PICK str \in Strings :
          /\ Len(str) <= Cap
          /\ \E m \in 1..Len(Encrypt(str)) : file = SubSeq(Encrypt(str), 1, m)
    BY <1>2 DEF FileFrom
  <2>2. PICK m \in 1..Len(Encrypt(str)) : file = SubSeq(Encrypt(str), 1, m)
    BY <2>1
  <2>3. RawOfFile = Decrypt(SubSeq(Encrypt(str), 1, m))
    BY <1>2, <2>2 DEF RawOfFile
  <2> QED BY <2>1, <2>3, DecryptCut
<1> QED BY <1>1, <1>2

\* A segment that is made of a string holds its list.
LEMMA Filled ==
  ASSUME NEW s \in Strings, NEW n \in 0..Len(s), n <= Cap
  PROVE  LET d == SubSeq(s, 1, n) \o Fill(Cap - n, 0) IN
         /\ d \in Strings /\ d \in [1..Cap -> Cell \union {Header}]
         /\ SubSeq(d, 1, n) = SubSeq(s, 1, n)
<1> DEFINE h == SubSeq(s, 1, n)
           z == Fill(Cap - n, 0)
           d == h \o z
<1> SUFFICES /\ d \in Strings /\ d \in [1..Cap -> Cell \union {Header}]
             /\ SubSeq(d, 1, n) = h
  OBVIOUS
<1>1. n \in Nat /\ Cap \in Nat /\ Cap - n \in Nat /\ 0 \in Cell
  BY ConstantFacts, StringProps
<1>2. h \in Strings /\ Len(h) = n
  BY HeadOf
<1>3. z \in Seq(Cell) /\ Len(z) = Cap - n
  BY <1>1, FillProps
<1> HIDE DEF h, z
<1>4. /\ d \in Strings /\ Len(d) = Len(h) + Len(z)
      /\ \A i \in 1..Len(h) : d[i] = h[i]
  BY <1>2, <1>3, Joined
<1> HIDE DEF d
<1>5. Len(d) = Cap /\ n \in 0..Len(d)
  BY <1>1, <1>2, <1>3, <1>4
<1>6. d \in [1..Cap -> Cell \union {Header}]
  BY <1>4, <1>5, StringProps
<1>7. /\ SubSeq(d, 1, n) \in Strings /\ Len(SubSeq(d, 1, n)) = n
      /\ \A i \in 1..n : SubSeq(d, 1, n)[i] = d[i]
  BY <1>4, <1>5, HeadOf
<1>8. SubSeq(d, 1, n) = h
  <2>1. /\ SubSeq(d, 1, n) \in Seq(Cell \union {Header})
        /\ h \in Seq(Cell \union {Header})
    BY <1>2, <1>7, StringProps
  <2>2. \A i \in 1..n : SubSeq(d, 1, n)[i] = h[i]
    BY <1>2, <1>4, <1>7
  <2> QED BY <1>2, <1>7, <2>1, <2>2, SeqEqual
<1> QED BY <1>4, <1>6, <1>8

\* What Restart does.
LEMMA RestartDoes ==
  ASSUME BytesIInv, Restart
  PROVE  \E n \in 0..Len(RawOfFile) :
           /\ n = IF Len(RawOfFile) > Cap THEN Cap ELSE Len(RawOfFile)
           /\ n <= Cap
           /\ phase = "idle" /\ size' = n
           /\ data' = SubSeq(RawOfFile, 1, n) \o Fill(Cap - n, 0)
           /\ list' = ParseString(SubSeq(RawOfFile, 1, n))
           /\ saved' = list' /\ whole' = TRUE
           /\ torn' = (n # Len(GetString(list')))
           /\ UNCHANGED <<file, phase, new, at, deaths>>
           /\ data' \in Strings /\ data' \in [1..Cap -> Cell \union {Header}]
           /\ Loaded' = list' /\ list' \in Seq(TaskType)
<1> DEFINE raw == RawOfFile
           n == IF Len(raw) > Cap THEN Cap ELSE Len(raw)
<1>1. /\ phase = "idle" /\ size' = n
      /\ data' = SubSeq(raw, 1, n) \o Fill(Cap - n, 0)
      /\ list' = ParseString(SubSeq(raw, 1, n))
      /\ saved' = list' /\ whole' = TRUE
      /\ torn' = (size' # Len(GetString(list')))
      /\ UNCHANGED <<file, phase, new, at, deaths>>
  BY DEF Restart, RawOfFile
<1>2. raw \in Strings
  BY RawProps DEF BytesIInv
<1> HIDE DEF raw
<1>3. n \in 0..Len(raw) /\ n <= Cap
  BY <1>2, StringProps, ConstantFacts
<1>4. n = IF Len(raw) > Cap THEN Cap ELSE Len(raw)
  OBVIOUS
<1> HIDE DEF n
<1>5. /\ data' \in Strings /\ data' \in [1..Cap -> Cell \union {Header}]
      /\ SubSeq(data', 1, n) = SubSeq(raw, 1, n)
  BY <1>1, <1>2, <1>3, Filled
<1>6. Loaded' = list'
  BY <1>1, <1>5 DEF Loaded
<1>7. list' \in Seq(TaskType)
  BY <1>1, <1>2, <1>3, HeadOf, ParseType
<1> QED BY <1>1, <1>3, <1>4, <1>5, <1>6, <1>7 DEF raw

LEMMA RestartKeeps == BytesIInv /\ Restart => BytesIInv'
<1> SUFFICES ASSUME BytesIInv, Restart PROVE BytesIInv'
  OBVIOUS
<1> DEFINE raw == RawOfFile
<1>1. PICK n \in 0..Len(raw) :
        /\ n = IF Len(raw) > Cap THEN Cap ELSE Len(raw)
        /\ n <= Cap
        /\ phase = "idle" /\ size' = n
        /\ list' = ParseString(SubSeq(raw, 1, n))
        /\ saved' = list' /\ whole' = TRUE
        /\ torn' = (n # Len(GetString(list')))
        /\ UNCHANGED <<file, phase, new, at, deaths>>
        /\ data' \in Strings /\ data' \in [1..Cap -> Cell \union {Header}]
        /\ Loaded' = list' /\ list' \in Seq(TaskType)
  BY RestartDoes
<1>2. /\ raw \in Strings
      /\ Len(raw) <= Cap \/ (Len(raw) > 0 /\ raw[1] # Header)
  BY RawProps DEF BytesIInv
<1>3. Len(raw) \in Nat /\ n \in 0..Cap /\ Cap \in Nat /\ Cap > 0
  BY <1>1, <1>2, StringProps, ConstantFacts
<1> HIDE DEF raw
<1>4. ParseString(raw) = list'
  <2>1. CASE Len(raw) <= Cap
    <3>1. n = Len(raw)
      BY <1>1, <1>3, <2>1
    <3>2. SubSeq(raw, 1, n) = raw
      BY <1>2, <3>1, StringProps
    <3> QED BY <1>1, <3>2
  <2>2. CASE Len(raw) > Cap
    <3>1. n = Cap /\ raw[1] # Header /\ n > 0
      BY <1>1, <1>2, <1>3, <2>2
    <3>2. SubSeq(raw, 1, n)[1] = raw[1]
      BY <1>2, <1>3, <3>1, HeadOf
    <3> QED BY <1>1, <3>1, <3>2 DEF ParseString
  <2> QED BY <1>3, <2>1, <2>2
<1>5. FileHoldsSaved'
  <2>1. RawOfFile' = raw
    BY <1>1 DEF RawOfFile, raw
  <2>2. ParseString(RawOfFile') = saved'
    BY <1>1, <1>4, <2>1
  <2> QED BY <2>2 DEF FileHoldsSaved, RawOfFile
<1>6. TypeOK'
  <2>1. torn' \in BOOLEAN /\ whole' \in BOOLEAN
    BY <1>1
  <2> QED BY <1>1, <1>3, <2>1 DEF BytesIInv, TypeOK
<1>7. FileFrom' /\ SegmentHoldsList' /\ CallInv'
  BY <1>1 DEF BytesIInv, FileFrom, SegmentHoldsList, CallInv
<1> QED BY <1>1, <1>5, <1>6, <1>7 DEF BytesIInv

LEMMA BytesStep == BytesIInv /\ [Next]_vars => BytesIInv'
<1> SUFFICES ASSUME BytesIInv, [Next]_vars PROVE BytesIInv'
  OBVIOUS
<1>1. CASE UNCHANGED vars
  BY <1>1 DEF vars, BytesIInv, TypeOK, FileFrom, CallInv, SegmentHoldsList,
              Loaded, FileHoldsSaved
<1>2. CASE Call
  BY <1>2, CallKeeps
<1>3. CASE Copy
  BY <1>3, CopyKeeps
<1>4. CASE Copied
  BY <1>4, CopiedKeeps
<1>5. CASE Open
  BY <1>5, OpenKeeps
<1>6. CASE Write
  BY <1>6, WriteKeeps
<1>7. CASE Die
  BY <1>7, DieKeeps
<1>8. CASE Restart
  BY <1>8, RestartKeeps
<1> QED BY <1>1, <1>2, <1>3, <1>4, <1>5, <1>6, <1>7, <1>8 DEF Next

LEMMA BytesAlways == Spec => []BytesIInv
<1> QED BY BytesInit, BytesStep, PTL DEF Spec

\* The string in the segment is at every moment that of the list that the
\* calls have made: what Schedule::parse_string reads is what get_string
\* wrote, whatever was in the segment before, a list that a death has torn,
\* or one of a file that was cut short.
THEOREM ReadsWhatWasStored == Spec => []BytesInv
<1>1. BytesIInv => BytesInv
  BY DEF BytesIInv, BytesInv
<1> QED BY <1>1, BytesAlways, PTL

\* A file that was written to its end gives the list that was saved:
\* Encryption's padding is taken off again whatever the length.
THEOREM FileGivesWhatWasSaved == Spec => []FileHoldsSaved
<1>1. BytesIInv => FileHoldsSaved
  BY DEF BytesIInv
<1> QED BY <1>1, BytesAlways, PTL

(***************************************************************************)
(* A list that is torn.                                                    *)
(***************************************************************************)
LEMMA ConsProps ==
  ASSUME NEW S, NEW t \in S, NEW r \in Seq(S)
  PROVE  LET c == <<t>> \o r IN
         /\ c \in Seq(S) /\ Len(c) = 1 + Len(r) /\ Len(r) \in Nat
         /\ c[1] = t /\ \A j \in 1..Len(r) : c[j + 1] = r[j]
<1> DEFINE a == <<t>>
           c == a \o r
<1>1. a \in Seq(S) /\ Len(a) = 1 /\ a[1] = t /\ Len(r) \in Nat
  OBVIOUS
<1> HIDE DEF a
<1>2. /\ c \in Seq(S) /\ Len(c) = Len(a) + Len(r)
      /\ \A j \in 1..(Len(a) + Len(r)) : c[j] = IF j <= Len(a) THEN a[j] ELSE r[j - Len(a)]
  BY <1>1, ConcatProperties
<1> HIDE DEF c
<1>3. c[1] = t
  BY <1>1, <1>2
<1>4. ASSUME NEW j \in 1..Len(r) PROVE c[j + 1] = r[j]
  <2>1. j + 1 \in 1..(Len(a) + Len(r)) /\ ~(j + 1 <= Len(a)) /\ (j + 1) - Len(a) = j
    BY <1>1
  <2> QED BY <1>2, <2>1
<1> QED BY <1>1, <1>2, <1>3, <1>4 DEF a, c

\* The string of the first tasks is the loop's value there.
LEMMA PrefixString ==
  ASSUME NEW tasks \in Seq(TaskType), NEW g, GetLoop(g, tasks),
         NEW n \in 0..Len(tasks)
  PROVE  /\ SubSeq(tasks, 1, n) \in Seq(TaskType) /\ Len(SubSeq(tasks, 1, n)) = n
         /\ \A j \in 1..n : SubSeq(tasks, 1, n)[j] = tasks[j]
         /\ GetString(SubSeq(tasks, 1, n)) = g[n]
<1> DEFINE N == Len(tasks)
           u == SubSeq(tasks, 1, n)
<1>1. N \in Nat /\ n \in Nat /\ n <= N /\ 1 \in 1..(N + 1) /\ n \in (1 - 1)..N
  OBVIOUS
<1>2. u \in Seq(TaskType) /\ Len(u) = n /\ \A j \in 1..n : u[j] = tasks[j]
  <2>1. /\ u \in Seq(TaskType) /\ Len(u) = n - 1 + 1
        /\ \A j \in 1..(n - 1 + 1) : u[j] = tasks[1 + j - 1]
    BY <1>1, Slice
  <2> HIDE DEF u
  <2> QED BY <1>1, <2>1
<1> HIDE DEF u
<1>3. PICK h : GetLoop(h, u) /\ GetString(u) = h[Len(u)]
  BY <1>2, GetLoopExists
<1> DEFINE T == {k \in 0..n : h[k] = g[k]}
<1>4. 0 \in T
  <2>1. h[0] = <<Header>>
    BY <1>3 DEF GetLoop
  <2>2. g[0] = <<Header>>
    BY DEF GetLoop
  <2> QED BY <1>1, <2>1, <2>2
<1>5. ASSUME NEW k \in 1..n, k - 1 \in T PROVE k \in T
  <2>1. k \in 1..N /\ k \in 1..Len(u) /\ k \in 0..n
    BY <1>1, <1>2
  <2>2. g[k] = g[k - 1] \o StrFromTask(tasks[k])
    BY <2>1 DEF GetLoop
  <2>3. h[k] = h[k - 1] \o StrFromTask(u[k])
    BY <1>3, <2>1 DEF GetLoop
  <2> QED BY <1>2, <1>5, <2>1, <2>2, <2>3
<1> HIDE DEF T
<1>6. \A k \in 0..n : k \in T
  BY <1>1, <1>4, <1>5, InductionUpTo
<1>7. h[n] = g[n]
  <2>1. n \in T
    BY <1>1, <1>6
  <2> QED BY <2>1 DEF T
<1> QED BY <1>2, <1>3, <1>7 DEF u

\* A task that is read where a string ends with the tasks before it, and whose
\* name has an end, is its next cells.
LEMMA TaskBegins ==
  ASSUME NEW s \in Strings, NEW p \in Nat, p >= 1, Len(s) + 1 - (p + 1) > Fields,
         NEW t, t = TaskFromStr(s, p + 1)
  PROVE  LET e == NameEnd(s, p + 1 + Fields)
             q == StrFromTask(t)
         IN  /\ t \in TaskType /\ q \in Seq(Cell) /\ Len(q) \in Nat
             /\ e \in Nat /\ e <= Len(s) + 1 /\ p + Len(q) = e
             /\ e <= Len(s) => \A j \in 1..Len(q) : s[p + j] = q[j]
<1> DEFINE M == Len(s)
           i == p + 3
           e == NameEnd(s, i)
           q == StrFromTask(t)
           m == Len(t.name)
<1>1. M \in Nat /\ p + 1 + Fields = i /\ i \in 2..(M + 1) /\ Fields = 2
      /\ p + 1 \in 2..(M + 2) /\ p + 3 <= M /\ (p + 1) + 1 = p + 2
  BY StringProps DEF Fields
<1> SUFFICES /\ t \in TaskType /\ q \in Seq(Cell) /\ Len(q) \in Nat
             /\ e \in Nat /\ e <= M + 1 /\ p + Len(q) = e
             /\ e <= M => \A j \in 1..Len(q) : s[p + j] = q[j]
  BY <1>1
<1>2. e \in i..(M + 1) /\ (e <= M => s[e] = 0)
  BY <1>1, NameEnds
<1>3. t \in TaskType
  BY <1>1, TaskRead
<1>4. t = [id |-> s[p + 1], time |-> s[p + 2], name |-> SubSeq(s, i, e - 1)]
  BY <1>1 DEF TaskFromStr
<1>5. /\ q \in Seq(Cell) /\ m \in Nat /\ Len(q) = m + 3
      /\ q[1] = t.id /\ q[2] = t.time
      /\ \A j \in 1..m : q[j + 2] = t.name[j]
      /\ q[m + 3] = 0
  BY <1>3, TaskString
<1> HIDE DEF q, m, e
<1>6. m = e - i /\ \A j \in 1..m : t.name[j] = s[i + j - 1]
  <2> DEFINE r == SubSeq(s, i, e - 1)
  <2>1. s \in Seq(Cell \union {Header}) /\ i \in 1..(M + 1) /\ e - 1 \in (i - 1)..M
    BY <1>1, <1>2, StringProps
  <2>2. Len(r) = (e - 1) - i + 1 /\ \A j \in 1..((e - 1) - i + 1) : r[j] = s[i + j - 1]
    BY <2>1, Slice
  <2> HIDE DEF r
  <2>3. (e - 1) - i + 1 = e - i
    BY <1>1, <1>2
  <2>4. t.name = r
    BY <1>4 DEF r
  <2> QED BY <2>2, <2>3, <2>4 DEF m
<1>7. p + Len(q) = e
  BY <1>1, <1>2, <1>5, <1>6
<1>8. ASSUME e <= M, NEW j \in 1..Len(q) PROVE s[p + j] = q[j]
  <2>1. j \in Nat /\ j >= 1 /\ j <= m + 3
    BY <1>5
  <2>2. CASE j = 1
    BY <1>4, <1>5, <2>2
  <2>3. CASE j = 2
    BY <1>4, <1>5, <2>3
  <2>4. CASE j = m + 3
    BY <1>2, <1>5, <1>7, <1>8, <2>4
  <2>5. CASE j > 2 /\ j < m + 3
    <3>1. j - 2 \in 1..m /\ (j - 2) + 2 = j /\ i + (j - 2) - 1 = p + j
      BY <1>5, <2>1, <2>5
    <3>2. q[(j - 2) + 2] = t.name[j - 2] /\ t.name[j - 2] = s[i + (j - 2) - 1]
      BY <1>5, <1>6, <3>1
    <3> QED BY <3>1, <3>2
  <2> QED BY <1>5, <2>1, <2>2, <2>3, <2>4, <2>5
<1>9. e \in Nat /\ e <= M + 1 /\ Len(q) \in Nat
  BY <1>1, <1>2, <1>5
<1> QED BY <1>3, <1>5, <1>7, <1>8, <1>9 DEF e, q

\* The string of the tasks that are read begins what they are read of, but
\* for a last one whose name has no end.
LEMMA ParsePrefix ==
  ASSUME NEW s \in Strings, NEW g, GetLoop(g, ParseString(s)),
         NEW n \in 1..Len(ParseString(s)),
         n < Len(ParseString(s)) \/ Len(GetString(ParseString(s))) <= Len(s)
  PROVE  Begins(g[n], s)
<1> DEFINE tasks == ParseString(s)
           N == Len(tasks)
           M == Len(s)
           Pos(k) == Len(g[k]) + 1
<1>1. /\ tasks \in Seq(TaskType) /\ N \in Nat /\ n \in 1..N /\ M \in Nat
      /\ GetLoop(g, tasks) /\ n \in Nat
      /\ n < N \/ Len(GetString(tasks)) <= M
  <2>1. tasks \in Seq(TaskType)
    BY ParseType
  <2>2. M \in Nat
    BY StringProps
  <2>3. n \in 1..N /\ GetLoop(g, tasks) /\ (n < N \/ Len(GetString(tasks)) <= M)
    OBVIOUS
  <2> HIDE DEF tasks, M
  <2>4. N \in Nat
    BY <2>1
  <2> QED BY <2>1, <2>2, <2>3, <2>4
<1>2. s # <<>> /\ s[1] = Header
  <2>1. SUFFICES ASSUME s = <<>> \/ s[1] # Header PROVE FALSE
    OBVIOUS
  <2>2. tasks = <<>>
    BY <2>1 DEF ParseString
  <2> HIDE DEF tasks
  <2> QED BY <1>1, <2>2
<1>3. PICK f : ParseLoop(f, s) /\ tasks = f[2]
  BY <1>2, ParseLoopExists
<1>4. M > 0
  BY <1>2, StringProps
<1>5. /\ f \in [2..(M + 2) -> Seq(TaskType)]
      /\ \A i \in 2..(M + 2) :
           f[i] = IF M + 1 - i <= Fields THEN <<>>
                  ELSE <<TaskFromStr(s, i)>> \o f[NameEnd(s, i + Fields) + 1]
  BY <1>3 DEF ParseLoop
<1>6. g \in [0..N -> Strings] /\ g[0] = <<Header>>
  BY <1>1 DEF GetLoop
<1>7. Len(GetString(tasks)) = Len(g[N])
  <2>1. N \in 0..N
    BY <1>1
  <2>2. SubSeq(tasks, 1, N) = tasks
    BY <1>1
  <2> HIDE DEF tasks
  <2>3. GetString(SubSeq(tasks, 1, N)) = g[N]
    BY <1>1, <2>1, PrefixString
  <2> QED BY <2>2, <2>3
<1> HIDE DEF tasks, N, M
<1> DEFINE T == {k \in 0..n : /\ Begins(g[k], s) /\ Pos(k) \in 2..(M + 2)
                              /\ N = k + Len(f[Pos(k)])
                              /\ \A j \in 1..Len(f[Pos(k)]) :
                                   tasks[k + j] = f[Pos(k)][j]}
<1>8. 0 \in T
  <2>1. g[0][1] = Header /\ Len(g[0]) = 1 /\ Pos(0) = 2
    BY <1>6
  <2>2. Begins(g[0], s) /\ 2 \in 2..(M + 2) /\ 0 \in 0..n
    BY <1>1, <1>2, <1>4, <2>1 DEF Begins, M
  <2>3. N = 0 + Len(f[2]) /\ \A j \in 1..Len(f[2]) : tasks[0 + j] = f[2][j]
    BY <1>1, <1>3 DEF N
  <2> QED BY <2>1, <2>2, <2>3
<1>9. ASSUME NEW k \in 1..n, k - 1 \in T PROVE k \in T
  <2> DEFINE p == Len(g[k - 1])
             t == TaskFromStr(s, p + 1)
             e == NameEnd(s, p + 1 + Fields)
             r == f[e + 1]
             q == StrFromTask(tasks[k])
  <2>1. /\ Begins(g[k - 1], s) /\ p + 1 \in 2..(M + 2)
        /\ N = (k - 1) + Len(f[p + 1])
        /\ \A j \in 1..Len(f[p + 1]) : tasks[(k - 1) + j] = f[p + 1][j]
    BY <1>9
  <2>2. /\ k \in 1..N /\ k - 1 \in 0..N /\ k \in 0..n
    BY <1>1
  <2>3. /\ p \in Nat /\ p >= 1 /\ Len(g[k]) = p + Len(q) /\ Len(q) \in Nat
        /\ g[k - 1] \in Strings /\ g[k] \in Strings
        /\ Begins(g[k - 1], g[k])
        /\ \A i \in 1..Len(q) : g[k][p + i] = q[i]
    <3>1. tasks \in Seq(TaskType) /\ GetLoop(g, tasks) /\ k \in 1..Len(tasks)
      BY <1>1, <2>2 DEF N
    <3>2. /\ p \in Nat /\ p >= 1 /\ Len(g[k]) = p + Len(q) /\ Len(q) \in Nat
          /\ g[k - 1] \in Strings /\ g[k] \in Strings
          /\ Begins(g[k - 1], g[k])
      BY ONLY <3>1, GetTurn
    <3>3. \A i \in 1..Len(q) : g[k][p + i] = q[i]
      BY <3>1, GetCells
    <3> QED BY <3>2, <3>3
  <2> HIDE DEF p
  <2>4. f[p + 1] \in Seq(TaskType) /\ Len(f[p + 1]) \in Nat /\ Len(f[p + 1]) >= 1
    <3>1. f[p + 1] \in Seq(TaskType)
      BY <1>5, <2>1
    <3>2. Len(f[p + 1]) \in Nat
      BY <3>1
    <3> QED BY <1>1, <2>1, <2>2, <3>1, <3>2
  <2>5. ~(M + 1 - (p + 1) <= Fields)
    <3> SUFFICES ASSUME M + 1 - (p + 1) <= Fields PROVE FALSE
      OBVIOUS
    <3>1. f[p + 1] = <<>>
      BY <1>5, <2>1
    <3> QED BY <2>4, <3>1
  <2>6. M + 1 - (p + 1) > Fields
    BY <1>1, <2>3, <2>5 DEF Fields
  <2>7. f[p + 1] = <<t>> \o r
    BY <1>5, <2>1, <2>5
  <2>8. e + 1 \in 2..(M + 2) /\ t \in TaskType
    <3>1. /\ t \in TaskType
          /\ e + 1 \in ((p + 1) + 3)..(M + 2)
      BY <2>1, <2>6, TaskRead DEF M
    <3> HIDE DEF e
    <3> QED BY <1>1, <2>3, <3>1
  <2> HIDE DEF q, r
  <2>9. r \in Seq(TaskType)
    BY <1>5, <2>8 DEF r
  <2>10. /\ Len(f[p + 1]) = 1 + Len(r) /\ Len(r) \in Nat
         /\ f[p + 1][1] = t
         /\ \A j \in 1..Len(r) : f[p + 1][j + 1] = r[j]
    <3> HIDE DEF t
    <3> QED BY <2>7, <2>8, <2>9, ConsProps
  <2>11. tasks[k] = t
    <3>1. 1 \in 1..Len(f[p + 1]) /\ (k - 1) + 1 = k
      BY <2>2, <2>4
    <3>2. tasks[(k - 1) + 1] = f[p + 1][1]
      BY <2>1, <3>1
    <3> QED BY <2>10, <3>1, <3>2
  <2>12. N = k + Len(r)
    BY <1>1, <2>1, <2>2, <2>10
  <2>13. ASSUME NEW j \in 1..Len(r) PROVE tasks[k + j] = r[j]
    <3>1. j + 1 \in 1..Len(f[p + 1]) /\ (k - 1) + (j + 1) = k + j
      BY <2>2, <2>10
    <3>2. tasks[(k - 1) + (j + 1)] = f[p + 1][j + 1]
      BY <2>1, <3>1
    <3> QED BY <2>10, <3>1, <3>2
  <2>14. /\ e \in Nat /\ e <= M + 1 /\ p + Len(q) = e
         /\ e <= M => \A j \in 1..Len(q) : s[p + j] = q[j]
    <3>1. q = StrFromTask(t)
      BY <2>11 DEF q
    <3>2. LET z == StrFromTask(t) IN
          /\ e \in Nat /\ e <= M + 1 /\ p + Len(z) = e
          /\ e <= M => \A j \in 1..Len(z) : s[p + j] = z[j]
      BY <2>3, <2>6, TaskBegins DEF M
    <3> QED BY <3>1, <3>2
  <2> HIDE DEF e
  <2>15. Pos(k) = e + 1 /\ Len(g[k]) = e
    BY <2>3, <2>14
  <2>16. e <= M
    <3> SUFFICES ASSUME e = M + 1 PROVE FALSE
      BY <1>1, <2>14
    <3>1. r = <<>>
      <4>1. M + 1 - (e + 1) <= Fields /\ e + 1 \in 2..(M + 2)
        BY <1>1, <2>8, <2>14 DEF Fields
      <4> QED BY <1>5, <4>1 DEF r
    <3>2. N = k /\ n = N
      BY <1>1, <2>2, <2>9, <2>12, <3>1
    <3>3. Len(g[N]) <= M
      BY <1>1, <1>7, <3>2
    <3> QED BY <1>1, <2>15, <3>2, <3>3
  <2>17. Begins(g[k], s)
    <3>1. \A j \in 1..Len(q) : s[p + j] = q[j]
      BY <2>14, <2>16
    <3>2. ASSUME NEW i \in 1..Len(g[k]) PROVE s[i] = g[k][i]
      <4>1. CASE i <= p
        <5>1. i \in 1..Len(g[k - 1])
          BY <2>3, <4>1 DEF p
        <5> QED BY <2>1, <2>3, <5>1 DEF Begins
      <4>2. CASE i > p
        <5>1. i - p \in 1..Len(q) /\ p + (i - p) = i
          BY <2>3, <4>2
        <5>2. s[p + (i - p)] = q[i - p] /\ g[k][p + (i - p)] = q[i - p]
          BY <2>3, <3>1, <5>1
        <5> QED BY <5>1, <5>2
      <4> QED BY <2>3, <4>1, <4>2
    <3>3. Len(g[k]) <= Len(s)
      BY <2>15, <2>16 DEF M
    <3> QED BY <3>2, <3>3 DEF Begins
  <2>18. f[Pos(k)] = r
    BY <2>15 DEF r
  <2> HIDE DEF Pos
  <2> QED BY <2>2, <2>8, <2>12, <2>13, <2>15, <2>17, <2>18
<1> HIDE DEF T
<1>10. \A k \in 0..n : k \in T
  BY <1>1, <1>8, <1>9, InductionUpTo
<1>11. n \in T
  BY <1>1, <1>10
<1> QED BY <1>11 DEF T

\* The first tasks of the list, but for a last one that is torn, are in the
\* segment as get_string writes them; a copy spares what it has not come to.
StartIsThere(n) ==
  LET q == GetString(SubSeq(list, 1, n)) IN
  /\ Len(q) <= Cap
  /\ \A i \in 1..Len(q) : (phase = "copy" => i > at) => data[i] = q[i]

StartInv == \A n \in 1..Len(list) : (torn => n < Len(list)) => StartIsThere(n)

\* The string of the first tasks begins that of all.
LEMMA PrefixBegins ==
  ASSUME NEW tasks \in Seq(TaskType), NEW n \in 0..Len(tasks)
  PROVE  /\ GetString(SubSeq(tasks, 1, n)) \in Strings
         /\ Begins(GetString(SubSeq(tasks, 1, n)), GetString(tasks))
<1>1. PICK g : GetLoop(g, tasks) /\ GetString(tasks) = g[Len(tasks)]
  BY GetLoopExists
<1>2. GetString(SubSeq(tasks, 1, n)) = g[n]
  BY <1>1, PrefixString
<1>3. n \in 0..Len(tasks) /\ Len(tasks) \in n..Len(tasks)
  OBVIOUS
<1>4. Begins(g[n], g[Len(tasks)])
  BY <1>1, <1>3, GetPrefix
<1>5. g[n] \in Strings
  BY <1>1 DEF GetLoop
<1> QED BY <1>1, <1>2, <1>4, <1>5

LEMMA ParseStart ==
  ASSUME NEW s \in Strings, NEW n \in 1..Len(ParseString(s)),
         n < Len(ParseString(s)) \/ Len(GetString(ParseString(s))) <= Len(s)
  PROVE  /\ GetString(SubSeq(ParseString(s), 1, n)) \in Strings
         /\ Begins(GetString(SubSeq(ParseString(s), 1, n)), s)
<1> DEFINE tasks == ParseString(s)
<1>1. tasks \in Seq(TaskType)
  BY ParseType
<1>2. PICK g : GetLoop(g, tasks)
  BY <1>1, GetLoopExists
<1>3. Begins(g[n], s)
  BY <1>2, ParsePrefix
<1>4. n \in 0..Len(tasks)
  BY <1>1
<1> HIDE DEF tasks
<1>5. GetString(SubSeq(tasks, 1, n)) = g[n]
  BY <1>1, <1>2, <1>4, PrefixString
<1>6. g[n] \in Strings
  BY <1>2, <1>4 DEF GetLoop
<1> QED BY <1>3, <1>5, <1>6 DEF tasks

LEMMA StartCopied == BytesIInv /\ StartInv /\ Copied => StartInv'
<1> SUFFICES ASSUME BytesIInv, Copied PROVE StartInv'
  OBVIOUS
<1> DEFINE s == GetString(new)
<1>1. /\ phase = "copy" /\ at = Len(s) /\ phase' = "open"
      /\ list' = new /\ UNCHANGED data
      /\ size = Len(s) /\ \A i \in 1..at : data[i] = s[i]
  BY DEF Copied, BytesIInv, CallInv
<1>2. new \in Seq(TaskType) /\ size <= Cap /\ Cap \in Nat
  BY ConstantFacts DEF BytesIInv, TypeOK
<1>3. s \in Strings /\ Len(s) \in Nat
  BY <1>2, ParseGet, StringProps
<1> SUFFICES ASSUME NEW n \in 1..Len(new)
             PROVE  LET q == GetString(SubSeq(new, 1, n)) IN
                    /\ Len(q) <= Cap
                    /\ \A i \in 1..Len(q) : data[i] = q[i]
  BY <1>1 DEF StartInv, StartIsThere
<1> DEFINE q == GetString(SubSeq(new, 1, n))
<1>4. q \in Strings /\ Begins(q, s)
  <2>1. n \in 0..Len(new)
    BY <1>2
  <2> QED BY <1>2, <2>1, PrefixBegins
<1>5. Len(q) \in Nat
  BY <1>4, StringProps
<1> HIDE DEF q, s
<1>6. Len(q) <= Cap /\ \A i \in 1..Len(q) : data[i] = q[i]
  BY <1>1, <1>2, <1>3, <1>4, <1>5 DEF Begins
<1> QED BY <1>6 DEF q

\* The cells d begin with the string of the first n tasks.
HoldsFirst(d, tasks, n) ==
  LET q == GetString(SubSeq(tasks, 1, n)) IN
  Len(q) <= Cap /\ \A i \in 1..Len(q) : d[i] = q[i]

\* The list that is read of a string, with that string in the segment.
LEMMA StartRead ==
  ASSUME NEW s \in Strings, NEW d, NEW m \in 0..Cap, Len(s) = m,
         \A i \in 1..m : d[i] = s[i],
         NEW n \in 1..Len(ParseString(s)),
         n < Len(ParseString(s)) \/ Len(GetString(ParseString(s))) <= m
  PROVE  HoldsFirst(d, ParseString(s), n)
<1> DEFINE q == GetString(SubSeq(ParseString(s), 1, n))
<1>1. q \in Strings /\ Begins(q, s)
  BY ParseStart
<1>2. Len(q) \in Nat /\ Cap \in Nat /\ m \in Nat /\ m <= Cap
  BY <1>1, StringProps, ConstantFacts
<1> HIDE DEF q
<1>3. Len(q) <= Cap /\ \A i \in 1..Len(q) : d[i] = q[i]
  BY <1>1, <1>2 DEF Begins
<1> QED BY <1>3 DEF q, HoldsFirst

LEMMA StartDie == BytesIInv /\ StartInv /\ Die => StartInv'
<1> SUFFICES ASSUME BytesIInv, StartInv, Die PROVE StartInv'
  OBVIOUS
<1>1. /\ phase # "idle" /\ phase' = "idle" /\ UNCHANGED <<size, data>>
      /\ list' = IF phase = "copy" THEN Loaded ELSE list
      /\ torn' = (torn \/ phase = "copy")
  BY DEF Die, Return
<1>2. CASE phase = "copy"
  <2> DEFINE s == SubSeq(data, 1, size)
  <2>1. /\ s \in Strings /\ Len(s) = size /\ size \in 0..Cap
        /\ \A i \in 1..size : data[i] = s[i]
    BY LoadedProps DEF BytesIInv, TypeOK
  <2>2. list' = ParseString(s) /\ torn' /\ phase' # "copy"
    BY <1>1, <1>2 DEF Loaded
  <2> HIDE DEF s
  <2> SUFFICES ASSUME NEW n \in 1..Len(ParseString(s)), n < Len(ParseString(s))
               PROVE  HoldsFirst(data, ParseString(s), n)
    BY <1>1, <2>2 DEF StartInv, StartIsThere, HoldsFirst
  <2> QED BY <2>1, StartRead
<1>3. CASE phase # "copy"
  <2>1. list' = list /\ torn' = torn /\ phase' # "copy"
    <3>1. torn \in BOOLEAN
      BY DEF BytesIInv, TypeOK
    <3> QED BY <1>1, <1>3, <3>1
  <2> QED BY <1>1, <1>3, <2>1 DEF StartInv, StartIsThere
<1> QED BY <1>2, <1>3

LEMMA StartRestart == BytesIInv /\ Restart => StartInv'
<1> SUFFICES ASSUME BytesIInv, Restart PROVE StartInv'
  OBVIOUS
<1> DEFINE raw == RawOfFile
<1>1. PICK k \in 0..Len(raw) :
        /\ k <= Cap /\ phase = "idle" /\ UNCHANGED phase
        /\ data' = SubSeq(raw, 1, k) \o Fill(Cap - k, 0)
        /\ list' = ParseString(SubSeq(raw, 1, k))
        /\ torn' = (k # Len(GetString(list')))
  BY RestartDoes
<1>2. raw \in Strings
  BY RawProps DEF BytesIInv
<1> HIDE DEF raw
<1> DEFINE s == SubSeq(raw, 1, k)
<1>3. s \in Strings /\ Len(s) = k /\ k \in 0..Cap
  BY <1>1, <1>2, HeadOf, ConstantFacts, StringProps
<1>4. \A i \in 1..k : data'[i] = s[i]
  <2> DEFINE z == Fill(Cap - k, 0)
  <2>1. z \in Seq(Cell)
    BY <1>1, <1>3, FillProps, ConstantFacts
  <2> HIDE DEF z, s
  <2>2. \A i \in 1..Len(s) : (s \o z)[i] = s[i]
    BY <1>3, <2>1, Joined
  <2> QED BY <1>1, <1>3, <2>2 DEF z, s
<1>5. list' = ParseString(s) /\ (torn' <=> k # Len(GetString(ParseString(s))))
  BY <1>1
<1> HIDE DEF s
<1> DEFINE d == data'
<1>6. \A i \in 1..k : d[i] = s[i]
  BY <1>4
<1> SUFFICES ASSUME NEW n \in 1..Len(ParseString(s)), torn' => n < Len(ParseString(s))
             PROVE  HoldsFirst(d, ParseString(s), n)
  BY <1>1, <1>5 DEF StartInv, StartIsThere, HoldsFirst
<1>7. n < Len(ParseString(s)) \/ Len(GetString(ParseString(s))) <= k
  <2>1. CASE torn'
    BY <2>1
  <2>2. CASE ~torn'
    <3>1. k = Len(GetString(ParseString(s)))
      BY <1>5, <2>2
    <3> QED BY <1>3, <3>1, ConstantFacts
  <2> QED BY <2>1, <2>2
<1> HIDE DEF d
<1>8. s \in Strings /\ k \in 0..Cap /\ Len(s) = k /\ n \in 1..Len(ParseString(s))
  BY <1>3
<1> QED BY ONLY <1>6, <1>7, <1>8, StartRead

LEMMA StartStep == BytesIInv /\ StartInv /\ [Next]_vars => StartInv'
<1> SUFFICES ASSUME BytesIInv, StartInv, [Next]_vars PROVE StartInv'
  OBVIOUS
<1>1. CASE UNCHANGED vars
  BY <1>1 DEF vars, StartInv, StartIsThere
<1>2. CASE Call
  <2>1. phase = "idle" /\ UNCHANGED <<data, list, torn>>
    BY <1>2 DEF Call
  <2> QED BY <2>1 DEF StartInv, StartIsThere
<1>3. CASE Copy
  <2>1. /\ phase = "copy" /\ at' = at + 1 /\ UNCHANGED <<phase, list, torn>>
        /\ \A i \in 1..Cap : i # at + 1 => data'[i] = data[i]
        /\ at \in 0..Cap /\ Cap \in Nat
    <3>1. data \in [1..Cap -> Cell \union {Header}] /\ at \in 0..Cap
      BY DEF BytesIInv, TypeOK
    <3> QED BY <1>3, <3>1, ConstantFacts DEF Copy
  <2>2. list \in Seq(TaskType)
    BY DEF BytesIInv, TypeOK
  <2> SUFFICES ASSUME NEW n \in 1..Len(list), torn => n < Len(list)
               PROVE  StartIsThere(n)'
    BY <2>1 DEF StartInv
  <2> DEFINE q == GetString(SubSeq(list, 1, n))
  <2>3. q \in Strings
    <3>1. n \in 0..Len(list)
      BY <2>2
    <3> QED BY <2>2, <3>1, PrefixBegins
  <2>4. Len(q) \in Nat
    BY <2>3, StringProps
  <2>5. /\ Len(q) <= Cap
        /\ \A i \in 1..Len(q) : i > at => data[i] = q[i]
    BY <2>1 DEF StartInv, StartIsThere
  <2>6. q' = q
    BY <2>1
  <2> HIDE DEF q
  <2>7. \A i \in 1..Len(q) : i > at' => data'[i] = q[i]
    <3> TAKE i \in 1..Len(q)
    <3> HAVE i > at'
    <3>1. i \in 1..Cap /\ i > at /\ i # at + 1
      BY <2>1, <2>4, <2>5
    <3> QED BY <2>1, <2>5, <3>1
  <2> QED BY <2>1, <2>5, <2>6, <2>7 DEF StartIsThere, q
<1>4. CASE Copied
  BY <1>4, StartCopied
<1>5. CASE Open
  <2>1. phase = "open" /\ phase' # "copy" /\ UNCHANGED <<data, list, torn>>
    BY <1>5 DEF Open, Return
  <2> QED BY <2>1 DEF StartInv, StartIsThere
<1>6. CASE Write
  <2>1. phase = "write" /\ phase' # "copy" /\ UNCHANGED <<data, list, torn>>
    BY <1>6 DEF Write, Return
  <2> QED BY <2>1 DEF StartInv, StartIsThere
<1>7. CASE Die
  BY <1>7, StartDie
<1>8. CASE Restart
  BY <1>8, StartRestart
<1> QED BY <1>1, <1>2, <1>3, <1>4, <1>5, <1>6, <1>7, <1>8 DEF Next

LEMMA StartInit == Init => StartInv
<1> SUFFICES ASSUME Init PROVE StartInv
  OBVIOUS
<1>1. list = <<>> /\ Len(list) = 0
  BY DEF Init
<1> QED BY <1>1 DEF StartInv

\* What is left of the first tasks when a copy is cut short.
LEMMA TornKeepsStart ==
  ASSUME BytesIInv, StartInv, phase = "copy", NEW n \in 0..Len(new),
         \/ IsPrefix(SubSeq(new, 1, n), list) /\ (torn => n < Len(list))
         \/ Len(GetString(SubSeq(new, 1, n))) <= at
  PROVE  IsPrefix(SubSeq(new, 1, n), Loaded)
<1> DEFINE u == SubSeq(new, 1, n)
           s == GetString(new)
           q == GetString(u)
           r == SubSeq(data, 1, size)
<1>1. /\ new \in Seq(TaskType) /\ list \in Seq(TaskType)
      /\ size \in 0..Cap /\ at \in 0..Cap /\ Cap \in Nat
      /\ size = Len(s) /\ at <= size /\ \A i \in 1..at : data[i] = s[i]
  BY ConstantFacts DEF BytesIInv, TypeOK, CallInv
<1>2. PICK g : GetLoop(g, new)
  BY <1>1, GetLoopExists
<1>3. /\ u \in Seq(TaskType) /\ Len(u) = n /\ \A j \in 1..n : u[j] = new[j]
      /\ q = g[n]
  BY <1>1, <1>2, PrefixString
<1>4. q \in Strings /\ Begins(q, s)
  BY <1>1, PrefixBegins
<1>5. /\ r \in Strings /\ Len(r) = size /\ \A i \in 1..size : r[i] = data[i]
      /\ Loaded = ParseString(r) /\ Loaded \in Seq(TaskType)
  BY LoadedProps DEF Loaded
<1>6. Len(q) \in Nat /\ n \in Nat /\ Len(list) \in Nat
  BY <1>1, <1>4, StringProps
<1> HIDE DEF r, s
<1>7. CASE n = 0
  <2>1. u = <<>> /\ Len(u) = 0
    BY <1>3, <1>7
  <2>2. SubSeq(u, 1, 0) = <<>> /\ SubSeq(Loaded, 1, 0) = <<>>
    BY <1>3, <1>5
  <2>3. Len(Loaded) \in Nat
    BY <1>5
  <2> QED BY <2>1, <2>2, <2>3 DEF IsPrefix
<1>8. CASE n # 0
  <2>1. Begins(q, r)
    <3>1. \A i \in 1..Len(q) : i <= at => data[i] = q[i]
      <4> HIDE DEF q
      <4> TAKE i \in 1..Len(q)
      <4> HAVE i <= at
      <4>1. i \in 1..at
        BY <1>1, <1>6
      <4> QED BY <1>1, <1>4, <4>1 DEF Begins
    <3>2. CASE Len(q) <= at
      <4> HIDE DEF q
      <4> QED BY <1>1, <1>4, <1>5, <1>6, <3>1, <3>2 DEF Begins
    <3>3. CASE IsPrefix(u, list) /\ (torn => n < Len(list))
      <4>1. n <= Len(list) /\ u = SubSeq(list, 1, n)
        <5>1. SubSeq(u, 1, n) = u
          BY <1>3
        <5> HIDE DEF u
        <5> QED BY <1>3, <3>3, <5>1 DEF IsPrefix
      <4>2. n \in 1..Len(list)
        BY <1>6, <1>8, <4>1
      <4>3. StartIsThere(n)
        BY <3>3, <4>2 DEF StartInv
      <4>4. q = GetString(SubSeq(list, 1, n))
        BY <4>1
      <4> HIDE DEF q, u
      <4>5. \A i \in 1..Len(q) : i > at => data[i] = q[i]
        BY <4>3, <4>4 DEF StartIsThere
      <4>6. \A i \in 1..Len(q) : data[i] = q[i]
        BY <1>1, <1>6, <3>1, <4>5
      <4> QED BY <1>1, <1>4, <1>5, <1>6, <4>6 DEF Begins
    <3> QED BY <3>2, <3>3
  <2>2. r # <<>> /\ r[1] = Header
    <3>1. Len(q) > 0 /\ q[1] = Header
      BY <1>2, <1>3 DEF GetLoop
    <3> HIDE DEF q
    <3>2. 1 \in 1..Len(q)
      BY <1>6, <3>1
    <3>3. r[1] = Header /\ Len(r) > 0
      BY <1>1, <1>5, <1>6, <2>1, <3>1, <3>2 DEF Begins
    <3> QED BY <3>3
  <2>3. PICK f : ParseLoop(f, r) /\ Loaded = f[2]
    BY <1>5, <2>2, ParseLoopExists
  <2>4. Begins(g[n], r)
    BY <1>3, <2>1
  <2>5. /\ Len(g[n]) + 1 \in 2..(Len(r) + 2)
        /\ Len(f[2]) = n + Len(f[Len(g[n]) + 1])
        /\ \A j \in 1..n : f[2][j] = new[j]
    BY <1>1, <1>2, <1>5, <2>3, <2>4, ReadBack
  <2>6. Len(f[Len(g[n]) + 1]) \in Nat
    <3>1. f[Len(g[n]) + 1] \in Seq(TaskType)
      BY <2>3, <2>5 DEF ParseLoop
    <3> QED BY <3>1
  <2>7. n <= Len(Loaded) /\ \A j \in 1..n : Loaded[j] = u[j]
    <3> DEFINE L == Len(f[Len(g[n]) + 1])
    <3>1. Len(Loaded) = n + L /\ L \in Nat
      BY <2>3, <2>5, <2>6
    <3>2. \A j \in 1..n : Loaded[j] = new[j]
      BY <2>3, <2>5
    <3> HIDE DEF u, L
    <3> QED BY <1>3, <1>6, <3>1, <3>2
  <2>8. n \in 0..Len(Loaded)
    BY <1>5, <1>6, <2>7
  <2>9. SubSeq(Loaded, 1, n) = u
    <3> DEFINE v == SubSeq(Loaded, 1, n)
    <3>1. 1 \in 1..(Len(Loaded) + 1) /\ n \in (1 - 1)..Len(Loaded)
      BY <1>5, <2>8
    <3>2. /\ v \in Seq(TaskType) /\ Len(v) = n - 1 + 1
          /\ \A j \in 1..(n - 1 + 1) : v[j] = Loaded[1 + j - 1]
      BY <1>5, <3>1, Slice
    <3> HIDE DEF v, u
    <3>3. Len(v) = n /\ \A j \in 1..n : v[j] = u[j]
      BY <1>6, <2>7, <3>2
    <3>4. v = u
      BY <1>3, <3>2, <3>3, SeqEqual
    <3> QED BY <3>4 DEF v
  <2>10. SubSeq(u, 1, n) = u
    BY <1>3
  <2> HIDE DEF u
  <2> QED BY <1>3, <2>7, <2>9, <2>10 DEF IsPrefix
<1> QED BY <1>7, <1>8

\* A death in the copy spares the tasks before the change, and those that
\* have been copied, as they were: store_tasks writes the size first, and the
\* cells that get_string gives the first tasks are the same in both lists.
THEOREM TearsOnlyTheRest == Spec => TearSparesPrefix
<1>1. ASSUME BytesIInv, StartInv, [Next]_vars
      PROVE  [\A n \in 0..Len(new) :
                /\ Die /\ phase = "copy"
                /\ \/ IsPrefix(SubSeq(new, 1, n), list) /\ (torn => n < Len(list))
                   \/ Len(GetString(SubSeq(new, 1, n))) <= at
                => IsPrefix(SubSeq(new, 1, n), list')]_vars
  <2>1. Die /\ phase = "copy" => list' = Loaded
    BY DEF Die
  <2> QED BY <1>1, <2>1, TornKeepsStart
<1> QED BY <1>1, StartInit, StartStep, BytesAlways, PTL DEF Spec, TearSparesPrefix
==============================================================================
