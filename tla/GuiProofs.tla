----------------------------- MODULE GuiProofs -----------------------------
(***************************************************************************)
(* Proofs about the parts of the window that MCGui instantiates: the queue *)
(* between its threads and its main loop (ReaderWriterQueue), which        *)
(* implements the one of Fifo (ReaderWriterQueueImplements), the times as  *)
(* they are shown and picked (LocalTime) and the order of the tasks in the *)
(* flow box (FlowBox).                                                     *)
(***************************************************************************)
EXTENDS MCGui, ListLemmas

(***************************************************************************)
(* Rings of slots.                                                         *)
(***************************************************************************)
\* How many slots there are from i on before j, in a ring of s.
Gap(s, i, j) == (j + s - i) % s

LEMMA GapValue ==
  ASSUME NEW s \in Nat \ {0}, NEW i \in 0..(s - 1), NEW j \in 0..(s - 1)
  PROVE  Gap(s, i, j) = IF i <= j THEN j - i ELSE j + s - i
<1>1. ASSUME NEW x \in 0..(s - 1) PROVE x % s = x
  OBVIOUS
<1>2. ASSUME NEW x \in s..(2 * s - 1) PROVE x % s = x - s
  OBVIOUS
<1>3. CASE i <= j
  BY <1>2, <1>3, j + s - i \in s..(2 * s - 1) DEF Gap
<1>4. CASE i > j
  BY <1>1, <1>4, j + s - i \in 0..(s - 1) DEF Gap
<1> QED BY <1>3, <1>4

\* The slot after i.
After(s, i) == (i + 1) % s

LEMMA AfterValue ==
  ASSUME NEW s \in Nat \ {0}, NEW i \in 0..(s - 1)
  PROVE  After(s, i) = IF i + 1 = s THEN 0 ELSE i + 1
<1>1. ASSUME NEW x \in 0..(s - 1) PROVE x % s = x
  OBVIOUS
<1>2. s % s = 0
  OBVIOUS
<1> QED BY <1>1, <1>2 DEF After

\* Gaps, as one end or the other moves on.
LEMMA GapProps ==
  ASSUME NEW s \in Nat \ {0}, NEW i \in 0..(s - 1), NEW j \in 0..(s - 1)
  PROVE  /\ Gap(s, i, j) \in 0..(s - 1)
         /\ Gap(s, i, j) = 0 <=> i = j
         /\ Gap(s, After(s, i), j) = IF i = j THEN s - 1 ELSE Gap(s, i, j) - 1
         /\ Gap(s, i, After(s, j)) =
              IF After(s, j) = i THEN 0 ELSE Gap(s, i, j) + 1
         /\ \A k \in 0..(s - 1) : Gap(s, i, j) = Gap(s, i, k) => j = k
<1>1. After(s, i) \in 0..(s - 1) /\ After(s, j) \in 0..(s - 1)
  BY AfterValue
<1>2. /\ Gap(s, i, j) \in 0..(s - 1)
      /\ Gap(s, i, j) = 0 <=> i = j
  BY GapValue
<1>3. Gap(s, After(s, i), j) = IF i = j THEN s - 1 ELSE Gap(s, i, j) - 1
  <2>1. Gap(s, After(s, i), j) = IF After(s, i) <= j THEN j - After(s, i)
                                 ELSE j + s - After(s, i)
    BY <1>1, GapValue
  <2>2. Gap(s, i, j) = IF i <= j THEN j - i ELSE j + s - i
    BY GapValue
  <2>3. After(s, i) = IF i + 1 = s THEN 0 ELSE i + 1
    BY AfterValue
  <2> QED BY <2>1, <2>2, <2>3
<1>4. Gap(s, i, After(s, j)) = IF After(s, j) = i THEN 0 ELSE Gap(s, i, j) + 1
  <2>1. Gap(s, i, After(s, j)) = IF i <= After(s, j) THEN After(s, j) - i
                                 ELSE After(s, j) + s - i
    BY <1>1, GapValue
  <2>2. Gap(s, i, j) = IF i <= j THEN j - i ELSE j + s - i
    BY GapValue
  <2>3. After(s, j) = IF j + 1 = s THEN 0 ELSE j + 1
    BY AfterValue
  <2> QED BY <2>1, <2>2, <2>3
<1>5. ASSUME NEW k \in 0..(s - 1), Gap(s, i, j) = Gap(s, i, k)
      PROVE  j = k
  BY <1>5, GapValue
<1> QED BY <1>2, <1>3, <1>4, <1>5

(***************************************************************************)
(* Blocks.                                                                 *)
(***************************************************************************)
HasElement(r) == r.front # r.tail

\* The slots from front to tail: Queued of the block.
Slots(r) ==
  {i \in 0..(r.size - 1) :
     Gap(r.size, r.front, i) < Gap(r.size, r.front, r.tail)}

LEMMA QueuedSlots == \A b \in Block : Queued(b) = Slots(block[b])
BY DEF Queued, Slots, Gap

\* The shadows lag behind the indices.
ShadowsOK(r) ==
  /\ Gap(r.size, r.front, r.localTail) <= Gap(r.size, r.front, r.tail)
  /\ Gap(r.size, r.localFront, r.front) <= Gap(r.size, r.localFront, r.tail)

BlockType ==
  [size : 1..MaxSize, front : Nat, tail : Nat, localTail : Nat,
   localFront : Nat, next : Block \union {NoBlock},
   data : [0..(MaxSize - 1) -> 0..LastItem]]

IndexesOK(r) ==
  /\ r.front \in 0..(r.size - 1) /\ r.tail \in 0..(r.size - 1)
  /\ r.localFront \in 0..(r.size - 1) /\ r.localTail \in 0..(r.size - 1)

Good(r) == r \in BlockType /\ IndexesOK(r) /\ ShadowsOK(r)

LEMMA SizeNat == ASSUME NEW r, Good(r)
  PROVE r.size \in Nat \ {0} /\ r.size <= MaxSize
BY QueueAssumption DEF Good, BlockType

LEMMA ShadowProps ==
  ASSUME NEW r, Good(r)
  PROVE  /\ r.front # r.localTail => HasElement(r)
         /\ HasElement(r) => r.front \in Slots(r)
         /\ r.tail \notin Slots(r)
         /\ After(r.size, r.tail) # r.localFront => After(r.size, r.tail) # r.front
         /\ After(r.size, r.tail) \in 0..(r.size - 1)
         /\ After(r.size, r.front) \in 0..(r.size - 1)
<1> DEFINE n == r.size
<1>1. /\ n \in Nat \ {0} /\ r.front \in 0..(n - 1) /\ r.tail \in 0..(n - 1)
      /\ r.localTail \in 0..(n - 1) /\ r.localFront \in 0..(n - 1)
  BY SizeNat DEF Good, IndexesOK
<1> HIDE DEF n
<1>2. /\ Gap(n, r.front, r.front) = 0
      /\ Gap(n, r.front, r.tail) \in Nat
      /\ Gap(n, r.front, r.tail) = 0 <=> r.front = r.tail
      /\ Gap(n, r.front, r.localTail) \in Nat
      /\ Gap(n, r.front, r.localTail) = 0 <=> r.front = r.localTail
  <2>1. \A i, j \in 0..(n - 1) :
          Gap(n, i, j) \in Nat /\ (Gap(n, i, j) = 0 <=> i = j)
    BY <1>1, GapProps
  <2> QED BY <1>1, <2>1
<1>3. r.front # r.localTail => HasElement(r)
  BY <1>2 DEF Good, ShadowsOK, HasElement, n
<1>4. HasElement(r) => r.front \in Slots(r)
  BY <1>1, <1>2 DEF Slots, HasElement, n
<1>5. r.tail \notin Slots(r)
  BY <1>2 DEF Slots, n
<1>6. After(n, r.tail) \in 0..(n - 1) /\ After(n, r.front) \in 0..(n - 1)
  BY <1>1, AfterValue
<1>7. ASSUME After(n, r.tail) = r.front
      PROVE  After(n, r.tail) = r.localFront
  <2>1. Gap(n, r.localFront, r.front) =
          IF r.front = r.localFront THEN 0 ELSE Gap(n, r.localFront, r.tail) + 1
    <3>1. \A i, j \in 0..(n - 1) :
            Gap(n, i, After(n, j)) =
              IF After(n, j) = i THEN 0 ELSE Gap(n, i, j) + 1
      BY <1>1, GapProps
    <3> QED BY <1>1, <1>7, <3>1
  <2>2. Gap(n, r.localFront, r.tail) \in Nat
    BY <1>1, GapProps
  <2> QED BY <1>7, <2>1, <2>2 DEF Good, ShadowsOK, n
<1> QED BY <1>3, <1>4, <1>5, <1>6, <1>7 DEF n

\* A slot is added.
LEMMA PutProps ==
  ASSUME NEW r, Good(r), After(r.size, r.tail) # r.localFront,
         NEW s, s = [r EXCEPT !.tail = After(r.size, r.tail)]
  PROVE  Good(s) /\ Slots(s) = Slots(r) \union {r.tail} /\ HasElement(s)
<1>1. /\ s.size = r.size /\ s.front = r.front /\ s.localTail = r.localTail
      /\ s.localFront = r.localFront /\ s.tail = After(r.size, r.tail)
      /\ s \in BlockType
  BY SizeNat, AfterValue DEF Good, BlockType, IndexesOK
<1>2. IndexesOK(s)
  BY <1>1, ShadowProps DEF Good, IndexesOK
<1>3. ShadowsOK(s)
  <2> DEFINE n == r.size
  <2>1. /\ n \in Nat \ {0}
        /\ {r.front, r.tail, r.localTail, r.localFront} \subseteq 0..(n - 1)
        /\ s.tail # r.front /\ s.tail # r.localFront
    BY <1>1, SizeNat, ShadowProps DEF Good, IndexesOK
  <2>2. /\ Gap(n, r.front, s.tail) = Gap(n, r.front, r.tail) + 1
        /\ Gap(n, r.localFront, s.tail) = Gap(n, r.localFront, r.tail) + 1
    BY <1>1, <2>1, GapProps
  <2>3. /\ Gap(n, r.front, r.tail) \in Int /\ Gap(n, r.front, r.localTail) \in Int
        /\ Gap(n, r.localFront, r.tail) \in Int
        /\ Gap(n, r.localFront, r.front) \in Int
    BY <2>1, GapProps
  <2> QED BY <1>1, <2>2, <2>3 DEF Good, ShadowsOK
<1>4. Slots(s) = Slots(r) \union {r.tail}
  <2> DEFINE n == r.size
             end == Gap(n, r.front, r.tail)
  <2>1. n \in Nat \ {0} /\ r.front \in 0..(n - 1) /\ r.tail \in 0..(n - 1)
    BY SizeNat DEF Good, IndexesOK
  <2>2. Gap(n, r.front, s.tail) = end + 1
    BY <1>1, <2>1, GapProps, ShadowProps
  <2>3. end \in 0..(n - 1)
    BY <2>1, GapProps
  <2>4. ASSUME NEW i \in 0..(n - 1)
        PROVE  Gap(n, r.front, i) < end + 1
                 <=> Gap(n, r.front, i) < end \/ i = r.tail
    <3>1. Gap(n, r.front, i) \in 0..(n - 1)
      BY <2>1, GapProps
    <3>2. Gap(n, r.front, i) = end <=> i = r.tail
      BY <2>1, GapProps
    <3> QED BY <2>3, <3>1, <3>2
  <2> QED BY <1>1, <2>1, <2>2, <2>4 DEF Slots
<1>5. HasElement(s)
  BY <1>1, ShadowProps DEF HasElement
<1> QED BY <1>1, <1>2, <1>3, <1>4, <1>5 DEF Good

LEMMA TakeProps ==
  ASSUME NEW r, Good(r), r.front # r.localTail,
         NEW s, s = [r EXCEPT !.front = After(r.size, r.front)]
  PROVE  Good(s) /\ Slots(s) = Slots(r) \ {r.front}
<1>1. /\ s.size = r.size /\ s.tail = r.tail /\ s.localTail = r.localTail
      /\ s.localFront = r.localFront /\ s.front = After(r.size, r.front)
      /\ s \in BlockType
  <2>1. r \in BlockType /\ r.size \in Nat \ {0}
    BY SizeNat DEF Good
  <2>2. After(r.size, r.front) \in Nat
    BY <2>1, ShadowProps
  <2> QED BY <2>1, <2>2 DEF BlockType
<1>2. IndexesOK(s)
  BY <1>1, ShadowProps DEF Good, IndexesOK
<1>3. /\ r.size \in Nat \ {0}
      /\ {r.front, r.tail, r.localTail, r.localFront} \subseteq 0..(r.size - 1)
      /\ r.front # r.tail
  BY SizeNat, ShadowProps DEF Good, IndexesOK, HasElement
<1>4. ShadowsOK(s)
  <2>1. Gap(r.size, s.front, r.localTail) <= Gap(r.size, s.front, r.tail)
    <3>1. /\ Gap(r.size, s.front, r.localTail) =
               Gap(r.size, r.front, r.localTail) - 1
          /\ Gap(r.size, s.front, r.tail) = Gap(r.size, r.front, r.tail) - 1
      BY <1>1, <1>3, GapProps
    <3>2. /\ Gap(r.size, r.front, r.localTail) \in Int
          /\ Gap(r.size, r.front, r.tail) \in Int
      BY <1>3, GapProps
    <3> QED BY <3>1, <3>2 DEF Good, ShadowsOK
  <2>2. Gap(r.size, r.localFront, s.front) <= Gap(r.size, r.localFront, r.tail)
    <3> DEFINE f == Gap(r.size, r.localFront, r.front)
               t == Gap(r.size, r.localFront, r.tail)
    <3>1. f \in Nat /\ t \in Nat /\ f # t /\ f <= t
      BY <1>3, GapProps DEF Good, ShadowsOK
    <3>2. Gap(r.size, r.localFront, s.front) \in {0, f + 1}
      BY <1>1, <1>3, GapProps
    <3> QED BY <3>1, <3>2
  <2> QED BY <1>1, <2>1, <2>2 DEF ShadowsOK
<1>5. Slots(s) = Slots(r) \ {r.front}
  <2> DEFINE n == r.size
             end == Gap(n, r.front, r.tail)
  <2>1. Gap(n, s.front, r.tail) = end - 1 /\ end \in 0..(n - 1)
    BY <1>1, <1>3, GapProps
  <2>2. ASSUME NEW i \in 0..(n - 1)
        PROVE  Gap(n, s.front, i) < end - 1
                 <=> Gap(n, r.front, i) < end /\ i # r.front
    <3>1. Gap(n, r.front, i) \in 0..(n - 1)
      BY <1>3, GapProps
    <3>2. Gap(n, s.front, i) =
            IF r.front = i THEN n - 1 ELSE Gap(n, r.front, i) - 1
      <4>1. n \in Nat \ {0} /\ r.front \in 0..(n - 1)
            /\ s.front = After(n, r.front)
        BY <1>1, <1>3
      <4> QED BY <4>1, GapProps
    <3> QED BY <1>3, <2>1, <3>1, <3>2
  <2> QED BY <1>1, <2>1, <2>2 DEF Slots
<1> QED BY <1>1, <1>2, <1>4, <1>5 DEF Good

\* The powers of two from FirstSize to MaxSize.
Sizes ==
  CHOOSE S \in SUBSET (FirstSize..MaxSize) :
    FirstSize \in S /\ \A s \in S : s = MaxSize \/ 2 * s \in S

\* The blocks whose elements the consumer does not find yet.
Pending == IF prod.pc \in {"link", "advance"} THEN {prod.b} ELSE {}

\* The blocks of the ring.
Linked == IF prod.pc = "link" THEN Allocated \ {prod.b} ELSE Allocated

\* The front block, and those with elements for the consumer.
Busy == {frontBlock} \union {b \in Allocated \ Pending : HasElement(block[b])}

BlocksOK ==
  /\ block \in [Block -> BlockType]
  /\ \A b \in Block : Good(block[b])
  /\ \A b \in Allocated : block[b].size >= 2
  /\ frontBlock \in Allocated /\ tailBlock \in Allocated
  /\ largest \in Sizes
  /\ sent \in 0..LastItem

\* The ring goes through every block once, first through the busy ones, from
\* the front block to the tail block.
RingInv ==
  /\ frontBlock \in Linked /\ tailBlock \in Busy \ Pending
  /\ \A b \in Allocated : block[b].next \in Linked
  /\ \A b, c \in Linked : block[b].next = block[c].next => b = c
  /\ \A b \in Allocated :
       block[b].next \in Busy \ {frontBlock} <=> b \in Busy \ {tailBlock}

ProdType ==
  [pc : {"idle", "reload", "full", "reuse", "write", "publish", "alloc",
         "link", "advance"},
   b : Block, slot : Nat]

ProdInv ==
  /\ prod \in ProdType
  /\ prod.b \in Allocated /\ prod.slot < block[prod.b].size
  /\ prod.pc # "idle" => sent >= 1
  /\ prod.pc = "reload" =>
       prod.b = tailBlock /\ prod.slot = block[tailBlock].tail
  /\ prod.pc = "reuse" => block[tailBlock].next # frontBlock
  /\ prod.pc \in {"write", "publish"} =>
       /\ prod.slot = block[prod.b].tail
       /\ After(block[prod.b].size, prod.slot) # block[prod.b].localFront
       /\ prod.b # tailBlock =>
            /\ prod.b = block[tailBlock].next
            /\ prod.b \notin Busy
            /\ block[prod.b].localFront = block[prod.b].tail
  /\ prod.pc \in {"link", "advance"} =>
       prod.b \notin Busy /\ HasElement(block[prod.b])
  /\ prod.pc = "advance" => prod.b = block[tailBlock].next
  /\ prod.pc = "link" => /\ block[prod.b].next = block[tailBlock].next
                         /\ block[prod.b].front = 0

ConsType ==
  [pc : {"idle", "reload", "at_tail", "recheck", "next", "next_tail", "move",
         "read", "take", "none"},
   op : {"dequeue", "pop", "peek"}, b : Block, slot : Nat,
   item : 0..LastItem, had : BOOLEAN]

ConsInv ==
  /\ cons \in ConsType
  /\ cons.b \in Allocated /\ cons.slot < block[cons.b].size
  /\ got \in 0..LastItem
  /\ cons.pc \in {"reload", "at_tail", "recheck"} =>
       cons.b = frontBlock /\ cons.slot = block[frontBlock].front
  /\ cons.pc \in {"next_tail", "move", "read", "take"} =>
       /\ cons.slot = block[cons.b].front /\ HasElement(block[cons.b])
       /\ cons.b \in Linked
  /\ cons.pc \in {"recheck", "next", "next_tail", "move"} =>
       frontBlock # tailBlock
  /\ cons.pc \in {"next", "next_tail", "move"} => ~HasElement(block[frontBlock])
  /\ cons.pc \in {"next_tail", "move"} => cons.b = block[frontBlock].next
  /\ cons.pc \in {"move", "take"} => cons.op # "peek"
  /\ cons.pc \in {"read", "take"} /\ cons.op # "peek" => cons.b = frontBlock
  /\ cons.pc \in {"move", "read", "take"} /\ cons.op # "peek" =>
       block[cons.b].front # block[cons.b].localTail
  /\ cons.pc = "reload" /\ cons.had => ~Empty
  /\ cons.pc = "at_tail" /\ cons.had => frontBlock # tailBlock
  /\ cons.pc = "none" => ~cons.had

LiveInv ==
  \A b \in Block : \A i \in 0..(block[b].size - 1) :
    block[b].data[i] # Dead <=>
      \/ i \in Slots(block[b]) /\ <<b, i>> \notin Destroyed
      \/ <<b, i>> \in Constructed

IInv == BlocksOK /\ RingInv /\ ProdInv /\ ConsInv /\ LiveInv

LEMMA SizesProps ==
  /\ Sizes \subseteq FirstSize..MaxSize /\ FirstSize \in Sizes
  /\ \A s \in Sizes : s >= MaxSize \/ 2 * s \in Sizes
<1> DEFINE P(S) == FirstSize \in S /\ \A s \in S : s = MaxSize \/ 2 * s \in S
<1>1. \E S \in SUBSET (FirstSize..MaxSize) : P(S)
  BY QueueAssumption
<1>2. Sizes = CHOOSE S \in SUBSET (FirstSize..MaxSize) : P(S)
  BY DEF Sizes
<1> HIDE DEF P
<1>3. Sizes \in SUBSET (FirstSize..MaxSize) /\ P(Sizes)
  BY <1>1, <1>2
<1>4. \A s \in Sizes : s = MaxSize => s >= MaxSize
  BY <1>3, QueueAssumption
<1> QED BY <1>3, <1>4 DEF P

LEMMA InitInv == Init => IInv
<1> SUFFICES ASSUME Init PROVE IInv
  OBVIOUS
<1> USE DEF Init
<1>1. /\ FirstSize \in 2..MaxSize /\ MaxSize \in Nat /\ LastItem \in Nat
      /\ First \in Block /\ NoBlock \notin Block
  BY QueueAssumption
<1>2. ASSUME NEW size \in 1..MaxSize, NEW next \in Block \union {NoBlock}
      PROVE  /\ Good(NewBlock(size, next)) /\ Slots(NewBlock(size, next)) = {}
             /\ NewBlock(size, next).size = size
             /\ NewBlock(size, next).next = next
             /\ NewBlock(size, next).front = 0 /\ NewBlock(size, next).tail = 0
             /\ \A i \in 0..(size - 1) : NewBlock(size, next).data[i] = Dead
  <2> DEFINE r == NewBlock(size, next)
  <2>1. /\ r.size = size /\ r.next = next /\ r.front = 0 /\ r.tail = 0
        /\ r.localFront = 0 /\ r.localTail = 0
        /\ \A i \in 0..(size - 1) : r.data[i] = Dead
        /\ r \in BlockType
    BY <1>1 DEF NewBlock, BlockType, Dead
  <2>2. Gap(size, 0, 0) = 0
    BY GapProps
  <2> HIDE DEF r
  <2>4. Good(r)
    BY <2>1, <2>2 DEF Good, IndexesOK, ShadowsOK
  <2>5. Slots(r) = {}
    <3>1. \A i \in 0..(size - 1) : ~(Gap(size, 0, i) < 0)
      BY GapProps
    <3> QED BY <2>1, <2>2, <3>1 DEF Slots
  <2> QED BY <2>1, <2>4, <2>5 DEF r
<1>3. /\ block[First] = NewBlock(FirstSize, First)
      /\ \A b \in Block : block[b] = NewBlock(FirstSize, First)
                          \/ (b # First /\ block[b] = NewBlock(1, NoBlock))
      /\ DOMAIN block = Block
  BY <1>1
<1>4. Allocated = {First}
  BY <1>1, <1>2, <1>3 DEF Allocated
<1>5. BlocksOK
  <2>1. \A b \in Block : Good(block[b])
    BY <1>1, <1>2, <1>3
  <2>2. block \in [Block -> BlockType]
    BY <2>1 DEF Good
  <2>3. block[First].size = FirstSize
    BY <1>1, <1>2, <1>3
  <2> QED BY <1>1, <1>4, <2>1, <2>2, <2>3, SizesProps DEF BlocksOK
<1>6. /\ block[First].front = 0 /\ block[First].tail = 0
      /\ block[First].next = First /\ block[First].size = FirstSize
  BY <1>1, <1>2, <1>3
<1>7. Busy = {First} /\ Linked = {First} /\ Pending = {}
  BY <1>4, <1>6 DEF Busy, Linked, Pending, HasElement
<1>8. RingInv
  BY <1>4, <1>6, <1>7 DEF RingInv
<1>9. ProdInv
  BY <1>1, <1>4, <1>6 DEF ProdInv, ProdType
<1>10. ConsInv
  BY <1>1, <1>4, <1>6 DEF ConsInv, ConsType, Dead
<1>11. LiveInv
  <2>1. Constructed = {}
    BY DEF Constructed
  <2>2. \A b \in Block : /\ Slots(block[b]) = {}
                         /\ \A i \in 0..(block[b].size - 1) :
                              block[b].data[i] = Dead
    BY <1>1, <1>2, <1>3
  <2> QED BY <2>1, <2>2 DEF LiveInv
<1> QED BY <1>5, <1>8, <1>9, <1>10, <1>11 DEF IInv

(***************************************************************************)
(* Steps that leave the blocks alone.                                      *)
(***************************************************************************)
LEMMA ProdLocalInv ==
  ASSUME IInv,
         Enqueue \/ TestNextBlock \/ Refuse
  PROVE  IInv'
<1> USE DEF IInv
<1>1. UNCHANGED <<block, frontBlock, tailBlock, largest, cons, got>>
  BY DEF Enqueue, TestNextBlock, Refuse
<1>2. /\ prod.pc \in {"idle", "full", "alloc"}
      /\ prod'.pc \in {"idle", "reload", "write", "reuse", "alloc"}
  BY DEF Enqueue, TestNextBlock, Refuse, ProdInv, ProdType
<1>3. Allocated' = Allocated /\ Linked' = Linked /\ Pending' = Pending /\ Busy' = Busy
  BY <1>1, <1>2 DEF Allocated, Linked, Pending, Busy
<1>4. sent' \in 0..LastItem
  BY QueueAssumption DEF Enqueue, TestNextBlock, Refuse, BlocksOK
<1>5. BlocksOK'
  BY <1>1, <1>3, <1>4 DEF BlocksOK
<1>6. RingInv'
  BY <1>1, <1>3 DEF RingInv
<1>7. ConsInv'
  BY <1>1, <1>3 DEF ConsInv, Empty
<1>8. LiveInv'
  <2>1. Constructed' = Constructed /\ Destroyed' = Destroyed
    BY <1>1, <1>2 DEF Constructed, Destroyed
  <2> QED BY <1>1, <2>1 DEF LiveInv
<1>9. ProdInv'
  <2>1. CASE Enqueue
    <3> DEFINE r == block[tailBlock]
    <3>1. /\ tailBlock \in Block /\ tailBlock \in Allocated /\ Good(r)
          /\ sent \in Nat
      BY DEF BlocksOK, Allocated
    <3>2. r.tail \in Nat /\ r.tail < r.size
      BY <3>1, SizeNat DEF Good, IndexesOK
    <3>3. /\ prod'.b = tailBlock /\ prod'.slot = r.tail /\ sent' = sent + 1
          /\ prod'.pc = IF After(r.size, r.tail) # r.localFront
                        THEN "write" ELSE "reload"
          /\ prod' \in ProdType
      BY <2>1, <3>1, <3>2 DEF Enqueue, NextSlot, After, ProdType
    <3> HIDE DEF r
    <3> QED BY <1>1, <1>3, <3>1, <3>2, <3>3 DEF ProdInv, r
  <2>2. CASE TestNextBlock
    BY <1>1, <1>3, <2>2 DEF TestNextBlock, ProdInv, ProdType
  <2>3. CASE Refuse
    BY <1>1, <1>3, <2>3 DEF Refuse, ProdInv, ProdType
  <2> QED BY <2>1, <2>2, <2>3
<1> QED BY <1>5, <1>6, <1>7, <1>8, <1>9

LEMMA ConsLocalInv ==
  ASSUME IInv,
         \/ \E op \in Ops : Begin(op)
         \/ TestTailBlock \/ ReadNext \/ ReturnFalse
  PROVE  IInv'
<1> USE DEF IInv
<1>1. UNCHANGED <<block, frontBlock, tailBlock, largest, sent, prod, got>>
  BY DEF Begin, TestTailBlock, ReadNext, ReturnFalse
<1>2. cons.pc # "take" /\ cons'.pc # "take"
  <2>1. ASSUME NEW op \in Ops, Begin(op)
        PROVE  cons.pc # "take" /\ cons'.pc # "take"
    BY <2>1 DEF Begin
  <2> QED BY <2>1 DEF TestTailBlock, ReadNext, ReturnFalse, ConsInv, ConsType
<1>3. Allocated' = Allocated /\ Linked' = Linked /\ Pending' = Pending /\ Busy' = Busy
  BY <1>1 DEF Allocated, Linked, Pending, Busy
<1>5. BlocksOK'
  BY <1>1, <1>3 DEF BlocksOK
<1>6. RingInv'
  BY <1>1, <1>3 DEF RingInv
<1>7. ProdInv'
  BY <1>1, <1>3 DEF ProdInv
<1>8. LiveInv'
  <2>1. Constructed' = Constructed /\ Destroyed' = Destroyed
    BY <1>1, <1>2 DEF Constructed, Destroyed
  <2> QED BY <1>1, <2>1 DEF LiveInv
<1>9. ConsInv'
  <2>1. ASSUME NEW op \in Ops, Begin(op) PROVE ConsInv'
    <3> DEFINE r == block[frontBlock]
    <3>1. frontBlock \in Block /\ frontBlock \in Allocated /\ Good(r)
      BY DEF BlocksOK, Allocated
    <3>2. /\ r.front \in Nat /\ r.front < r.size
          /\ r.front # r.localTail => HasElement(r)
      BY <3>1, SizeNat, ShadowProps DEF Good, IndexesOK
    <3>3. op \in {"dequeue", "pop", "peek"} /\ LastItem \in Nat
      BY QueueAssumption
    <3>4. /\ cons'.b = frontBlock /\ cons'.slot = r.front /\ cons'.had = ~Empty
          /\ cons'.pc = IF r.front # r.localTail THEN "read" ELSE "reload"
          /\ cons'.op = op
          /\ cons' \in ConsType
      BY <2>1, <3>1, <3>2, <3>3 DEF Begin, ConsType, Dead, Empty
    <3>5. Empty' = Empty
      BY <1>1 DEF Empty
    <3>6. frontBlock \in Linked /\ got \in 0..LastItem
      BY DEF RingInv, ConsInv
    <3> HIDE DEF r
    <3> QED BY <1>1, <1>3, <3>1, <3>2, <3>4, <3>5, <3>6 DEF ConsInv, r
  <2>2. CASE TestTailBlock
    BY <1>1, <1>3, <2>2 DEF TestTailBlock, ConsInv, ConsType, Empty
  <2>3. CASE ReadNext
    <3> DEFINE n == block[frontBlock].next
    <3>1. n \in Linked /\ n \in Busy \ {frontBlock}
      BY <2>3 DEF RingInv, ReadNext, ConsInv, BlocksOK, Busy
    <3>2. n \in Allocated /\ n \in Block /\ HasElement(block[n]) /\ Good(block[n])
      BY <3>1 DEF Busy, Allocated, BlocksOK
    <3>3. block[n].front \in Nat /\ block[n].front < block[n].size
      BY <3>2, SizeNat DEF Good, IndexesOK
    <3>4. /\ cons' \in ConsType /\ cons'.pc = "next_tail" /\ cons'.b = n
          /\ cons'.slot = block[n].front
      BY <2>3, <3>2, <3>3 DEF ReadNext, ConsInv, ConsType
    <3> HIDE DEF n
    <3>5. /\ frontBlock # tailBlock /\ ~HasElement(block[frontBlock])
          /\ n = block[frontBlock].next /\ got \in 0..LastItem
      BY <2>3 DEF ReadNext, ConsInv, n
    <3> QED BY <1>1, <1>3, <3>1, <3>2, <3>3, <3>4, <3>5 DEF ConsInv
  <2>4. CASE ReturnFalse
    BY <1>1, <1>3, <2>4 DEF ReturnFalse, ConsInv, ConsType
  <2> QED BY <2>1, <2>2, <2>3, <2>4
<1> QED BY <1>5, <1>6, <1>7, <1>8, <1>9

(***************************************************************************)
(* Steps that change a block.                                              *)
(***************************************************************************)
LEMMA BlockStep ==
  ASSUME BlocksOK, NEW x \in Block, NEW r, Good(r),
         block' = [block EXCEPT ![x] = r],
         r.next = NoBlock <=> block[x].next = NoBlock,
         r.size = block[x].size,
         UNCHANGED <<largest, sent>>,
         frontBlock' \in Allocated, tailBlock' \in Allocated
  PROVE  /\ block'[x] = r
         /\ \A b \in Block : b # x => block'[b] = block[b]
         /\ Allocated' = Allocated
         /\ BlocksOK'
<1>1. block'[x] = r /\ \A b \in Block : b # x => block'[b] = block[b]
  BY DEF BlocksOK
<1>2. Allocated' = Allocated
  BY <1>1 DEF Allocated
<1>3. block' \in [Block -> BlockType]
  BY DEF BlocksOK, Good
<1>4. \A b \in Block : Good(block'[b]) /\ block'[b].size = block[b].size
  BY <1>1 DEF BlocksOK
<1>5. \A b \in Allocated : b \in Block
  BY DEF Allocated
<1> QED BY <1>1, <1>2, <1>3, <1>4, <1>5 DEF BlocksOK

\* What a step that brings a shadow up to date leaves as it is.
ShadowFrame ==
  /\ \A b \in Block :
       /\ block'[b].size = block[b].size
       /\ block'[b].next = block[b].next
       /\ block'[b].front = block[b].front
       /\ block'[b].tail = block[b].tail
       /\ block'[b].data = block[b].data
       /\ Slots(block'[b]) = Slots(block[b])
       /\ HasElement(block'[b]) <=> HasElement(block[b])
  /\ Allocated' = Allocated /\ Linked' = Linked /\ Busy' = Busy

\* A shadow is brought up to date.
LEMMA ShadowStep ==
  ASSUME BlocksOK, RingInv, NEW x \in Block, NEW r,
         \/ r = [block[x] EXCEPT !.localFront = block[x].front]
         \/ r = [block[x] EXCEPT !.localTail = block[x].tail],
         block' = [block EXCEPT ![x] = r],
         UNCHANGED <<largest, sent, frontBlock, tailBlock>>,
         Linked' = IF prod.pc = "link" THEN Allocated' \ {prod.b} ELSE Allocated',
         Pending' = Pending
  PROVE  /\ BlocksOK' /\ RingInv'
         /\ block'[x] = r
         /\ \A b \in Block : b # x => block'[b] = block[b]
         /\ ShadowFrame
<1> DEFINE o == block[x]
<1>1. Good(o) /\ o \in BlockType
  BY DEF BlocksOK, Good
<1>2. /\ r.size = o.size /\ r.next = o.next /\ r.front = o.front
      /\ r.tail = o.tail /\ r.data = o.data
      /\ r.localFront \in {o.localFront, o.front}
      /\ r.localTail \in {o.localTail, o.tail}
      /\ r \in BlockType
  BY <1>1 DEF BlockType
<1> HIDE DEF o
<1>3. /\ o.size \in Nat \ {0} /\ o.front \in 0..(o.size - 1)
      /\ o.tail \in 0..(o.size - 1)
      /\ o.localFront \in 0..(o.size - 1) /\ o.localTail \in 0..(o.size - 1)
  BY <1>1, SizeNat DEF Good, IndexesOK
<1>4. Gap(o.size, o.front, o.front) = 0 /\ Gap(o.size, o.front, o.tail) \in Nat
  BY <1>3, GapProps
<1>5. Good(r)
  BY <1>1, <1>2, <1>3, <1>4 DEF Good, IndexesOK, ShadowsOK
<1>6. /\ block'[x] = r
      /\ \A b \in Block : b # x => block'[b] = block[b]
      /\ Allocated' = Allocated
      /\ BlocksOK'
  <2>1. frontBlock' \in Allocated /\ tailBlock' \in Allocated
    BY DEF BlocksOK
  <2> QED BY <1>2, <1>5, <2>1, BlockStep DEF o
<1>7. \A b \in Block :
        /\ block'[b].size = block[b].size
        /\ block'[b].next = block[b].next
        /\ block'[b].front = block[b].front
        /\ block'[b].tail = block[b].tail
        /\ block'[b].data = block[b].data
  BY <1>2, <1>6 DEF o
<1>8. \A b \in Block :
        /\ Slots(block'[b]) = Slots(block[b])
        /\ HasElement(block'[b]) <=> HasElement(block[b])
  BY <1>7 DEF Slots, HasElement
<1>9. Linked' = Linked /\ Busy' = Busy
  <2>1. \A b \in Allocated : b \in Block
    BY DEF Allocated
  <2>2. Linked' = Linked
    BY <1>6 DEF Linked
  <2>3. Busy' = {frontBlock'} \union {b \in Allocated' \ Pending' : HasElement(block'[b])}
    BY DEF Busy
  <2> QED BY <1>6, <1>8, <2>1, <2>2, <2>3 DEF Busy
<1>10. RingInv'
  <2>1. \A b \in Allocated : b \in Block
    BY DEF Allocated
  <2>2. Linked \subseteq Allocated
    BY DEF Linked
  <2> QED BY <1>6, <1>7, <1>9, <2>1, <2>2 DEF RingInv
<1> QED BY <1>6, <1>7, <1>8, <1>9, <1>10 DEF ShadowFrame

LEMMA LiveSame ==
  ASSUME LiveInv, Constructed' = Constructed, Destroyed' = Destroyed,
         \A b \in Block : /\ block'[b].size = block[b].size
                          /\ block'[b].data = block[b].data
                          /\ Slots(block'[b]) = Slots(block[b])
  PROVE  LiveInv'
BY DEF LiveInv

LEMMA ReloadFrontInv == IInv /\ ReloadFront => IInv'
<1> SUFFICES ASSUME IInv, ReloadFront PROVE IInv'
  OBVIOUS
<1> USE DEF IInv
<1> DEFINE x == tailBlock
           r == [block[x] EXCEPT !.localFront = block[x].front]
<1>1. /\ x \in Block /\ x \in Allocated /\ Good(block[x])
      /\ block[x] \in BlockType
  BY DEF BlocksOK, Allocated, Good
<1>2. /\ block' = [block EXCEPT ![x] = r] /\ prod.pc = "reload"
      /\ UNCHANGED <<frontBlock, tailBlock, largest, sent, cons, got>>
  BY DEF ReloadFront
<1>3. /\ prod'.b = prod.b /\ prod'.slot = prod.slot /\ prod' \in ProdType
      /\ prod'.pc = IF After(block[x].size, block[x].tail) # block[x].front
                    THEN "write" ELSE "full"
  BY <1>1 DEF ReloadFront, ProdInv, ProdType, NextSlot, After
<1>4. r.localFront = block[x].front /\ r.localTail = block[x].localTail
  BY <1>1 DEF BlockType
<1> HIDE DEF r
<1>5. Pending' = Pending
      /\ Linked' = IF prod.pc = "link" THEN Allocated' \ {prod.b} ELSE Allocated'
  BY <1>2, <1>3 DEF Pending, Linked
<1>6. /\ BlocksOK' /\ RingInv'
      /\ block'[x] = r
      /\ \A b \in Block : b # x => block'[b] = block[b]
      /\ ShadowFrame
  <2>1. r = [block[x] EXCEPT !.localFront = block[x].front]
    BY DEF r
  <2> QED BY <1>1, <1>2, <1>5, <2>1, ShadowStep
<1>7. LiveInv'
  <2>1. Constructed' = Constructed /\ Destroyed' = Destroyed
    BY <1>2, <1>3 DEF Constructed, Destroyed
  <2> QED BY <1>6, <2>1, LiveSame DEF ShadowFrame
<1>8. ProdInv'
  BY <1>1, <1>2, <1>3, <1>4, <1>6 DEF ShadowFrame, ProdInv
<1>9. ConsInv'
  <2>1. \A b \in Block : block'[b].localTail = block[b].localTail
    BY <1>4, <1>6 DEF ShadowFrame
  <2>2. cons.b \in Block /\ frontBlock \in Block
    BY DEF ConsInv, BlocksOK, Allocated
  <2>3. Empty' = Empty
    BY <1>2, <1>6, <2>2 DEF ShadowFrame, Empty
  <2> QED BY <1>2, <1>6, <2>1, <2>2, <2>3 DEF ShadowFrame, ConsInv
<1> QED BY <1>6, <1>7, <1>8, <1>9 DEF ShadowFrame

LEMMA ReuseNextInv == IInv /\ ReuseNext => IInv'
<1> SUFFICES ASSUME IInv, ReuseNext PROVE IInv'
  OBVIOUS
<1> USE DEF IInv
<1> DEFINE x == block[tailBlock].next
           r == [block[x] EXCEPT !.localFront = block[x].front]
<1>1. x \in Linked /\ x \notin Busy /\ prod.pc = "reuse"
  BY DEF ReuseNext, BlocksOK, RingInv, ProdInv
<1>2. /\ x \in Block /\ x \in Allocated /\ Good(block[x])
      /\ block[x] \in BlockType /\ block[x].size >= 2
      /\ ~HasElement(block[x])
  BY <1>1 DEF BlocksOK, Allocated, Good, Linked, Busy, Pending
<1>3. /\ block' = [block EXCEPT ![x] = r]
      /\ prod' = [pc |-> "write", b |-> x, slot |-> block[x].tail]
      /\ UNCHANGED <<frontBlock, tailBlock, largest, sent, cons, got>>
  BY DEF ReuseNext
<1>4. r.localFront = block[x].front /\ r.localTail = block[x].localTail
  BY <1>2 DEF BlockType
<1>5. /\ block[x].tail \in Nat /\ block[x].tail < block[x].size
      /\ After(block[x].size, block[x].tail) # block[x].tail
  BY <1>2, SizeNat, AfterValue DEF Good, IndexesOK
<1> HIDE DEF r, x
<1>6. Pending' = Pending
      /\ Linked' = IF prod.pc = "link" THEN Allocated' \ {prod.b} ELSE Allocated'
  BY <1>1, <1>3 DEF Pending, Linked
<1>7. /\ BlocksOK' /\ RingInv'
      /\ block'[x] = r
      /\ \A b \in Block : b # x => block'[b] = block[b]
      /\ ShadowFrame
  <2>1. r = [block[x] EXCEPT !.localFront = block[x].front]
    BY DEF r
  <2> QED BY <1>2, <1>3, <1>6, <2>1, ShadowStep
<1>8. LiveInv'
  <2>1. Constructed' = Constructed /\ Destroyed' = Destroyed
    BY <1>1, <1>3 DEF Constructed, Destroyed
  <2> QED BY <1>7, <2>1, LiveSame DEF ShadowFrame
<1>9. ProdInv'
  <2>1. tailBlock \in Block /\ x = block'[tailBlock].next
    BY <1>7 DEF ShadowFrame, BlocksOK, Allocated, x
  <2>2. sent >= 1
    BY <1>1 DEF ProdInv
  <2>3. r.front = r.tail /\ r.tail = block[x].tail /\ r.size = block[x].size
        /\ r.localFront = r.tail
    BY <1>2, <1>4, <1>7 DEF ShadowFrame, HasElement
  <2> QED BY <1>1, <1>2, <1>3, <1>5, <1>7, <2>1, <2>2, <2>3
          DEF ShadowFrame, ProdInv, ProdType
<1>10. ConsInv'
  <2>1. \A b \in Block : block'[b].localTail = block[b].localTail
    BY <1>4, <1>7 DEF ShadowFrame
  <2>2. cons.b \in Block /\ frontBlock \in Block
    BY DEF ConsInv, BlocksOK, Allocated
  <2>3. Empty' = Empty
    BY <1>3, <1>7, <2>2 DEF ShadowFrame, Empty
  <2> QED BY <1>3, <1>7, <2>1, <2>2, <2>3 DEF ShadowFrame, ConsInv
<1> QED BY <1>7, <1>8, <1>9, <1>10 DEF ShadowFrame

LEMMA LoadTailInv == IInv /\ (ReloadTail \/ Recheck) => IInv'
<1> SUFFICES ASSUME IInv, NEW at, NEW ifEmpty, LoadTail(at, ifEmpty),
                    \/ at = "reload" /\ ifEmpty = "at_tail"
                    \/ at = "recheck" /\ ifEmpty = "next"
             PROVE IInv'
  BY DEF ReloadTail, Recheck
<1> USE DEF IInv
<1> DEFINE x == frontBlock
           r == [block[x] EXCEPT !.localTail = block[x].tail]
<1>1. /\ x \in Block /\ x \in Allocated /\ Good(block[x])
      /\ block[x] \in BlockType /\ cons.pc = at
      /\ cons.b = x /\ cons.slot = block[x].front
  BY DEF BlocksOK, Allocated, Good, LoadTail, ConsInv
<1>2. /\ block' = [block EXCEPT ![x] = r]
      /\ UNCHANGED <<frontBlock, tailBlock, largest, sent, prod, got>>
  BY DEF LoadTail
<1>3. /\ cons'.b = cons.b /\ cons'.slot = cons.slot /\ cons'.had = cons.had
      /\ cons'.op = cons.op
      /\ cons' \in ConsType
      /\ cons'.pc = IF HasElement(block[x]) THEN "read" ELSE ifEmpty
  BY DEF LoadTail, ConsInv, ConsType, HasElement
<1>4. /\ r.localTail = block[x].tail /\ r.front = block[x].front
      /\ r.localFront = block[x].localFront
  BY <1>1 DEF BlockType
<1> HIDE DEF r, x
<1>5. Pending' = Pending
      /\ Linked' = IF prod.pc = "link" THEN Allocated' \ {prod.b} ELSE Allocated'
  BY <1>2 DEF Pending, Linked
<1>6. /\ BlocksOK' /\ RingInv'
      /\ block'[x] = r
      /\ \A b \in Block : b # x => block'[b] = block[b]
      /\ ShadowFrame
  <2>1. r = [block[x] EXCEPT !.localTail = block[x].tail]
    BY DEF r
  <2> QED BY <1>1, <1>2, <1>5, <2>1, ShadowStep
<1>7. LiveInv'
  <2>1. Constructed' = Constructed /\ Destroyed' = Destroyed
    BY <1>1, <1>2, <1>3 DEF Constructed, Destroyed
  <2> QED BY <1>6, <2>1, LiveSame DEF ShadowFrame
<1>8. ProdInv'
  <2>1. \A b \in Block : block'[b].localFront = block[b].localFront
    BY <1>4, <1>6 DEF ShadowFrame
  <2>2. prod.b \in Block /\ tailBlock \in Block
    BY DEF ProdInv, BlocksOK, Allocated
  <2> QED BY <1>2, <1>6, <2>1, <2>2 DEF ShadowFrame, ProdInv
<1>9. ConsInv'
  <2>1. Empty => ~HasElement(block[x]) /\ frontBlock = tailBlock
    BY DEF Empty, HasElement, x
  <2>2. Empty' = Empty
    BY <1>1, <1>2, <1>6 DEF ShadowFrame, Empty, x
  <2>3. ~Empty /\ ~HasElement(block[x]) => frontBlock # tailBlock
    BY DEF Empty, HasElement, x
  <2>4. x = frontBlock /\ frontBlock \in Linked
    BY DEF x, RingInv
  <2> HIDE DEF x
  <2>5. CASE HasElement(block[x])
    BY <1>1, <1>2, <1>3, <1>4, <1>6, <2>4, <2>5 DEF ShadowFrame, ConsInv, HasElement
  <2>6. CASE ~HasElement(block[x])
    BY <1>1, <1>2, <1>3, <1>6, <2>3, <2>4, <2>6 DEF ShadowFrame, ConsInv
  <2> QED BY <2>5, <2>6
<1> QED BY <1>6, <1>7, <1>8, <1>9 DEF ShadowFrame

\* What a step that writes e in a slot leaves as it is.
DataFrame(x, i, e) ==
  /\ \A b \in Block :
       /\ block'[b].size = block[b].size
       /\ block'[b].next = block[b].next
       /\ block'[b].front = block[b].front
       /\ block'[b].tail = block[b].tail
       /\ block'[b].localFront = block[b].localFront
       /\ block'[b].localTail = block[b].localTail
       /\ Slots(block'[b]) = Slots(block[b])
       /\ HasElement(block'[b]) <=> HasElement(block[b])
       /\ b # x => block'[b].data = block[b].data
  /\ block'[x].data[i] = e
  /\ \A j \in 0..(block[x].size - 1) :
       j # i => block'[x].data[j] = block[x].data[j]
  /\ Allocated' = Allocated /\ Linked' = Linked /\ Busy' = Busy

\* A slot is written, by the producer or by the consumer.
LEMMA DataStep ==
  ASSUME BlocksOK, RingInv, NEW x \in Block, NEW i \in 0..(block[x].size - 1),
         NEW e \in 0..LastItem,
         block' = [block EXCEPT ![x].data[i] = e],
         UNCHANGED <<largest, sent, frontBlock, tailBlock>>,
         Linked' = IF prod.pc = "link" THEN Allocated' \ {prod.b} ELSE Allocated',
         Pending' = Pending
  PROVE  /\ BlocksOK' /\ RingInv'
         /\ DataFrame(x, i, e)
<1> DEFINE o == block[x]
           d == [o.data EXCEPT ![i] = e]
           r == [o EXCEPT !.data = d]
<1>1. Good(o) /\ o \in BlockType /\ o.size \in Nat /\ o.size <= MaxSize
  BY SizeNat DEF BlocksOK, Good
<1>2. /\ d \in [0..(MaxSize - 1) -> 0..LastItem] /\ d[i] = e
      /\ \A j \in 0..(o.size - 1) : j # i => d[j] = o.data[j]
  <2>1. i \in 0..(MaxSize - 1)
    BY <1>1, QueueAssumption
  <2>2. \A j \in 0..(o.size - 1) : j \in 0..(MaxSize - 1)
    BY <1>1, QueueAssumption
  <2> QED BY <1>1, <2>1, <2>2 DEF BlockType
<1>3. block' = [block EXCEPT ![x] = r]
  OBVIOUS
<1> HIDE DEF d
<1>4. /\ r.size = o.size /\ r.next = o.next /\ r.front = o.front
      /\ r.tail = o.tail /\ r.localFront = o.localFront
      /\ r.localTail = o.localTail /\ r.data = d
      /\ r \in BlockType
  BY <1>1, <1>2 DEF BlockType
<1> HIDE DEF r, o
<1>5. Good(r)
  BY <1>1, <1>4 DEF Good, IndexesOK, ShadowsOK
<1>6. /\ block'[x] = r
      /\ \A b \in Block : b # x => block'[b] = block[b]
      /\ Allocated' = Allocated
      /\ BlocksOK'
  <2>1. frontBlock' \in Allocated /\ tailBlock' \in Allocated
    BY DEF BlocksOK
  <2> QED BY <1>3, <1>4, <1>5, <2>1, BlockStep DEF o
<1>7. \A b \in Block :
        /\ block'[b].size = block[b].size
        /\ block'[b].next = block[b].next
        /\ block'[b].front = block[b].front
        /\ block'[b].tail = block[b].tail
        /\ block'[b].localFront = block[b].localFront
        /\ block'[b].localTail = block[b].localTail
        /\ b # x => block'[b].data = block[b].data
  BY <1>4, <1>6 DEF o
<1>8. \A b \in Block :
        /\ Slots(block'[b]) = Slots(block[b])
        /\ HasElement(block'[b]) <=> HasElement(block[b])
  BY <1>7 DEF Slots, HasElement
<1>9. Linked' = Linked /\ Busy' = Busy
  <2>1. \A b \in Allocated : b \in Block
    BY DEF Allocated
  <2>2. Linked' = Linked
    BY <1>6 DEF Linked
  <2>3. Busy' = {frontBlock'} \union {b \in Allocated' \ Pending' : HasElement(block'[b])}
    BY DEF Busy
  <2> QED BY <1>6, <1>8, <2>1, <2>2, <2>3 DEF Busy
<1>10. RingInv'
  <2>1. \A b \in Allocated : b \in Block
    BY DEF Allocated
  <2>2. Linked \subseteq Allocated
    BY DEF Linked
  <2> QED BY <1>6, <1>7, <1>9, <2>1, <2>2 DEF RingInv
<1>11. /\ block'[x].data[i] = e
       /\ \A j \in 0..(block[x].size - 1) :
            j # i => block'[x].data[j] = block[x].data[j]
  BY <1>2, <1>4, <1>6 DEF o
<1> QED BY <1>6, <1>7, <1>8, <1>9, <1>10, <1>11 DEF DataFrame

LEMMA WriteInv == IInv /\ Write => IInv'
<1> SUFFICES ASSUME IInv, Write PROVE IInv'
  OBVIOUS
<1> USE DEF IInv
<1> DEFINE x == prod.b
           i == prod.slot
<1>1. /\ x \in Block /\ x \in Allocated /\ Good(block[x])
      /\ prod.pc = "write" /\ i = block[x].tail
      /\ i \in 0..(block[x].size - 1) /\ i \notin Slots(block[x])
      /\ sent \in 0..LastItem /\ sent # Dead
  <2>1. /\ x \in Block /\ x \in Allocated /\ Good(block[x])
        /\ prod.pc = "write" /\ i = block[x].tail
        /\ sent \in 0..LastItem /\ sent >= 1
    BY DEF Write, ProdInv, BlocksOK, Allocated
  <2> QED BY <2>1, ShadowProps, QueueAssumption DEF Good, IndexesOK, Dead
<1>2. /\ block' = [block EXCEPT ![x].data[i] = sent]
      /\ prod' = [prod EXCEPT !.pc = "publish"]
      /\ UNCHANGED <<frontBlock, tailBlock, largest, sent, cons, got>>
  BY DEF Write
<1>3. /\ prod' \in ProdType /\ prod'.pc = "publish" /\ prod'.b = x
      /\ prod'.slot = i
  BY <1>2 DEF ProdInv, ProdType
<1>4. Pending' = Pending
      /\ Linked' = IF prod.pc = "link" THEN Allocated' \ {prod.b} ELSE Allocated'
  BY <1>1, <1>3 DEF Pending, Linked
<1> HIDE DEF x, i
<1>5. /\ BlocksOK' /\ RingInv'
      /\ DataFrame(x, i, sent)
  BY <1>1, <1>2, <1>4, DataStep
<1>6. LiveInv'
  <2>1. Constructed = {} /\ Constructed' = {<<x, i>>} /\ Destroyed' = Destroyed
    BY <1>1, <1>2, <1>3 DEF Constructed, Destroyed
  <2>2. ASSUME NEW b \in Block, NEW j \in 0..(block'[b].size - 1)
        PROVE  block'[b].data[j] # Dead <=>
                 \/ j \in Slots(block'[b]) /\ <<b, j>> \notin Destroyed'
                 \/ <<b, j>> \in Constructed'
    <3>1. j \in 0..(block[b].size - 1)
      BY <1>5 DEF DataFrame
    <3>2. block[b].data[j] # Dead <=>
            j \in Slots(block[b]) /\ <<b, j>> \notin Destroyed
      BY <2>1, <3>1 DEF LiveInv
    <3>3. CASE b = x /\ j = i
      BY <1>1, <1>5, <2>1, <3>3 DEF DataFrame
    <3>4. CASE b # x \/ j # i
      BY <1>5, <2>1, <3>1, <3>2, <3>4 DEF DataFrame
    <3> QED BY <3>3, <3>4
  <2> QED BY <2>2 DEF LiveInv
<1>7. ProdInv'
  BY <1>1, <1>2, <1>3, <1>5 DEF DataFrame, ProdInv, BlocksOK, Allocated
<1>8. ConsInv'
  <2>1. cons.b \in Block /\ frontBlock \in Block
    BY DEF ConsInv, BlocksOK, Allocated
  <2>2. Empty' = Empty
    BY <1>2, <1>5, <2>1 DEF DataFrame, Empty
  <2> QED BY <1>2, <1>5, <2>1, <2>2 DEF DataFrame, ConsInv
<1> QED BY <1>5, <1>6, <1>7, <1>8

LEMMA ReadInv == IInv /\ Read => IInv'
<1> SUFFICES ASSUME IInv, Read PROVE IInv'
  OBVIOUS
<1> USE DEF IInv
<1> DEFINE x == cons.b
           i == cons.slot
           item == block[x].data[i]
<1>1. /\ x \in Block /\ x \in Allocated /\ Good(block[x])
      /\ cons.pc = "read" /\ i = block[x].front
      /\ i \in 0..(block[x].size - 1) /\ i \in Slots(block[x])
      /\ block[x].tail # i
      /\ item \in 0..LastItem
  <2>1. /\ x \in Block /\ x \in Allocated /\ Good(block[x])
        /\ cons.pc = "read" /\ i = block[x].front /\ HasElement(block[x])
        /\ block[x] \in BlockType
    BY DEF Read, ConsInv, BlocksOK, Allocated, Good
  <2>2. i \in 0..(block[x].size - 1) /\ i \in Slots(block[x])
    BY <2>1, ShadowProps DEF Good, IndexesOK
  <2>3. i \in 0..(MaxSize - 1)
    BY <2>1, <2>2, SizeNat, QueueAssumption
  <2>4. item \in 0..LastItem
    BY <2>1, <2>3 DEF BlockType
  <2> QED BY <2>1, <2>2, <2>4 DEF HasElement
<1>2. CASE cons.op = "peek"
  <2>1. /\ got' = item /\ cons' = [cons EXCEPT !.pc = "idle"]
        /\ UNCHANGED <<block, frontBlock, tailBlock, largest, sent, prod>>
    BY <1>2 DEF Read
  <2>2. cons' \in ConsType /\ cons'.pc = "idle" /\ cons'.b = x /\ cons'.slot = i
    BY <2>1 DEF ConsInv, ConsType
  <2>3. /\ Allocated' = Allocated /\ Linked' = Linked /\ Pending' = Pending
        /\ Busy' = Busy
    BY <2>1 DEF Allocated, Linked, Pending, Busy
  <2>4. BlocksOK' /\ RingInv' /\ ProdInv'
    BY <2>1, <2>3 DEF BlocksOK, RingInv, ProdInv
  <2>5. LiveInv'
    <3>1. Constructed' = Constructed /\ Destroyed' = Destroyed
      BY <1>1, <2>1, <2>2 DEF Constructed, Destroyed
    <3> QED BY <2>1, <3>1 DEF LiveInv
  <2>6. ConsInv'
    BY <1>1, <2>1, <2>2, <2>3 DEF ConsInv
  <2> QED BY <2>4, <2>5, <2>6
<1>3. CASE cons.op # "peek"
  <2>1. /\ block' = [block EXCEPT ![x].data[i] = Dead]
        /\ cons' = [cons EXCEPT !.pc = "take", !.item = item]
        /\ UNCHANGED <<frontBlock, tailBlock, largest, sent, prod, got>>
    BY <1>3 DEF Read
  <2>2. /\ cons' \in ConsType /\ cons'.pc = "take" /\ cons'.b = x
        /\ cons'.slot = i /\ cons'.op = cons.op
    BY <1>1, <2>1 DEF ConsInv, ConsType
  <2>3. Pending' = Pending
        /\ Linked' = IF prod.pc = "link" THEN Allocated' \ {prod.b} ELSE Allocated'
    BY <2>1 DEF Pending, Linked
  <2>4. Dead \in 0..LastItem
    BY QueueAssumption DEF Dead
  <2> HIDE DEF x, i, item
  <2>5. /\ BlocksOK' /\ RingInv'
        /\ DataFrame(x, i, Dead)
    BY <1>1, <2>1, <2>3, <2>4, DataStep
  <2>6. ProdInv'
    BY <2>1, <2>5 DEF DataFrame, ProdInv, BlocksOK, Allocated
  <2>7. ConsInv'
    BY <1>1, <1>3, <2>1, <2>2, <2>5 DEF DataFrame, ConsInv, x, i
  <2>8. LiveInv'
    <3>1. /\ Destroyed = {} /\ Destroyed' = {<<x, i>>}
          /\ Constructed' = Constructed
      BY <1>1, <2>1, <2>2 DEF Constructed, Destroyed
    <3>2. <<x, i>> \notin Constructed
      BY <1>1 DEF Constructed, ProdInv
    <3>3. ASSUME NEW b \in Block, NEW j \in 0..(block'[b].size - 1)
          PROVE  block'[b].data[j] # Dead <=>
                   \/ j \in Slots(block'[b]) /\ <<b, j>> \notin Destroyed'
                   \/ <<b, j>> \in Constructed'
      <4>1. j \in 0..(block[b].size - 1)
        BY <2>5 DEF DataFrame
      <4>2. block[b].data[j] # Dead <=>
              j \in Slots(block[b]) \/ <<b, j>> \in Constructed
        BY <3>1, <4>1 DEF LiveInv
      <4>3. CASE b = x /\ j = i
        BY <1>1, <2>5, <3>1, <3>2, <4>3 DEF DataFrame
      <4>4. CASE b # x \/ j # i
        BY <2>5, <3>1, <4>1, <4>2, <4>4 DEF DataFrame
      <4> QED BY <4>3, <4>4
    <3> QED BY <3>3 DEF LiveInv
  <2> QED BY <2>5, <2>6, <2>7, <2>8
<1> QED BY <1>2, <1>3

LEMMA AllocatedBlocks ==
  ASSUME BlocksOK
  PROVE  /\ \A b \in Allocated : b \in Block
         /\ frontBlock \in Block /\ tailBlock \in Block
  BY DEF BlocksOK, Allocated

LEMMA PublishInv == IInv /\ Publish => IInv'
<1> SUFFICES ASSUME IInv, Publish PROVE IInv'
  OBVIOUS
<1> USE DEF IInv
<1> DEFINE x == prod.b
           i == prod.slot
           r == [block[x] EXCEPT !.tail = After(block[x].size, block[x].tail)]
<1>1. /\ x \in Block /\ x \in Allocated /\ Good(block[x])
      /\ block[x] \in BlockType
      /\ prod.pc = "publish" /\ i = block[x].tail
      /\ After(block[x].size, block[x].tail) # block[x].localFront
      /\ x # tailBlock => x = block[tailBlock].next /\ x \notin Busy
  BY DEF Publish, ProdInv, BlocksOK, Allocated, Good
<1>2. /\ block' = [block EXCEPT ![x] = r]
      /\ UNCHANGED <<frontBlock, tailBlock, largest, sent, cons, got>>
  BY <1>1 DEF Publish, NextSlot, After
<1>3. /\ prod' \in ProdType /\ prod'.b = x /\ prod'.slot = i
      /\ prod'.pc = IF x = tailBlock THEN "idle" ELSE "advance"
  BY DEF Publish, ProdInv, ProdType
<1>4. Good(r) /\ Slots(r) = Slots(block[x]) \union {i} /\ HasElement(r)
  BY <1>1, PutProps
<1>5. /\ r.size = block[x].size /\ r.next = block[x].next
      /\ r.front = block[x].front /\ r.localFront = block[x].localFront
      /\ r.localTail = block[x].localTail /\ r.data = block[x].data
  BY <1>1 DEF BlockType
<1>6. i \notin Slots(block[x]) /\ i < block[x].size
  BY <1>1, ShadowProps, SizeNat DEF Good, IndexesOK
<1> HIDE DEF r, x, i
<1>7. /\ block'[x] = r
      /\ \A b \in Block : b # x => block'[b] = block[b]
      /\ Allocated' = Allocated /\ BlocksOK'
  <2>1. frontBlock' \in Allocated /\ tailBlock' \in Allocated
    BY <1>2 DEF BlocksOK
  <2> QED BY <1>1, <1>2, <1>4, <1>5, <2>1, BlockStep
<1>8. /\ Pending = {} /\ Pending' = {x} \ {tailBlock}
      /\ Linked = Allocated /\ Linked' = Allocated
  BY <1>1, <1>3, <1>7 DEF Pending, Linked
<1>9. Busy' = Busy
  <2>1. Busy' = {frontBlock} \union
                {b \in Allocated \ ({x} \ {tailBlock}) : HasElement(block'[b])}
    BY <1>2, <1>7, <1>8 DEF Busy
  <2>2. Busy = {frontBlock} \union {b \in Allocated : HasElement(block[b])}
    BY <1>8 DEF Busy
  <2>3. CASE x = tailBlock
    <3>1. x \in Busy
      BY <2>3 DEF RingInv
    <3> QED BY <1>1, <1>4, <1>7, <2>1, <2>2, <2>3, <3>1, AllocatedBlocks
  <2>4. CASE x # tailBlock
    BY <1>1, <1>7, <2>1, <2>2, <2>4, AllocatedBlocks
  <2> QED BY <2>3, <2>4
<1>10. \A b \in Block : /\ block'[b].next = block[b].next
                        /\ block'[b].size = block[b].size
                        /\ block'[b].front = block[b].front
                        /\ block'[b].localTail = block[b].localTail
                        /\ block'[b].data = block[b].data
                        /\ HasElement(block[b]) => HasElement(block'[b])
  BY <1>4, <1>5, <1>7
<1>11. RingInv'
  BY <1>1, <1>2, <1>7, <1>8, <1>9, <1>10, AllocatedBlocks DEF RingInv
<1>12. ProdInv'
  <2>1. sent >= 1
    BY <1>1 DEF ProdInv
  <2>2. CASE x = tailBlock
    BY <1>1, <1>2, <1>3, <1>6, <1>7, <1>10, <2>2 DEF ProdInv
  <2>3. CASE x # tailBlock
    <3>1. HasElement(block'[x])
      BY <1>4, <1>7
    <3> QED BY <1>1, <1>2, <1>3, <1>6, <1>7, <1>9, <1>10, <2>1, <2>3, <3>1,
               AllocatedBlocks DEF ProdInv
  <2> QED BY <2>2, <2>3
<1>13. ConsInv'
  <2>1. cons.b \in Block /\ frontBlock \in Block
    BY AllocatedBlocks DEF ConsInv
  <2>2. frontBlock # tailBlock => x # frontBlock
    BY <1>1 DEF Busy
  <2>3. ~HasElement(block[frontBlock]) /\ frontBlock # tailBlock
          => ~HasElement(block'[frontBlock])
    BY <1>7, <2>1, <2>2
  <2>4. Empty' => Empty
    BY <1>2, <1>10, <2>1 DEF Empty, HasElement
  <2> QED BY <1>2, <1>7, <1>8, <1>10, <2>1, <2>3, <2>4 DEF ConsInv
<1>14. LiveInv'
  <2>1. /\ Constructed = {<<x, i>>} /\ Constructed' = {}
        /\ Destroyed' = Destroyed
    BY <1>1, <1>2, <1>3 DEF Constructed, Destroyed, x, i
  <2>2. <<x, i>> \notin Destroyed
    <3>1. cons.pc = "take" => cons.slot \in Slots(block[cons.b])
      BY ShadowProps, AllocatedBlocks DEF ConsInv, BlocksOK
    <3> QED BY <1>6, <3>1 DEF Destroyed
  <2>3. ASSUME NEW b \in Block, NEW j \in 0..(block'[b].size - 1)
        PROVE  block'[b].data[j] # Dead <=>
                 \/ j \in Slots(block'[b]) /\ <<b, j>> \notin Destroyed'
                 \/ <<b, j>> \in Constructed'
    <3>1. j \in 0..(block[b].size - 1)
      BY <1>10
    <3>2. block[b].data[j] # Dead <=>
            \/ j \in Slots(block[b]) /\ <<b, j>> \notin Destroyed
            \/ <<b, j>> \in Constructed
      BY <3>1 DEF LiveInv
    <3>3. CASE b = x
      BY <1>4, <1>7, <1>10, <2>1, <2>2, <3>2, <3>3
    <3>4. CASE b # x
      BY <1>7, <1>10, <2>1, <2>2, <3>2, <3>4
    <3> QED BY <3>3, <3>4
  <2> QED BY <2>3 DEF LiveInv
<1> QED BY <1>7, <1>11, <1>12, <1>13, <1>14

LEMMA TakeInv == IInv /\ Take => IInv'
<1> SUFFICES ASSUME IInv, Take PROVE IInv'
  OBVIOUS
<1> USE DEF IInv
<1> DEFINE x == frontBlock
           i == block[x].front
           r == [block[x] EXCEPT !.front = After(block[x].size, block[x].front)]
<1>1. /\ x \in Block /\ x \in Allocated /\ Good(block[x])
      /\ block[x] \in BlockType
      /\ cons.pc = "take" /\ cons.slot = i /\ cons.b = x
      /\ block[x].front # block[x].localTail /\ HasElement(block[x])
  BY AllocatedBlocks DEF Take, ConsInv, BlocksOK, Good
<1>2. /\ block' = [block EXCEPT ![x] = r]
      /\ UNCHANGED <<frontBlock, tailBlock, largest, sent, prod>>
  BY <1>1 DEF Take, NextSlot, After
<1>3. /\ cons' \in ConsType /\ cons'.b = x /\ cons'.slot = i
      /\ cons'.pc = "idle" /\ got' \in 0..LastItem
  BY <1>1 DEF Take, ConsInv, ConsType
<1>4. Good(r) /\ Slots(r) = Slots(block[x]) \ {i}
  BY <1>1, TakeProps
<1>5. /\ r.size = block[x].size /\ r.next = block[x].next
      /\ r.tail = block[x].tail /\ r.localFront = block[x].localFront
      /\ r.localTail = block[x].localTail /\ r.data = block[x].data
  BY <1>1 DEF BlockType
<1>6. i \in Slots(block[x]) /\ i < block[x].size
  BY <1>1, ShadowProps, SizeNat DEF Good, IndexesOK
<1> HIDE DEF r, x, i
<1>7. /\ block'[x] = r
      /\ \A b \in Block : b # x => block'[b] = block[b]
      /\ Allocated' = Allocated /\ BlocksOK'
  <2>1. frontBlock' \in Allocated /\ tailBlock' \in Allocated
    BY <1>2 DEF BlocksOK
  <2> QED BY <1>1, <1>2, <1>4, <1>5, <2>1, BlockStep
<1>8. Pending' = Pending /\ Linked' = Linked
  BY <1>2, <1>7 DEF Pending, Linked
<1>9. Busy' = Busy
  <2>1. Busy' = {frontBlock} \union
                {b \in Allocated \ Pending : HasElement(block'[b])}
    BY <1>2, <1>7, <1>8 DEF Busy
  <2> QED BY <1>7, <2>1, AllocatedBlocks DEF Busy, x
<1>10. \A b \in Block : /\ block'[b].next = block[b].next
                        /\ block'[b].size = block[b].size
                        /\ block'[b].tail = block[b].tail
                        /\ block'[b].localFront = block[b].localFront
                        /\ block'[b].data = block[b].data
                        /\ b # x => HasElement(block'[b]) = HasElement(block[b])
                        /\ b # x => block'[b].front = block[b].front
  BY <1>5, <1>7
<1>11. RingInv'
  <2>1. Linked \subseteq Allocated
    BY DEF Linked
  <2> QED BY <1>2, <1>7, <1>8, <1>9, <1>10, <2>1, AllocatedBlocks DEF RingInv
<1>12. ProdInv'
  <2>1. x \in Busy /\ prod.b \in Block
    BY AllocatedBlocks DEF Busy, x, ProdInv
  <2> QED BY <1>2, <1>7, <1>9, <1>10, <2>1, AllocatedBlocks DEF ProdInv
<1>13. ConsInv'
  BY <1>1, <1>2, <1>3, <1>6, <1>7, <1>10 DEF ConsInv
<1>14. LiveInv'
  <2>1. /\ Destroyed = {<<x, i>>} /\ Destroyed' = {}
        /\ Constructed' = Constructed
    BY <1>1, <1>2, <1>3 DEF Constructed, Destroyed
  <2>2. <<x, i>> \notin Constructed
    BY <1>1 DEF Constructed, ProdInv, HasElement, i
  <2>3. ASSUME NEW b \in Block, NEW j \in 0..(block'[b].size - 1)
        PROVE  block'[b].data[j] # Dead <=>
                 \/ j \in Slots(block'[b]) /\ <<b, j>> \notin Destroyed'
                 \/ <<b, j>> \in Constructed'
    <3>1. j \in 0..(block[b].size - 1)
      BY <1>10
    <3>2. block[b].data[j] # Dead <=>
            \/ j \in Slots(block[b]) /\ <<b, j>> \notin Destroyed
            \/ <<b, j>> \in Constructed
      BY <3>1 DEF LiveInv
    <3>3. CASE b = x
      BY <1>4, <1>7, <1>10, <2>1, <2>2, <3>2, <3>3
    <3>4. CASE b # x
      BY <1>7, <1>10, <2>1, <2>2, <3>2, <3>4
    <3> QED BY <3>3, <3>4
  <2> QED BY <2>3 DEF LiveInv
<1> QED BY <1>7, <1>11, <1>12, <1>13, <1>14

LEMMA ReadNextTailInv == IInv /\ ReadNextTail => IInv'
<1> SUFFICES ASSUME IInv, ReadNextTail PROVE IInv'
  OBVIOUS
<1> USE DEF IInv
<1> DEFINE x == cons.b
           r == [block[x] EXCEPT !.localTail = block[x].tail]
<1>1. /\ x \in Block /\ x \in Allocated /\ Good(block[x])
      /\ block[x] \in BlockType /\ cons.pc = "next_tail"
      /\ cons.slot = block[x].front /\ HasElement(block[x])
  BY AllocatedBlocks DEF BlocksOK, Good, ReadNextTail, ConsInv
<1>2. UNCHANGED <<frontBlock, tailBlock, largest, sent, prod, got>>
  BY DEF ReadNextTail
<1>3. CASE cons.op = "peek"
  <2>1. /\ block' = block /\ cons' \in ConsType /\ cons'.pc = "read"
        /\ cons'.b = x /\ cons'.slot = cons.slot /\ cons'.op = "peek"
    BY <1>3 DEF ReadNextTail, ConsInv, ConsType
  <2>2. /\ Allocated' = Allocated /\ Linked' = Linked /\ Pending' = Pending
        /\ Busy' = Busy
    BY <1>2, <2>1 DEF Allocated, Linked, Pending, Busy
  <2>3. BlocksOK' /\ RingInv' /\ ProdInv'
    BY <1>2, <2>1, <2>2 DEF BlocksOK, RingInv, ProdInv
  <2>4. LiveInv'
    <3>1. Constructed' = Constructed /\ Destroyed' = Destroyed
      BY <1>1, <1>2, <2>1 DEF Constructed, Destroyed
    <3> QED BY <2>1, <3>1 DEF LiveInv
  <2>5. ConsInv'
    BY <1>1, <1>2, <2>1, <2>2 DEF ConsInv
  <2> QED BY <2>3, <2>4, <2>5
<1>4. CASE cons.op # "peek"
  <2>1. /\ block' = [block EXCEPT ![x] = r]
        /\ cons' \in ConsType /\ cons'.pc = "move"
        /\ cons'.b = x /\ cons'.slot = cons.slot /\ cons'.op # "peek"
    BY <1>4 DEF ReadNextTail, ConsInv, ConsType
  <2>2. /\ r.localTail = block[x].tail /\ r.front = block[x].front
        /\ r.localFront = block[x].localFront
    BY <1>1 DEF BlockType
  <2> HIDE DEF r, x
  <2>3. Pending' = Pending
        /\ Linked' = IF prod.pc = "link" THEN Allocated' \ {prod.b} ELSE Allocated'
    BY <1>2 DEF Pending, Linked
  <2>4. /\ BlocksOK' /\ RingInv'
        /\ block'[x] = r
        /\ \A b \in Block : b # x => block'[b] = block[b]
        /\ ShadowFrame
    <3>1. r = [block[x] EXCEPT !.localTail = block[x].tail]
      BY DEF r
    <3> QED BY <1>1, <1>2, <2>1, <2>3, <3>1, ShadowStep
  <2>5. LiveInv'
    <3>1. Constructed' = Constructed /\ Destroyed' = Destroyed
      BY <1>1, <1>2, <2>1 DEF Constructed, Destroyed
    <3> QED BY <2>4, <3>1, LiveSame DEF ShadowFrame
  <2>6. ProdInv'
    <3>1. \A b \in Block : block'[b].localFront = block[b].localFront
      BY <2>2, <2>4
    <3>2. prod.b \in Block /\ tailBlock \in Block
      BY AllocatedBlocks DEF ProdInv
    <3> QED BY <1>2, <2>4, <3>1, <3>2 DEF ProdInv, ShadowFrame
  <2>7. ConsInv'
    BY <1>1, <1>2, <2>1, <2>2, <2>4, AllocatedBlocks
       DEF ConsInv, HasElement, ShadowFrame, x
  <2> QED BY <2>4, <2>5, <2>6, <2>7
<1> QED BY <1>3, <1>4

LEMMA MoveFrontInv == IInv /\ MoveFront => IInv'
<1> SUFFICES ASSUME IInv, MoveFront PROVE IInv'
  OBVIOUS
<1> USE DEF IInv
<1> DEFINE f == frontBlock
           n == cons.b
<1>1. /\ n = block[f].next /\ f # tailBlock /\ ~HasElement(block[f])
      /\ HasElement(block[n]) /\ n \in Linked /\ n \in Allocated
      /\ f \in Allocated /\ cons.pc = "move"
  BY DEF MoveFront, ConsInv, BlocksOK, Linked
<1>2. /\ frontBlock' = n /\ cons' \in ConsType /\ cons'.pc = "read"
      /\ cons'.b = n /\ cons'.slot = cons.slot /\ cons'.op = cons.op
      /\ UNCHANGED <<block, tailBlock, largest, sent, prod, got>>
  BY DEF MoveFront, ConsInv, ConsType
<1>3. Allocated' = Allocated /\ Pending' = Pending /\ Linked' = Linked
  BY <1>2 DEF Allocated, Pending, Linked
<1>4. f \in Busy \ {tailBlock} /\ n \in Busy \ {f} /\ f \in Linked
  BY <1>1 DEF RingInv, Busy
<1>5. Busy' = Busy \ {f}
  BY <1>1, <1>2, <1>3, <1>4 DEF Busy
<1>6. BlocksOK'
  BY <1>1, <1>2, <1>3 DEF BlocksOK
<1> HIDE DEF f, n
<1>7. RingInv'
  <2>1. /\ \A b \in Allocated : block[b].next \in Linked
        /\ \A b, c \in Linked : block[b].next = block[c].next => b = c
        /\ \A b \in Allocated :
             block[b].next \in Busy \ {f} <=> b \in Busy \ {tailBlock}
        /\ tailBlock \in Busy \ Pending
    BY DEF RingInv, f
  <2>2. ASSUME NEW b \in Allocated
        PROVE  block[b].next \in (Busy \ {f}) \ {n}
                 <=> b \in (Busy \ {f}) \ {tailBlock}
    <3>1. CASE b = f
      BY <1>1, <3>1
    <3>2. CASE b # f /\ b \in Linked
      <4>1. block[b].next # n
        BY <1>1, <1>4, <2>1, <3>2
      <4> QED BY <2>1, <3>2, <4>1
    <3>3. CASE b # f /\ b \notin Linked
      <4>1. /\ prod.pc = "link" /\ b = prod.b
            /\ block[b].next = block[tailBlock].next
        BY <3>3 DEF Linked, ProdInv
      <4>2. tailBlock \in Linked
        BY <2>1, AllocatedBlocks DEF Linked, Pending, BlocksOK
      <4>3. block[b].next # n
        BY <1>1, <1>4, <2>1, <4>1, <4>2
      <4> QED BY <2>1, <3>3, <4>3
    <3> QED BY <3>1, <3>2, <3>3
  <2>3. tailBlock \in (Busy \ {f}) \ Pending
    BY <1>1, <2>1
  <2> QED BY <1>1, <1>2, <1>3, <1>5, <2>1, <2>2, <2>3 DEF RingInv
<1>8. ProdInv'
  <2>1. prod.pc = "reuse" => block[tailBlock].next # n
    <3>1. CASE prod.pc = "reuse"
      <4>1. tailBlock \in Linked
        BY <3>1 DEF Linked, BlocksOK
      <4> QED BY <1>1, <1>4, <4>1 DEF RingInv
    <3> QED BY <3>1
  <2> QED BY <1>2, <1>3, <1>5, <2>1 DEF ProdInv
<1>9. ConsInv'
  <2>1. cons.slot = block[n].front /\ cons.slot < block[n].size
        /\ got \in 0..LastItem
        /\ block[n].front # block[n].localTail
    BY <1>1 DEF ConsInv, n
  <2> QED BY <1>1, <1>2, <1>3, <2>1 DEF ConsInv
<1>10. LiveInv'
  <2>1. Constructed' = Constructed /\ Destroyed' = Destroyed
    BY <1>1, <1>2 DEF Constructed, Destroyed
  <2> QED BY <1>2, <2>1 DEF LiveInv
<1> QED BY <1>6, <1>7, <1>8, <1>9, <1>10

LEMMA AdvanceInv == IInv /\ Advance => IInv'
<1> SUFFICES ASSUME IInv, Advance PROVE IInv'
  OBVIOUS
<1> USE DEF IInv
<1> DEFINE t == tailBlock
           n == prod.b
<1>1. /\ prod.pc = "advance" /\ n = block[t].next /\ n \notin Busy
      /\ HasElement(block[n]) /\ n \in Allocated /\ n # frontBlock
      /\ t \in Allocated
  BY DEF Advance, ProdInv, BlocksOK, Busy
<1>2. /\ tailBlock' = n /\ prod' \in ProdType /\ prod'.pc = "idle"
      /\ prod'.b = n /\ prod'.slot = prod.slot
      /\ UNCHANGED <<block, frontBlock, largest, sent, cons, got>>
  BY DEF Advance, ProdInv, ProdType
<1>3. /\ Allocated' = Allocated /\ Pending = {n} /\ Pending' = {}
      /\ Linked = Allocated /\ Linked' = Allocated
  BY <1>1, <1>2 DEF Allocated, Pending, Linked
<1>4. Busy' = Busy \union {n}
  BY <1>1, <1>2, <1>3 DEF Busy
<1>5. BlocksOK'
  BY <1>1, <1>2, <1>3 DEF BlocksOK
<1> HIDE DEF t, n
<1>6. RingInv'
  <2>1. /\ \A b \in Allocated : block[b].next \in Allocated
        /\ \A b, c \in Allocated : block[b].next = block[c].next => b = c
        /\ \A b \in Allocated :
             block[b].next \in Busy \ {frontBlock} <=> b \in Busy \ {t}
        /\ t \in Busy /\ frontBlock \in Allocated
    BY <1>3 DEF RingInv, t
  <2>2. ASSUME NEW b \in Allocated
        PROVE  block[b].next \in (Busy \union {n}) \ {frontBlock}
                 <=> b \in (Busy \union {n}) \ {n}
    <3>1. CASE b = t
      BY <1>1, <2>1, <3>1
    <3>2. CASE b # t
      <4>1. block[b].next # n
        BY <1>1, <2>1, <3>2
      <4> QED BY <1>1, <2>1, <3>2, <4>1
    <3> QED BY <3>1, <3>2
  <2> QED BY <1>2, <1>3, <1>4, <2>1, <2>2 DEF RingInv
<1>7. ProdInv'
  <2>1. prod.slot < block[n].size
    BY DEF ProdInv, n
  <2> QED BY <1>1, <1>2, <1>3, <2>1 DEF ProdInv
<1>8. ConsInv'
  <2>1. Empty' => Empty
    BY <1>1, <1>2 DEF Empty
  <2>2. frontBlock # tailBlock'
    BY <1>1, <1>2
  <2> QED BY <1>2, <1>3, <2>1, <2>2 DEF ConsInv
<1>9. LiveInv'
  <2>1. Constructed' = Constructed /\ Destroyed' = Destroyed
    BY <1>1, <1>2 DEF Constructed, Destroyed
  <2> QED BY <1>2, <2>1 DEF LiveInv
<1> QED BY <1>5, <1>6, <1>7, <1>8, <1>9

LEMMA LinkInv == IInv /\ Link => IInv'
<1> SUFFICES ASSUME IInv, Link PROVE IInv'
  OBVIOUS
<1> USE DEF IInv
<1> DEFINE t == tailBlock
           n == prod.b
           r == [block[t] EXCEPT !.next = n]
<1>1. /\ prod.pc = "link" /\ n \in Allocated /\ n \notin Busy
      /\ HasElement(block[n]) /\ block[n].next = block[t].next
      /\ t \in Allocated /\ n # frontBlock /\ n # t
      /\ Good(block[t]) /\ block[t] \in BlockType
      /\ n \in Block /\ t \in Block
  BY AllocatedBlocks
     DEF Link, ProdInv, BlocksOK, Busy, RingInv, Pending, Good
<1>2. /\ block' = [block EXCEPT ![t] = r]
      /\ prod' \in ProdType /\ prod'.pc = "advance"
      /\ prod'.b = n /\ prod'.slot = prod.slot
      /\ UNCHANGED <<frontBlock, tailBlock, largest, sent, cons, got>>
  BY DEF Link, ProdInv, ProdType
<1>3. /\ r.size = block[t].size /\ r.next = n /\ r.front = block[t].front
      /\ r.tail = block[t].tail /\ r.localFront = block[t].localFront
      /\ r.localTail = block[t].localTail /\ r.data = block[t].data
      /\ r \in BlockType
  BY <1>1 DEF BlockType
<1> HIDE DEF r, t, n
<1>4. Good(r)
  BY <1>1, <1>3 DEF Good, IndexesOK, ShadowsOK
<1>5. /\ block'[t] = r
      /\ \A b \in Block : b # t => block'[b] = block[b]
      /\ Allocated' = Allocated /\ BlocksOK'
  <2>1. frontBlock' \in Allocated /\ tailBlock' \in Allocated
    BY <1>2 DEF BlocksOK
  <2>2. r.next = NoBlock <=> block[t].next = NoBlock
    BY <1>1, <1>3, QueueAssumption DEF Allocated
  <2> QED BY <1>1, <1>2, <1>3, <1>4, <2>1, <2>2, BlockStep
<1>6. \A b \in Block : /\ block'[b].size = block[b].size
                       /\ block'[b].front = block[b].front
                       /\ block'[b].tail = block[b].tail
                       /\ block'[b].localFront = block[b].localFront
                       /\ block'[b].localTail = block[b].localTail
                       /\ block'[b].data = block[b].data
                       /\ Slots(block'[b]) = Slots(block[b])
                       /\ HasElement(block'[b]) = HasElement(block[b])
                       /\ b # t => block'[b].next = block[b].next
  BY <1>3, <1>5 DEF Slots, HasElement
<1>7. /\ Pending = {n} /\ Pending' = {n}
      /\ Linked = Allocated \ {n} /\ Linked' = Allocated
  BY <1>1, <1>2, <1>5 DEF Pending, Linked, n
<1>8. Busy' = Busy
  <2>1. Busy' = {frontBlock} \union {b \in Allocated \ {n} : HasElement(block'[b])}
    BY <1>2, <1>5, <1>7 DEF Busy
  <2> QED BY <1>6, <1>7, <2>1, AllocatedBlocks DEF Busy
<1>9. RingInv'
  <2>1. /\ \A b \in Allocated : block[b].next \in Linked
        /\ \A b, c \in Linked : block[b].next = block[c].next => b = c
        /\ \A b \in Allocated :
             block[b].next \in Busy \ {frontBlock} <=> b \in Busy \ {t}
        /\ t \in Busy \ Pending /\ frontBlock \in Allocated
    BY AllocatedBlocks DEF RingInv, t, BlocksOK
  <2>2. block'[t].next = n /\ \A b \in Allocated \ {t} : block'[b].next = block[b].next
    BY <1>3, <1>5, AllocatedBlocks
  <2>3. \A b \in Allocated : block'[b].next \in Allocated
    BY <1>1, <1>7, <2>1, <2>2
  <2>4. ASSUME NEW b \in Allocated, NEW c \in Allocated,
               block'[b].next = block'[c].next
        PROVE  b = c
    <3>1. \A d \in Allocated \ {t} : block'[d].next # n
      BY <1>7, <2>1, <2>2
    <3>2. CASE b = t \/ c = t
      BY <2>2, <2>4, <3>1, <3>2
    <3>3. CASE b # t /\ c # t
      <4>1. block[b].next = block[c].next
        BY <2>2, <2>4, <3>3
      <4>2. \A d \in Allocated \ {t} : d = n \/ d \in Linked
        BY <1>7
      <4>3. t \in Linked
        BY <1>1, <1>7
      <4> QED BY <1>1, <2>1, <3>3, <4>1, <4>2, <4>3
    <3> QED BY <3>2, <3>3
  <2>5. ASSUME NEW b \in Allocated
        PROVE  block'[b].next \in Busy \ {frontBlock} <=> b \in Busy \ {t}
    BY <1>1, <2>1, <2>2
  <2> QED BY <1>2, <1>5, <1>7, <1>8, <2>1, <2>3, <2>4, <2>5 DEF RingInv, t
<1>10. ProdInv'
  <2>1. prod.slot < block[n].size /\ sent >= 1
    BY <1>1 DEF ProdInv, n
  <2>2. block'[t].next = n
    BY <1>3, <1>5
  <2> QED BY <1>1, <1>2, <1>5, <1>6, <1>8, <2>1, <2>2 DEF ProdInv, t
<1>11. ConsInv'
  <2>1. cons.b \in Block /\ frontBlock \in Block
    BY AllocatedBlocks DEF ConsInv
  <2>2. Empty' = Empty
    BY <1>2, <1>6, <2>1 DEF Empty
  <2>3. frontBlock # tailBlock => block'[frontBlock].next = block[frontBlock].next
    BY <1>6, <2>1 DEF t
  <2>4. Linked \subseteq Linked'
    BY <1>7
  <2> QED BY <1>2, <1>5, <1>6, <2>1, <2>2, <2>3, <2>4 DEF ConsInv
<1>12. LiveInv'
  <2>1. Constructed' = Constructed /\ Destroyed' = Destroyed
    BY <1>1, <1>2 DEF Constructed, Destroyed
  <2> QED BY <1>6, <2>1, LiveSame
<1> QED BY <1>5, <1>9, <1>10, <1>11, <1>12

LEMMA AllocateInv == IInv /\ Allocate => IInv'
<1> SUFFICES ASSUME IInv, Allocate PROVE IInv'
  OBVIOUS
<1> USE DEF IInv
<1> DEFINE size == IF largest >= MaxSize THEN largest ELSE 2 * largest
           t == tailBlock
           r == [NewBlock(size, block[t].next) EXCEPT
                   !.data[0] = sent, !.tail = 1, !.localTail = 1]
<1>1. PICK n \in Block \ Allocated :
        /\ block' = [block EXCEPT ![n] = r]
        /\ prod' = [pc |-> "link", b |-> n, slot |-> 0]
  BY DEF Allocate
<1>2. /\ prod.pc = "alloc" /\ largest' = size
      /\ UNCHANGED <<frontBlock, tailBlock, sent, cons, got>>
      /\ sent \in 1..LastItem /\ LastItem \in Nat
      /\ t \in Block /\ t \in Allocated
      /\ block[t].next \in Allocated /\ block[t].next \in Block
  <2>1. Linked = Allocated
    BY DEF Allocate, Linked
  <2>2. sent \in 0..LastItem /\ sent >= 1 /\ LastItem \in Nat
    BY QueueAssumption DEF Allocate, ProdInv, BlocksOK
  <2> QED BY <2>1, <2>2, AllocatedBlocks
          DEF Allocate, RingInv, BlocksOK
<1>3. size \in Sizes /\ size \in 2..MaxSize /\ MaxSize \in Nat
  <2>1. largest \in Sizes /\ largest \in Nat /\ MaxSize \in Nat
        /\ FirstSize \in Nat /\ FirstSize >= 2
    BY SizesProps, QueueAssumption DEF BlocksOK
  <2>2. size \in Sizes
    BY <2>1, SizesProps
  <2> QED BY <2>1, <2>2, SizesProps
<1> HIDE DEF size
<1>4. /\ r.size = size /\ r.next = block[t].next /\ r.front = 0 /\ r.tail = 1
      /\ r.localFront = 0 /\ r.localTail = 1 /\ r.data[0] = sent
      /\ \A i \in 1..(size - 1) : r.data[i] = Dead
      /\ r \in BlockType
  <2> DEFINE d == [i \in 0..(MaxSize - 1) |-> Dead]
             e == [d EXCEPT ![0] = sent]
  <2>1. /\ e[0] = sent /\ \A i \in 1..(size - 1) : e[i] = Dead
        /\ e \in [0..(MaxSize - 1) -> 0..LastItem]
    BY <1>2, <1>3 DEF Dead
  <2> DEFINE q == NewBlock(size, block[t].next)
             q1 == [q EXCEPT !.data[0] = sent]
             q2 == [q1 EXCEPT !.tail = 1]
  <2>2. q = [size |-> size, front |-> 0, tail |-> 0, localTail |-> 0,
             localFront |-> 0, next |-> block[t].next, data |-> d]
    BY DEF NewBlock
  <2>3. r = [q2 EXCEPT !.localTail = 1]
    OBVIOUS
  <2> HIDE DEF r
  <2> HIDE DEF q
  <2>4. q1 = [size |-> size, front |-> 0, tail |-> 0, localTail |-> 0,
              localFront |-> 0, next |-> block[t].next, data |-> e]
    <3>1. q.data = d
      BY <2>2
    <3>2. [q.data EXCEPT ![0] = sent] = e
      BY <3>1
    <3> HIDE DEF d, e
    <3> QED BY <2>2, <3>2
  <2> HIDE DEF d, e, q1
  <2>8. q2 = [size |-> size, front |-> 0, tail |-> 1, localTail |-> 0,
              localFront |-> 0, next |-> block[t].next, data |-> e]
    BY <2>4
  <2> HIDE DEF q2
  <2>5. r = [size |-> size, front |-> 0, tail |-> 1, localTail |-> 1,
             localFront |-> 0, next |-> block[t].next, data |-> e]
    BY <2>3, <2>8
  <2>6. block[t].next \in Block \cup {NoBlock} /\ size \in 1..MaxSize
    BY <1>2, <1>3
  <2>7. 0 \in 0..(MaxSize - 1) /\ 1 \in 0..(MaxSize - 1)
    BY <1>3
  <2> QED BY <2>1, <2>5, <2>6, <2>7 DEF BlockType
<1> HIDE DEF r, t
<1>5. /\ Gap(size, 0, 0) = 0 /\ Gap(size, 0, 1) = 1
      /\ \A i \in 0..(size - 1) : Gap(size, 0, i) = i
  <2>1. \A i \in 0..(size - 1) : Gap(size, 0, i) = i
    <3> TAKE i \in 0..(size - 1)
    <3>1. size \in Nat \ {0} /\ 0 \in 0..(size - 1)
      BY <1>3
    <3>2. Gap(size, 0, i) = IF 0 <= i THEN i - 0 ELSE i + size - 0
      BY <3>1, GapValue
    <3> QED BY <1>3, <3>2
  <2> QED BY <1>3, <2>1
<1>6. Good(r) /\ Slots(r) = {0} /\ HasElement(r)
  <2>1. Good(r)
    BY <1>3, <1>4, <1>5 DEF Good, IndexesOK, ShadowsOK
  <2>2. Slots(r) = {i \in 0..(size - 1) : i < 1}
    BY <1>4, <1>5 DEF Slots
  <2>3. Slots(r) = {0}
    BY <1>3, <2>2
  <2> QED BY <1>4, <2>1, <2>3 DEF HasElement
<1>7. /\ block'[n] = r
      /\ \A b \in Block : b # n => block'[b] = block[b]
      /\ block' \in [Block -> BlockType]
  BY <1>1, <1>4 DEF BlocksOK
<1>8. Allocated' = Allocated \union {n} /\ n \notin Allocated /\ n \in Block
  <2>1. r.next # NoBlock
    BY <1>2, <1>4, QueueAssumption
  <2> QED BY <1>1, <1>7, <2>1 DEF Allocated
<1>9. BlocksOK'
  BY <1>2, <1>3, <1>4, <1>6, <1>7, <1>8, AllocatedBlocks DEF BlocksOK
<1>10. /\ Pending = {} /\ Pending' = {n}
       /\ Linked = Allocated /\ Linked' = Allocated
  BY <1>1, <1>2, <1>8 DEF Pending, Linked
<1>11. Busy' = Busy
  <2>1. Busy' = {frontBlock} \union
                {b \in (Allocated \union {n}) \ {n} : HasElement(block'[b])}
    BY <1>2, <1>8, <1>10 DEF Busy
  <2>2. \A b \in Allocated : block'[b] = block[b]
    BY <1>7, <1>8, AllocatedBlocks
  <2> QED BY <1>8, <1>10, <2>1, <2>2 DEF Busy
<1>12. RingInv'
  <2>1. /\ \A b \in Allocated : block[b].next \in Allocated
        /\ \A b, c \in Allocated : block[b].next = block[c].next => b = c
        /\ \A b \in Allocated :
             block[b].next \in Busy \ {frontBlock} <=> b \in Busy \ {t}
        /\ t \in Busy /\ frontBlock \in Allocated
    BY <1>10 DEF RingInv, t
  <2>2. block'[n].next = block[t].next
        /\ \A b \in Allocated : block'[b].next = block[b].next
    BY <1>4, <1>7, <1>8, AllocatedBlocks
  <2>3. n \notin Busy
    BY <1>8, <2>1 DEF Busy
  <2>4. ASSUME NEW b \in Allocated \union {n}
        PROVE  block'[b].next \in Busy \ {frontBlock} <=> b \in Busy \ {t}
    <3>1. CASE b = n
      BY <1>2, <2>1, <2>2, <2>3, <3>1
    <3>2. CASE b # n
      BY <2>1, <2>2, <3>2
    <3> QED BY <3>1, <3>2
  <2>5. \A b \in Allocated \union {n} : block'[b].next \in Allocated
    BY <1>2, <2>1, <2>2
  <2>6. \A b, c \in Allocated : block'[b].next = block'[c].next => b = c
    BY <2>1, <2>2
  <2>7. tailBlock' \in Busy' \ Pending'
    BY <1>2, <1>8, <1>10, <1>11, <2>1 DEF t
  <2> QED BY <1>2, <1>8, <1>10, <1>11, <2>1, <2>4, <2>5, <2>6, <2>7
          DEF RingInv, t
<1>13. ProdInv'
  <2>1. n \notin Busy /\ n # t
    BY <1>2, <1>8, AllocatedBlocks DEF Busy, BlocksOK
  <2>2. /\ prod'.pc = "link" /\ prod'.b = n /\ prod'.slot = 0
        /\ prod' \in ProdType
    BY <1>1, <1>8 DEF ProdType
  <2>3. block'[tailBlock].next = block[t].next
    BY <1>2, <1>7, <2>1 DEF t
  <2> QED BY <1>2, <1>3, <1>4, <1>6, <1>7, <1>8, <1>11, <2>1, <2>2, <2>3
          DEF ProdInv
<1>14. ConsInv'
  <2>1. /\ block'[frontBlock] = block[frontBlock]
        /\ block'[cons.b] = block[cons.b]
        /\ Linked' = Linked
    BY <1>7, <1>8, <1>10, AllocatedBlocks DEF ConsInv, BlocksOK
  <2>2. Empty' = Empty
    BY <1>2, <2>1 DEF Empty
  <2> QED BY <1>2, <1>8, <2>1, <2>2 DEF ConsInv
<1>15. LiveInv'
  <2>1. /\ Constructed = {} /\ Constructed' = {} /\ Destroyed' = Destroyed
    BY <1>1, <1>2 DEF Constructed, Destroyed
  <2>2. \A j : <<n, j>> \notin Destroyed
    BY <1>8 DEF Destroyed, ConsInv
  <2>3. ASSUME NEW b \in Block, NEW j \in 0..(block'[b].size - 1)
        PROVE  block'[b].data[j] # Dead <=>
                 \/ j \in Slots(block'[b]) /\ <<b, j>> \notin Destroyed'
                 \/ <<b, j>> \in Constructed'
    <3>1. CASE b = n
      <4>1. j \in 0..(size - 1)
        BY <1>4, <1>7, <3>1
      <4>2. r.data[j] # Dead <=> j \in {0}
        BY <1>2, <1>3, <1>4, <4>1 DEF Dead
      <4> QED BY <1>6, <1>7, <2>1, <2>2, <3>1, <4>2
    <3>2. CASE b # n
      <4>1. block'[b] = block[b]
        BY <1>7, <3>2
      <4>2. block[b].data[j] # Dead <=>
              \/ j \in Slots(block[b]) /\ <<b, j>> \notin Destroyed
              \/ <<b, j>> \in Constructed
        BY <4>1 DEF LiveInv
      <4> QED BY <2>1, <4>1, <4>2
    <3> QED BY <3>1, <3>2
  <2> QED BY <2>3 DEF LiveInv
<1> QED BY <1>9, <1>12, <1>13, <1>14, <1>15

-----------------------------------------------------------------------------
LEMMA StepInv == IInv /\ [Next]_vars => IInv'
<1> SUFFICES ASSUME IInv, [Next]_vars PROVE IInv'
  OBVIOUS
<1>1. CASE Produce
  BY <1>1, ProdLocalInv, ReloadFrontInv, ReuseNextInv, WriteInv, PublishInv,
     AllocateInv, LinkInv, AdvanceInv DEF Produce
<1>2. CASE Consume
  BY <1>2, ConsLocalInv, LoadTailInv, ReadNextTailInv, MoveFrontInv, ReadInv,
     TakeInv DEF Consume
<1>3. CASE UNCHANGED vars
  <2> USE <1>3 DEF vars, IInv
  <2>1. /\ Allocated' = Allocated /\ Linked' = Linked /\ Pending' = Pending
        /\ Busy' = Busy
    BY DEF Allocated, Linked, Pending, Busy
  <2>2. Constructed' = Constructed /\ Destroyed' = Destroyed
    BY DEF Constructed, Destroyed
  <2>3. BlocksOK' /\ RingInv' /\ ProdInv'
    BY <2>1 DEF BlocksOK, RingInv, ProdInv
  <2>4. ConsInv' /\ LiveInv'
    BY <2>1, <2>2 DEF ConsInv, LiveInv, Empty
  <2> QED BY <2>3, <2>4
<1> QED BY <1>1, <1>2, <1>3 DEF Next

LEMMA Invariant == Spec => []IInv
BY InitInv, StepInv, PTL DEF Spec

\* What both threads and the destructor rely on holds in every state, with
\* any number of blocks, of any sizes, and whatever is sent.
THEOREM QueueIsSound == Spec => []QueueInv
<1>1. IInv => QueueInv
  <2> SUFFICES ASSUME IInv PROVE QueueInv
    OBVIOUS
  <2> USE DEF IInv
  <2>1. TypeOK
    <3>1. ASSUME NEW b \in Block PROVE BlockOK(block[b])
      <4>1. /\ Good(block[b]) /\ block[b] \in BlockType
            /\ block[b].next # NoBlock => block[b].next \in Allocated
        BY DEF BlocksOK, Good, RingInv, Linked, Allocated
      <4> QED BY <4>1, SizeNat DEF Good, IndexesOK, BlockOK, BlockType
    <3> QED BY <3>1 DEF TypeOK, BlocksOK, ProdInv, ConsInv
  <2>2. LiveExactlyQueued
    BY QueuedSlots DEF LiveInv, LiveExactlyQueued
  <2>3. AssertionsHold
    <3>1. /\ prod.pc = "write" /\ prod.b # tailBlock =>
               block[prod.b].localFront = block[prod.b].tail
          /\ prod.pc = "link" => block[prod.b].front = 0
      BY DEF ProdInv
    <3>2. cons.pc \in {"next_tail", "move", "read"} =>
            /\ block[cons.b].front # block[cons.b].tail
            /\ cons.slot = block[cons.b].front
      BY DEF ConsInv, HasElement
    <3>3. cons.b \in Block /\ Good(block[cons.b])
      BY AllocatedBlocks DEF ConsInv, BlocksOK
    <3>4. cons.pc = "read" => cons.slot \in Queued(cons.b)
      BY <3>2, <3>3, ShadowProps, QueuedSlots DEF HasElement
    <3> QED BY <3>1, <3>2, <3>4 DEF AssertionsHold
  <2> QED BY <2>1, <2>2, <2>3 DEF QueueInv
<1> QED BY <1>1, Invariant, PTL

\* The consumer is told that the queue is empty only if it was as the call
\* began, wherever the producer is meanwhile.
THEOREM MissesNothing == Spec => []NothingMissed
<1>1. IInv => NothingMissed
  BY DEF IInv, ConsInv, NothingMissed
<1> QED BY <1>1, Invariant, PTL

-----------------------------------------------------------------------------
(***************************************************************************)
(* The ring of rings as one queue: ReaderWriterQueueImplements.            *)
(***************************************************************************)
\* What a slot can hold.
Held == 0..LastItem

\* What the blocks hold, and their elements in the order of p.
Fills == [Block -> Seq(Held)]

RowsOf(f, p) == [i \in 1..Len(p) |-> f[p[i]]]

LEMMA RowsOfProps ==
  ASSUME NEW f \in Fills, NEW p \in Seq(Block)
  PROVE  /\ RowsOf(f, p) \in Seq(Seq(Held)) /\ Len(RowsOf(f, p)) = Len(p)
         /\ \A i \in 1..Len(p) : RowsOf(f, p)[i] = f[p[i]]
<1> DEFINE C(i) == f[p[i]]
<1>1. Len(p) \in Nat /\ \A i \in 1..Len(p) : C(i) \in Seq(Held)
  BY DEF Fills
<1>2. RowsOf(f, p) = [i \in 1..Len(p) |-> C(i)]
  BY DEF RowsOf
<1> HIDE DEF C
<1>3. RowsOf(f, p) \in Seq(Seq(Held)) /\ Len(RowsOf(f, p)) = Len(p)
  BY <1>1, <1>2
<1>4. \A i \in 1..Len(p) : RowsOf(f, p)[i] = C(i)
  BY <1>2
<1> QED BY <1>3, <1>4 DEF C

\* The rows of what is longer by one.
LEMMA RowsOfMore ==
  ASSUME NEW f \in Fills, NEW p \in Seq(Block), NEW b \in Block
  PROVE  /\ RowsOf(f, Append(p, b)) = Append(RowsOf(f, p), f[b])
         /\ RowsOf(f, <<b>> \o p) = <<f[b]>> \o RowsOf(f, p)
<1> DEFINE n == Len(p)
           r == RowsOf(f, p)
           a == Append(p, b)
           c == <<b>> \o p
<1>1. /\ n \in Nat /\ r \in Seq(Seq(Held)) /\ Len(r) = n /\ f[b] \in Seq(Held)
      /\ \A i \in 1..n : r[i] = f[p[i]]
  BY RowsOfProps DEF Fills
<1> HIDE DEF r
<1>2. RowsOf(f, a) = Append(r, f[b])
  <2>1. /\ a \in Seq(Block) /\ Len(a) = n + 1 /\ a[n + 1] = b
        /\ \A i \in 1..n : a[i] = p[i]
    BY AppendProperties
  <2>2. /\ Append(r, f[b]) \in Seq(Seq(Held)) /\ Len(Append(r, f[b])) = n + 1
        /\ Append(r, f[b])[n + 1] = f[b]
        /\ \A i \in 1..n : Append(r, f[b])[i] = r[i]
    BY <1>1, AppendProperties
  <2> HIDE DEF a
  <2>3. /\ RowsOf(f, a) \in Seq(Seq(Held)) /\ Len(RowsOf(f, a)) = n + 1
        /\ \A i \in 1..(n + 1) : RowsOf(f, a)[i] = f[a[i]]
    BY <2>1, RowsOfProps
  <2>4. \A i \in 1..(n + 1) : i = n + 1 \/ i \in 1..n
    BY <1>1
  <2>5. \A i \in 1..(n + 1) : RowsOf(f, a)[i] = Append(r, f[b])[i]
    BY <1>1, <2>1, <2>2, <2>3, <2>4
  <2> QED BY <2>2, <2>3, <2>5, SameSeq
<1>3. RowsOf(f, c) = <<f[b]>> \o r
  <2>1. /\ c \in Seq(Block) /\ Len(c) = n + 1 /\ c[1] = b
        /\ \A i \in 2..(n + 1) : c[i] = p[i - 1]
    <3>1. <<b>> \in Seq(Block) /\ Len(<<b>>) = 1 /\ <<b>>[1] = b
      OBVIOUS
    <3> QED BY <1>1, <3>1, ConcatProperties
  <2> DEFINE d == <<f[b]>> \o r
  <2>2. /\ d \in Seq(Seq(Held)) /\ Len(d) = n + 1 /\ d[1] = f[b]
        /\ \A i \in 2..(n + 1) : d[i] = r[i - 1]
    <3> DEFINE u == <<f[b]>>
               T == Seq(Held)
    <3>1. u \in Seq(T) /\ Len(u) = 1 /\ u[1] = f[b] /\ r \in Seq(T)
      BY <1>1
    <3> HIDE DEF u, T
    <3>2. /\ u \o r \in Seq(T) /\ Len(u \o r) = Len(u) + Len(r)
          /\ \A i \in 1..(Len(u) + Len(r)) :
               (u \o r)[i] = IF i <= Len(u) THEN u[i] ELSE r[i - Len(u)]
      BY <3>1, ConcatProperties
    <3> QED BY <1>1, <3>1, <3>2 DEF u, T
  <2> HIDE DEF c, d
  <2>3. /\ RowsOf(f, c) \in Seq(Seq(Held)) /\ Len(RowsOf(f, c)) = n + 1
        /\ \A i \in 1..(n + 1) : RowsOf(f, c)[i] = f[c[i]]
    BY <2>1, RowsOfProps
  <2>4. \A i \in 1..(n + 1) : i = 1 \/ (i \in 2..(n + 1) /\ i - 1 \in 1..n)
    BY <1>1
  <2>5. \A i \in 1..(n + 1) : RowsOf(f, c)[i] = d[i]
    BY <1>1, <2>1, <2>2, <2>3, <2>4
  <2>6. RowsOf(f, c) = d
    BY <2>2, <2>3, <2>5, SameSeq
  <2> QED BY <2>6 DEF d
<1> QED BY <1>2, <1>3 DEF r

LEMMA RowsOfSame ==
  ASSUME NEW p, NEW f, NEW g, \A i \in 1..Len(p) : g[p[i]] = f[p[i]]
  PROVE  RowsOf(g, p) = RowsOf(f, p)
BY DEF RowsOf

\* Joined rows: a row more at the end, an element more in the last one, and
\* the first row without its first element or, if it is empty, left out.
LEMMA JoinMore ==
  ASSUME NEW f \in Fills, NEW g \in Fills, NEW p \in Seq(Block), NEW b \in Block, NEW e \in Held, g[b] = <<e>>,
         \A i \in 1..Len(p) : g[p[i]] = f[p[i]]
  PROVE  FlattenSeq(RowsOf(g, Append(p, b))) = Append(FlattenSeq(RowsOf(f, p)), e)
<1> DEFINE r == RowsOf(f, p)
<1>1. r \in Seq(Seq(Held)) /\ RowsOf(g, Append(p, b)) = Append(r, <<e>>)
  <2>1. r \in Seq(Seq(Held))
    BY RowsOfProps
  <2>2. RowsOf(g, p) = r
    BY RowsOfSame
  <2>3. RowsOf(g, Append(p, b)) = Append(RowsOf(g, p), g[b])
    BY RowsOfMore
  <2> QED BY <2>1, <2>2, <2>3
<1> HIDE DEF r
<1>2. <<e>> \in Seq(Held)
  OBVIOUS
<1>3. FlattenSeq(r) \in Seq(Held) /\ FlattenSeq(Append(r, <<e>>)) = FlattenSeq(r) \o <<e>>
  BY <1>1, <1>2, FlatProps
<1>4. FlattenSeq(r) \o <<e>> = Append(FlattenSeq(r), e)
  BY <1>3
<1> QED BY <1>1, <1>3, <1>4 DEF r

LEMMA JoinLast ==
  ASSUME NEW f \in Fills, NEW g \in Fills, NEW p \in Seq(Block), Len(p) >= 1, NEW e \in Held,
         g[p[Len(p)]] = Append(f[p[Len(p)]], e),
         \A i \in 1..(Len(p) - 1) : g[p[i]] = f[p[i]]
  PROVE  FlattenSeq(RowsOf(g, p)) = Append(FlattenSeq(RowsOf(f, p)), e)
<1> DEFINE b == p[Len(p)]
           s == f[b]
<1>1. PICK q \in Seq(Block) : /\ p = Append(q, b) /\ Len(q) = Len(p) - 1
                          /\ \A i \in 1..(Len(p) - 1) : q[i] = p[i]
  BY LastApart
<1> DEFINE r == RowsOf(f, q)
<1>2. b \in Block /\ s \in Seq(Held) /\ g[b] = Append(s, e)
  <2>1. Len(p) \in 1..Len(p)
    OBVIOUS
  <2> QED BY <2>1 DEF Fills
<1>3. r \in Seq(Seq(Held)) /\ RowsOf(g, q) = r
  <2>1. r \in Seq(Seq(Held))
    BY <1>1, RowsOfProps
  <2>2. \A i \in 1..Len(q) : g[q[i]] = f[q[i]]
    BY <1>1
  <2>3. RowsOf(g, q) = r
    BY <2>2, RowsOfSame
  <2> QED BY <2>1, <2>3
<1>4. RowsOf(f, Append(q, b)) = Append(r, s) /\ RowsOf(g, Append(q, b)) = Append(r, g[b])
  BY <1>2, <1>3, RowsOfMore
<1> HIDE DEF r, s, b
<1>5. Append(s, e) \in Seq(Held)
  BY <1>2
<1>6. /\ FlattenSeq(r) \in Seq(Held)
      /\ FlattenSeq(Append(r, s)) = FlattenSeq(r) \o s
      /\ FlattenSeq(Append(r, Append(s, e))) = FlattenSeq(r) \o Append(s, e)
  BY <1>2, <1>3, <1>5, FlatProps
<1> DEFINE t == FlattenSeq(r)
<1>7. t \in Seq(Held)
  BY <1>6
<1> HIDE DEF t
<1>8. t \o Append(s, e) = Append(t \o s, e)
  BY <1>2, <1>7
<1> QED BY <1>1, <1>2, <1>4, <1>6, <1>8 DEF t

LEMMA JoinFirst ==
  ASSUME NEW f \in Fills, NEW g \in Fills, NEW p \in Seq(Block), Len(p) >= 1, NEW e \in Held,
         f[p[1]] = <<e>> \o g[p[1]],
         \A i \in 2..Len(p) : g[p[i]] = f[p[i]]
  PROVE  FlattenSeq(RowsOf(f, p)) = <<e>> \o FlattenSeq(RowsOf(g, p))
<1> DEFINE q == Tail(p)
           b == p[1]
           r == RowsOf(f, q)
           s == g[b]
<1>1. /\ q \in Seq(Block) /\ Len(q) = Len(p) - 1 /\ p = <<b>> \o q /\ b \in Block
      /\ \A i \in 1..(Len(p) - 1) : q[i] = p[i + 1]
  BY FirstApart
<1>2. s \in Seq(Held) /\ <<e>> \in Seq(Held) /\ f[b] = <<e>> \o s
  <2>1. s \in Seq(Held)
    BY <1>1 DEF Fills
  <2> QED BY <2>1
<1>3. \A i \in 1..Len(q) : g[q[i]] = f[q[i]]
  <2>1. \A i \in 1..Len(q) : i \in 1..(Len(p) - 1) /\ i + 1 \in 2..Len(p)
    BY <1>1
  <2> QED BY <1>1, <2>1
<1> HIDE DEF q, b
<1>4. r \in Seq(Seq(Held)) /\ RowsOf(g, q) = r
  BY <1>1, <1>3, RowsOfProps, RowsOfSame
<1>5. /\ RowsOf(f, <<b>> \o q) = <<f[b]>> \o r
      /\ RowsOf(g, <<b>> \o q) = <<s>> \o r
  BY <1>1, <1>4, RowsOfMore
<1> HIDE DEF r, s
<1>6. <<e>> \o s \in Seq(Held)
  BY <1>2
<1> DEFINE t == FlattenSeq(r)
           u == <<e>>
<1>7. /\ t \in Seq(Held)
      /\ FlattenSeq(<<s>> \o r) = s \o t
      /\ FlattenSeq(<<u \o s>> \o r) = (u \o s) \o t
  BY <1>2, <1>4, <1>6, FlatProps
<1>8. u \in Seq(Held)
  BY <1>2
<1> HIDE DEF t
<1>9. FlattenSeq(RowsOf(f, p)) = (u \o s) \o t /\ FlattenSeq(RowsOf(g, p)) = s \o t
  BY <1>1, <1>2, <1>5, <1>7
<1> HIDE DEF u
<1>10. (u \o s) \o t = u \o (s \o t)
  <2>1. s \in Seq(Held) /\ t \in Seq(Held) /\ u \in Seq(Held)
    BY <1>2, <1>7, <1>8
  <2>2. Regroups(u, s, t)
    BY ONLY <2>1, JoinRegroups
  <2> QED BY ONLY <2>2 DEF Regroups
<1> QED BY <1>9, <1>10 DEF u

LEMMA JoinEmpty ==
  ASSUME NEW f \in Fills, NEW g \in Fills, NEW p \in Seq(Block), Len(p) >= 1, f[p[1]] = <<>>,
         \A i \in 2..Len(p) : g[p[i]] = f[p[i]]
  PROVE  FlattenSeq(RowsOf(g, Tail(p))) = FlattenSeq(RowsOf(f, p))
<1> DEFINE q == Tail(p)
           b == p[1]
           r == RowsOf(f, q)
<1>1. /\ q \in Seq(Block) /\ Len(q) = Len(p) - 1 /\ p = <<b>> \o q /\ b \in Block
      /\ \A i \in 1..(Len(p) - 1) : q[i] = p[i + 1] /\ f[b] = <<>>
  BY FirstApart
<1>2. \A i \in 1..Len(q) : g[q[i]] = f[q[i]]
  <2>1. \A i \in 1..Len(q) : i \in 1..(Len(p) - 1) /\ i + 1 \in 2..Len(p)
    BY <1>1
  <2> QED BY <1>1, <2>1
<1>3. f[b] = <<>>
  OBVIOUS
<1> HIDE DEF q, b
<1>4. r \in Seq(Seq(Held)) /\ RowsOf(g, q) = r
  BY <1>1, <1>2, RowsOfProps, RowsOfSame
<1>5. RowsOf(f, <<b>> \o q) = <<f[b]>> \o r
  BY <1>1, <1>4, RowsOfMore
<1> HIDE DEF r
<1> DEFINE t == FlattenSeq(r)
           u == <<>>
<1>6. u \in Seq(Held)
  OBVIOUS
<1>7. t \in Seq(Held) /\ FlattenSeq(<<u>> \o r) = u \o t
  <2> HIDE DEF u
  <2> QED BY <1>4, <1>6, FlatProps
<1> HIDE DEF t
<1>8. u \o t = t
  BY <1>7
<1>9. RowsOf(f, p) = <<u>> \o r
  BY <1>1, <1>3, <1>5
<1>10. FlattenSeq(RowsOf(f, p)) = t
  BY <1>7, <1>8, <1>9
<1> QED BY <1>4, <1>10 DEF t, q

\* The slot k after i.
SlotAt(s, i, k) == (i + k) % s

LEMMA SlotAtProps ==
  ASSUME NEW s \in Nat \ {0}, NEW i \in 0..(s - 1), NEW k \in 0..(s - 1)
  PROVE  /\ SlotAt(s, i, k) \in 0..(s - 1)
         /\ Gap(s, i, SlotAt(s, i, k)) = k
         /\ SlotAt(s, i, 0) = i
         /\ k + 1 < s => SlotAt(s, After(s, i), k) = SlotAt(s, i, k + 1)
<1>1. ASSUME NEW x \in 0..(s - 1) PROVE x % s = x
  OBVIOUS
<1>2. ASSUME NEW x \in s..(2 * s - 1) PROVE x % s = x - s
  OBVIOUS
<1>3. ASSUME NEW a \in 0..(s - 1), NEW d \in 0..(s - 1)
      PROVE  SlotAt(s, a, d) = IF a + d < s THEN a + d ELSE a + d - s
  <2>1. CASE a + d < s
    BY <1>1, <2>1, a + d \in 0..(s - 1) DEF SlotAt
  <2>2. CASE a + d >= s
    BY <1>2, <2>2, a + d \in s..(2 * s - 1) DEF SlotAt
  <2> QED BY <2>1, <2>2
<1>4. SlotAt(s, i, k) \in 0..(s - 1)
  BY <1>3
<1>5. Gap(s, i, SlotAt(s, i, k)) = k
  BY <1>3, <1>4, GapValue
<1>6. SlotAt(s, i, 0) = i
  BY <1>3
<1>7. ASSUME k + 1 < s
      PROVE  SlotAt(s, After(s, i), k) = SlotAt(s, i, k + 1)
  <2>1. After(s, i) \in 0..(s - 1) /\ k + 1 \in 0..(s - 1)
    BY <1>7, AfterValue
  <2>2. /\ After(s, i) = IF i + 1 = s THEN 0 ELSE i + 1
        /\ SlotAt(s, i, k + 1) =
             IF i + (k + 1) < s THEN i + (k + 1) ELSE i + (k + 1) - s
        /\ SlotAt(s, After(s, i), k) =
             IF After(s, i) + k < s THEN After(s, i) + k ELSE After(s, i) + k - s
    BY <1>3, <2>1, AfterValue
  <2> QED BY <1>7, <2>2
<1> QED BY <1>4, <1>5, <1>6, <1>7

\* The elements of a block, given what its cells hold.
Filled(r, c) ==
  [i \in 1..Gap(r.size, r.front, r.tail) |-> c[SlotAt(r.size, r.front, i - 1)]]

Cells == [0..(MaxSize - 1) -> Held]

LEMMA FilledProps ==
  ASSUME NEW r, Good(r), NEW c \in Cells,
         NEW n, n = Gap(r.size, r.front, r.tail)
  PROVE  /\ n \in 0..(r.size - 1)
         /\ n = 0 <=> ~HasElement(r)
         /\ \A i \in 1..n : SlotAt(r.size, r.front, i - 1) \in Slots(r)
         /\ Filled(r, c) \in Seq(Held) /\ Len(Filled(r, c)) = n
         /\ \A i \in 1..n :
              Filled(r, c)[i] = c[SlotAt(r.size, r.front, i - 1)]
<1> DEFINE s == r.size
           f == r.front
           t == r.tail
<1>1. /\ s \in Nat \ {0} /\ s <= MaxSize /\ MaxSize \in Nat
      /\ f \in 0..(s - 1) /\ t \in 0..(s - 1)
  BY SizeNat, QueueAssumption DEF Good, IndexesOK
<1>2. /\ n = Gap(s, f, t)
      /\ f # t <=> HasElement(r)
      /\ Slots(r) = {i \in 0..(s - 1) : Gap(s, f, i) < n}
      /\ Filled(r, c) = [i \in 1..n |-> c[SlotAt(s, f, i - 1)]]
  BY DEF Filled, HasElement, Slots
<1>3. Good(r)
  OBVIOUS
<1> HIDE DEF s, f, t
<1>4. n \in 0..(s - 1) /\ (n = 0 <=> ~HasElement(r))
  <2>1. Gap(s, f, t) \in 0..(s - 1) /\ (Gap(s, f, t) = 0 <=> f = t)
    BY <1>1, GapProps
  <2> QED BY <1>2, <2>1
<1>5. ASSUME NEW i \in 1..n
      PROVE  SlotAt(s, f, i - 1) \in Slots(r) /\ SlotAt(s, f, i - 1) \in 0..(s - 1)
  <2>1. i - 1 \in 0..(s - 1) /\ i - 1 < n
    BY <1>1, <1>4
  <2>2. SlotAt(s, f, i - 1) \in 0..(s - 1) /\ Gap(s, f, SlotAt(s, f, i - 1)) = i - 1
    BY <1>1, <2>1, SlotAtProps
  <2> QED BY <1>2, <2>1, <2>2
<1>6. ASSUME NEW i \in 1..n PROVE c[SlotAt(s, f, i - 1)] \in Held
  <2>1. SlotAt(s, f, i - 1) \in 0..(MaxSize - 1)
    BY <1>1, <1>5
  <2> QED BY <2>1 DEF Cells
<1>7. /\ Filled(r, c) \in Seq(Held) /\ Len(Filled(r, c)) = n
      /\ \A i \in 1..n : Filled(r, c)[i] = c[SlotAt(s, f, i - 1)]
  <2> DEFINE C(i) == c[SlotAt(s, f, i - 1)]
  <2>1. n \in Nat /\ \A i \in 1..n : C(i) \in Held
    BY <1>1, <1>4, <1>6
  <2> HIDE DEF C
  <2>2. /\ [i \in 1..n |-> C(i)] \in Seq(Held)
        /\ Len([i \in 1..n |-> C(i)]) = n
        /\ \A i \in 1..n : [j \in 1..n |-> C(j)][i] = C(i)
    BY <2>1
  <2> QED BY <1>2, <2>2 DEF C
<1> QED BY <1>4, <1>5, <1>7 DEF s, f

\* Shadows and the cells without an element do not count.
LEMMA FilledSame ==
  ASSUME NEW r, Good(r), NEW s, Good(s), NEW c \in Cells, NEW d \in Cells,
         s.size = r.size, s.front = r.front, s.tail = r.tail,
         \A i \in Slots(r) : d[i] = c[i]
  PROVE  Filled(s, d) = Filled(r, c)
<1> DEFINE n == Gap(r.size, r.front, r.tail)
<1>1. /\ \A i \in 1..n : SlotAt(r.size, r.front, i - 1) \in Slots(r)
      /\ Filled(r, c) \in Seq(Held) /\ Len(Filled(r, c)) = n
      /\ \A i \in 1..n : Filled(r, c)[i] = c[SlotAt(r.size, r.front, i - 1)]
  BY FilledProps
<1>2. n = Gap(s.size, s.front, s.tail)
  OBVIOUS
<1> HIDE DEF n
<1>3. /\ Filled(s, d) \in Seq(Held) /\ Len(Filled(s, d)) = n
      /\ \A i \in 1..n : Filled(s, d)[i] = d[SlotAt(r.size, r.front, i - 1)]
  BY <1>2, FilledProps
<1> QED BY <1>1, <1>3, SameSeq

\* An element at the tail.
LEMMA FilledPut ==
  ASSUME NEW r, Good(r), NEW s, Good(s), NEW c \in Cells, NEW d \in Cells,
         s.size = r.size, s.front = r.front, s.tail = After(r.size, r.tail),
         s.tail # s.front,
         \A i \in Slots(r) : d[i] = c[i]
  PROVE  Filled(s, d) = Append(Filled(r, c), d[r.tail]) /\ d[r.tail] \in Held
<1> DEFINE z == r.size
           f == r.front
           t == r.tail
           n == Gap(r.size, r.front, r.tail)
           m == Gap(s.size, s.front, s.tail)
<1>1. /\ z \in Nat \ {0} /\ z <= MaxSize /\ MaxSize \in Nat
      /\ f \in 0..(z - 1) /\ t \in 0..(z - 1)
  BY SizeNat, QueueAssumption DEF Good, IndexesOK
<1>2. /\ n \in 0..(z - 1)
      /\ \A i \in 1..n : SlotAt(z, f, i - 1) \in Slots(r)
      /\ Filled(r, c) \in Seq(Held) /\ Len(Filled(r, c)) = n
      /\ \A i \in 1..n : Filled(r, c)[i] = c[SlotAt(z, f, i - 1)]
  BY FilledProps
<1>3. /\ Filled(s, d) \in Seq(Held) /\ Len(Filled(s, d)) = m
      /\ \A i \in 1..m : Filled(s, d)[i] = d[SlotAt(z, f, i - 1)]
  BY FilledProps
<1>4. /\ m = Gap(z, f, After(z, t)) /\ n = Gap(z, f, t) /\ After(z, t) # f
      /\ \A i \in Slots(r) : d[i] = c[i]
  OBVIOUS
<1> HIDE DEF z, f, n, m
<1>5. d[t] \in Held
  BY <1>1 DEF Cells
<1> HIDE DEF t
<1>6. m = n + 1
  BY <1>1, <1>4, GapProps
<1>7. SlotAt(z, f, n) = t
  <2>1. /\ SlotAt(z, f, n) \in 0..(z - 1)
        /\ Gap(z, f, SlotAt(z, f, n)) = n
    BY <1>1, <1>2, SlotAtProps
  <2>2. \A k \in 0..(z - 1) : Gap(z, f, t) = Gap(z, f, k) => t = k
    BY <1>1, GapProps
  <2> QED BY <1>4, <2>1, <2>2
<1>8. /\ Append(Filled(r, c), d[t]) \in Seq(Held)
      /\ Len(Append(Filled(r, c), d[t])) = n + 1
      /\ \A i \in 1..n : Append(Filled(r, c), d[t])[i] = Filled(r, c)[i]
      /\ Append(Filled(r, c), d[t])[n + 1] = d[t]
  BY <1>2, <1>5, AppendProperties
<1>9. ASSUME NEW i \in 1..m
      PROVE  Filled(s, d)[i] = Append(Filled(r, c), d[t])[i]
  <2>1. CASE i = n + 1
    <3>1. i - 1 = n
      BY <1>1, <1>2, <2>1
    <3> QED BY <1>3, <1>7, <1>8, <2>1, <3>1
  <2>2. CASE i # n + 1
    <3>1. i \in 1..n
      BY <1>1, <1>2, <1>6, <2>2
    <3> QED BY <1>2, <1>3, <1>4, <1>8, <3>1
  <2> QED BY <2>1, <2>2
<1>10. Filled(s, d) = Append(Filled(r, c), d[t])
  BY <1>3, <1>6, <1>8, <1>9, SameSeq
<1> QED BY <1>5, <1>10 DEF t

\* The element at the front goes.
LEMMA FilledTake ==
  ASSUME NEW r, Good(r), NEW s, Good(s), NEW c \in Cells, NEW d \in Cells,
         s.size = r.size, s.tail = r.tail, s.front = After(r.size, r.front),
         HasElement(r), \A i \in Slots(r) \ {r.front} : d[i] = c[i]
  PROVE  Filled(r, c) = <<c[r.front]>> \o Filled(s, d) /\ c[r.front] \in Held
<1> DEFINE z == r.size
           f == r.front
           t == r.tail
           n == Gap(r.size, r.front, r.tail)
           m == Gap(s.size, s.front, s.tail)
<1>1. /\ z \in Nat \ {0} /\ z <= MaxSize /\ MaxSize \in Nat
      /\ f \in 0..(z - 1) /\ t \in 0..(z - 1) /\ f # t
  BY SizeNat, QueueAssumption DEF Good, IndexesOK, HasElement
<1>2. /\ n \in 0..(z - 1)
      /\ \A i \in 1..n : SlotAt(z, f, i - 1) \in Slots(r)
      /\ Filled(r, c) \in Seq(Held) /\ Len(Filled(r, c)) = n
      /\ \A i \in 1..n : Filled(r, c)[i] = c[SlotAt(z, f, i - 1)]
  BY FilledProps
<1>3. /\ Filled(s, d) \in Seq(Held) /\ Len(Filled(s, d)) = m
      /\ m \in 0..(z - 1)
      /\ \A i \in 1..m : Filled(s, d)[i] = d[SlotAt(z, After(z, f), i - 1)]
  BY FilledProps
<1>4. /\ m = Gap(z, After(z, f), t) /\ n = Gap(z, f, t)
      /\ \A i \in Slots(r) \ {f} : d[i] = c[i]
  OBVIOUS
<1> HIDE DEF z, n, m
<1>5. c[f] \in Held
  BY <1>1 DEF Cells
<1> HIDE DEF f, t
<1>6. m = n - 1
  BY <1>1, <1>4, GapProps
<1>7. SlotAt(z, f, 0) = f /\ \A k \in 1..(n - 1) : SlotAt(z, f, k) # f
  <2>1. \A k \in 0..(z - 1) : SlotAt(z, f, 0) = f /\ Gap(z, f, SlotAt(z, f, k)) = k
    BY <1>1, SlotAtProps
  <2>2. Gap(z, f, f) = 0
    BY <1>1, GapProps
  <2>3. \A k \in 1..(n - 1) : k \in 0..(z - 1) /\ k # 0
    BY <1>1, <1>2
  <2> QED BY <1>1, <2>1, <2>2, <2>3
<1> DEFINE e == <<c[f]>>
<1>8. e \in Seq(Held) /\ Len(e) = 1 /\ e[1] = c[f]
  BY <1>5
<1> HIDE DEF e
<1>9. /\ e \o Filled(s, d) \in Seq(Held)
      /\ Len(e \o Filled(s, d)) = m + 1
      /\ \A i \in 1..(m + 1) :
           (e \o Filled(s, d))[i] = IF i <= 1 THEN e[i] ELSE Filled(s, d)[i - 1]
  <2> DEFINE g == Filled(s, d)
  <2>1. e \in Seq(Held) /\ g \in Seq(Held) /\ Len(e) = 1 /\ Len(g) = m
        /\ 1 + m = m + 1
    BY <1>3, <1>8
  <2> HIDE DEF g
  <2>2. /\ e \o g \in Seq(Held) /\ Len(e \o g) = Len(e) + Len(g)
        /\ \A i \in 1..(Len(e) + Len(g)) :
             (e \o g)[i] = IF i <= Len(e) THEN e[i] ELSE g[i - Len(e)]
    BY <2>1, ConcatProperties
  <2>3. /\ e \o g \in Seq(Held) /\ Len(e \o g) = m + 1
        /\ \A i \in 1..(m + 1) :
             (e \o g)[i] = IF i <= 1 THEN e[i] ELSE g[i - 1]
    BY <2>1, <2>2, Zenon
  <2> QED BY <2>3 DEF g
<1>10. ASSUME NEW i \in 1..n
       PROVE  Filled(r, c)[i] = (e \o Filled(s, d))[i]
  <2>1. CASE i = 1
    <3>1. i - 1 = 0 /\ i \in 1..(m + 1) /\ i <= 1
      BY <1>1, <1>2, <1>6, <2>1
    <3> QED BY <1>2, <1>7, <1>8, <1>9, <2>1, <3>1
  <2>2. CASE i # 1
    <3>1. /\ i \in 1..(m + 1) /\ ~(i <= 1) /\ i - 1 \in 1..m /\ i - 1 \in 1..(n - 1)
          /\ (i - 1) - 1 \in 0..(z - 1) /\ ((i - 1) - 1) + 1 = i - 1 /\ i - 1 < z
      BY <1>1, <1>2, <1>6, <2>2
    <3>2. SlotAt(z, After(z, f), (i - 1) - 1) = SlotAt(z, f, i - 1)
      BY <1>1, <3>1, SlotAtProps
    <3>3. d[SlotAt(z, f, i - 1)] = c[SlotAt(z, f, i - 1)]
      BY <1>2, <1>4, <1>7, <3>1
    <3> QED BY <1>2, <1>3, <1>9, <3>1, <3>2, <3>3
  <2> QED BY <2>1, <2>2
<1>11. n = m + 1
  BY <1>1, <1>2, <1>6
<1>12. Filled(r, c) = e \o Filled(s, d)
  BY <1>2, <1>9, <1>10, <1>11, SameSeq
<1> QED BY <1>5, <1>12 DEF e, f

ContentOf(b) == [i \in 0..(MaxSize - 1) |-> Content(b, i)]

LEMMA ElementsAre ==
  IInv => \A b \in Block : /\ Elements(b) = Filled(block[b], ContentOf(b))
                           /\ ContentOf(b) \in Cells /\ Good(block[b])
<1> SUFFICES ASSUME IInv, NEW b \in Block
             PROVE  /\ Elements(b) = Filled(block[b], ContentOf(b))
                    /\ ContentOf(b) \in Cells /\ Good(block[b])
  OBVIOUS
<1> DEFINE r == block[b]
           n == Gap(r.size, r.front, r.tail)
<1>1. /\ Good(r) /\ r.data \in [0..(MaxSize - 1) -> 0..LastItem]
      /\ cons.item \in 0..LastItem
  BY DEF IInv, BlocksOK, ConsInv, ConsType, Good, BlockType
<1>2. ContentOf(b) \in Cells
  <2>1. \A i \in 0..(MaxSize - 1) : Content(b, i) \in Held
    BY <1>1 DEF Content, Held
  <2> QED BY <2>1 DEF ContentOf, Cells
<1>3. /\ r.size \in Nat \ {0} /\ r.size <= MaxSize /\ MaxSize \in Nat
      /\ r.front \in 0..(r.size - 1)
  BY <1>1, SizeNat, QueueAssumption DEF Good, IndexesOK
<1> HIDE DEF r
<1>4. ASSUME NEW i \in 1..n
      PROVE  Content(b, (r.front + i - 1) % r.size) =
               ContentOf(b)[SlotAt(r.size, r.front, i - 1)]
  <2>1. n \in 0..(r.size - 1)
    BY <1>1, <1>2, FilledProps
  <2>2. r.front + i - 1 = r.front + (i - 1)
    BY <1>3, <2>1
  <2>3. SlotAt(r.size, r.front, i - 1) \in Slots(r)
    BY <1>1, <1>2, FilledProps
  <2>4. SlotAt(r.size, r.front, i - 1) \in 0..(MaxSize - 1)
    <3>1. SlotAt(r.size, r.front, i - 1) \in 0..(r.size - 1)
      BY <2>3 DEF Slots
    <3> QED BY <1>3, <3>1
  <2> QED BY <2>2, <2>4 DEF SlotAt, ContentOf
<1>5. Elements(b) = [i \in 1..n |-> Content(b, (r.front + i - 1) % r.size)]
  BY DEF Elements, Gap, r
<1>6. Elements(b) = Filled(r, ContentOf(b))
  BY <1>4, <1>5 DEF Filled
<1> QED BY <1>1, <1>2, <1>6 DEF r

\* The blocks from the front block to the tail block, each once.
IsPath(p) ==
  /\ p \in Seq(Block) /\ Len(p) >= 1
  /\ p[1] = frontBlock /\ p[Len(p)] = tailBlock
  /\ \A i, j \in 1..Len(p) : p[i] = p[j] => i = j
  /\ \A i \in 1..(Len(p) - 1) : p[i + 1] = block[p[i]].next

Flat(p) == FlattenSeq([n \in 1..Len(p) |-> Elements(p[n])])

LEMMA PathBusy ==
  IInv => \A p \in Seq(Block) : IsPath(p) => \A i \in 1..Len(p) : p[i] \in Busy
<1> SUFFICES ASSUME IInv, NEW p \in Seq(Block), IsPath(p)
             PROVE  \A i \in 1..Len(p) : p[i] \in Busy
  OBVIOUS
<1> DEFINE n == Len(p) - 1
           T == {i \in 0..n : p[i + 1] \in Busy}
<1>1. n \in Nat /\ Len(p) = n + 1
  BY DEF IsPath
<1>2. 0 \in T
  BY <1>1 DEF Busy, IsPath
<1>3. ASSUME NEW i \in 1..n, i - 1 \in T PROVE i \in T
  <2>1. (i - 1) + 1 = i /\ i \in 1..(Len(p) - 1) /\ i \in 1..Len(p)
        /\ i # Len(p) /\ Len(p) \in 1..Len(p)
    <3> HIDE DEF n, T
    <3> QED BY <1>1
  <2>2. p[i] \in Busy \ {tailBlock} /\ p[i + 1] = block[p[i]].next
    BY <1>3, <2>1 DEF IsPath
  <2>3. p[i] \in Allocated
    BY <2>2 DEF Busy, IInv, BlocksOK
  <2>4. block[p[i]].next \in Busy
    BY <2>2, <2>3 DEF IInv, RingInv
  <2> QED BY <2>2, <2>4
<1> HIDE DEF T
<1>4. \A i \in 0..n : i \in T
  <2> HIDE DEF n
  <2> QED BY <1>1, <1>2, <1>3, InductionUpTo
<1>5. ASSUME NEW i \in 1..Len(p) PROVE p[i] \in Busy
  <2>1. i - 1 \in 0..n /\ (i - 1) + 1 = i
    BY <1>1
  <2> QED BY <1>4, <2>1 DEF T
<1> QED BY <1>5

\* Following next from the front block, one passes them in this order.
LEMMA RingPath ==
  IInv => \A p \in Seq(Block) : IsPath(p) =>
    /\ DOMAIN Ring = 0..Cardinality(Block) /\ Cardinality(Block) \in Nat
    /\ Len(p) <= Cardinality(Block)
    /\ \A i \in 1..Len(p) : Ring[i - 1] = p[i]
<1> SUFFICES ASSUME IInv, NEW p \in Seq(Block), IsPath(p)
             PROVE  /\ DOMAIN Ring = 0..Cardinality(Block)
                    /\ Cardinality(Block) \in Nat
                    /\ Len(p) <= Cardinality(Block)
                    /\ \A i \in 1..Len(p) : Ring[i - 1] = p[i]
  OBVIOUS
<1> DEFINE C == Cardinality(Block)
           Is(at) == at = [n \in 0..C |-> IF n = 0 THEN frontBlock
                                          ELSE block[at[n - 1]].next]
<1>1. C \in Nat /\ Len(p) <= C
  <2>1. Cardinality(ToSet(p)) = Len(p)
    BY LenIsCardinality DEF IsPath
  <2>2. ToSet(p) \subseteq Block
    BY DEF ToSet
  <2>3. IsFiniteSet(Block)
    BY QueueAssumption
  <2> QED BY <2>1, <2>2, <2>3, FS_Subset, FS_CardinalityType
<1> HIDE DEF C
<1>2. \E at : Is(at)
  <2> DEFINE g == [x \in (1..C) \X Allocated |-> block[x[2]].next]
  <2>1. frontBlock \in Allocated
    BY DEF IInv, BlocksOK
  <2>2. g \in [(1..C) \X Allocated -> Allocated]
    <3>1. \A b \in Allocated : block[b].next \in Allocated
      BY DEF IInv, RingInv, Linked
    <3> QED BY <3>1
  <2>3. \A i \in 1..C : \A b \in Allocated : g[<<i, b>>] = block[b].next
    OBVIOUS
  <2> HIDE DEF g
  <2>4. PICK f \in [0..C -> Allocated] : DefinedFrom(f, C, frontBlock, g)
    BY <1>1, <2>1, <2>2, Recursion
  <2>5. ASSUME NEW n \in 0..C
        PROVE  f[n] = IF n = 0 THEN frontBlock ELSE block[f[n - 1]].next
    <3>1. CASE n = 0
      BY <2>4, <3>1 DEF DefinedFrom
    <3>2. CASE n # 0
      <4>1. n \in 1..C /\ n - 1 \in 0..C
        BY <1>1, <3>2
      <4>2. f[n] = g[<<n, f[n - 1]>>] /\ f[n - 1] \in Allocated
        BY <2>4, <4>1 DEF DefinedFrom
      <4> QED BY <2>3, <3>2, <4>1, <4>2
    <3> QED BY <3>1, <3>2
  <2>6. Is(f)
    <3>1. f = [n \in 0..C |-> f[n]]
      OBVIOUS
    <3> QED BY <2>5, <3>1
  <2> QED BY <2>6
<1>3. Is(Ring)
  <2>1. Ring = CHOOSE at : Is(at)
    BY DEF Ring, C
  <2> HIDE DEF Is
  <2> QED BY <1>2, <2>1
<1>4. /\ DOMAIN Ring = 0..C
      /\ \A n \in 0..C : Ring[n] = IF n = 0 THEN frontBlock
                                   ELSE block[Ring[n - 1]].next
  <2> DEFINE R == Ring
  <2>1. R = [n \in 0..C |-> IF n = 0 THEN frontBlock ELSE block[R[n - 1]].next]
    BY <1>3
  <2> HIDE DEF R
  <2>2. /\ DOMAIN R = 0..C
        /\ \A n \in 0..C : R[n] = IF n = 0 THEN frontBlock
                                  ELSE block[R[n - 1]].next
    BY <2>1
  <2> QED BY <2>2 DEF R
<1> HIDE DEF Is
<1> DEFINE n == Len(p) - 1
           T == {i \in 0..n : Ring[i] = p[i + 1]}
<1>5. n \in Nat /\ Len(p) = n + 1
  BY DEF IsPath
<1>6. 0 \in T
  BY <1>1, <1>4, <1>5 DEF IsPath
<1>7. ASSUME NEW i \in 1..n, i - 1 \in T PROVE i \in T
  <2>1. (i - 1) + 1 = i /\ i \in 1..(Len(p) - 1) /\ i \in 0..C /\ i # 0
    BY <1>1, <1>5
  <2>2. Ring[i - 1] = p[i] /\ p[i + 1] = block[p[i]].next
    BY <1>7, <2>1 DEF IsPath
  <2> QED BY <1>4, <2>1, <2>2
<1> HIDE DEF T
<1>8. \A i \in 0..n : i \in T
  <2> HIDE DEF n
  <2> QED BY <1>5, <1>6, <1>7, InductionUpTo
<1>9. ASSUME NEW i \in 1..Len(p) PROVE Ring[i - 1] = p[i]
  <2>1. i - 1 \in 0..n /\ (i - 1) + 1 = i
    BY <1>5
  <2> QED BY <1>8, <2>1 DEF T
<1> QED BY <1>1, <1>4, <1>9 DEF C

LEMMA PathContents ==
  IInv => \A p \in Seq(Block) : IsPath(p) => Contents = Flat(p)
<1> SUFFICES ASSUME IInv, NEW p \in Seq(Block), IsPath(p)
             PROVE  Contents = Flat(p)
  OBVIOUS
<1> DEFINE C == Cardinality(Block)
           EndsAt(n) == Ring[n] = tailBlock
                        /\ \A m \in 0..(n - 1) : Ring[m] # tailBlock
           last == CHOOSE n \in DOMAIN Ring : EndsAt(n)
<1>1. /\ DOMAIN Ring = 0..C /\ C \in Nat /\ Len(p) <= C
      /\ \A i \in 1..Len(p) : Ring[i - 1] = p[i]
  BY RingPath
<1> HIDE DEF C
<1>2. /\ Len(p) \in Nat \ {0} /\ p[Len(p)] = tailBlock
      /\ \A i \in 1..(Len(p) - 1) : p[i] # tailBlock
  <2>1. Len(p) \in Nat \ {0} /\ p[Len(p)] = tailBlock
    BY DEF IsPath
  <2>2. ASSUME NEW i \in 1..(Len(p) - 1) PROVE p[i] # tailBlock
    <3>1. i \in 1..Len(p) /\ Len(p) \in 1..Len(p) /\ i # Len(p)
      BY <2>1
    <3> QED BY <2>1, <3>1 DEF IsPath
  <2> QED BY <2>1, <2>2
<1> DEFINE k == Len(p) - 1
<1>3. k \in DOMAIN Ring /\ Ring[k] = tailBlock
  BY <1>1, <1>2, k \in 0..C, Len(p) \in 1..Len(p)
<1>4. ASSUME NEW m \in 0..(k - 1) PROVE Ring[m] # tailBlock
  <2>1. m + 1 \in 1..(Len(p) - 1) /\ m + 1 \in 1..Len(p) /\ (m + 1) - 1 = m
    BY <1>2
  <2> QED BY <1>1, <1>2, <2>1
<1>5. ASSUME NEW m \in DOMAIN Ring, EndsAt(m) PROVE m = k
  <2>1. m \in Nat /\ k \in Nat
    BY <1>1, <1>2
  <2>2. ~(m < k)
    BY <1>4, <1>5, <2>1
  <2>3. ~(k < m)
    BY <1>3, <1>5, <2>1
  <2> QED BY <2>1, <2>2, <2>3
<1>6. last = k
  <2>1. EndsAt(k)
    BY <1>3, <1>4
  <2> HIDE DEF EndsAt, k
  <2> QED BY <1>3, <1>5, <2>1
<1>7. k + 1 = Len(p)
  BY <1>2
<1>8. Contents = FlattenSeq([n \in 1..(last + 1) |-> Elements(Ring[n - 1])])
  BY DEF Contents
<1> HIDE DEF last, k
<1>9. \A n \in 1..Len(p) : Elements(Ring[n - 1]) = Elements(p[n])
  BY <1>1
<1>10. [n \in 1..(last + 1) |-> Elements(Ring[n - 1])]
         = [n \in 1..Len(p) |-> Elements(p[n])]
  BY <1>6, <1>7, <1>9
<1> QED BY <1>8, <1>10 DEF Flat

\* What the invariant says besides, of a block that the producer brings along
\* and of what peek looks at in the block behind an empty one.
BesidesInv ==
  /\ prod.pc \in {"link", "advance"} =>
       block[prod.b].tail = After(block[prod.b].size, block[prod.b].front)
  /\ cons.pc = "read" /\ cons.b # frontBlock =>
       /\ frontBlock # tailBlock /\ ~HasElement(block[frontBlock])
       /\ cons.b = block[frontBlock].next

PathInv == \E p \in Seq(Block) : IsPath(p)

\* A step that leaves the elements of every busy block as they are.
Quiet ==
  /\ frontBlock' = frontBlock /\ tailBlock' = tailBlock
  /\ \A b \in Busy :
       /\ block'[b].size = block[b].size
       /\ block'[b].front = block[b].front
       /\ block'[b].tail = block[b].tail
       /\ b # tailBlock => block'[b].next = block[b].next
       /\ \A i \in Slots(block[b]) : Content(b, i)' = Content(b, i)

LEMMA BusyBlocks == IInv => Busy \subseteq Block /\ Busy \subseteq Allocated
BY DEF IInv, BlocksOK, Busy, Allocated

LEMMA FilledSteps ==
  IInv' => \A b \in Block : /\ Elements(b)' = Filled(block'[b], ContentOf(b)')
                            /\ ContentOf(b)' \in Cells /\ Good(block'[b])
<1>1. (IInv => \A b \in Block : /\ Elements(b) = Filled(block[b], ContentOf(b))
                                /\ ContentOf(b) \in Cells /\ Good(block[b]))'
  BY ElementsAre, PTL
<1> QED BY <1>1

LEMMA PathSteps ==
  IInv' => \A p \in Seq(Block) : IsPath(p)' => Contents' = Flat(p)'
<1>1. (IInv => \A p \in Seq(Block) : IsPath(p) => Contents = Flat(p))'
  BY PathContents, PTL
<1> QED BY <1>1

\* The contents of a slot are in its block's cells.
LEMMA ContentIn ==
  IInv => \A b \in Block : \A i \in Slots(block[b]) :
            i \in 0..(MaxSize - 1) /\ ContentOf(b)[i] = Content(b, i)
<1> SUFFICES ASSUME IInv, NEW b \in Block, NEW i \in Slots(block[b])
             PROVE  i \in 0..(MaxSize - 1) /\ ContentOf(b)[i] = Content(b, i)
  OBVIOUS
<1>1. Good(block[b]) /\ i \in 0..(block[b].size - 1)
  BY DEF IInv, BlocksOK, Slots
<1>2. i \in 0..(MaxSize - 1)
  BY <1>1, SizeNat, QueueAssumption
<1> QED BY <1>2 DEF ContentOf

LEMMA SameElements ==
  ASSUME IInv, IInv', NEW b \in Block,
         block'[b].size = block[b].size, block'[b].front = block[b].front,
         block'[b].tail = block[b].tail,
         \A i \in Slots(block[b]) : Content(b, i)' = Content(b, i)
  PROVE  Elements(b)' = Elements(b)
<1> DEFINE r == block[b]
           s == block'[b]
           c == ContentOf(b)
           d == ContentOf(b)'
<1>1. /\ Good(r) /\ c \in Cells /\ Elements(b) = Filled(r, c)
      /\ Good(s) /\ d \in Cells /\ Elements(b)' = Filled(s, d)
  BY ElementsAre, FilledSteps
<1>2. \A i \in Slots(r) : d[i] = c[i]
  <2>1. ASSUME NEW i \in Slots(r) PROVE d[i] = c[i]
    <3>1. i \in 0..(MaxSize - 1) /\ c[i] = Content(b, i)
      BY ContentIn
    <3>2. d[i] = Content(b, i)'
      BY <3>1 DEF ContentOf
    <3> QED BY <3>1, <3>2
  <2> QED BY <2>1
<1>3. s.size = r.size /\ s.front = r.front /\ s.tail = r.tail
  OBVIOUS
<1> HIDE DEF r, s, c, d
<1> QED BY <1>1, <1>2, <1>3, FilledSame

LEMMA QuietStep ==
  ASSUME IInv, IInv', Quiet, NEW p \in Seq(Block), IsPath(p)
  PROVE  IsPath(p)' /\ Contents' = Contents
<1>1. \A i \in 1..Len(p) : p[i] \in Busy
  BY PathBusy
<1>2. \A b \in Busy : Elements(b)' = Elements(b)
  BY BusyBlocks, SameElements DEF Quiet
<1>3. ASSUME NEW i \in 1..(Len(p) - 1)
      PROVE  block'[p[i]].next = block[p[i]].next
  <2>1. i \in 1..Len(p) /\ Len(p) \in 1..Len(p) /\ i # Len(p)
    BY DEF IsPath
  <2>2. p[i] \in Busy /\ p[i] # tailBlock
    BY <1>1, <2>1 DEF IsPath
  <2> QED BY <2>2 DEF Quiet
<1>4. IsPath(p)'
  BY <1>3 DEF IsPath, Quiet
<1>5. Flat(p)' = Flat(p)
  <2>1. \A n \in 1..Len(p) : Elements(p[n])' = Elements(p[n])
    BY <1>1, <1>2
  <2>2. [n \in 1..Len(p) |-> Elements(p[n])'] = [n \in 1..Len(p) |-> Elements(p[n])]
    BY <2>1
  <2> QED BY <2>2 DEF Flat
<1> QED BY <1>4, <1>5, PathContents, PathSteps

\* Steps that write neither an index nor a slot.
LEMMA IndexesKept ==
  ASSUME IInv, UNCHANGED <<frontBlock, tailBlock>>,
         \A b \in Busy : /\ block'[b].size = block[b].size
                         /\ block'[b].front = block[b].front
                         /\ block'[b].tail = block[b].tail
                         /\ block'[b].data = block[b].data
                         /\ b # tailBlock => block'[b].next = block[b].next,
         UNCHANGED cons \/ (cons.pc # "take" /\ cons'.pc # "take")
  PROVE  Quiet
<1>1. ASSUME NEW b \in Busy, NEW i PROVE Content(b, i)' = Content(b, i)
  BY DEF Content
<1> QED BY <1>1 DEF Quiet

LEMMA ProduceQuiet ==
  ASSUME IInv,
         \/ Enqueue \/ ReloadFront \/ TestNextBlock \/ ReuseNext
         \/ Allocate \/ Refuse \/ Link \/ (Publish /\ prod.b # tailBlock)
  PROVE  Quiet /\ UNCHANGED got
<1> USE DEF IInv
<1>1. /\ Busy \subseteq Block /\ Busy \subseteq Allocated
      /\ block \in [Block -> BlockType]
      /\ tailBlock \in Block /\ block[tailBlock].next \in Block
      /\ prod.b \in Block
  BY BusyBlocks DEF BlocksOK, RingInv, ProdInv, Linked, Allocated
<1>2. UNCHANGED <<frontBlock, tailBlock, cons, got>>
  BY DEF Enqueue, ReloadFront, TestNextBlock, ReuseNext, Allocate, Refuse,
         Link, Publish
<1>3. CASE Enqueue \/ TestNextBlock \/ Refuse
  <2>1. UNCHANGED block
    BY <1>3 DEF Enqueue, TestNextBlock, Refuse
  <2> QED BY <1>2, <2>1, IndexesKept
<1>4. CASE ReloadFront \/ ReuseNext
  <2>1. PICK x \in Block, v \in Nat :
          block' = [block EXCEPT ![x].localFront = v]
    <3>1. \A b \in Block : block[b].front \in Nat
      BY <1>1 DEF BlockType
    <3> QED BY <1>1, <1>4, <3>1 DEF ReloadFront, ReuseNext
  <2>2. \A b \in Block : /\ block'[b].size = block[b].size
                         /\ block'[b].front = block[b].front
                         /\ block'[b].tail = block[b].tail
                         /\ block'[b].data = block[b].data
                         /\ block'[b].next = block[b].next
    BY <1>1, <2>1 DEF BlockType
  <2> QED BY <1>1, <1>2, <2>2, IndexesKept
<1>5. CASE Allocate
  <2>1. PICK x \in Block \ Allocated : \A b \in Block : b # x => block'[b] = block[b]
    BY <1>1, <1>5 DEF Allocate
  <2> QED BY <1>1, <1>2, <2>1, IndexesKept
<1>6. CASE Link
  <2>1. block' = [block EXCEPT ![tailBlock].next = prod.b]
    BY <1>6 DEF Link
  <2>2. \A b \in Block : /\ block'[b].size = block[b].size
                         /\ block'[b].front = block[b].front
                         /\ block'[b].tail = block[b].tail
                         /\ block'[b].data = block[b].data
                         /\ b # tailBlock => block'[b].next = block[b].next
    BY <1>1, <2>1 DEF BlockType
  <2> QED BY <1>1, <1>2, <2>2, IndexesKept
<1>7. CASE Publish /\ prod.b # tailBlock
  <2>1. \A b \in Block : b # prod.b => block'[b] = block[b]
    BY <1>1, <1>7 DEF Publish
  <2>2. prod.b \notin Busy
    BY <1>7 DEF Publish, ProdInv
  <2> QED BY <1>1, <1>2, <2>1, <2>2, IndexesKept
<1> QED BY <1>2, <1>3, <1>4, <1>5, <1>6, <1>7

LEMMA WriteQuiet ==
  ASSUME IInv, Write
  PROVE  Quiet /\ UNCHANGED got
<1> USE DEF IInv
<1> DEFINE x == prod.b
           i == prod.slot
<1>1. /\ Busy \subseteq Block /\ block \in [Block -> BlockType]
      /\ x \in Block /\ Good(block[x]) /\ i = block[x].tail
      /\ block' = [block EXCEPT ![x].data[i] = sent]
      /\ UNCHANGED <<frontBlock, tailBlock, cons, got>>
  BY BusyBlocks DEF BlocksOK, ProdInv, Allocated, Write
<1> HIDE DEF x, i
<1>2. \A b \in Block : /\ block'[b].size = block[b].size
                       /\ block'[b].front = block[b].front
                       /\ block'[b].tail = block[b].tail
                       /\ block'[b].next = block[b].next
                       /\ b # x => block'[b].data = block[b].data
  BY <1>1 DEF BlockType
<1>3. \A j : j # i => block'[x].data[j] = block[x].data[j]
  BY <1>1 DEF BlockType
<1>4. ASSUME NEW b \in Busy, NEW j \in Slots(block[b])
      PROVE  Content(b, j)' = Content(b, j)
  <2>1. block'[b].data[j] = block[b].data[j]
    <3>1. b = x => j # i
      BY <1>1, ShadowProps
    <3> QED BY <1>1, <1>2, <1>3, <3>1
  <2> QED BY <1>1, <2>1 DEF Content
<1> QED BY <1>1, <1>2, <1>4 DEF Quiet

LEMMA ConsumeQuiet ==
  ASSUME IInv,
         \/ \E op \in Ops : Begin(op)
         \/ ReloadTail \/ TestTailBlock \/ Recheck \/ ReadNext \/ ReadNextTail
         \/ ReturnFalse
  PROVE  Quiet /\ UNCHANGED got
<1> USE DEF IInv
<1>1. /\ Busy \subseteq Block /\ block \in [Block -> BlockType]
      /\ frontBlock \in Block /\ cons.b \in Block /\ cons \in ConsType
  BY BusyBlocks DEF BlocksOK, ConsInv, Allocated
<1>2. UNCHANGED <<frontBlock, tailBlock, got>>
  BY DEF Begin, ReloadTail, TestTailBlock, Recheck, LoadTail, ReadNext,
         ReadNextTail, ReturnFalse
<1>3. cons.pc # "take" /\ cons'.pc # "take"
  <2>1. CASE \E op \in Ops : Begin(op)
    BY <2>1 DEF Begin
  <2>2. CASE ReloadTail \/ Recheck
    BY <1>1, <2>2 DEF ReloadTail, Recheck, LoadTail, ConsType
  <2>3. CASE TestTailBlock \/ ReadNext \/ ReadNextTail \/ ReturnFalse
    BY <1>1, <2>3 DEF TestTailBlock, ReadNext, ReadNextTail, ReturnFalse, ConsType
  <2> QED BY <2>1, <2>2, <2>3
<1>4. \/ UNCHANGED block
      \/ \E x \in Block, v \in Nat : block' = [block EXCEPT ![x].localTail = v]
  <2>1. \A b \in Block : block[b].tail \in Nat
    BY <1>1 DEF BlockType
  <2> QED BY <1>1, <2>1 DEF Begin, ReloadTail, TestTailBlock, Recheck,
                LoadTail, ReadNext, ReadNextTail, ReturnFalse
<1>5. \A b \in Block : /\ block'[b].size = block[b].size
                       /\ block'[b].front = block[b].front
                       /\ block'[b].tail = block[b].tail
                       /\ block'[b].data = block[b].data
                       /\ block'[b].next = block[b].next
  <2>1. CASE UNCHANGED block
    BY <2>1
  <2>2. CASE ~UNCHANGED block
    <3>1. PICK x \in Block, v \in Nat : block' = [block EXCEPT ![x].localTail = v]
      BY <1>4, <2>2
    <3> QED BY <1>1, <3>1 DEF BlockType
  <2> QED BY <2>1, <2>2
<1> QED BY <1>1, <1>2, <1>3, <1>5, IndexesKept

\* The consumer holds what it takes out of its slot.
LEMMA ReadQuiet ==
  ASSUME IInv, Read
  PROVE  Quiet
<1> USE DEF IInv
<1> DEFINE x == cons.b
           i == cons.slot
<1>1. /\ Busy \subseteq Block /\ block \in [Block -> BlockType]
      /\ x \in Block /\ cons \in ConsType /\ cons.pc = "read"
      /\ UNCHANGED <<frontBlock, tailBlock>>
  BY BusyBlocks DEF BlocksOK, ConsInv, Allocated, Read
<1>2. CASE cons.op = "peek"
  <2>1. UNCHANGED block /\ cons'.pc # "take"
    BY <1>1, <1>2 DEF Read, ConsType
  <2> QED BY <1>1, <2>1, IndexesKept
<1>3. CASE cons.op # "peek"
  <2>1. /\ block' = [block EXCEPT ![x].data[i] = Dead]
        /\ cons'.pc = "take" /\ cons'.b = x /\ cons'.slot = i
        /\ cons'.item = block[x].data[i]
    BY <1>1, <1>3 DEF Read, ConsType
  <2> HIDE DEF x, i
  <2>2. \A b \in Block : /\ block'[b].size = block[b].size
                         /\ block'[b].front = block[b].front
                         /\ block'[b].tail = block[b].tail
                         /\ block'[b].next = block[b].next
                         /\ b # x => block'[b].data = block[b].data
    BY <1>1, <2>1 DEF BlockType
  <2>3. \A j : j # i => block'[x].data[j] = block[x].data[j]
    BY <1>1, <2>1 DEF BlockType
  <2>4. ASSUME NEW b \in Busy, NEW j \in Slots(block[b])
        PROVE  Content(b, j)' = Content(b, j)
    <3>1. Content(b, j) = block[b].data[j]
      BY <1>1 DEF Content
    <3>2. Content(b, j)' = IF b = x /\ j = i THEN cons'.item ELSE block'[b].data[j]
      BY <2>1 DEF Content
    <3> QED BY <1>1, <2>1, <2>2, <2>3, <3>1, <3>2
  <2> QED BY <1>1, <2>2, <2>4 DEF Quiet
<1> QED BY <1>2, <1>3

\* A first row with an element: that one is the head of all.
LEMMA JoinHead ==
  ASSUME NEW f \in Fills, NEW p \in Seq(Block), Len(p) >= 1,
         Len(f[p[1]]) >= 1
  PROVE  /\ FlattenSeq(RowsOf(f, p)) # <<>>
         /\ Head(FlattenSeq(RowsOf(f, p))) = f[p[1]][1]
<1> DEFINE q == Tail(p)
           b == p[1]
           r == RowsOf(f, q)
           s == f[b]
<1>1. q \in Seq(Block) /\ p = <<b>> \o q /\ b \in Block
  BY FirstApart
<1>2. s \in Seq(Held) /\ Len(s) >= 1
  BY <1>1 DEF Fills
<1> HIDE DEF q, b
<1>3. r \in Seq(Seq(Held))
  BY <1>1, RowsOfProps
<1>4. RowsOf(f, <<b>> \o q) = <<s>> \o r
  BY <1>1, RowsOfMore
<1> HIDE DEF r, s
<1> DEFINE t == FlattenSeq(r)
<1>5. t \in Seq(Held) /\ FlattenSeq(<<s>> \o r) = s \o t
  BY <1>2, <1>3, FlatProps
<1> HIDE DEF t
<1>6. s \o t # <<>> /\ Head(s \o t) = s[1]
  BY <1>2, <1>5
<1> QED BY <1>1, <1>4, <1>5, <1>6 DEF s, b

ElementsOf == [b \in Block |-> Elements(b)]

LEMMA ContentsAre ==
  IInv => /\ ElementsOf \in Fills
          /\ \A p \in Seq(Block) :
               IsPath(p) => Contents = FlattenSeq(RowsOf(ElementsOf, p))
<1> SUFFICES ASSUME IInv
             PROVE  /\ ElementsOf \in Fills
                    /\ \A p \in Seq(Block) :
                         IsPath(p) => Contents = FlattenSeq(RowsOf(ElementsOf, p))
  OBVIOUS
<1>1. ElementsOf \in Fills
  <2>1. ASSUME NEW b \in Block PROVE Elements(b) \in Seq(Held)
    <3>1. /\ Elements(b) = Filled(block[b], ContentOf(b))
          /\ ContentOf(b) \in Cells /\ Good(block[b])
      BY ElementsAre
    <3> QED BY <3>1, FilledProps
  <2> QED BY <2>1 DEF ElementsOf, Fills
<1>2. ASSUME NEW p \in Seq(Block), IsPath(p)
      PROVE  Contents = FlattenSeq(RowsOf(ElementsOf, p))
  <2>1. Contents = Flat(p)
    BY <1>2, PathContents
  <2>2. \A n \in 1..Len(p) : Elements(p[n]) = ElementsOf[p[n]]
    BY DEF ElementsOf
  <2>3. [n \in 1..Len(p) |-> Elements(p[n])] = RowsOf(ElementsOf, p)
    BY <2>2 DEF RowsOf
  <2> QED BY <2>1, <2>3 DEF Flat
<1> QED BY <1>1, <1>2

LEMMA ContentsNext ==
  IInv' => /\ ElementsOf' \in Fills
           /\ \A p \in Seq(Block) :
                IsPath(p)' => Contents' = FlattenSeq(RowsOf(ElementsOf', p))
<1>1. (IInv => /\ ElementsOf \in Fills
               /\ \A p \in Seq(Block) :
                    IsPath(p) => Contents = FlattenSeq(RowsOf(ElementsOf, p)))'
  BY ContentsAre, PTL
<1> QED BY <1>1

\* An element that lives is an Item, and nobody takes one at a tail.
LEMMA LiveItem ==
  ASSUME IInv, NEW b \in Block, NEW i \in 0..(block[b].size - 1),
         \/ i \in Slots(block[b]) /\ (cons.pc = "take" => cons.b # b)
         \/ <<b, i>> \in Constructed /\ i = block[b].tail
  PROVE  Content(b, i) \in Item
<1> USE DEF IInv
<1>1. /\ Good(block[b]) /\ block[b] \in BlockType /\ cons \in ConsType
  BY DEF BlocksOK, ConsInv, Good
<1>2. Content(b, i) = block[b].data[i]
  <2>1. ~(cons.pc = "take" /\ cons.b = b /\ cons.slot = i)
    BY DEF ConsInv, HasElement, Slots, Constructed
  <2> QED BY <2>1 DEF Content
<1>3. block[b].data[i] # Dead
  BY DEF LiveInv, Destroyed
<1>4. block[b].data[i] \in 0..LastItem
  <2>1. i \in 0..(MaxSize - 1)
    BY <1>1, SizeNat, QueueAssumption
  <2> QED BY <1>1, <2>1 DEF BlockType
<1>5. LastItem \in Nat
  BY QueueAssumption
<1> QED BY <1>2, <1>3, <1>4, <1>5 DEF Item, Dead

\* Into the tail block: from its new index on the element is in the queue.
LEMMA PublishEnqueues ==
  ASSUME IInv, IInv', Publish, prod.b = tailBlock,
         NEW p \in Seq(Block), IsPath(p)
  PROVE  /\ IsPath(p)' /\ UNCHANGED got
         /\ \E e \in Item : Contents' = Append(Contents, e)
<1>0. PICK x \in Block : x = tailBlock
  BY DEF IInv, BlocksOK, Allocated
<1> DEFINE r == block[x]
           s == block'[x]
           c == ContentOf(x)
           d == ContentOf(x)'
           f == ElementsOf
           g == ElementsOf'
<1>1. /\ x \in Block /\ block \in [Block -> BlockType]
      /\ prod.pc = "publish" /\ prod.slot = r.tail
      /\ After(r.size, r.tail) # r.localFront
      /\ Good(r) /\ r \in BlockType
  BY <1>0 DEF IInv, BlocksOK, ProdInv, Allocated, Publish, Good
<1>2. /\ block' = [block EXCEPT ![x].tail = After(r.size, r.tail)]
      /\ UNCHANGED <<frontBlock, tailBlock, cons, got>>
  BY <1>0, <1>1 DEF Publish, NextSlot, After
<1>3. /\ s = [r EXCEPT !.tail = After(r.size, r.tail)]
      /\ \A b \in Block : b # x => block'[b] = block[b]
  BY <1>1, <1>2
<1>4. HasElement(s)
  BY <1>1, <1>3, PutProps
<1>5. /\ s.size = r.size /\ s.front = r.front /\ s.tail = After(r.size, r.tail)
      /\ s.data = r.data /\ s.next = r.next /\ s.tail # s.front
  BY <1>1, <1>3, <1>4 DEF BlockType, HasElement
<1>6. \A b \in Block : \A i : Content(b, i)' = Content(b, i)
  BY <1>2, <1>3, <1>5 DEF Content
<1>7. /\ c \in Cells /\ Elements(x) = Filled(r, c)
      /\ d \in Cells /\ Elements(x)' = Filled(s, d) /\ Good(s)
  BY <1>1, ElementsAre, FilledSteps
<1>8. d = c
  BY <1>1, <1>6 DEF ContentOf
<1>9. /\ Elements(x)' = Append(Elements(x), c[r.tail]) /\ c[r.tail] \in Held
  <2> HIDE DEF r, s, c, d
  <2> QED BY <1>1, <1>5, <1>7, <1>8, FilledPut
<1>10. c[r.tail] \in Item
  <2>1. r.tail \in 0..(r.size - 1) /\ r.tail \in 0..(MaxSize - 1)
    BY <1>1, SizeNat, QueueAssumption DEF Good, IndexesOK
  <2>2. Content(x, r.tail) \in Item
    BY <1>0, <1>1, <2>1, LiveItem DEF Constructed
  <2> QED BY <2>1, <2>2 DEF ContentOf
<1>11. \A b \in Block : b # x => Elements(b)' = Elements(b)
  BY <1>3, <1>6, SameElements
<1>12. IsPath(p)'
  <2>1. \A b \in Block : block'[b].next = block[b].next
    BY <1>3, <1>5
  <2>2. \A i \in 1..(Len(p) - 1) : p[i] \in Block
    OBVIOUS
  <2> QED BY <1>2, <2>1, <2>2 DEF IsPath
<1>13. f \in Fills /\ g \in Fills
  BY ContentsAre, ContentsNext
<1>14. /\ Len(p) >= 1 /\ p[Len(p)] = x
       /\ \A i \in 1..(Len(p) - 1) : p[i] # x /\ p[i] \in Block
  <2>1. Len(p) \in Nat /\ Len(p) >= 1 /\ p[Len(p)] = x
    BY <1>0 DEF IsPath
  <2>2. ASSUME NEW i \in 1..(Len(p) - 1) PROVE p[i] # x /\ p[i] \in Block
    <3>1. i \in 1..Len(p) /\ Len(p) \in 1..Len(p) /\ i # Len(p)
      BY <2>1
    <3> QED BY <2>1, <3>1 DEF IsPath
  <2> QED BY <2>1, <2>2
<1>15. /\ g[x] = Append(f[x], c[r.tail])
       /\ \A b \in Block : b # x => g[b] = f[b]
  BY <1>1, <1>9, <1>11 DEF ElementsOf
<1> DEFINE e == c[r.tail]
<1>16. e \in Held
  BY <1>9
<1> HIDE DEF f, g, e, r, s, c, d
<1>17. FlattenSeq(RowsOf(g, p)) = Append(FlattenSeq(RowsOf(f, p)), e)
  <2>1. g[p[Len(p)]] = Append(f[p[Len(p)]], e)
    BY <1>14, <1>15 DEF e
  <2>2. \A i \in 1..(Len(p) - 1) : g[p[i]] = f[p[i]]
    BY <1>14, <1>15
  <2> QED BY <1>13, <1>14, <1>16, <2>1, <2>2, JoinLast
<1>18. Contents' = Append(Contents, e)
  <2>1. Contents = FlattenSeq(RowsOf(f, p))
    BY ContentsAre DEF f
  <2>2. Contents' = FlattenSeq(RowsOf(g, p))
    BY <1>12, ContentsNext DEF g
  <2> QED BY <1>17, <2>1, <2>2
<1> QED BY <1>2, <1>10, <1>12, <1>18 DEF e

\* Into another block: the producer makes it the tail block.
LEMMA AdvanceEnqueues ==
  ASSUME IInv, IInv', BesidesInv, Advance, NEW p \in Seq(Block), IsPath(p)
  PROVE  /\ \E q \in Seq(Block) : IsPath(q)'
         /\ UNCHANGED got
         /\ \E e \in Item : Contents' = Append(Contents, e)
<1>0. PICK x \in Block : x = prod.b
  BY DEF IInv, ProdInv, Allocated
<1> DEFINE r == block[x]
           c == ContentOf(x)
           f == ElementsOf
           g == ElementsOf'
           q == Append(p, x)
           e == c[r.front]
<1>1. /\ Good(r) /\ HasElement(r) /\ r.tail = After(r.size, r.front)
      /\ x \notin Busy /\ x = block[tailBlock].next
  BY <1>0 DEF IInv, BlocksOK, ProdInv, Advance, BesidesInv
<1>2. /\ tailBlock' = x /\ UNCHANGED <<block, frontBlock, cons, got>>
  BY <1>0 DEF Advance
<1>3. \A b \in Block : Elements(b)' = Elements(b)
  <2>1. \A b \in Block : \A i : Content(b, i)' = Content(b, i)
    BY <1>2 DEF Content
  <2> QED BY <1>2, <2>1, SameElements
<1>4. f \in Fills /\ g \in Fills /\ g = f
  BY <1>3, ContentsAre, ContentsNext DEF ElementsOf
<1>5. c \in Cells /\ Elements(x) = Filled(r, c)
  BY ElementsAre
<1>6. e \in Item /\ e \in Held
  <2>1. r.front \in Slots(r) /\ r.front \in 0..(r.size - 1)
    BY <1>1, ShadowProps DEF Slots
  <2>2. cons.pc = "take" => cons.b # x
    BY <1>1 DEF IInv, ConsInv, Busy
  <2>3. Content(x, r.front) \in Item
    BY <2>1, <2>2, LiveItem
  <2>4. e = Content(x, r.front)
    BY <2>1, ContentIn
  <2> QED BY <2>3, <2>4, QueueAssumption DEF Item, Held
<1>7. Elements(x) = <<e>>
  <2> DEFINE n == Gap(r.size, r.front, r.tail)
  <2>1. /\ n \in 0..(r.size - 1)
        /\ n = 0 <=> ~HasElement(r)
        /\ Filled(r, c) \in Seq(Held) /\ Len(Filled(r, c)) = n
        /\ \A i \in 1..n : Filled(r, c)[i] = c[SlotAt(r.size, r.front, i - 1)]
    BY <1>1, <1>5, FilledProps
  <2>2. r.size \in Nat \ {0} /\ r.front \in 0..(r.size - 1)
    BY <1>1, SizeNat DEF Good, IndexesOK
  <2>3. Gap(r.size, r.front, r.front) = 0
    BY <2>2, GapProps
  <2>4. Gap(r.size, r.front, After(r.size, r.front)) \in {0, 1}
    BY <2>2, <2>3, GapProps
  <2>5. n = 1
    BY <1>1, <2>1, <2>4
  <2> HIDE DEF n
  <2>6. SlotAt(r.size, r.front, 0) = r.front
    BY <2>2, SlotAtProps
  <2>7. /\ Filled(r, c) \in Seq(Held) /\ Len(Filled(r, c)) = 1
        /\ Filled(r, c)[1] = e
    BY <2>1, <2>5, <2>6, 1 - 1 = 0
  <2> HIDE DEF e
  <2>8. Filled(r, c) = <<e>>
    BY <2>7
  <2> QED BY <1>5, <2>8
<1>8. \A i \in 1..Len(p) : p[i] \in Busy
  BY PathBusy
<1>9. /\ p \in Seq(Block) /\ Len(p) >= 1 /\ Len(p) \in Nat
      /\ p[1] = frontBlock /\ p[Len(p)] = tailBlock
      /\ \A i, j \in 1..Len(p) : p[i] = p[j] => i = j
      /\ \A i \in 1..(Len(p) - 1) : p[i + 1] = block[p[i]].next
  BY DEF IsPath
<1>10. /\ q \in Seq(Block) /\ Len(q) = Len(p) + 1 /\ q[Len(p) + 1] = x
       /\ \A i \in 1..Len(p) : q[i] = p[i]
  BY AppendProperties
<1> HIDE DEF q
<1>11. IsPath(q)'
  <2>1. q[1] = frontBlock' /\ q[Len(q)] = tailBlock' /\ Len(q) >= 1
    BY <1>2, <1>9, <1>10, 1 \in 1..Len(p)
  <2>2. ASSUME NEW i \in 1..Len(q), NEW j \in 1..Len(q), q[i] = q[j] PROVE i = j
    <3>1. i \in 1..Len(p) \/ i = Len(p) + 1
      BY <1>9, <1>10
    <3>2. j \in 1..Len(p) \/ j = Len(p) + 1
      BY <1>9, <1>10
    <3> QED BY <1>1, <1>8, <1>9, <1>10, <2>2, <3>1, <3>2
  <2>3. ASSUME NEW i \in 1..(Len(q) - 1) PROVE q[i + 1] = block'[q[i]].next
    <3>1. CASE i = Len(p)
      <4>1. q[i + 1] = x /\ q[i] = tailBlock
        BY <1>9, <1>10, <3>1, Len(p) \in 1..Len(p)
      <4> QED BY <1>1, <1>2, <4>1
    <3>2. CASE i # Len(p)
      <4>1. i \in 1..(Len(p) - 1) /\ i \in 1..Len(p) /\ i + 1 \in 1..Len(p)
        BY <1>9, <1>10, <3>2
      <4> QED BY <1>2, <1>9, <1>10, <4>1
    <3> QED BY <3>1, <3>2
  <2> QED BY <1>10, <2>1, <2>2, <2>3 DEF IsPath
<1>12. FlattenSeq(RowsOf(g, q)) = Append(FlattenSeq(RowsOf(f, p)), e)
  <2>1. g[x] = <<e>>
    BY <1>4, <1>7 DEF ElementsOf
  <2> HIDE DEF f, g, e
  <2>2. \A i \in 1..Len(p) : g[p[i]] = f[p[i]]
    BY <1>4
  <2> QED BY <1>4, <1>6, <2>1, <2>2, JoinMore DEF q
<1>13. Contents' = Append(Contents, e)
  <2>1. Contents = FlattenSeq(RowsOf(f, p))
    BY ContentsAre
  <2>2. Contents' = FlattenSeq(RowsOf(g, q))
    BY <1>10, <1>11, ContentsNext
  <2> HIDE DEF f, g, e
  <2> QED BY <1>12, <2>1, <2>2
<1> QED BY <1>2, <1>6, <1>10, <1>11, <1>13

\* A block without elements is left; nothing else happens.
LEMMA MoveFrontQuiet ==
  ASSUME IInv, IInv', MoveFront, NEW p \in Seq(Block), IsPath(p)
  PROVE  /\ \E q \in Seq(Block) : IsPath(q)'
         /\ UNCHANGED got
         /\ Contents' = Contents
<1> DEFINE q == Tail(p)
           f == ElementsOf
           g == ElementsOf'
<1>1. /\ frontBlock \in Block /\ Good(block[frontBlock])
      /\ ~HasElement(block[frontBlock]) /\ frontBlock # tailBlock
      /\ cons.b = block[frontBlock].next /\ cons.pc = "move" /\ cons \in ConsType
  BY DEF IInv, BlocksOK, ConsInv, MoveFront, Allocated
<1>2. /\ frontBlock' = cons.b /\ cons'.pc = "read"
      /\ UNCHANGED <<block, tailBlock, got>>
  BY <1>1 DEF MoveFront, ConsType
<1>3. \A b \in Block : Elements(b)' = Elements(b)
  <2>1. \A b \in Block : \A i : Content(b, i)' = Content(b, i)
    BY <1>1, <1>2 DEF Content
  <2> QED BY <1>2, <2>1, SameElements
<1>4. f \in Fills /\ g \in Fills /\ g = f
  BY <1>3, ContentsAre, ContentsNext DEF ElementsOf
<1>5. f[frontBlock] = <<>>
  <2>1. PICK b \in Block : b = frontBlock
    BY <1>1
  <2>2. ContentOf(b) \in Cells /\ Elements(b) = Filled(block[b], ContentOf(b))
    BY ElementsAre
  <2>3. Elements(b) \in Seq(Held) /\ Len(Elements(b)) = 0
    BY <1>1, <2>1, <2>2, FilledProps
  <2>4. Elements(b) = <<>>
    BY <2>3
  <2> QED BY <2>1, <2>4 DEF ElementsOf
<1>6. /\ Len(p) >= 1 /\ Len(p) \in Nat
      /\ p[1] = frontBlock /\ p[Len(p)] = tailBlock
      /\ \A i, j \in 1..Len(p) : p[i] = p[j] => i = j
      /\ \A i \in 1..(Len(p) - 1) : p[i + 1] = block[p[i]].next
  BY DEF IsPath
<1>7. Len(p) >= 2
  BY <1>1, <1>6
<1>8. /\ q \in Seq(Block) /\ Len(q) = Len(p) - 1
      /\ \A i \in 1..(Len(p) - 1) : q[i] = p[i + 1]
  BY <1>6, FirstApart
<1> HIDE DEF q
<1>9. IsPath(q)'
  <2>1. Len(q) >= 1 /\ q[1] = frontBlock'
    <3>1. 1 \in 1..(Len(p) - 1) /\ q[1] = p[1 + 1]
      BY <1>6, <1>7, <1>8
    <3>2. p[1 + 1] = block[p[1]].next
      BY <1>6, <3>1
    <3> QED BY <1>1, <1>2, <1>6, <1>7, <1>8, <3>1, <3>2
  <2>2. q[Len(q)] = tailBlock'
    <3>1. Len(p) - 1 \in 1..(Len(p) - 1) /\ (Len(p) - 1) + 1 = Len(p)
      BY <1>6, <1>7
    <3> QED BY <1>2, <1>6, <1>8, <3>1
  <2>3. ASSUME NEW i \in 1..Len(q), NEW j \in 1..Len(q), q[i] = q[j] PROVE i = j
    <3>1. i + 1 \in 1..Len(p) /\ j + 1 \in 1..Len(p)
          /\ q[i] = p[i + 1] /\ q[j] = p[j + 1]
      BY <1>6, <1>8
    <3>2. i + 1 = j + 1
      BY <1>6, <2>3, <3>1
    <3> QED BY <3>2
  <2>4. ASSUME NEW i \in 1..(Len(q) - 1) PROVE q[i + 1] = block'[q[i]].next
    <3>1. i + 1 \in 1..(Len(p) - 1) /\ i \in 1..(Len(p) - 1)
      BY <1>6, <1>8
    <3> QED BY <1>2, <1>6, <1>8, <3>1
  <2> QED BY <1>8, <2>1, <2>2, <2>3, <2>4 DEF IsPath
<1>10. FlattenSeq(RowsOf(g, q)) = FlattenSeq(RowsOf(f, p))
  <2> HIDE DEF f, g
  <2>1. f[p[1]] = <<>> /\ \A i \in 2..Len(p) : g[p[i]] = f[p[i]]
    BY <1>4, <1>5, <1>6
  <2> QED BY <1>4, <1>6, <2>1, JoinEmpty DEF q
<1>11. Contents = FlattenSeq(RowsOf(f, p)) /\ Contents' = FlattenSeq(RowsOf(g, q))
  BY <1>8, <1>9, ContentsAre, ContentsNext
<1> HIDE DEF f, g
<1> QED BY <1>2, <1>8, <1>9, <1>10, <1>11

\* The first element is gone once the front has passed its slot.
LEMMA TakeDequeues ==
  ASSUME IInv, IInv', Take, NEW p \in Seq(Block), IsPath(p)
  PROVE  /\ IsPath(p)' /\ Contents # <<>>
         /\ Contents' = Tail(Contents)
         /\ got' = IF cons.op = "dequeue" THEN Head(Contents) ELSE got
<1>0. PICK x \in Block : x = frontBlock
  BY DEF IInv, BlocksOK, Allocated
<1> DEFINE r == block[x]
           s == block'[x]
           c == ContentOf(x)
           d == ContentOf(x)'
           f == ElementsOf
           g == ElementsOf'
           i == r.front
           e == c[i]
<1>1. /\ block \in [Block -> BlockType] /\ cons \in ConsType
      /\ Good(r) /\ r \in BlockType /\ HasElement(r)
      /\ cons.pc = "take" /\ cons.b = x /\ cons.slot = i
      /\ i \in 0..(MaxSize - 1)
  <2>1. /\ block \in [Block -> BlockType] /\ cons \in ConsType
        /\ Good(r) /\ r \in BlockType /\ HasElement(r)
        /\ cons.pc = "take" /\ cons.b = x /\ cons.slot = i
    BY <1>0 DEF IInv, BlocksOK, ConsInv, Take, Good
  <2>2. i \in 0..(r.size - 1)
    BY <2>1 DEF Good, IndexesOK
  <2> QED BY <2>1, <2>2, SizeNat, QueueAssumption
<1>2. /\ block' = [block EXCEPT ![x].front = After(r.size, i)]
      /\ got' = IF cons.op = "dequeue" THEN cons.item ELSE got
      /\ cons'.pc = "idle"
      /\ UNCHANGED <<frontBlock, tailBlock>>
  BY <1>1 DEF Take, NextSlot, After, ConsType
<1>3. /\ s.size = r.size /\ s.front = After(r.size, i) /\ s.tail = r.tail
      /\ s.data = r.data /\ s.next = r.next
      /\ \A b \in Block : b # x => block'[b] = block[b]
  BY <1>1, <1>2 DEF BlockType
<1>4. \A b \in Block : \A j : (b # x \/ j # i) => Content(b, j)' = Content(b, j)
  BY <1>1, <1>2, <1>3 DEF Content
<1>5. Content(x, i) = cons.item
  BY <1>1 DEF Content
<1>6. /\ c \in Cells /\ Elements(x) = Filled(r, c)
      /\ d \in Cells /\ Elements(x)' = Filled(s, d) /\ Good(s)
  BY <1>1, ElementsAre, FilledSteps
<1>7. \A j \in Slots(r) \ {i} : d[j] = c[j]
  <2>1. ASSUME NEW j \in Slots(r) \ {i} PROVE d[j] = c[j]
    <3>1. j \in 0..(MaxSize - 1)
      BY ContentIn
    <3> QED BY <1>4, <3>1 DEF ContentOf
  <2> QED BY <2>1
<1>8. e = cons.item
  BY <1>1, <1>5 DEF ContentOf
<1>9. Elements(x) = <<e>> \o Elements(x)' /\ e \in Held
  <2> HIDE DEF r, s, c, d
  <2> QED BY <1>1, <1>3, <1>6, <1>7, FilledTake
<1>10. \A b \in Block : b # x => Elements(b)' = Elements(b)
  <2>1. ASSUME NEW b \in Block, b # x PROVE Elements(b)' = Elements(b)
    <3>1. \A j \in Slots(block[b]) : Content(b, j)' = Content(b, j)
      BY <1>4, <2>1
    <3> QED BY <1>3, <2>1, <3>1, SameElements
  <2> QED BY <2>1
<1>11. IsPath(p)'
  <2>1. \A b \in Block : block'[b].next = block[b].next
    BY <1>3
  <2>2. \A j \in 1..(Len(p) - 1) : p[j] \in Block
    OBVIOUS
  <2> QED BY <1>2, <2>1, <2>2 DEF IsPath
<1>12. f \in Fills /\ g \in Fills
  BY ContentsAre, ContentsNext
<1>13. f[x] = <<e>> \o g[x] /\ \A b \in Block : b # x => g[b] = f[b]
  BY <1>9, <1>10 DEF ElementsOf
<1>14. /\ Len(p) >= 1 /\ p[1] = x
       /\ \A j \in 2..Len(p) : p[j] # x /\ p[j] \in Block
  <2>1. Len(p) \in Nat /\ Len(p) >= 1 /\ p[1] = x
    BY <1>0 DEF IsPath
  <2>2. ASSUME NEW j \in 2..Len(p) PROVE p[j] # x /\ p[j] \in Block
    <3>1. j \in 1..Len(p) /\ 1 \in 1..Len(p) /\ j # 1
      BY <2>1
    <3> QED BY <2>1, <3>1 DEF IsPath
  <2> QED BY <2>1, <2>2
<1> HIDE DEF f, g, e, r, s, c, d, i
<1> DEFINE t == FlattenSeq(RowsOf(g, p))
<1>15. FlattenSeq(RowsOf(f, p)) = <<e>> \o t
  <2>1. f[p[1]] = <<e>> \o g[p[1]] /\ \A j \in 2..Len(p) : g[p[j]] = f[p[j]]
    BY <1>13, <1>14
  <2> QED BY <1>9, <1>12, <1>14, <2>1, JoinFirst
<1>16. t \in Seq(Held)
  <2>1. RowsOf(g, p) \in Seq(Seq(Held))
    BY <1>12, RowsOfProps
  <2>2. <<>> \in Seq(Held)
    OBVIOUS
  <2> QED BY <2>1, <2>2, FlatProps
<1>17. Contents = <<e>> \o t /\ Contents' = t
  <2>1. Contents = FlattenSeq(RowsOf(f, p))
    BY ContentsAre DEF f
  <2>2. Contents' = t
    BY <1>11, ContentsNext DEF g
  <2> QED BY <1>15, <2>1, <2>2
<1> HIDE DEF t
<1>18. <<e>> \o t # <<>> /\ Head(<<e>> \o t) = e /\ Tail(<<e>> \o t) = t
  BY <1>9, <1>16
<1> QED BY <1>2, <1>8, <1>11, <1>17, <1>18

\* peek gives the first element, in the front block or in the next.
LEMMA ReadIsPeek ==
  ASSUME IInv, BesidesInv, Read, NEW p \in Seq(Block), IsPath(p)
  PROVE  UNCHANGED got \/ (Contents # <<>> /\ got' = Head(Contents))
<1> SUFFICES ASSUME cons.op = "peek"
             PROVE  Contents # <<>> /\ got' = Head(Contents)
  BY DEF Read
<1>0. PICK x \in Block : x = cons.b
  BY DEF IInv, ConsInv, Allocated
<1> DEFINE r == block[x]
           f == ElementsOf
<1>1. /\ cons.pc = "read" /\ cons.slot = r.front /\ HasElement(r) /\ Good(r)
      /\ got' = r.data[r.front]
  BY <1>0 DEF IInv, BlocksOK, ConsInv, Read
<1>2. f[x] \in Seq(Held) /\ Len(f[x]) >= 1 /\ f[x][1] = got'
  <2> DEFINE c == ContentOf(x)
             n == Gap(r.size, r.front, r.tail)
  <2>1. c \in Cells /\ f[x] = Filled(r, c)
    BY ElementsAre DEF ElementsOf
  <2>2. /\ n \in 0..(r.size - 1)
        /\ n = 0 <=> ~HasElement(r)
        /\ Filled(r, c) \in Seq(Held) /\ Len(Filled(r, c)) = n
        /\ \A i \in 1..n : Filled(r, c)[i] = c[SlotAt(r.size, r.front, i - 1)]
    BY <1>1, <2>1, FilledProps
  <2>3. r.size \in Nat \ {0} /\ r.front \in 0..(r.size - 1)
        /\ r.front \in 0..(MaxSize - 1)
    BY <1>1, SizeNat, QueueAssumption DEF Good, IndexesOK
  <2>4. SlotAt(r.size, r.front, 0) = r.front
    BY <2>3, SlotAtProps
  <2>5. c[r.front] = got'
    BY <1>1, <2>3 DEF ContentOf, Content
  <2> HIDE DEF n, c, f
  <2>6. n >= 1 /\ 1 \in 1..n
    BY <1>1, <2>2, <2>3
  <2>7. Filled(r, c)[1] = c[SlotAt(r.size, r.front, 1 - 1)]
    BY <2>2, <2>6
  <2> QED BY <2>1, <2>2, <2>4, <2>5, <2>6, <2>7, 1 - 1 = 0
<1>3. f \in Fills /\ Contents = FlattenSeq(RowsOf(f, p))
  BY ContentsAre
<1>4. /\ Len(p) >= 1 /\ Len(p) \in Nat
      /\ p[1] = frontBlock /\ p[Len(p)] = tailBlock
      /\ \A i \in 1..(Len(p) - 1) : p[i + 1] = block[p[i]].next
  BY DEF IsPath
<1>5. CASE cons.b = frontBlock
  <2> HIDE DEF f
  <2>1. p[1] = x
    BY <1>0, <1>4, <1>5
  <2> QED BY <1>2, <1>3, <1>4, <2>1, JoinHead
<1>6. CASE cons.b # frontBlock
  <2> DEFINE q == Tail(p)
  <2>1. /\ frontBlock # tailBlock /\ ~HasElement(block[frontBlock])
        /\ x = block[frontBlock].next
    BY <1>0, <1>1, <1>6 DEF BesidesInv
  <2>2. Len(p) >= 2
    BY <1>4, <2>1
  <2>3. /\ q \in Seq(Block) /\ Len(q) = Len(p) - 1 /\ Len(q) >= 1
        /\ q[1] = p[1 + 1]
    BY <1>4, <2>2, FirstApart
  <2>4. q[1] = x
    BY <1>4, <2>1, <2>2, <2>3
  <2>5. f[p[1]] = <<>>
    <3>1. PICK b \in Block : b = frontBlock
      BY DEF IInv, BlocksOK, Allocated
    <3>2. /\ ContentOf(b) \in Cells /\ Good(block[b])
          /\ Elements(b) = Filled(block[b], ContentOf(b))
      BY ElementsAre
    <3>3. Elements(b) \in Seq(Held) /\ Len(Elements(b)) = 0
      BY <2>1, <3>1, <3>2, FilledProps
    <3>4. Elements(b) = <<>>
      BY <3>3
    <3> QED BY <1>4, <3>1, <3>4 DEF ElementsOf
  <2> HIDE DEF q, f
  <2>6. FlattenSeq(RowsOf(f, q)) = FlattenSeq(RowsOf(f, p))
    BY <1>3, <1>4, <2>5, JoinEmpty DEF q
  <2>7. /\ FlattenSeq(RowsOf(f, q)) # <<>>
        /\ Head(FlattenSeq(RowsOf(f, q))) = got'
    BY <1>2, <1>3, <2>3, <2>4, JoinHead
  <2> QED BY <1>3, <2>6, <2>7
<1> QED BY <1>5, <1>6

\* What a step of the producer leaves of the front block it is not in.
LEMMA ProduceFrame ==
  ASSUME IInv, Produce
  PROVE  /\ UNCHANGED <<frontBlock, cons>>
         /\ frontBlock # tailBlock =>
              /\ frontBlock # tailBlock'
              /\ block'[frontBlock].front = block[frontBlock].front
              /\ block'[frontBlock].tail = block[frontBlock].tail
              /\ block'[frontBlock].next = block[frontBlock].next
<1> USE DEF IInv
<1>1. /\ block \in [Block -> BlockType]
      /\ frontBlock \in Allocated /\ frontBlock \in Block /\ frontBlock \in Busy
      /\ tailBlock \in Block /\ block[tailBlock].next \in Block /\ prod.b \in Block
  BY DEF BlocksOK, RingInv, ProdInv, Linked, Allocated, Busy
<1>2. CASE Enqueue \/ TestNextBlock \/ Refuse
  BY <1>2 DEF Enqueue, TestNextBlock, Refuse
<1>3. CASE ReloadFront \/ ReuseNext \/ Write
  <2>1. PICK x, e :
          /\ x \in Block
          /\ \/ block' = [block EXCEPT ![x].localFront = e]
             \/ \E i : block' = [block EXCEPT ![x].data[i] = e]
    BY <1>1, <1>3 DEF ReloadFront, ReuseNext, Write
  <2>2. \A b \in Block : /\ block'[b].front = block[b].front
                         /\ block'[b].tail = block[b].tail
                         /\ block'[b].next = block[b].next
    <3>1. CASE block' = [block EXCEPT ![x].localFront = e]
      BY <1>1, <3>1 DEF BlockType
    <3>2. CASE block' # [block EXCEPT ![x].localFront = e]
      <4>1. PICK i : block' = [block EXCEPT ![x].data[i] = e]
        BY <2>1, <3>2
      <4> QED BY <1>1, <4>1 DEF BlockType
    <3> QED BY <3>1, <3>2
  <2>3. UNCHANGED <<frontBlock, tailBlock, cons>>
    BY <1>3 DEF ReloadFront, ReuseNext, Write
  <2> QED BY <1>1, <2>2, <2>3
<1>4. CASE Publish
  <2>1. /\ UNCHANGED <<frontBlock, tailBlock, cons>>
        /\ \A b \in Block : b # prod.b => block'[b] = block[b]
    BY <1>1, <1>4 DEF Publish
  <2>2. prod.b # tailBlock => prod.b \notin Busy
    BY <1>4 DEF Publish, ProdInv
  <2> QED BY <1>1, <2>1, <2>2
<1>5. CASE Allocate
  <2>1. PICK x \in Block \ Allocated : \A b \in Block : b # x => block'[b] = block[b]
    BY <1>1, <1>5 DEF Allocate
  <2> QED BY <1>1, <1>5, <2>1 DEF Allocate
<1>6. CASE Link
  <2>1. /\ UNCHANGED <<frontBlock, tailBlock, cons>>
        /\ \A b \in Block : b # tailBlock => block'[b] = block[b]
    BY <1>1, <1>6 DEF Link
  <2> QED BY <1>1, <2>1
<1>7. CASE Advance
  <2>1. prod.b \notin Busy
    BY <1>7 DEF Advance, ProdInv
  <2> QED BY <1>1, <1>7, <2>1 DEF Advance
<1> QED BY <1>2, <1>3, <1>4, <1>5, <1>6, <1>7 DEF Produce

\* What a step of the consumer leaves of the blocks other than the front block.
LEMMA ConsumeFrame ==
  ASSUME IInv, Consume
  PROVE  /\ UNCHANGED prod
         /\ \A b \in Block \ Busy : /\ block'[b].size = block[b].size
                                    /\ block'[b].front = block[b].front
                                    /\ block'[b].tail = block[b].tail
<1> USE DEF IInv
<1>1. /\ block \in [Block -> BlockType] /\ frontBlock \in Block
      /\ frontBlock \in Busy /\ cons.b \in Block
  BY DEF BlocksOK, ConsInv, Allocated, Busy
<1>2. UNCHANGED prod
  BY DEF Consume, Begin, ReloadTail, TestTailBlock, Recheck, LoadTail, ReadNext,
         ReadNextTail, MoveFront, Read, Take, ReturnFalse
<1>3. CASE Take
  <2>1. cons.b \in Busy
    BY <1>1, <1>3 DEF Take, ConsInv
  <2>2. \A b \in Block : b # cons.b => block'[b] = block[b]
    BY <1>1, <1>3 DEF Take
  <2> QED BY <1>2, <2>1, <2>2
<1>4. CASE ~Take
  <2>1. \/ UNCHANGED block
        \/ \E x \in Block : \E e :
             \/ block' = [block EXCEPT ![x].localTail = e]
             \/ \E i : block' = [block EXCEPT ![x].data[i] = e]
    BY <1>1, <1>4 DEF Consume, Begin, ReloadTail, TestTailBlock, Recheck,
       LoadTail, ReadNext, ReadNextTail, MoveFront, Read, ReturnFalse
  <2>2. CASE UNCHANGED block
    BY <1>2, <2>2
  <2>3. CASE ~UNCHANGED block
    <3>1. \E x \in Block : \E e :
             \/ block' = [block EXCEPT ![x].localTail = e]
             \/ \E i : block' = [block EXCEPT ![x].data[i] = e]
      BY <2>1, <2>3
    <3> QED BY <1>1, <1>2, <3>1 DEF BlockType
  <2> QED BY <2>2, <2>3
<1> QED BY <1>3, <1>4

LEMMA BesidesStep == IInv /\ BesidesInv /\ [Next]_vars => BesidesInv'
<1> SUFFICES ASSUME IInv, BesidesInv, [Next]_vars PROVE BesidesInv'
  OBVIOUS
<1> USE DEF IInv
<1> DEFINE One(r) == r.tail = After(r.size, r.front)
           Behind == /\ frontBlock # tailBlock /\ ~HasElement(block[frontBlock])
                     /\ cons.b = block[frontBlock].next
<1>1. /\ block \in [Block -> BlockType]
      /\ frontBlock \in Block /\ tailBlock \in Block
      /\ prod \in ProdType /\ prod.b \in Block /\ prod.b \in Allocated
      /\ cons \in ConsType
  BY DEF BlocksOK, ProdInv, ConsInv, Allocated
<1>2. CASE Produce
  <2>1. prod'.pc \in {"link", "advance"} => One(block'[prod'.b])
    <3>1. CASE Publish
      <4>1. /\ prod.pc = "publish" /\ prod.slot = block[prod.b].tail
            /\ block' = [block EXCEPT ![prod.b].tail =
                           After(block[prod.b].size, prod.slot)]
            /\ prod'.pc = (IF prod.b = tailBlock THEN "idle" ELSE "advance")
            /\ prod'.b = prod.b
        BY <1>1, <3>1 DEF Publish, ProdInv, ProdType, NextSlot, After
      <4>2. prod.b # tailBlock => ~HasElement(block[prod.b])
        BY <1>1, <4>1 DEF ProdInv, Busy, Pending
      <4>3. /\ block'[prod.b].size = block[prod.b].size
            /\ block'[prod.b].front = block[prod.b].front
            /\ block'[prod.b].tail = After(block[prod.b].size, block[prod.b].tail)
        BY <1>1, <4>1 DEF BlockType
      <4> QED BY <4>1, <4>2, <4>3 DEF HasElement
    <3>2. CASE Allocate
      <4> DEFINE size == IF largest >= MaxSize THEN largest ELSE 2 * largest
                 r == [NewBlock(size, block[tailBlock].next) EXCEPT
                         !.data[0] = sent, !.tail = 1, !.localTail = 1]
      <4>1. PICK n \in Block \ Allocated :
              /\ block' = [block EXCEPT ![n] = r]
              /\ prod' = [pc |-> "link", b |-> n, slot |-> 0]
        BY <3>2 DEF Allocate
      <4>2. r.tail = 1 /\ r.front = 0 /\ r.size = size
        BY DEF NewBlock
      <4> HIDE DEF r
      <4>3. size \in Nat /\ size >= 2
        <5>1. largest \in Sizes /\ MaxSize \in Nat /\ FirstSize \in Nat /\ FirstSize >= 2
          BY QueueAssumption DEF BlocksOK
        <5>2. largest \in Nat /\ largest >= 2
          BY <5>1, SizesProps
        <5> QED BY <5>1, <5>2
      <4>4. After(size, 0) = 1
        BY <4>3, AfterValue
      <4>5. block'[prod'.b] = r
        BY <1>1, <4>1
      <4> QED BY <4>2, <4>4, <4>5
    <3>3. CASE Link
      <4>1. /\ prod.pc = "link" /\ prod'.b = prod.b
            /\ block' = [block EXCEPT ![tailBlock].next = prod.b]
        BY <1>1, <3>3 DEF Link, ProdType
      <4>2. /\ block'[prod.b].size = block[prod.b].size
            /\ block'[prod.b].front = block[prod.b].front
            /\ block'[prod.b].tail = block[prod.b].tail
        BY <1>1, <4>1 DEF BlockType
      <4> QED BY <4>1, <4>2 DEF BesidesInv
    <3>4. CASE Enqueue \/ ReloadFront \/ TestNextBlock \/ ReuseNext \/ Write
               \/ Refuse \/ Advance
      <4>1. prod'.pc \notin {"link", "advance"}
        BY <1>1, <3>4 DEF Enqueue, ReloadFront, TestNextBlock, ReuseNext, Write,
           Refuse, Advance, ProdType
      <4> QED BY <4>1
    <3> QED BY <1>2, <3>1, <3>2, <3>3, <3>4 DEF Produce
  <2>2. cons'.pc = "read" /\ cons'.b # frontBlock' => Behind'
    BY <1>2, ProduceFrame DEF BesidesInv, HasElement
  <2> QED BY <2>1, <2>2 DEF BesidesInv
<1>3. CASE Consume
  <2>1. prod'.pc \in {"link", "advance"} => One(block'[prod'.b])
    <3>1. prod.pc \in {"link", "advance"} => prod.b \in Block \ Busy
      BY <1>1 DEF ProdInv
    <3> QED BY <1>3, <3>1, ConsumeFrame DEF BesidesInv
  <2>2. cons'.pc = "read" /\ cons'.b # frontBlock' => Behind'
    <3>1. CASE \E op \in Ops : Begin(op)
      BY <3>1 DEF Begin
    <3>2. CASE ReloadTail \/ Recheck
      BY <1>1, <3>2 DEF ReloadTail, Recheck, LoadTail, ConsInv, ConsType
    <3>3. CASE ReadNextTail
      <4>1. cons'.pc = "read" =>
              /\ cons'.b = cons.b /\ cons.pc = "next_tail"
              /\ UNCHANGED <<block, frontBlock, tailBlock>>
        BY <1>1, <3>3 DEF ReadNextTail, ConsType
      <4> QED BY <4>1 DEF ConsInv
    <3>4. CASE MoveFront
      BY <1>1, <3>4 DEF MoveFront, ConsType
    <3>5. CASE TestTailBlock \/ ReadNext \/ Read \/ Take \/ ReturnFalse
      BY <1>1, <3>5 DEF TestTailBlock, ReadNext, Read, Take, ReturnFalse, ConsType
    <3> QED BY <1>3, <3>1, <3>2, <3>3, <3>4, <3>5 DEF Consume
  <2> QED BY <2>1, <2>2 DEF BesidesInv
<1>4. CASE UNCHANGED vars
  BY <1>4 DEF vars, BesidesInv
<1> QED BY <1>2, <1>3, <1>4 DEF Next

\* In the first state the ring is the first block, which is empty.
LEMMA BesidesInit ==
  ASSUME Init PROVE BesidesInv /\ PathInv /\ Contents = <<>>
<1>1. IInv
  BY InitInv
<1>2. BesidesInv
  BY DEF Init, BesidesInv
<1> DEFINE p == <<First>>
           f == ElementsOf
<1>3. First \in Block
  BY QueueAssumption
<1>4. p \in Seq(Block) /\ IsPath(p)
  BY <1>3 DEF IsPath, Init
<1>5. f \in Fills /\ Contents = FlattenSeq(RowsOf(f, p))
  BY <1>1, <1>4, ContentsAre
<1>6. f[First] = <<>>
  <2>1. ~HasElement(block[First])
    BY <1>3 DEF Init, NewBlock, HasElement
  <2>2. /\ ContentOf(First) \in Cells /\ Good(block[First])
        /\ Elements(First) = Filled(block[First], ContentOf(First))
    BY <1>1, <1>3, ElementsAre
  <2>3. Elements(First) \in Seq(Held) /\ Len(Elements(First)) = 0
    BY <2>1, <2>2, FilledProps
  <2>4. Elements(First) = <<>>
    BY <2>3
  <2> QED BY <1>3, <2>4 DEF ElementsOf
<1>7. RowsOf(f, p) = <<<<>>>>
  <2> HIDE DEF f
  <2> QED BY <1>6 DEF RowsOf
<1>8. FlattenSeq(<<<<>>>>) = <<>>
  <2> DEFINE none == <<>>
  <2>1. none \in Seq(Seq(Held)) /\ none \in Seq(Held) /\ Len(none) = 0
    OBVIOUS
  <2>2. FlattenSeq(none) = <<>>
    BY <2>1 DEF FlattenSeq
  <2>3. Append(none, none) = <<<<>>>> /\ none \o none = <<>>
    OBVIOUS
  <2> HIDE DEF none
  <2>4. FlattenSeq(Append(none, none)) = FlattenSeq(none) \o none
    BY <2>1, FlatProps
  <2> QED BY <2>2, <2>3, <2>4 DEF none
<1> QED BY <1>2, <1>4, <1>5, <1>7, <1>8 DEF PathInv

LEMMA FifoStep ==
  ASSUME IInv, IInv', BesidesInv, PathInv, [Next]_vars
  PROVE  PathInv' /\ (Abstract!Next \/ UNCHANGED <<Contents, got>>)
<1>1. PICK p \in Seq(Block) : IsPath(p)
  BY DEF PathInv
<1>2. ASSUME Quiet PROVE PathInv' /\ Contents' = Contents
  BY <1>1, <1>2, QuietStep DEF PathInv
<1> USE DEF Abstract!Next, Abstract!Enqueue, Abstract!Dequeue, Abstract!Peek,
            Abstract!Pop
<1>3. CASE \/ Enqueue \/ ReloadFront \/ TestNextBlock \/ ReuseNext
           \/ Allocate \/ Refuse \/ Link \/ (Publish /\ prod.b # tailBlock)
  BY <1>2, <1>3, ProduceQuiet
<1>4. CASE Write
  BY <1>2, <1>4, WriteQuiet
<1>5. CASE Publish /\ prod.b = tailBlock
  <2>1. IsPath(p)' /\ UNCHANGED got /\ \E e \in Item : Contents' = Append(Contents, e)
    BY <1>1, <1>5, PublishEnqueues
  <2> QED BY <2>1 DEF PathInv
<1>6. CASE Advance
  <2>1. /\ \E q \in Seq(Block) : IsPath(q)'
        /\ UNCHANGED got /\ \E e \in Item : Contents' = Append(Contents, e)
    BY <1>1, <1>6, AdvanceEnqueues
  <2> QED BY <2>1 DEF PathInv
<1>7. CASE \/ \E op \in Ops : Begin(op)
           \/ ReloadTail \/ TestTailBlock \/ Recheck \/ ReadNext \/ ReadNextTail
           \/ ReturnFalse
  BY <1>2, <1>7, ConsumeQuiet
<1>8. CASE MoveFront
  <2>1. (\E q \in Seq(Block) : IsPath(q)') /\ UNCHANGED got /\ Contents' = Contents
    BY <1>1, <1>8, MoveFrontQuiet
  <2> QED BY <2>1 DEF PathInv
<1>9. CASE Read
  <2>1. Quiet
    BY <1>9, ReadQuiet
  <2>2. UNCHANGED got \/ (Contents # <<>> /\ got' = Head(Contents))
    BY <1>1, <1>9, ReadIsPeek
  <2> QED BY <1>2, <2>1, <2>2
<1>10. CASE Take
  <2>1. /\ IsPath(p)' /\ Contents # <<>> /\ Contents' = Tail(Contents)
        /\ got' = IF cons.op = "dequeue" THEN Head(Contents) ELSE got
    BY <1>1, <1>10, TakeDequeues
  <2> QED BY <2>1 DEF PathInv
<1>11. CASE UNCHANGED vars
  <2>1. Quiet /\ UNCHANGED got
    BY <1>11 DEF vars, Quiet, Content
  <2> QED BY <1>2, <2>1
<1> QED BY <1>3, <1>4, <1>5, <1>6, <1>7, <1>8, <1>9, <1>10, <1>11
        DEF Next, Produce, Consume

\* Elements come out in the order in which they went in, each once, with any
\* number of blocks of any sizes and whatever the two threads' steps do to each
\* other: the queue of Fifo is the elements along the ring.
THEOREM QueueIsFifo == Spec => ImplementsFifo
<1>1. Init => Abstract!Init /\ BesidesInv /\ PathInv
  <2>1. Init => got \notin Item
    BY QueueAssumption DEF Init, Dead, Item
  <2> QED BY <2>1, BesidesInit DEF Abstract!Init
<1>2. IInv /\ IInv' /\ BesidesInv /\ PathInv /\ [Next]_vars
        => BesidesInv' /\ PathInv' /\ [Abstract!Next]_(Abstract!vars)
  BY BesidesStep, FifoStep DEF Abstract!vars
<1> QED BY <1>1, <1>2, Invariant, PTL DEF Spec, ImplementsFifo, Abstract!Spec

-----------------------------------------------------------------------------
(***************************************************************************)
(* Times, shown and typed: LocalTime.                                      *)
(***************************************************************************)
\* What is typed lies between the epoch and the last TimeInt, at which it is
\* not summer.
TimesFit ==
  /\ Clock!LocalTimeConstants
  /\ \A r \in Typed : Clock!ToTimePoint(r) \in 0..(TimeMod - 1)
  /\ TimeMod - 1 \notin Summer

Readings == [day : Int, unit : 0..(DayLength - 1)]

\* The readings that TimeInt can hold.
Fitting == {r \in Readings : Clock!ToTimePoint(r) \in 0..(TimeMod - 1)}

ArgType ==
  [which : Which, of : 0..(TimeMod - 1), typed : Fitting, alone : BOOLEAN]

ClockType ==
  /\ window \in BOOLEAN
  /\ stored \in [Which -> 0..(TimeMod - 1)]
  /\ typed \in [Which -> Fitting]
  /\ pc \in [Thread -> Clock!Converting \union {"idle", "shown"}]
  /\ DOMAIN arg = Thread
  /\ \A p \in Thread : pc[p] # "idle" => arg[p] \in ArgType
  /\ buf \in Readings
  /\ tm \in [Thread -> Readings]

\* What is kept is what was typed, also in the conversions that have begun.
KeptInv ==
  /\ \A w \in Which : stored[w] = Clock!ToTimePoint(typed[w])
  /\ \A p \in Thread : pc[p] # "idle" =>
       arg[p].of = Clock!ToTimePoint(arg[p].typed)
  /\ pc[Main] # "idle" => stored[arg[Main].which] = arg[Main].of

\* Who converts alone is the only one that converts, and what it reads in the
\* buffer is its own; in the window it is always the main thread.
AloneInv ==
  /\ \A p, q \in Thread :
       pc[p] \in Clock!Converting /\ arg[p].alone
         /\ pc[q] \in Clock!Converting => p = q
  /\ \A p \in Thread : pc[p] # "idle" /\ arg[p].alone =>
       LET r == Clock!LocalTm(arg[p].of)
       IN  /\ pc[p] = "fillUnit" => buf.day = r.day
           /\ pc[p] \in {"copy", "copyUnit"} => buf = r
           /\ pc[p] = "copyUnit" => tm[p].day = r.day
           /\ pc[p] = "shown" => tm[p] = r
  /\ window => /\ \A p \in Thread \ {Main} : pc[p] = "idle"
               /\ pc[Main] # "idle" => arg[Main].alone

ClockInv == ClockType /\ KeptInv /\ AloneInv

(***************************************************************************)
(* Readings and times.                                                     *)
(***************************************************************************)
\* A number of units is the time of its reading, and a reading the reading of
\* its time.
LEMMA ReadingTime ==
  ASSUME TimesFit
  PROVE  /\ \A n \in Int : /\ Clock!Reading(n) \in Readings
                           /\ Clock!ToTimePoint(Clock!Reading(n)) = n - Zone
         /\ \A r \in Readings :
              /\ Clock!ToTimePoint(r) \in Int
              /\ Clock!Reading(Clock!ToTimePoint(r) + Zone) = r
<1>1. DayLength \in Nat \ {0} /\ Zone \in Int
  BY DEF TimesFit, Clock!LocalTimeConstants
<1>2. ASSUME NEW n \in Int
      PROVE  /\ Clock!Reading(n) \in Readings
             /\ Clock!ToTimePoint(Clock!Reading(n)) = n - Zone
  <2>1. PICK d \in Int, u \in 0..(DayLength - 1) :
          n \div DayLength = d /\ n % DayLength = u /\ n = d * DayLength + u
    BY <1>1, Division
  <2>2. Clock!Reading(n) = [day |-> d, unit |-> u]
    BY <2>1 DEF Clock!Reading
  <2>3. /\ Clock!Reading(n) \in Readings
        /\ Clock!Reading(n).day = d /\ Clock!Reading(n).unit = u
    BY <2>2 DEF Readings
  <2> DEFINE m == d * DayLength
  <2>4. m \in Int /\ n = m + u
    BY <1>1, <2>1
  <2>5. Clock!ToTimePoint(Clock!Reading(n)) = m + (u - Zone)
    BY <2>3, Zenon DEF Clock!ToTimePoint
  <2> HIDE DEF m
  <2> QED BY <1>1, <2>3, <2>4, <2>5
<1>3. ASSUME NEW r \in Readings
      PROVE  /\ Clock!ToTimePoint(r) \in Int
             /\ Clock!Reading(Clock!ToTimePoint(r) + Zone) = r
  <2>1. r.day \in Int /\ r.unit \in 0..(DayLength - 1)
        /\ r = [day |-> r.day, unit |-> r.unit]
    BY DEF Readings
  <2> DEFINE m == r.day * DayLength
             n == m + r.unit
  <2>2. n \div DayLength = r.day /\ n % DayLength = r.unit
    BY <1>1, <2>1, Remainder
  <2>3. m \in Int
    BY <1>1, <2>1
  <2>4. Clock!ToTimePoint(r) = m + (r.unit - Zone)
    BY Zenon DEF Clock!ToTimePoint
  <2> HIDE DEF m
  <2>5. n \in Int /\ Clock!ToTimePoint(r) = n - Zone
    BY <1>1, <2>1, <2>3, <2>4
  <2> HIDE DEF n
  <2>6. Clock!ToTimePoint(r) + Zone = n /\ Clock!ToTimePoint(r) \in Int
    BY <1>1, <2>5
  <2> QED BY <2>1, <2>2, <2>6 DEF Clock!Reading
<1> QED BY <1>2, <1>3

\* A time of the winter is read as what it is the time of; what is read of
\* any time can be kept.
LEMMA LocalTmProps ==
  ASSUME TimesFit, NEW t \in 0..(TimeMod - 1)
  PROVE  /\ Clock!LocalTm(t) \in Fitting
         /\ \A r \in Readings : t = Clock!ToTimePoint(r) /\ t \notin Summer =>
              Clock!LocalTm(t) = r
<1>1. TimeMod \in Nat \ {0} /\ Zone \in Int /\ TimeMod - 1 \notin Summer
  BY DEF TimesFit, Clock!LocalTimeConstants
<1> DEFINE n == t + Zone + IF t \in Summer THEN 1 ELSE 0
<1>2. n \in Int /\ n - Zone \in 0..(TimeMod - 1)
  BY <1>1
<1>3. Clock!LocalTm(t) = Clock!Reading(n)
  BY DEF Clock!LocalTm
<1>4. t \notin Summer => n = t + Zone
  BY <1>1
<1> HIDE DEF n
<1> QED BY <1>2, <1>3, <1>4, ReadingTime DEF Fitting

\* TimeInt has room for what fits.
LEMMA FitIsKept ==
  ASSUME TimesFit, NEW r \in Fitting
  PROVE  /\ Clock!ToTimeInt(r) = Clock!ToTimePoint(r)
         /\ Clock!ToTimePoint(r) \in 0..(TimeMod - 1)
<1>1. TimeMod \in Nat \ {0} /\ Clock!ToTimePoint(r) \in 0..(TimeMod - 1)
  BY DEF TimesFit, Clock!LocalTimeConstants, Fitting
<1>2. \A x \in 0..(TimeMod - 1) : x % TimeMod = x
  BY <1>1
<1> QED BY <1>1, <1>2 DEF Clock!ToTimeInt

LEMMA TypedFits == ASSUME TimesFit PROVE Typed \subseteq Fitting
BY DEF TimesFit, Clock!LocalTimeConstants, Fitting, Readings

LEMMA ClockInit == TimesFit /\ Clock!Init => ClockInv
<1> SUFFICES ASSUME TimesFit, Clock!Init PROVE ClockInv
  OBVIOUS
<1>1. PICK r \in [Which -> Typed] :
        typed = r /\ stored = [w \in Which |-> Clock!ToTimeInt(r[w])]
  BY DEF Clock!Init
<1>2. \A w \in Which :
        /\ typed[w] \in Fitting /\ stored[w] = Clock!ToTimePoint(typed[w])
        /\ stored[w] \in 0..(TimeMod - 1)
  BY <1>1, TypedFits, FitIsKept
<1>3. Clock!Reading(0) \in Readings
  BY ReadingTime
<1>4. Main \in Thread /\ \A p \in Thread : pc[p] = "idle"
  BY DEF Clock!Init, TimesFit, Clock!LocalTimeConstants
<1>5. ClockType
  BY <1>1, <1>2, <1>3 DEF Clock!Init, ClockType
<1>6. KeptInv /\ AloneInv
  BY <1>2, <1>4 DEF KeptInv, AloneInv, Clock!Converting
<1> QED BY <1>5, <1>6 DEF ClockInv

(***************************************************************************)
(* The steps.                                                              *)
(***************************************************************************)
LEMMA AskInv ==
  ASSUME TimesFit, ClockInv, NEW p \in Thread, Clock!Ask(p)
  PROVE  ClockInv'
<1> USE DEF ClockInv, ClockType, KeptInv, AloneInv
<1>1. PICK w \in Which :
        arg' = [q \in Thread |->
                 IF q = p
                 THEN [which |-> w, of |-> stored[w], typed |-> typed[w],
                       alone |-> \A r \in Thread : pc[r] \notin Clock!Converting]
                 ELSE IF pc[q] \in Clock!Converting
                 THEN [arg[q] EXCEPT !.alone = FALSE]
                 ELSE arg[q]]
  BY DEF Clock!Ask
<1>2. /\ pc[p] = "idle" /\ pc' = [pc EXCEPT ![p] = "fill"]
      /\ p = Main \/ ~window
      /\ UNCHANGED <<window, stored, typed, buf, tm>>
      /\ Main \in Thread
  BY DEF Clock!Ask, Clock!Step, TimesFit, Clock!LocalTimeConstants
<1>3. /\ arg'[p] \in ArgType /\ arg'[p].which = w /\ arg'[p].of = stored[w]
      /\ arg'[p].typed = typed[w]
      /\ arg'[p].alone => \A r \in Thread : pc[r] \notin Clock!Converting
  BY <1>1 DEF ArgType
<1>4. ASSUME NEW q \in Thread \ {p}, pc[q] # "idle"
      PROVE  /\ arg'[q] \in ArgType /\ arg'[q].which = arg[q].which
             /\ arg'[q].of = arg[q].of /\ arg'[q].typed = arg[q].typed
             /\ arg'[q].alone =>
                  arg[q].alone /\ pc[q] \notin Clock!Converting
  BY <1>1, <1>4 DEF ArgType
<1>5. ClockType'
  BY <1>1, <1>2, <1>3, <1>4 DEF Clock!Converting
<1>6. KeptInv'
  BY <1>2, <1>3, <1>4
<1>7. ASSUME NEW q \in Thread, pc'[q] # "idle", arg'[q].alone
      PROVE  /\ q = p \/ (arg[q].alone /\ pc'[q] = "shown")
             /\ q # p => pc'[q] = pc[q] /\ arg'[q].of = arg[q].of
             /\ \A r \in Thread :
                  pc'[q] \in Clock!Converting /\ pc'[r] \in Clock!Converting =>
                    q = r
  BY <1>2, <1>3, <1>4, <1>7 DEF Clock!Converting
<1>8. window => /\ \A q \in Thread \ {Main} : pc'[q] = "idle"
                /\ arg'[Main].alone
  BY <1>1, <1>2 DEF Clock!Converting
<1>9. AloneInv'
  <2>1. \A q, r \in Thread :
          pc'[q] \in Clock!Converting /\ arg'[q].alone
            /\ pc'[r] \in Clock!Converting => q = r
    BY <1>7 DEF Clock!Converting
  <2>2. ASSUME NEW q \in Thread, pc'[q] # "idle", arg'[q].alone
        PROVE  LET s == Clock!LocalTm(arg'[q].of)
               IN  /\ pc'[q] = "fillUnit" => buf'.day = s.day
                   /\ pc'[q] \in {"copy", "copyUnit"} => buf' = s
                   /\ pc'[q] = "copyUnit" => tm'[q].day = s.day
                   /\ pc'[q] = "shown" => tm'[q] = s
    BY <1>2, <1>7, <2>2
  <2> QED BY <1>2, <1>8, <2>1, <2>2
<1> QED BY <1>5, <1>6, <1>9

LEMMA ConvertInv ==
  ASSUME TimesFit, ClockInv, NEW p \in Thread,
         Clock!FillDay(p) \/ Clock!FillUnit(p) \/ Clock!CopyDay(p)
           \/ Clock!CopyUnit(p)
  PROVE  ClockInv'
<1> USE DEF ClockInv, ClockType, KeptInv, AloneInv
<1> DEFINE r == Clock!LocalTm(arg[p].of)
<1>1. /\ pc[p] \in Clock!Converting
      /\ UNCHANGED <<window, stored, typed, arg>>
      /\ arg[p] \in ArgType
  BY DEF Clock!FillDay, Clock!FillUnit, Clock!CopyDay, Clock!CopyUnit,
         Clock!Step, Clock!Converting
<1>2. r \in Readings
  BY <1>1, LocalTmProps DEF ArgType, Fitting
<1> HIDE DEF r
<1>3. \A q \in Thread \ {p} : pc[q] \in Clock!Converting => ~arg[q].alone
  BY <1>1
<1>4. ASSUME NEW to \in {"fillUnit", "copy", "copyUnit", "shown"},
             pc' = [pc EXCEPT ![p] = to],
             buf' \in Readings, tm' \in [Thread -> Readings],
             \A q \in Thread \ {p} : tm'[q] = tm[q],
             arg[p].alone =>
               /\ to = "fillUnit" => buf'.day = r.day
               /\ to \in {"copy", "copyUnit"} => buf' = r
               /\ to = "copyUnit" => tm'[p].day = r.day
               /\ to = "shown" => tm'[p] = r
      PROVE  ClockInv'
  <2>1. ClockType'
    BY <1>1, <1>4 DEF Clock!Converting
  <2>2. KeptInv'
    BY <1>1, <1>4 DEF Clock!Converting
  <2>3. ASSUME NEW q \in Thread, pc'[q] # "idle", arg'[q].alone
        PROVE  LET s == Clock!LocalTm(arg'[q].of)
               IN  /\ pc'[q] = "fillUnit" => buf'.day = s.day
                   /\ pc'[q] \in {"copy", "copyUnit"} => buf' = s
                   /\ pc'[q] = "copyUnit" => tm'[q].day = s.day
                   /\ pc'[q] = "shown" => tm'[q] = s
    <3>1. CASE q = p
      BY <1>1, <1>4, <2>3, <3>1 DEF r
    <3>2. CASE q # p
      BY <1>1, <1>3, <1>4, <2>3, <3>2 DEF Clock!Converting
    <3> QED BY <3>1, <3>2
  <2>4. \A q, s \in Thread :
          pc'[q] \in Clock!Converting /\ arg'[q].alone
            /\ pc'[s] \in Clock!Converting => q = s
    BY <1>1, <1>4 DEF Clock!Converting
  <2>5. AloneInv'
    BY <1>1, <1>4, <2>3, <2>4 DEF Clock!Converting
  <2> QED BY <2>1, <2>2, <2>5
<1>5. CASE Clock!FillDay(p)
  BY <1>2, <1>4, <1>5 DEF Clock!FillDay, Clock!Step, Readings, r
<1>6. CASE Clock!FillUnit(p)
  BY <1>2, <1>4, <1>6 DEF Clock!FillUnit, Clock!Step, Readings, r
<1>7. CASE Clock!CopyDay(p)
  <2>1. /\ pc[p] = "copy" /\ pc' = [pc EXCEPT ![p] = "copyUnit"]
        /\ buf' = buf /\ tm' = [tm EXCEPT ![p].day = buf.day]
    BY <1>7 DEF Clock!CopyDay, Clock!Step
  <2>2. /\ tm[p] \in Readings /\ buf \in Readings
        /\ [tm[p] EXCEPT !.day = buf.day] \in Readings
        /\ [tm[p] EXCEPT !.day = buf.day].day = buf.day
    BY DEF Readings
  <2>3. tm' = [tm EXCEPT ![p] = [tm[p] EXCEPT !.day = buf.day]]
    BY <2>1
  <2>4. tm' \in [Thread -> Readings] /\ tm'[p].day = buf.day
        /\ \A q \in Thread \ {p} : tm'[q] = tm[q]
    BY <2>2, <2>3
  <2>5. arg[p].alone => buf = r
    BY <2>1 DEF r
  <2> QED BY <1>4, <2>1, <2>2, <2>4, <2>5
<1>8. CASE Clock!CopyUnit(p)
  BY <1>2, <1>4, <1>8 DEF Clock!CopyUnit, Clock!Step, Readings
<1> QED BY <1>5, <1>6, <1>7, <1>8

\* The main thread, or one that is done, comes to rest.
LEMMA RestInv ==
  ASSUME TimesFit, ClockInv, NEW p \in Thread,
         pc' = [pc EXCEPT ![p] = "idle"], window' = window,
         buf' = buf, tm' \in [Thread -> Readings], DOMAIN arg' = Thread,
         \A q \in Thread \ {p} : tm'[q] = tm[q] /\ arg'[q] = arg[q],
         stored' \in [Which -> 0..(TimeMod - 1)], typed' \in [Which -> Fitting],
         \A w \in Which : stored'[w] = Clock!ToTimePoint(typed'[w]),
         p # Main => stored' = stored
  PROVE  ClockInv'
<1> USE DEF ClockInv, ClockType, KeptInv, AloneInv
<1>1. /\ pc'[p] = "idle" /\ Main \in Thread
      /\ \A q \in Thread : pc'[q] # "idle" =>
           /\ q # p /\ pc'[q] = pc[q] /\ tm'[q] = tm[q]
           /\ arg'[q] = arg[q]
  BY DEF TimesFit, Clock!LocalTimeConstants
<1>2. ClockType'
  BY <1>1
<1>3. KeptInv'
  BY <1>1
<1>4. AloneInv'
  BY <1>1 DEF Clock!Converting
<1> QED BY <1>2, <1>3, <1>4

LEMMA DoneInv ==
  ASSUME TimesFit, ClockInv, NEW p \in Thread, Clock!Done(p)
  PROVE  ClockInv'
<1>1. Clock!Reading(0) \in Readings
  BY ReadingTime
<1>2. /\ pc' = [pc EXCEPT ![p] = "idle"]
      /\ UNCHANGED <<window, stored, typed, buf>>
      /\ arg' = [arg EXCEPT ![p] = [w \in {} |-> w]]
      /\ tm' = [tm EXCEPT ![p] = Clock!Reading(0)]
  BY DEF Clock!Done, Clock!Step, Clock!Forget
<1> QED BY <1>1, <1>2, RestInv DEF ClockInv, ClockType, KeptInv

LEMMA SaveProps ==
  ASSUME TimesFit, ClockInv, NEW w \in Which, NEW r \in Fitting,
         Clock!Save(w, r)
  PROVE  /\ stored' \in [Which -> 0..(TimeMod - 1)]
         /\ typed' \in [Which -> Fitting]
         /\ \A v \in Which : stored'[v] = Clock!ToTimePoint(typed'[v])
         /\ stored' = [stored EXCEPT ![w] = Clock!ToTimePoint(r)]
         /\ window' = window
BY FitIsKept DEF Clock!Save, ClockInv, ClockType, KeptInv

LEMMA TypeInv ==
  ASSUME TimesFit, ClockInv, NEW w \in Which, NEW r \in Typed,
         Clock!Type(w, r)
  PROVE  ClockInv'
<1>1. /\ r \in Fitting /\ Main \in Thread /\ pc[Main] = "idle"
      /\ UNCHANGED <<pc, arg, buf, tm>>
      /\ Clock!Save(w, r)
  BY TypedFits DEF Clock!Type, TimesFit, Clock!LocalTimeConstants
<1>2. pc' = [pc EXCEPT ![Main] = "idle"]
  BY <1>1 DEF ClockInv, ClockType
<1> QED BY <1>1, <1>2, SaveProps, RestInv DEF ClockInv, ClockType

LEMMA KeepProps ==
  ASSUME TimesFit, ClockInv, Clock!Keep
  PROVE  /\ ClockInv'
         /\ arg[Main].of \notin Summer => stored' = stored
<1>1. /\ Main \in Thread /\ window /\ pc[Main] = "shown"
      /\ pc' = [pc EXCEPT ![Main] = "idle"]
      /\ Clock!Save(arg[Main].which, tm[Main])
      /\ buf' = buf
      /\ arg' = [arg EXCEPT ![Main] = [w \in {} |-> w]]
      /\ tm' = [tm EXCEPT ![Main] = Clock!Reading(0)]
  BY DEF Clock!Keep, Clock!Forget, TimesFit, Clock!LocalTimeConstants
<1>2. /\ arg[Main] \in ArgType /\ tm[Main] = Clock!LocalTm(arg[Main].of)
      /\ stored[arg[Main].which] = arg[Main].of
      /\ arg[Main].of = Clock!ToTimePoint(arg[Main].typed)
  BY <1>1 DEF ClockInv, ClockType, KeptInv, AloneInv
<1>3. tm[Main] \in Fitting /\ arg[Main].which \in Which
  BY <1>2, LocalTmProps DEF ArgType
<1>4. Clock!Reading(0) \in Readings
  BY ReadingTime
<1>5. /\ stored' \in [Which -> 0..(TimeMod - 1)]
      /\ typed' \in [Which -> Fitting]
      /\ \A v \in Which : stored'[v] = Clock!ToTimePoint(typed'[v])
      /\ stored' = [stored EXCEPT ![arg[Main].which] =
                                     Clock!ToTimePoint(tm[Main])]
      /\ window' = window
  BY <1>1, <1>3, SaveProps
<1>6. ClockInv'
  BY <1>1, <1>4, <1>5, RestInv DEF ClockInv, ClockType
<1>7. ASSUME arg[Main].of \notin Summer PROVE stored' = stored
  <2>1. tm[Main] = arg[Main].typed
    BY <1>2, <1>7, LocalTmProps DEF ArgType, Fitting
  <2> QED BY <1>2, <1>3, <1>5, <2>1 DEF ClockInv, ClockType
<1> QED BY <1>6, <1>7

LEMMA ClockStep == TimesFit /\ ClockInv /\ [Clock!Next]_(Clock!vars) => ClockInv'
<1> SUFFICES ASSUME TimesFit, ClockInv, [Clock!Next]_(Clock!vars)
             PROVE  ClockInv'
  OBVIOUS
<1>1. CASE Clock!Next
  BY <1>1, AskInv, ConvertInv, DoneInv, TypeInv, KeepProps DEF Clock!Next
<1>2. CASE UNCHANGED Clock!vars
  BY <1>2 DEF Clock!vars, ClockInv, ClockType, KeptInv, AloneInv
<1> QED BY <1>1, <1>2

LEMMA ClockInvariant == ASSUME TimesFit PROVE Clock!Spec => []ClockInv
<1>1. Clock!Init => ClockInv
  BY ClockInit
<1>2. ClockInv /\ [Clock!Next]_(Clock!vars) => ClockInv'
  BY ClockStep
<1> QED BY <1>1, <1>2, PTL DEF Clock!Spec

\* A time of the winter is shown as it was typed, in any zone, through the
\* width of TimeInt and the buffer that all conversions share, if no two
\* threads convert at once and the typed times fit.
THEOREM ShowsWhatWasTyped ==
  ASSUME TimesFit PROVE Clock!Spec => []ShownAsTyped
<1>1. ClockInv => ShownAsTyped
  <2> SUFFICES ASSUME ClockInv, NEW p \in Thread, pc[p] = "shown",
                      arg[p].alone, arg[p].of \notin Summer
               PROVE  tm[p] = arg[p].typed
    BY DEF ShownAsTyped, Clock!ShownAsTyped
  <2>1. /\ tm[p] = Clock!LocalTm(arg[p].of) /\ arg[p] \in ArgType
        /\ arg[p].of = Clock!ToTimePoint(arg[p].typed)
    BY DEF ClockInv, ClockType, KeptInv, AloneInv
  <2> QED BY <2>1, LocalTmProps DEF ArgType, Fitting
<1> QED BY <1>1, ClockInvariant, PTL

\* Ok in a picker that was not touched changes nothing, for every time of the
\* winter that is shown.
THEOREM OkKeepsTheTime ==
  ASSUME TimesFit PROVE Clock!Spec => KeepChangesNothing
<1>1. ClockInv /\ [Clock!Next]_(Clock!vars) =>
        [Clock!Keep /\ arg[Main].alone /\ arg[Main].of \notin Summer =>
           UNCHANGED stored]_(Clock!vars)
  BY KeepProps
<1> QED BY <1>1, ClockInvariant, PTL
        DEF Clock!Spec, KeepChangesNothing, Clock!KeepChangesNothing

-----------------------------------------------------------------------------
(***************************************************************************)
(* The flow box: FlowBox.                                                  *)
(***************************************************************************)
\* The lists and boxes in which each id occurs at most once.
Rows == {s \in Seq(Box!Task) : Box!OneEach(s)}

\* What the calls since the last update can have changed: insertions only
\* add, erasures only take away, and one edit changes one task.
CallsTell ==
  /\ \A c \in calls : c[2] < Cardinality(calls)
  /\ (\A c \in calls : c[1] = "insert") => ToSet(box) \subseteq ToSet(list)
  /\ (\A c \in calls : c[1] = "erase") => ToSet(list) \subseteq ToSet(box)
  /\ Cardinality(calls) = 1 /\ (\E c \in calls : c[1] = "edit") =>
       \E t \in ToSet(list) \ ToSet(box) :
         {u \in ToSet(box) : u.id # t.id} = ToSet(list) \ {t}

BoxIInv ==
  /\ list \in Rows /\ Box!Sorted(list)
  /\ box \in Rows
  /\ calls \subseteq {"insert", "erase", "edit", "login"} \X (0..CallStop)
  /\ IsFiniteSet(calls)
  /\ Box!BoxHoldsList
  /\ CallsTell

\* What FlowBox takes from the library is the library's.
LEMMA SameOperators ==
  /\ \A s, i, e : Box!InsertAt(s, i, e) = InsertAt(s, i, e)
  /\ \A s, i : Box!RemoveAt(s, i) = RemoveAt(s, i)
  /\ \A s : Box!ToSet(s) = ToSet(s)
  /\ \A S : Box!Cardinality(S) = Cardinality(S)
<1>1. \A s, i, e : Box!InsertAt(s, i, e) = InsertAt(s, i, e)
  BY DEF Box!InsertAt, InsertAt
<1>2. \A s, i : Box!RemoveAt(s, i) = RemoveAt(s, i)
  BY DEF Box!RemoveAt, RemoveAt
<1>3. \A s : Box!ToSet(s) = ToSet(s)
  BY DEF Box!ToSet, ToSet
<1>4. \A S : Box!Cardinality(S) = Cardinality(S)
  BY DEF Box!Cardinality, Cardinality
<1> QED BY <1>1, <1>2, <1>3, <1>4

LEMMA RowProps ==
  ASSUME NEW s \in Rows
  PROVE  /\ s \in Seq(Box!Task) /\ Len(s) \in Nat
         /\ \A i \in 1..Len(s) : s[i] \in Box!Task
         /\ \A i, j \in 1..Len(s) : s[i].id = s[j].id => i = j
         /\ ToSet(s) = {s[i] : i \in 1..Len(s)}
         /\ Box!Ids(s) = {t.id : t \in ToSet(s)}
<1>1. s \in Seq(Box!Task) /\ Box!OneEach(s)
  BY DEF Rows
<1> QED BY <1>1, ElementOfSeq, LenProperties
        DEF Box!OneEach, ToSet, Box!Ids

\* A new element at a place.
LEMMA InsertRow ==
  ASSUME NEW s \in Rows, NEW t \in Box!Task, t.id \notin Box!Ids(s),
         NEW k \in 1..(Len(s) + 1)
  PROVE  /\ InsertAt(s, k, t) \in Rows
         /\ Len(InsertAt(s, k, t)) = Len(s) + 1
         /\ \A j \in 1..(Len(s) + 1) :
              InsertAt(s, k, t)[j] = IF j < k THEN s[j]
                                     ELSE IF j = k THEN t ELSE s[j - 1]
         /\ ToSet(InsertAt(s, k, t)) = ToSet(s) \union {t}
<1> DEFINE r == InsertAt(s, k, t)
           n == Len(s)
<1>1. /\ n \in Nat /\ \A i \in 1..n : s[i] \in Box!Task /\ s[i].id # t.id
      /\ \A i, j \in 1..n : s[i].id = s[j].id => i = j
      /\ ToSet(s) = {s[i] : i \in 1..n}
  BY RowProps DEF Box!Ids
<1>2. /\ r \in Seq(Box!Task) /\ Len(r) = n + 1
      /\ \A j \in 1..(n + 1) :
           r[j] = IF j < k THEN s[j] ELSE IF j = k THEN t ELSE s[j - 1]
  BY RowProps, InsertAtProps
<1> HIDE DEF r, n
<1>3. k \in 1..(n + 1)
  BY DEF n
<1>4. ASSUME NEW i \in 1..(n + 1), NEW j \in 1..(n + 1), r[i].id = r[j].id
      PROVE  i = j
  <2>1. ASSUME NEW x \in 1..(n + 1), x # k
        PROVE  \E a \in 1..n : /\ r[x] = s[a]
                               /\ a = IF x < k THEN x ELSE x - 1
    BY <1>1, <1>2, <1>3, <2>1
  <2>2. r[k] = t
    BY <1>2, <1>3
  <2>3. CASE i = k \/ j = k
    BY <1>1, <1>4, <2>1, <2>2, <2>3
  <2>4. CASE i # k /\ j # k
    <3>1. PICK a \in 1..n : r[i] = s[a] /\ a = IF i < k THEN i ELSE i - 1
      BY <2>1, <2>4
    <3>2. PICK b \in 1..n : r[j] = s[b] /\ b = IF j < k THEN j ELSE j - 1
      BY <2>1, <2>4
    <3>3. a = b
      BY <1>1, <1>4, <3>1, <3>2
    <3> QED BY <1>3, <2>4, <3>1, <3>2, <3>3
  <2> QED BY <2>3, <2>4
<1>5. r \in Rows
  BY <1>2, <1>4 DEF Rows, Box!OneEach
<1>6. ToSet(r) = ToSet(s) \union {t}
  <2>1. ToSet(r) = {r[i] : i \in 1..(n + 1)}
    BY <1>2, <1>5, RowProps
  <2>2. ASSUME NEW i \in 1..(n + 1) PROVE r[i] \in ToSet(s) \union {t}
    BY <1>1, <1>2, <1>3
  <2>3. ASSUME NEW i \in 1..n PROVE \E j \in 1..(n + 1) : s[i] = r[j]
    <3>1. CASE i < k
      BY <1>1, <1>2, <3>1
    <3>2. CASE i >= k
      <4>1. i + 1 \in 1..(n + 1) /\ i + 1 > k /\ (i + 1) - 1 = i
        BY <1>1, <1>3, <3>2
      <4> QED BY <1>2, <1>3, <4>1
    <3> QED BY <1>3, <3>1, <3>2
  <2>4. r[k] = t
    BY <1>2, <1>3
  <2> QED BY <1>1, <1>3, <2>1, <2>2, <2>3, <2>4
<1> QED BY <1>2, <1>5, <1>6 DEF r, n

\* The one with an id is taken out.
LEMMA DropRow ==
  ASSUME NEW s \in Rows, NEW id
  PROVE  /\ Box!Drop(s, id) \in Rows
         /\ ToSet(Box!Drop(s, id)) = {t \in ToSet(s) : t.id # id}
         /\ id \notin Box!Ids(s) => Box!Drop(s, id) = s
         /\ \A k \in 1..Len(s) : s[k].id = id =>
              /\ Len(Box!Drop(s, id)) = Len(s) - 1
              /\ \A j \in 1..(Len(s) - 1) :
                   Box!Drop(s, id)[j] = IF j < k THEN s[j] ELSE s[j + 1]
<1> DEFINE n == Len(s)
<1>1. /\ n \in Nat /\ \A i \in 1..n : s[i] \in Box!Task
      /\ \A i, j \in 1..n : s[i].id = s[j].id => i = j
      /\ ToSet(s) = {s[i] : i \in 1..n}
      /\ Box!Ids(s) = {s[i].id : i \in 1..n}
  BY RowProps DEF Box!Ids
<1>2. CASE id \notin Box!Ids(s)
  <2>1. Box!Drop(s, id) = s
    BY <1>2 DEF Box!Drop
  <2> QED BY <1>1, <1>2, <2>1
<1>3. CASE id \in Box!Ids(s)
  <2> DEFINE k == CHOOSE i \in 1..n : s[i].id = id
             r == RemoveAt(s, k)
  <2>1. k \in 1..n /\ s[k].id = id
    BY <1>1, <1>3
  <2>2. Box!Drop(s, id) = r
    BY <1>3, SameOperators DEF Box!Drop
  <2> HIDE DEF k
  <2>3. /\ r \in Seq(Box!Task) /\ Len(r) = n - 1
        /\ \A j \in 1..(n - 1) : r[j] = IF j < k THEN s[j] ELSE s[j + 1]
    BY <2>1, RowProps, RemoveAtProps
  <2> HIDE DEF n, r
  <2>4. ASSUME NEW j \in 1..(n - 1)
        PROVE  \E i \in 1..n : /\ i # k /\ r[j] = s[i]
                               /\ i = IF j < k THEN j ELSE j + 1
    BY <1>1, <2>1, <2>3
  <2>5. r \in Rows
    <3>1. ASSUME NEW i \in 1..(n - 1), NEW j \in 1..(n - 1), r[i].id = r[j].id
          PROVE  i = j
      <4>1. PICK a \in 1..n : /\ r[i] = s[a]
                              /\ a = IF i < k THEN i ELSE i + 1
        BY <2>4
      <4>2. PICK b \in 1..n : /\ r[j] = s[b]
                              /\ b = IF j < k THEN j ELSE j + 1
        BY <2>4
      <4>3. a = b
        BY <1>1, <3>1, <4>1, <4>2
      <4> QED BY <1>1, <2>1, <4>1, <4>2, <4>3
    <3> QED BY <2>3, <3>1 DEF Rows, Box!OneEach
  <2>6. ToSet(r) = {t \in ToSet(s) : t.id # id}
    <3>1. ToSet(r) = {r[i] : i \in 1..(n - 1)}
      BY <2>3, <2>5, RowProps
    <3>2. ASSUME NEW i \in 1..n, s[i].id # id
          PROVE  \E j \in 1..(n - 1) : r[j] = s[i]
      <4>1. i # k
        BY <2>1, <3>2
      <4>2. CASE i < k
        BY <1>1, <2>1, <2>3, <4>2
      <4>3. CASE i > k
        <5>1. i - 1 \in 1..(n - 1) /\ ~(i - 1 < k) /\ (i - 1) + 1 = i
          BY <1>1, <2>1, <4>3
        <5> QED BY <2>3, <5>1
      <4> QED BY <2>1, <4>1, <4>2, <4>3
    <3>3. ASSUME NEW j \in 1..(n - 1)
          PROVE  \E i \in 1..n : r[j] = s[i] /\ s[i].id # id
      BY <1>1, <2>1, <2>4
    <3> QED BY <1>1, <3>1, <3>2, <3>3
  <2>7. ASSUME NEW i \in 1..n, s[i].id = id PROVE i = k
    BY <1>1, <2>1, <2>7
  <2> QED BY <1>3, <2>2, <2>3, <2>5, <2>6, <2>7 DEF n
<1> QED BY <1>2, <1>3

\* Rows of the same tasks are equally long.
LEMMA SameLen ==
  ASSUME NEW s \in Rows, NEW r \in Rows, ToSet(s) = ToSet(r)
  PROVE  Len(s) = Len(r)
<1>1. \A q \in Rows : Cardinality(ToSet(q)) = Len(q)
  <2> TAKE q \in Rows
  <2>1. /\ q \in Seq(Box!Task)
        /\ \A i, j \in 1..Len(q) : q[i] = q[j] => i = j
    BY RowProps
  <2> QED BY <2>1, LenIsCardinality
<1> QED BY <1>1

(***************************************************************************)
(* The schedule's lists.                                                   *)
(***************************************************************************)
\* The tasks with smaller keys are the first ones.
LEMMA PutRow ==
  ASSUME NEW s \in Rows, Box!Sorted(s), NEW t \in Box!Task,
         t.id \notin Box!Ids(s), t.key \notin Box!Keys(s)
  PROVE  /\ Box!Put(s, t) \in Rows /\ Box!Sorted(Box!Put(s, t))
         /\ ToSet(Box!Put(s, t)) = ToSet(s) \union {t}
<1> DEFINE n == Len(s)
<1>1. /\ n \in Nat /\ \A i \in 1..n : s[i].key \in Int /\ s[i].key # t.key
      /\ t.key \in Int
      /\ \A i, j \in 1..n : i < j => s[i].key < s[j].key
  BY RowProps DEF Box!Keys, Box!Task, Box!Sorted
<1> DEFINE T == {i \in 1..(n + 1) : i = n + 1 \/ s[i].key > t.key}
<1>2. T \in SUBSET Nat /\ T # {}
  BY <1>1
<1>3. PICK k \in T : \A i \in T : k <= i
  BY <1>2, Smallest
<1>4. /\ k \in 1..(n + 1)
      /\ \A i \in 1..n : s[i].key < t.key <=> i < k
  <2>1. k \in 1..(n + 1)
    BY <1>3
  <2>2. ASSUME NEW i \in 1..n, i < k PROVE s[i].key < t.key
    <3>1. i \notin T
      BY <1>1, <1>3, <2>1, <2>2
    <3> QED BY <1>1, <3>1
  <2>3. ASSUME NEW i \in 1..n, ~(i < k) PROVE ~(s[i].key < t.key)
    <3>1. k \in 1..n /\ s[k].key > t.key
      BY <1>1, <1>3, <2>1, <2>3
    <3>2. s[i].key >= s[k].key
      BY <1>1, <2>3, <3>1
    <3> QED BY <1>1, <3>1, <3>2
  <2> QED BY <2>1, <2>2, <2>3
<1> HIDE DEF n, T
<1>5. Box!Put(s, t) = InsertAt(s, k, t)
  <2>1. {i \in 1..n : s[i].key < t.key} = 1..(k - 1)
    BY <1>1, <1>4
  <2>2. Cardinality(1..(k - 1)) = k - 1
    <3>1. \A m \in Nat : Cardinality(1..m) = m
      <4> TAKE m \in Nat
      <4>1. Cardinality(1..m) = IF 1 > m THEN 0 ELSE m - 1 + 1
        BY FS_Interval
      <4> QED BY <4>1
    <3>2. k - 1 \in Nat
      BY <1>1, <1>4
    <3> QED BY <3>1, <3>2
  <2>3. 1 + (k - 1) = k
    BY <1>1, <1>4
  <2> QED BY <2>1, <2>2, <2>3, SameOperators DEF Box!Put, n
<1>6. /\ InsertAt(s, k, t) \in Rows
      /\ Len(InsertAt(s, k, t)) = n + 1
      /\ \A j \in 1..(n + 1) :
           InsertAt(s, k, t)[j] = IF j < k THEN s[j]
                                  ELSE IF j = k THEN t ELSE s[j - 1]
      /\ ToSet(InsertAt(s, k, t)) = ToSet(s) \union {t}
  BY <1>4, InsertRow DEF n
<1> DEFINE r == InsertAt(s, k, t)
<1> HIDE DEF r
<1>7. ASSUME NEW i \in 1..(n + 1), NEW j \in 1..(n + 1), i < j
      PROVE  r[i].key < r[j].key
  <2>1. ASSUME NEW x \in 1..(n + 1)
        PROVE  \/ x = k /\ r[x] = t
               \/ x < k /\ x \in 1..n /\ r[x] = s[x]
               \/ x > k /\ x - 1 \in 1..n /\ r[x] = s[x - 1]
    BY <1>1, <1>4, <1>6 DEF r
  <2>2. \A x \in 1..n : x >= k => s[x].key > t.key
    BY <1>1, <1>4
  <2> QED BY <1>1, <1>4, <1>7, <2>1, <2>2
<1>8. Box!Sorted(r)
  BY <1>6, <1>7 DEF Box!Sorted, r
<1> QED BY <1>5, <1>6, <1>8 DEF r

LEMMA DropSorted ==
  ASSUME NEW s \in Rows, Box!Sorted(s), NEW id
  PROVE  Box!Sorted(Box!Drop(s, id))
<1>1. CASE id \notin Box!Ids(s)
  BY <1>1, DropRow
<1>2. CASE id \in Box!Ids(s)
  <2> DEFINE n == Len(s)
             r == Box!Drop(s, id)
  <2>1. PICK k \in 1..n : s[k].id = id
    BY <1>2 DEF Box!Ids
  <2>2. /\ n \in Nat /\ Len(r) = n - 1
        /\ \A j \in 1..(n - 1) : r[j] = IF j < k THEN s[j] ELSE s[j + 1]
    BY <2>1, RowProps, DropRow
  <2> HIDE DEF n, r
  <2>3. \A i, j \in 1..n : i < j => s[i].key < s[j].key
    BY DEF Box!Sorted, n
  <2>4. ASSUME NEW i \in 1..(n - 1), NEW j \in 1..(n - 1), i < j
        PROVE  r[i].key < r[j].key
    <3>1. CASE j < k
      BY <2>1, <2>2, <2>3, <2>4, <3>1
    <3>2. CASE i < k /\ ~(j < k)
      BY <2>1, <2>2, <2>3, <2>4, <3>2
    <3>3. CASE ~(i < k)
      <4>1. i + 1 \in 1..n /\ j + 1 \in 1..n /\ i + 1 < j + 1 /\ ~(j < k)
        BY <2>1, <2>2, <2>4, <3>3
      <4> QED BY <2>2, <2>3, <3>3, <4>1
    <3> QED BY <2>1, <2>4, <3>1, <3>2, <3>3
  <2> QED BY <2>2, <2>4 DEF Box!Sorted, r
<1> QED BY <1>1, <1>2

(***************************************************************************)
(* set_tasks.                                                              *)
(***************************************************************************)
\* A place in the box after Place: the task is in it, with what was there
\* under other ids.
LEMMA PlaceRow ==
  ASSUME NEW b \in Rows, NEW t \in Box!Task, NEW pos \in Nat
  PROVE  /\ Box!Place(b, t, pos) \in Rows
         /\ ToSet(Box!Place(b, t, pos)) =
              {u \in ToSet(b) : u.id # t.id} \union {t}
<1>1. CASE t \in ToSet(b)
  <2>1. \A u \in ToSet(b) : u.id = t.id => u = t
    BY <1>1, RowProps
  <2>2. Box!Place(b, t, pos) = b
    BY <1>1, SameOperators DEF Box!Place
  <2> QED BY <1>1, <2>1, <2>2
<1>2. CASE t \notin ToSet(b)
  <2> DEFINE d == Box!Drop(b, t.id)
             k == IF pos < Len(d) THEN pos + 1 ELSE Len(d) + 1
  <2>1. /\ d \in Rows
        /\ ToSet(d) = {u \in ToSet(b) : u.id # t.id}
    BY DropRow
  <2>2. t.id \notin Box!Ids(d)
    BY <2>1, RowProps
  <2>3. Len(d) \in Nat
    BY <2>1, RowProps
  <2>4. k \in 1..(Len(d) + 1)
    BY <2>3
  <2>5. Box!Place(b, t, pos) = InsertAt(d, k, t)
    BY <1>2, SameOperators DEF Box!Place, Box!InsertChild
  <2> HIDE DEF d, k
  <2>6. /\ InsertAt(d, k, t) \in Rows
        /\ ToSet(InsertAt(d, k, t)) = ToSet(d) \union {t}
    BY <2>1, <2>2, <2>4, InsertRow
  <2> QED BY <2>1, <2>5, <2>6
<1> QED BY <1>1, <1>2

\* The loop over the new list, as the function it is.
PlaceLoop(f, b, new) ==
  /\ f \in [0..Len(new) -> Rows] /\ f[0] = b
  /\ \A i \in 1..Len(new) : f[i] = Box!Place(f[i - 1], new[i], i - 1)

LEMMA PlaceLoopExists ==
  ASSUME NEW b \in Rows, NEW new \in Rows
  PROVE  \E f : PlaceLoop(f, b, new) /\ Box!Placed(b, new) = f[Len(new)]
<1> DEFINE n == Len(new)
           g == [x \in (1..n) \X Rows |-> Box!Place(x[2], new[x[1]], x[1] - 1)]
           E(f) == [i \in 0..n |-> IF i = 0 THEN b
                                   ELSE Box!Place(f[i - 1], new[i], i - 1)]
           h == CHOOSE f : f = E(f)
<1>1. n \in Nat /\ \A i \in 1..n : new[i] \in Box!Task /\ i - 1 \in Nat
  BY RowProps
<1>2. Box!Placed(b, new) = h[n]
  BY DEF Box!Placed
<1> HIDE DEF n
<1>3. g \in [(1..n) \X Rows -> Rows]
  BY <1>1, PlaceRow
<1>4. \A i \in 1..n, s \in Rows : g[<<i, s>>] = Box!Place(s, new[i], i - 1)
  OBVIOUS
<1> HIDE DEF g
<1>5. PICK f \in [0..n -> Rows] : DefinedFrom(f, n, b, g)
  BY <1>1, <1>3, Recursion
<1>6. \A i \in 1..n : f[i] = Box!Place(f[i - 1], new[i], i - 1)
  <2> TAKE i \in 1..n
  <2>1. i - 1 \in 0..n
    BY <1>1
  <2> QED BY <1>4, <1>5, <2>1 DEF DefinedFrom
<1>7. f = E(f)
  <2>1. ASSUME NEW i \in 0..n PROVE f[i] = E(f)[i]
    BY <1>1, <1>5, <1>6 DEF DefinedFrom
  <2> QED BY <1>5, <2>1
<1>8. h = E(h)
  <2> HIDE DEF E
  <2> QED BY <1>7
<1> HIDE DEF h
<1>9. h \in [0..n -> Rows] /\ h[0] = b
      /\ \A i \in 1..n : h[i] = Box!Place(h[i - 1], new[i], i - 1)
  <2>1. /\ DOMAIN h = 0..n /\ h = [i \in 0..n |-> h[i]] /\ h[0] = b
        /\ \A i \in 1..n : h[i] = Box!Place(h[i - 1], new[i], i - 1)
    <3>1. \A i \in 0..n : h[i] = IF i = 0 THEN b
                                 ELSE Box!Place(h[i - 1], new[i], i - 1)
      BY <1>8
    <3>2. 0 \in 0..n /\ \A i \in 1..n : i \in 0..n /\ i # 0
      BY <1>1
    <3> QED BY <1>8, <3>1, <3>2
  <2> DEFINE T == {i \in 0..n : h[i] \in Rows}
  <2>2. 0 \in T
    BY <1>1, <2>1
  <2>3. ASSUME NEW i \in 1..n, i - 1 \in T PROVE i \in T
    <3>1. h[i - 1] \in Rows
      BY <2>3
    <3>2. Box!Place(h[i - 1], new[i], i - 1) \in Rows
      BY <1>1, <3>1, PlaceRow
    <3> QED BY <2>1, <3>2
  <2> HIDE DEF T
  <2>4. \A i \in 0..n : i \in T
    BY <1>1, <2>2, <2>3, InductionUpTo
  <2> QED BY <2>1, <2>4 DEF T
<1> QED BY <1>2, <1>9 DEF PlaceLoop, n

\* Every task of the new list gets its child.
LEMMA PlacedRow ==
  ASSUME NEW b \in Rows, NEW new \in Rows
  PROVE  /\ Box!Placed(b, new) \in Rows
         /\ ToSet(new) \subseteq ToSet(Box!Placed(b, new))
<1> DEFINE n == Len(new)
<1>1. PICK f : PlaceLoop(f, b, new) /\ Box!Placed(b, new) = f[n]
  BY PlaceLoopExists
<1>2. /\ n \in Nat /\ \A i \in 1..n : new[i] \in Box!Task /\ i - 1 \in Nat
      /\ \A i, j \in 1..n : new[i].id = new[j].id => i = j
      /\ ToSet(new) = {new[i] : i \in 1..n}
  BY RowProps
<1>3. /\ f \in [0..n -> Rows] /\ f[0] = b
      /\ \A i \in 1..n : f[i] = Box!Place(f[i - 1], new[i], i - 1)
  BY <1>1 DEF PlaceLoop
<1> HIDE DEF n
<1> DEFINE T == {i \in 0..n : \A j \in 1..i : new[j] \in ToSet(f[i])}
<1>4. 0 \in T
  BY <1>2
<1>5. ASSUME NEW i \in 1..n, i - 1 \in T PROVE i \in T
  <2>1. i - 1 \in 0..n /\ f[i - 1] \in Rows
    BY <1>2, <1>3
  <2>2. ToSet(f[i]) = {u \in ToSet(f[i - 1]) : u.id # new[i].id} \union {new[i]}
    BY <1>2, <1>3, <2>1, PlaceRow
  <2>3. ASSUME NEW j \in 1..i PROVE new[j] \in ToSet(f[i])
    <3>1. CASE j = i
      BY <2>2, <3>1
    <3>2. CASE j # i
      <4>1. j \in 1..(i - 1) /\ j \in 1..n
        BY <1>2, <3>2
      <4> QED BY <1>2, <1>5, <2>2, <3>2, <4>1
    <3> QED BY <3>1, <3>2
  <2> QED BY <1>2, <2>3
<1> HIDE DEF T
<1>6. \A i \in 0..n : i \in T
  BY <1>2, <1>4, <1>5, InductionUpTo
<1>7. \A j \in 1..n : new[j] \in ToSet(f[n])
  BY <1>2, <1>6 DEF T
<1> QED BY <1>1, <1>2, <1>3, <1>7

LEMMA AppendRow ==
  ASSUME NEW s \in Rows, NEW t \in Box!Task, t.id \notin Box!Ids(s)
  PROVE  /\ Append(s, t) \in Rows /\ Len(Append(s, t)) = Len(s) + 1
         /\ \A i \in 1..(Len(s) + 1) :
              Append(s, t)[i] = IF i = Len(s) + 1 THEN t ELSE s[i]
         /\ ToSet(Append(s, t)) = ToSet(s) \union {t}
<1> DEFINE n == Len(s)
           r == Append(s, t)
<1>1. /\ s \in Seq(Box!Task) /\ n \in Nat
      /\ \A i \in 1..n : s[i] \in Box!Task /\ s[i].id # t.id
      /\ \A i, j \in 1..n : s[i].id = s[j].id => i = j
      /\ ToSet(s) = {s[i] : i \in 1..n}
  BY RowProps DEF Box!Ids
<1>2. /\ r \in Seq(Box!Task) /\ Len(r) = n + 1
      /\ \A i \in 1..(n + 1) : r[i] = IF i = n + 1 THEN t ELSE s[i]
  BY <1>1, AppendProperties
<1> HIDE DEF n, r
<1>3. \A i, j \in 1..(n + 1) : r[i].id = r[j].id => i = j
  BY <1>1, <1>2
<1>4. r \in Rows
  BY <1>2, <1>3 DEF Rows, Box!OneEach
<1>5. ToSet(r) = {r[i] : i \in 1..(n + 1)}
  BY <1>2, <1>4, RowProps
<1>6. ToSet(r) = ToSet(s) \union {t}
  <2>1. \A i \in 1..n : i \in 1..(n + 1) /\ r[i] = s[i]
    BY <1>1, <1>2
  <2>2. n + 1 \in 1..(n + 1) /\ r[n + 1] = t
    BY <1>1, <1>2
  <2>3. \A i \in 1..(n + 1) : i = n + 1 \/ i \in 1..n
    BY <1>1
  <2> QED BY <1>1, <1>5, <2>1, <2>2, <2>3
<1> QED BY <1>2, <1>4, <1>6 DEF n, r

\* The loop that removes children, as the function it is.
KeepLoop(f, p, ids) ==
  /\ f \in [0..Len(p) -> Rows] /\ f[0] = <<>>
  /\ \A i \in 1..Len(p) :
       f[i] = IF p[i].id \in ids THEN Append(f[i - 1], p[i]) ELSE f[i - 1]
  /\ \A i \in 0..Len(p) :
       ToSet(f[i]) = {p[j] : j \in {k \in 1..i : p[k].id \in ids}}

LEMMA EmptyRow == <<>> \in Rows /\ ToSet(<<>>) = {} /\ Len(<<>>) = 0
<1>1. <<>> \in Rows
  BY DEF Rows, Box!OneEach
<1> QED BY <1>1 DEF ToSet

LEMMA KeepLoopExists ==
  ASSUME NEW b \in Rows, NEW new \in Rows
  PROVE  LET p == Box!Placed(b, new)
         IN  \E f : KeepLoop(f, p, Box!Ids(new)) /\ Box!SetTasks(b, new) = f[Len(p)]
<1> DEFINE p == Box!Placed(b, new)
           n == Len(p)
           ids == Box!Ids(new)
           E(f) == [i \in 0..n |->
                      IF i = 0 THEN <<>>
                      ELSE IF p[i].id \in ids THEN Append(f[i - 1], p[i])
                           ELSE f[i - 1]]
           h == CHOOSE f : f = E(f)
           g == [x \in (1..n) \X Seq(Box!Task) |->
                   IF p[x[1]].id \in ids THEN Append(x[2], p[x[1]]) ELSE x[2]]
<1>1. p \in Rows
  BY PlacedRow
<1>2. Box!SetTasks(b, new) = h[n]
  BY DEF Box!SetTasks
<1> HIDE DEF p, ids
<1>3. /\ p \in Seq(Box!Task) /\ n \in Nat /\ \A i \in 1..n : p[i] \in Box!Task
      /\ \A i, j \in 1..n : p[i].id = p[j].id => i = j
  BY <1>1, RowProps
<1> HIDE DEF n
<1>4. g \in [(1..n) \X Seq(Box!Task) -> Seq(Box!Task)]
  BY <1>3
<1>5. \A i \in 1..n, s \in Seq(Box!Task) :
        g[<<i, s>>] = IF p[i].id \in ids THEN Append(s, p[i]) ELSE s
  OBVIOUS
<1> HIDE DEF g
<1>6. PICK f \in [0..n -> Seq(Box!Task)] : DefinedFrom(f, n, <<>>, g)
  <2>1. <<>> \in Seq(Box!Task)
    OBVIOUS
  <2> QED BY <1>3, <1>4, <2>1, Recursion
<1>7. f = E(f)
  <2>1. ASSUME NEW i \in 0..n PROVE f[i] = E(f)[i]
    <3>1. CASE i = 0
      BY <1>6, <3>1 DEF DefinedFrom
    <3>2. CASE i # 0
      <4>1. i \in 1..n /\ i - 1 \in 0..n
        BY <1>3, <3>2
      <4> QED BY <1>5, <1>6, <3>2, <4>1 DEF DefinedFrom
    <3> QED BY <3>1, <3>2
  <2> QED BY <1>6, <2>1
<1>8. h = E(h)
  <2> HIDE DEF E
  <2> QED BY <1>7
<1> HIDE DEF h
<1>9. /\ DOMAIN h = 0..n /\ h = [i \in 0..n |-> h[i]] /\ h[0] = <<>>
      /\ \A i \in 1..n :
           h[i] = IF p[i].id \in ids THEN Append(h[i - 1], p[i]) ELSE h[i - 1]
  <2>1. \A i \in 0..n :
          h[i] = IF i = 0 THEN <<>>
                 ELSE IF p[i].id \in ids THEN Append(h[i - 1], p[i])
                      ELSE h[i - 1]
    BY <1>8
  <2>2. 0 \in 0..n /\ \A i \in 1..n : i \in 0..n /\ i # 0
    BY <1>3
  <2> QED BY <1>8, <2>1, <2>2
<1> DEFINE K(i) == {p[j] : j \in {k \in 1..i : p[k].id \in ids}}
           T == {i \in 0..n : h[i] \in Rows /\ ToSet(h[i]) = K(i)}
<1>10. 0 \in T
  BY <1>3, <1>9, EmptyRow
<1> HIDE DEF K
<1>11. ASSUME NEW i \in 1..n, i - 1 \in T PROVE i \in T
  <2>1. h[i - 1] \in Rows /\ ToSet(h[i - 1]) = K(i - 1)
    BY <1>11
  <2>2. \A j \in 1..i : j = i \/ j \in 1..(i - 1)
    BY <1>3
  <2>3. i \in 1..i /\ \A j \in 1..(i - 1) : j \in 1..i /\ j \in 1..n /\ j # i
    BY <1>3
  <2>4. CASE p[i].id \in ids
    <3>1. p[i].id \notin Box!Ids(h[i - 1])
      <4>1. Box!Ids(h[i - 1]) = {t.id : t \in K(i - 1)}
        BY <2>1, RowProps
      <4>2. \A j \in 1..(i - 1) : p[j].id # p[i].id
        BY <1>3, <2>3
      <4> QED BY <4>1, <4>2 DEF K
    <3>2. /\ Append(h[i - 1], p[i]) \in Rows
          /\ ToSet(Append(h[i - 1], p[i])) = ToSet(h[i - 1]) \union {p[i]}
      BY <1>3, <2>1, <3>1, AppendRow
    <3>3. K(i) = K(i - 1) \union {p[i]}
      BY <2>2, <2>3, <2>4 DEF K
    <3>4. h[i] = Append(h[i - 1], p[i])
      BY <1>9, <2>4
    <3>5. h[i] \in Rows /\ ToSet(h[i]) = K(i)
      BY <2>1, <3>2, <3>3, <3>4
    <3> QED BY <1>3, <3>5
  <2>5. CASE p[i].id \notin ids
    <3>1. K(i) = K(i - 1)
      BY <2>2, <2>3, <2>5 DEF K
    <3>2. h[i] = h[i - 1]
      BY <1>9, <2>5
    <3>3. h[i] \in Rows /\ ToSet(h[i]) = K(i)
      BY <2>1, <3>1, <3>2
    <3> QED BY <1>3, <3>3
  <2> QED BY <2>4, <2>5
<1> HIDE DEF T
<1>12. \A i \in 0..n : i \in T
  BY <1>3, <1>10, <1>11, InductionUpTo
<1>13. h \in [0..n -> Rows] /\ \A i \in 0..n : ToSet(h[i]) = K(i)
  BY <1>9, <1>12 DEF T
<1>14. KeepLoop(h, p, ids)
  BY <1>9, <1>13 DEF KeepLoop, n, K
<1> QED BY <1>2, <1>14 DEF p, n, ids

\* The box gets the new list's tasks, each once.
LEMMA SetTasksRow ==
  ASSUME NEW b \in Rows, NEW new \in Rows
  PROVE  /\ Box!SetTasks(b, new) \in Rows
         /\ ToSet(Box!SetTasks(b, new)) = ToSet(new)
<1> DEFINE p == Box!Placed(b, new)
           n == Len(p)
<1>1. PICK f : KeepLoop(f, p, Box!Ids(new)) /\ Box!SetTasks(b, new) = f[n]
  BY KeepLoopExists
<1>2. p \in Rows /\ ToSet(new) \subseteq ToSet(p)
  BY PlacedRow
<1> HIDE DEF p
<1>3. n \in Nat /\ ToSet(p) = {p[i] : i \in 1..n}
      /\ \A i, j \in 1..n : p[i].id = p[j].id => i = j
  BY <1>2, RowProps
<1>4. /\ f[n] \in Rows
      /\ ToSet(f[n]) = {p[j] : j \in {k \in 1..n : p[k].id \in Box!Ids(new)}}
  BY <1>1, <1>3 DEF KeepLoop
<1> HIDE DEF n
<1>5. Box!Ids(new) = {u.id : u \in ToSet(new)}
  BY RowProps
<1>6. \A j \in 1..n : p[j].id \in Box!Ids(new) => p[j] \in ToSet(new)
  BY <1>2, <1>3, <1>5
<1>7. ToSet(f[n]) = ToSet(new)
  BY <1>2, <1>3, <1>4, <1>5, <1>6
<1> QED BY <1>1, <1>4, <1>7

(***************************************************************************)
(* The order.                                                              *)
(***************************************************************************)
\* A sorted row with the first k tasks of another and no tasks but the
\* other's has these k at its head.
LEMMA SameHead ==
  ASSUME NEW s \in Rows, NEW r \in Rows, Box!Sorted(s), Box!Sorted(r),
         ToSet(s) \subseteq ToSet(r), NEW k \in 0..Len(r),
         \A i \in 1..k : r[i] \in ToSet(s)
  PROVE  k <= Len(s) /\ \A i \in 1..k : s[i] = r[i]
<1> DEFINE m == Len(s)
           n == Len(r)
           T == {i \in 0..k : i <= m /\ \A j \in 1..i : s[j] = r[j]}
<1>1. /\ m \in Nat /\ n \in Nat
      /\ \A i \in 1..m : s[i].key \in Int
      /\ \A i \in 1..n : r[i].key \in Int
      /\ ToSet(s) = {s[i] : i \in 1..m} /\ ToSet(r) = {r[i] : i \in 1..n}
  <2>1. \A t \in Box!Task : t.key \in Int
    BY DEF Box!Task
  <2>2. /\ m \in Nat /\ \A i \in 1..m : s[i] \in Box!Task
        /\ ToSet(s) = {s[i] : i \in 1..m}
    BY RowProps
  <2>3. /\ n \in Nat /\ \A i \in 1..n : r[i] \in Box!Task
        /\ ToSet(r) = {r[i] : i \in 1..n}
    BY RowProps
  <2> QED BY <2>1, <2>2, <2>3
<1>2. /\ \A i, j \in 1..m : i < j => s[i].key < s[j].key
      /\ \A i, j \in 1..n : i < j => r[i].key < r[j].key
  BY DEF Box!Sorted
<1>3. k \in 0..n
  OBVIOUS
<1> HIDE DEF m, n
<1>4. 0 \in T
  BY <1>1, <1>3
<1>5. ASSUME NEW i \in 1..k, i - 1 \in T PROVE i \in T
  <2>1. i - 1 <= m /\ \A j \in 1..(i - 1) : s[j] = r[j]
    BY <1>5
  <2>2. i \in 1..n
    BY <1>1, <1>3
  <2>3. PICK a \in 1..m : s[a] = r[i]
    BY <1>1
  <2>4. a >= i
    <3>1. SUFFICES ASSUME a < i PROVE FALSE
      BY <1>1, <1>3
    <3>2. a \in 1..(i - 1) /\ a \in 1..n
      BY <1>1, <1>3, <2>2, <3>1
    <3>3. r[a].key < r[i].key /\ r[a] = r[i]
      BY <1>2, <2>1, <2>2, <2>3, <3>1, <3>2
    <3> QED BY <1>1, <2>2, <3>3
  <2>5. i \in 1..m
    BY <1>1, <1>3, <2>3, <2>4
  <2>6. PICK b \in 1..n : s[i] = r[b]
    BY <1>1, <2>5
  <2>7. b >= i
    <3>1. SUFFICES ASSUME b < i PROVE FALSE
      BY <1>1, <1>3
    <3>2. b \in 1..(i - 1) /\ b \in 1..m
      BY <1>1, <1>3, <2>5, <2>6, <3>1
    <3>3. s[b].key < s[i].key /\ s[b] = s[i]
      BY <1>2, <2>1, <2>5, <2>6, <3>1, <3>2
    <3> QED BY <1>1, <2>5, <3>3
  <2>8. a = i
    <3>1. SUFFICES ASSUME a > i PROVE FALSE
      BY <1>1, <1>3, <2>4
    <3>2. s[i].key < s[a].key
      BY <1>2, <2>3, <2>5, <3>1
    <3>3. b = i \/ r[i].key < r[b].key
      BY <1>1, <1>2, <1>3, <2>2, <2>6, <2>7
    <3> QED BY <1>1, <2>2, <2>3, <2>5, <2>6, <3>2, <3>3
  <2>9. \A j \in 1..i : j = i \/ j \in 1..(i - 1)
    BY <1>3
  <2> QED BY <1>1, <1>3, <2>1, <2>3, <2>5, <2>8, <2>9
<1> HIDE DEF T
<1>6. k \in Nat
  BY <1>1, <1>3
<1>7. \A i \in 0..k : i \in T
  BY <1>4, <1>5, <1>6, InductionUpTo
<1>8. k \in T
  BY <1>6, <1>7
<1> QED BY <1>8 DEF T, m

\* Sorted rows of the same tasks are the same.
LEMMA SameRow ==
  ASSUME NEW s \in Rows, NEW r \in Rows, Box!Sorted(s), Box!Sorted(r),
         ToSet(s) = ToSet(r)
  PROVE  s = r
<1>1. /\ s \in Seq(Box!Task) /\ r \in Seq(Box!Task) /\ Len(r) \in Nat
      /\ \A i \in 1..Len(r) : r[i] \in ToSet(s)
  BY RowProps
<1>2. Len(s) = Len(r)
  BY SameLen
<1>3. Len(r) \in 0..Len(r)
  BY <1>1
<1>4. \A i \in 1..Len(r) : s[i] = r[i]
  BY <1>1, <1>3, SameHead
<1> QED BY <1>1, <1>2, <1>4, SeqEqual

\* The tasks with certain ids are in order.
InOrder(p, ids) ==
  \A i, j \in 1..Len(p) :
    i < j /\ p[i].id \in ids /\ p[j].id \in ids => p[i].key < p[j].key

\* If the list's tasks are in order when all have their children, the box is
\* the list.
LEMMA BoxIsList ==
  ASSUME NEW b \in Rows, NEW new \in Rows, Box!Sorted(new),
         InOrder(Box!Placed(b, new), Box!Ids(new))
  PROVE  Box!SetTasks(b, new) = new
<1> DEFINE p == Box!Placed(b, new)
           n == Len(p)
           ids == Box!Ids(new)
<1>1. PICK f : KeepLoop(f, p, ids) /\ Box!SetTasks(b, new) = f[n]
  BY KeepLoopExists
<1>2. p \in Rows /\ InOrder(p, ids)
  BY PlacedRow
<1> HIDE DEF p, ids
<1>3. /\ n \in Nat /\ \A i \in 1..n : p[i] \in Box!Task
      /\ \A i, j \in 1..n : p[i].id = p[j].id => i = j
  BY <1>2, RowProps
<1>4. \A i, j \in 1..n :
        i < j /\ p[i].id \in ids /\ p[j].id \in ids => p[i].key < p[j].key
  BY <1>2 DEF InOrder
<1> DEFINE K(i) == {p[j] : j \in {k \in 1..i : p[k].id \in ids}}
<1> HIDE DEF n
<1>5. /\ f \in [0..n -> Rows] /\ f[0] = <<>>
      /\ \A i \in 1..n :
           f[i] = IF p[i].id \in ids THEN Append(f[i - 1], p[i]) ELSE f[i - 1]
      /\ \A i \in 0..n : ToSet(f[i]) = K(i)
  BY <1>1 DEF KeepLoop, n
<1> DEFINE T == {i \in 0..n : Box!Sorted(f[i])}
<1>6. 0 \in T
  <2>1. Box!Sorted(<<>>)
    BY DEF Box!Sorted
  <2> QED BY <1>3, <1>5, <2>1
<1>7. ASSUME NEW i \in 1..n, i - 1 \in T PROVE i \in T
  <2>1. i - 1 \in 0..n /\ i \in 0..n /\ f[i - 1] \in Rows /\ Box!Sorted(f[i - 1])
    BY <1>3, <1>5, <1>7
  <2>2. CASE p[i].id \notin ids
    BY <1>5, <2>1, <2>2
  <2>3. CASE p[i].id \in ids
    <3> DEFINE s == f[i - 1]
               m == Len(s)
    <3>1. /\ s \in Rows /\ m \in Nat /\ ToSet(s) = {s[x] : x \in 1..m}
          /\ \A x, y \in 1..m : x < y => s[x].key < s[y].key
      BY <2>1, RowProps DEF Box!Sorted
    <3>2. ToSet(s) = K(i - 1)
      BY <1>5, <2>1
    <3>3. f[i] = Append(s, p[i])
      BY <1>5, <2>3
    <3> HIDE DEF s
    <3>4. \A x \in 1..m : s[x].key < p[i].key /\ s[x].id # p[i].id
      <4> TAKE x \in 1..m
      <4>1. s[x] \in K(i - 1)
        BY <3>1, <3>2
      <4>2. PICK j \in 1..(i - 1) : s[x] = p[j] /\ p[j].id \in ids
        BY <4>1
      <4>3. j \in 1..n /\ j < i
        BY <1>3
      <4> QED BY <1>3, <1>4, <2>3, <4>2, <4>3
    <3>5. p[i].id \notin Box!Ids(s)
      BY <3>4 DEF Box!Ids
    <3>6. /\ Len(f[i]) = m + 1
          /\ \A x \in 1..(m + 1) :
               f[i][x] = IF x = m + 1 THEN p[i] ELSE s[x]
      BY <1>3, <3>1, <3>3, <3>5, AppendRow
    <3> HIDE DEF m
    <3>7. ASSUME NEW x \in 1..(m + 1), NEW y \in 1..(m + 1), x < y
          PROVE  f[i][x].key < f[i][y].key
      <4>1. x \in 1..m /\ x # m + 1
        BY <3>1, <3>7
      <4>2. y = m + 1 \/ y \in 1..m
        BY <3>1
      <4> QED BY <3>1, <3>4, <3>6, <3>7, <4>1, <4>2
    <3>8. Box!Sorted(f[i])
      BY <3>6, <3>7 DEF Box!Sorted
    <3> QED BY <2>1, <3>8
  <2> QED BY <2>2, <2>3
<1> HIDE DEF T
<1>8. \A i \in 0..n : i \in T
  BY <1>3, <1>6, <1>7, InductionUpTo
<1>9. Box!Sorted(f[n])
  BY <1>3, <1>8 DEF T
<1>10. f[n] \in Rows /\ ToSet(f[n]) = ToSet(new)
  BY <1>1, SetTasksRow DEF n
<1> QED BY <1>1, <1>9, <1>10, SameRow DEF n

\* A task is put among sorted ones at its place.
LEMMA InsertInOrder ==
  ASSUME NEW s \in Rows, Box!Sorted(s), NEW t \in Box!Task,
         t.id \notin Box!Ids(s), NEW k \in 1..(Len(s) + 1),
         \A i \in 1..Len(s) : IF i < k THEN s[i].key < t.key
                              ELSE t.key < s[i].key
  PROVE  Box!Sorted(InsertAt(s, k, t))
<1> DEFINE n == Len(s)
           r == InsertAt(s, k, t)
<1>1. /\ n \in Nat /\ \A i \in 1..n : s[i].key \in Int
      /\ \A i, j \in 1..n : i < j => s[i].key < s[j].key
      /\ t.key \in Int
  <2>1. n \in Nat /\ \A i \in 1..n : s[i] \in Box!Task
    BY RowProps
  <2>2. ASSUME NEW x \in Box!Task PROVE x.key \in Int
    BY DEF Box!Task
  <2>3. \A i, j \in 1..n : i < j => s[i].key < s[j].key
    BY DEF Box!Sorted
  <2> QED BY <2>1, <2>2, <2>3
<1>2. /\ Len(r) = n + 1
      /\ \A j \in 1..(n + 1) :
           r[j] = IF j < k THEN s[j] ELSE IF j = k THEN t ELSE s[j - 1]
  BY InsertRow
<1>3. k \in 1..(n + 1)
  OBVIOUS
<1> HIDE DEF n, r
<1>4. ASSUME NEW i \in 1..(n + 1), NEW j \in 1..(n + 1), i < j
      PROVE  r[i].key < r[j].key
  <2>1. ASSUME NEW x \in 1..(n + 1)
        PROVE  \/ x = k /\ r[x] = t
               \/ x < k /\ x \in 1..n /\ r[x] = s[x]
               \/ x > k /\ x - 1 \in 1..n /\ r[x] = s[x - 1]
    BY <1>1, <1>2, <1>3
  <2>2. \A x \in 1..n : IF x < k THEN s[x].key < t.key ELSE t.key < s[x].key
    BY DEF n
  <2>3. CASE i = k
    <3>1. j > k /\ j - 1 \in 1..n /\ r[j] = s[j - 1] /\ ~(j - 1 < k)
      BY <1>1, <1>3, <1>4, <2>1, <2>3
    <3> QED BY <2>1, <2>2, <2>3, <3>1
  <2>4. CASE j = k
    <3>1. i < k /\ i \in 1..n /\ r[i] = s[i]
      BY <1>3, <1>4, <2>1, <2>4
    <3> QED BY <2>1, <2>2, <2>4, <3>1
  <2>5. CASE i # k /\ j # k
    <3> DEFINE a == IF i < k THEN i ELSE i - 1
               b == IF j < k THEN j ELSE j - 1
    <3>1. a \in 1..n /\ r[i] = s[a]
      BY <2>1, <2>5
    <3>2. b \in 1..n /\ r[j] = s[b]
      BY <2>1, <2>5
    <3>3. a < b
      BY <1>3, <1>4, <2>5
    <3> QED BY <1>1, <3>1, <3>2, <3>3
  <2> QED BY <2>3, <2>4, <2>5
<1> QED BY <1>2, <1>4 DEF Box!Sorted, r

\* The position set_tasks gives to a new child, in a row long enough.
LEMMA InsertChildAt ==
  ASSUME NEW s \in Rows, NEW t, NEW i \in Nat \ {0}, i - 1 <= Len(s)
  PROVE  Box!InsertChild(s, t, i - 1) = InsertAt(s, i, t)
<1>1. Len(s) \in Nat
  BY RowProps
<1>2. (IF i - 1 < Len(s) THEN (i - 1) + 1 ELSE Len(s) + 1) = i
  BY <1>1
<1> QED BY <1>2, SameOperators DEF Box!InsertChild

\* A task of the list finds its place among others of the list that are
\* sorted and hold those before it.
LEMMA PlaceAmongOthers ==
  ASSUME NEW s \in Rows, Box!Sorted(s), NEW new \in Rows, Box!Sorted(new),
         ToSet(s) \subseteq ToSet(new), NEW i \in 1..Len(new),
         new[i] \notin ToSet(s), \A j \in 1..(i - 1) : new[j] \in ToSet(s)
  PROVE  /\ new[i].id \notin Box!Ids(s)
         /\ Box!InsertChild(s, new[i], i - 1) \in Rows
         /\ ToSet(Box!InsertChild(s, new[i], i - 1)) = ToSet(s) \union {new[i]}
         /\ Box!Sorted(Box!InsertChild(s, new[i], i - 1))
<1> DEFINE m == Len(s)
           n == Len(new)
<1>1. /\ m \in Nat /\ \A x \in 1..m : s[x].key \in Int
      /\ ToSet(s) = {s[x] : x \in 1..m}
      /\ Box!Ids(s) = {t.id : t \in ToSet(s)}
  <2>1. /\ m \in Nat /\ \A x \in 1..m : s[x] \in Box!Task
        /\ ToSet(s) = {s[x] : x \in 1..m}
        /\ Box!Ids(s) = {t.id : t \in ToSet(s)}
    BY RowProps
  <2>2. \A t \in Box!Task : t.key \in Int
    BY DEF Box!Task
  <2> QED BY <2>1, <2>2
<1>2. /\ n \in Nat /\ \A x \in 1..n : new[x] \in Box!Task
      /\ \A x, y \in 1..n : new[x].id = new[y].id => x = y
      /\ ToSet(new) = {new[x] : x \in 1..n}
  BY RowProps
<1>3. \A x, y \in 1..n : x < y => new[x].key < new[y].key
  BY DEF Box!Sorted
<1>4. new[i].id \notin Box!Ids(s)
  <2>1. ASSUME NEW t \in ToSet(s) PROVE t.id # new[i].id
    <3>1. PICK j \in 1..n : t = new[j]
      BY <1>2, <2>1
    <3>2. j # i
      BY <2>1, <3>1
    <3> QED BY <1>2, <3>1, <3>2
  <2> QED BY <1>1, <2>1
<1>5. i - 1 \in 0..n /\ i \in 1..n /\ i \in Nat \ {0}
  BY <1>2
<1>6. i - 1 <= m /\ \A j \in 1..(i - 1) : s[j] = new[j]
  BY <1>5, SameHead
<1>7. i \in 1..(m + 1)
  BY <1>1, <1>5, <1>6
<1>8. Box!InsertChild(s, new[i], i - 1) = InsertAt(s, i, new[i])
  BY <1>5, <1>6, InsertChildAt
<1>9. ASSUME NEW x \in 1..m
      PROVE  IF x < i THEN s[x].key < new[i].key ELSE new[i].key < s[x].key
  <2>1. CASE x < i
    <3>1. x \in 1..(i - 1) /\ x \in 1..n
      BY <1>5, <2>1
    <3> QED BY <1>3, <1>5, <1>6, <2>1, <3>1
  <2>2. CASE ~(x < i)
    <3>1. PICK a \in 1..n : s[x] = new[a]
      BY <1>1, <1>2
    <3>2. a # i
      BY <1>1, <3>1
    <3>3. ~(a < i)
      <4>1. SUFFICES ASSUME a < i PROVE FALSE
        OBVIOUS
      <4>2. a \in 1..(i - 1)
        BY <1>5, <4>1
      <4>3. a \in 1..m /\ s[a] = s[x]
        BY <1>6, <1>1, <3>1, <4>2
      <4>4. a = x
        BY <4>3, RowProps
      <4> QED BY <2>2, <4>1, <4>4
    <3> QED BY <1>3, <1>5, <2>2, <3>1, <3>2, <3>3
  <2> QED BY <2>1, <2>2
<1> HIDE DEF n
<1>10. new[i] \in Box!Task
  BY <1>2, <1>5
<1>11. /\ InsertAt(s, i, new[i]) \in Rows
       /\ ToSet(InsertAt(s, i, new[i])) = ToSet(s) \union {new[i]}
  BY <1>4, <1>7, <1>10, InsertRow
<1>12. Box!Sorted(InsertAt(s, i, new[i]))
  BY <1>4, <1>7, <1>9, <1>10, InsertInOrder
<1> QED BY <1>4, <1>8, <1>11, <1>12

\* A sorted box whose tasks are all the list's gets those it lacks.
LEMMA PlacedOfMore ==
  ASSUME NEW b \in Rows, Box!Sorted(b), NEW new \in Rows, Box!Sorted(new),
         ToSet(b) \subseteq ToSet(new)
  PROVE  Box!Sorted(Box!Placed(b, new))
<1> DEFINE n == Len(new)
<1>1. PICK f : PlaceLoop(f, b, new) /\ Box!Placed(b, new) = f[n]
  BY PlaceLoopExists
<1>2. /\ n \in Nat /\ \A i \in 1..n : new[i] \in Box!Task /\ i - 1 \in Nat
      /\ \A i, j \in 1..n : new[i].id = new[j].id => i = j
      /\ ToSet(new) = {new[i] : i \in 1..n}
  BY RowProps
<1>3. /\ f \in [0..n -> Rows] /\ f[0] = b
      /\ \A i \in 1..n : f[i] = Box!Place(f[i - 1], new[i], i - 1)
  BY <1>1 DEF PlaceLoop
<1> DEFINE T == {i \in 0..n : /\ Box!Sorted(f[i]) /\ ToSet(f[i]) \subseteq ToSet(new)
                              /\ \A j \in 1..i : new[j] \in ToSet(f[i])}
<1>4. 0 \in T
  BY <1>2, <1>3
<1>5. ASSUME NEW i \in 1..n, i - 1 \in T PROVE i \in T
  <2> DEFINE s == f[i - 1]
             t == new[i]
  <2>1. /\ s \in Rows /\ Box!Sorted(s) /\ ToSet(s) \subseteq ToSet(new)
        /\ \A j \in 1..(i - 1) : new[j] \in ToSet(s)
    BY <1>2, <1>3, <1>5
  <2>2. f[i] = Box!Place(s, t, i - 1)
    BY <1>3
  <2>3. \A j \in 1..i : j = i \/ j \in 1..(i - 1)
    BY <1>2
  <2>4. i \in 1..Len(new) /\ i \in 0..n
    BY <1>2
  <2>5. t \in ToSet(new)
    BY <1>2
  <2> HIDE DEF s, n
  <2>6. CASE t \in ToSet(s)
    <3>1. f[i] = s
      BY <2>2, <2>6, SameOperators DEF Box!Place
    <3> QED BY <2>1, <2>3, <2>4, <2>6, <3>1
  <2>7. CASE t \notin ToSet(s)
    <3>1. /\ t.id \notin Box!Ids(s)
          /\ ToSet(Box!InsertChild(s, t, i - 1)) = ToSet(s) \union {t}
          /\ Box!Sorted(Box!InsertChild(s, t, i - 1))
      BY <2>1, <2>4, <2>7, PlaceAmongOthers
    <3>2. f[i] = Box!InsertChild(s, t, i - 1)
      BY <2>2, <2>7, <3>1, SameOperators DEF Box!Place, Box!Drop
    <3> QED BY <2>1, <2>3, <2>4, <2>5, <3>1, <3>2
  <2> QED BY <2>6, <2>7
<1> HIDE DEF T, n
<1>6. \A i \in 0..n : i \in T
  BY <1>2, <1>4, <1>5, InductionUpTo
<1>7. n \in T
  BY <1>2, <1>6
<1> QED BY <1>1, <1>7 DEF T

\* A sorted box that holds the whole list stays until children are removed.
LEMMA PlacedOfFewer ==
  ASSUME NEW b \in Rows, NEW new \in Rows, ToSet(new) \subseteq ToSet(b)
  PROVE  Box!Placed(b, new) = b
<1> DEFINE n == Len(new)
<1>1. PICK f : PlaceLoop(f, b, new) /\ Box!Placed(b, new) = f[n]
  BY PlaceLoopExists
<1>2. n \in Nat /\ \A i \in 1..n : new[i] \in ToSet(b)
  BY RowProps
<1>3. /\ f[0] = b
      /\ \A i \in 1..n : f[i] = Box!Place(f[i - 1], new[i], i - 1)
  BY <1>1 DEF PlaceLoop
<1> HIDE DEF n
<1> DEFINE T == {i \in 0..n : f[i] = b}
<1>4. 0 \in T
  BY <1>2, <1>3
<1>5. ASSUME NEW i \in 1..n, i - 1 \in T PROVE i \in T
  <2>1. f[i - 1] = b /\ i \in 0..n
    BY <1>2, <1>5
  <2>2. f[i] = b
    BY <1>2, <1>3, <2>1, SameOperators DEF Box!Place
  <2> QED BY <2>1, <2>2
<1> HIDE DEF T
<1>6. \A i \in 0..n : i \in T
  BY <1>2, <1>4, <1>5, InductionUpTo
<1>7. n \in T
  BY <1>2, <1>6
<1> QED BY <1>1, <1>7 DEF T

\* A sorted box that differs from the list in the key of one task.
LEMMA PlacedOfEdited ==
  ASSUME NEW b \in Rows, Box!Sorted(b), NEW new \in Rows, Box!Sorted(new),
         NEW t \in Box!Task, t \in ToSet(new), t \notin ToSet(b),
         {u \in ToSet(b) : u.id # t.id} = ToSet(new) \ {t}
  PROVE  Box!Sorted(Box!Placed(b, new))
<1> DEFINE n == Len(new)
           d == Box!Drop(b, t.id)
<1>1. PICK f : PlaceLoop(f, b, new) /\ Box!Placed(b, new) = f[n]
  BY PlaceLoopExists
<1>2. /\ n \in Nat /\ \A i \in 1..n : new[i] \in Box!Task /\ i - 1 \in Nat
      /\ \A i, j \in 1..n : new[i].id = new[j].id => i = j
      /\ ToSet(new) = {new[i] : i \in 1..n}
  BY RowProps
<1>3. /\ f \in [0..n -> Rows] /\ f[0] = b
      /\ \A i \in 1..n : f[i] = Box!Place(f[i - 1], new[i], i - 1)
  BY <1>1 DEF PlaceLoop
<1>4. PICK k \in 1..n : new[k] = t
  BY <1>2
<1>5. /\ d \in Rows /\ Box!Sorted(d) /\ ToSet(d) = ToSet(new) \ {t}
  BY DropRow, DropSorted
<1> DEFINE r == Box!InsertChild(d, t, k - 1)
<1> HIDE DEF d
<1>6. \A i \in 1..n : i # k => new[i] # t /\ new[i] \in ToSet(b) /\ new[i] \in ToSet(d)
  BY <1>2, <1>4, <1>5
<1>7. \A j \in 1..(k - 1) : j \in 1..n /\ j # k
  BY <1>2, <1>4
<1>8. k \in 1..Len(new) /\ t \notin ToSet(d)
  BY <1>4, <1>5
<1>9. r \in Rows /\ Box!Sorted(r) /\ ToSet(r) = ToSet(new)
  <2>1. \A j \in 1..(k - 1) : new[j] \in ToSet(d)
    BY <1>6, <1>7
  <2>2. /\ r \in Rows /\ Box!Sorted(r) /\ ToSet(r) = ToSet(d) \union {t}
    BY <1>4, <1>5, <1>8, <2>1, PlaceAmongOthers
  <2> QED BY <1>5, <2>2
<1>10. Box!Place(b, t, k - 1) = r
  BY SameOperators DEF Box!Place, d
<1> HIDE DEF n, r
<1> DEFINE T == {i \in 0..n : f[i] = IF i < k THEN b ELSE r}
<1>11. 0 \in T
  BY <1>2, <1>3, <1>4
<1>12. ASSUME NEW i \in 1..n, i - 1 \in T PROVE i \in T
  <2>1. i - 1 \in 0..n /\ i \in 0..n /\ f[i - 1] = IF i - 1 < k THEN b ELSE r
    BY <1>2, <1>12
  <2>2. CASE i < k
    <3>1. f[i - 1] = b /\ new[i] \in ToSet(b)
      BY <1>4, <1>6, <2>1, <2>2
    <3>2. f[i] = b
      BY <1>3, <3>1, SameOperators DEF Box!Place
    <3> QED BY <2>1, <2>2, <3>2
  <2>3. CASE i = k
    <3>1. f[i - 1] = b
      BY <1>4, <2>1, <2>3
    <3>2. f[i] = r
      BY <1>3, <1>4, <1>10, <2>3, <3>1
    <3> QED BY <1>4, <2>1, <2>3, <3>2
  <2>4. CASE i > k
    <3>1. f[i - 1] = r /\ new[i] \in ToSet(r)
      BY <1>2, <1>4, <1>9, <2>1, <2>4
    <3>2. f[i] = r
      BY <1>3, <3>1, SameOperators DEF Box!Place
    <3> QED BY <1>4, <2>1, <2>4, <3>2
  <2> QED BY <1>4, <2>2, <2>3, <2>4
<1> HIDE DEF T
<1>13. \A i \in 0..n : i \in T
  BY <1>2, <1>11, <1>12, InductionUpTo
<1>14. f[n] = r
  <2>1. n \in T /\ ~(n < k)
    BY <1>2, <1>4, <1>13
  <2> QED BY <2>1 DEF T
<1> QED BY <1>1, <1>9, <1>14 DEF n

\* Tasks the box has none of come first, in the list's order.
LEMMA PlacedOfOthers ==
  ASSUME NEW b \in Rows, NEW new \in Rows, Box!Sorted(new),
         ToSet(b) \intersect ToSet(new) = {}
  PROVE  InOrder(Box!Placed(b, new), Box!Ids(new))
<1> DEFINE n == Len(new)
<1>1. PICK f : PlaceLoop(f, b, new) /\ Box!Placed(b, new) = f[n]
  BY PlaceLoopExists
<1>2. /\ n \in Nat /\ \A i \in 1..n : new[i] \in Box!Task /\ i - 1 \in Nat
      /\ \A i, j \in 1..n : new[i].id = new[j].id => i = j
      /\ ToSet(new) = {new[i] : i \in 1..n} /\ Box!Ids(new) = {new[i].id : i \in 1..n}
  BY RowProps DEF Box!Ids
<1>3. /\ f \in [0..n -> Rows] /\ f[0] = b
      /\ \A i \in 1..n : f[i] = Box!Place(f[i - 1], new[i], i - 1)
  BY <1>1 DEF PlaceLoop
<1>4. \A i, j \in 1..n : i < j => new[i].key < new[j].key
  BY DEF Box!Sorted
<1> HIDE DEF n
<1> DEFINE Begins(s, i) == i <= Len(s) /\ \A j \in 1..i : s[j] = new[j]
           T == {i \in 0..n :
                   /\ Begins(f[i], i)
                   /\ \A u \in ToSet(f[i]) :
                        u \in ToSet(b) \/ \E j \in 1..i : u = new[j]}
<1>5. 0 \in T
  <2>1. Len(b) \in Nat
    BY RowProps
  <2> QED BY <1>2, <1>3, <2>1
<1>6. ASSUME NEW i \in 1..n, i - 1 \in T PROVE i \in T
  <2> DEFINE s == f[i - 1]
             t == new[i]
             d == Box!Drop(s, t.id)
  <2>1. /\ s \in Rows /\ Begins(s, i - 1)
        /\ \A u \in ToSet(s) : u \in ToSet(b) \/ \E j \in 1..(i - 1) : u = new[j]
    BY <1>2, <1>3, <1>6
  <2>2. f[i] = Box!Place(s, t, i - 1)
    BY <1>3
  <2>3. t \in Box!Task /\ t \in ToSet(new) /\ i \in 0..n /\ i \in Nat \ {0}
    BY <1>2
  <2>4. \A j \in 1..(i - 1) : j \in 1..n /\ j < i /\ new[j].id # t.id
    BY <1>2
  <2>5. t \notin ToSet(s)
    BY <2>1, <2>3, <2>4
  <2> HIDE DEF s, t
  <2>6. /\ d \in Rows /\ ToSet(d) = {u \in ToSet(s) : u.id # t.id}
        /\ t.id \notin Box!Ids(s) => d = s
        /\ \A k \in 1..Len(s) : s[k].id = t.id =>
             /\ Len(d) = Len(s) - 1
             /\ \A j \in 1..(Len(s) - 1) : d[j] = IF j < k THEN s[j] ELSE s[j + 1]
    BY <2>1, DropRow
  <2> HIDE DEF d
  <2>7. Len(s) \in Nat /\ Len(d) \in Nat
    BY <2>1, <2>6, RowProps
  <2>8. i - 1 <= Len(d) /\ \A j \in 1..(i - 1) : d[j] = new[j]
    <3>1. CASE t.id \notin Box!Ids(s)
      BY <2>1, <2>6, <3>1
    <3>2. CASE t.id \in Box!Ids(s)
      <4>1. PICK k \in 1..Len(s) : s[k].id = t.id
        BY <3>2 DEF Box!Ids
      <4>2. k >= i
        <5>1. k \in 1..(i - 1) => s[k] = new[k]
          BY <2>1
        <5> QED BY <2>3, <2>4, <2>7, <4>1, <5>1
      <4>3. /\ Len(d) = Len(s) - 1
            /\ \A j \in 1..(Len(s) - 1) : d[j] = IF j < k THEN s[j] ELSE s[j + 1]
        BY <2>6, <4>1
      <4>4. \A j \in 1..(i - 1) : j \in 1..(Len(s) - 1) /\ j < k /\ s[j] = new[j]
        BY <2>1, <2>3, <2>7, <4>1, <4>2
      <4> QED BY <2>3, <2>7, <4>1, <4>2, <4>3, <4>4
    <3> QED BY <3>1, <3>2
  <2>9. f[i] = InsertAt(d, i, t)
    <3>1. Box!InsertChild(d, t, i - 1) = InsertAt(d, i, t)
      BY <2>3, <2>6, <2>8, InsertChildAt
    <3> QED BY <2>2, <2>5, <3>1, SameOperators DEF Box!Place, d
  <2>10. i \in 1..(Len(d) + 1) /\ t.id \notin Box!Ids(d)
    <3>1. i \in Nat /\ i >= 1 /\ i - 1 <= Len(d)
      BY <2>3, <2>8
    <3>2. Box!Ids(d) = {u.id : u \in ToSet(d)}
      BY <2>6, RowProps
    <3> QED BY <2>6, <2>7, <3>1, <3>2
  <2>11. /\ Len(f[i]) = Len(d) + 1
         /\ \A j \in 1..(Len(d) + 1) :
              f[i][j] = IF j < i THEN d[j] ELSE IF j = i THEN t ELSE d[j - 1]
         /\ ToSet(f[i]) = ToSet(d) \union {t}
    BY <2>3, <2>6, <2>9, <2>10, InsertRow
  <2>12. Begins(f[i], i)
    <3>1. i <= Len(f[i])
      BY <2>7, <2>10, <2>11
    <3>2. ASSUME NEW j \in 1..i PROVE f[i][j] = new[j]
      <4>1. j \in 1..(Len(d) + 1) /\ (j = i \/ (j \in 1..(i - 1) /\ j < i))
        <5>1. i \in Nat /\ Len(d) \in Nat /\ i <= Len(d) + 1
          BY <2>3, <2>7, <2>10
        <5>2. j \in Nat /\ j >= 1 /\ j <= i
          BY <5>1
        <5> QED BY <5>1, <5>2
      <4> QED BY <2>8, <2>11, <4>1 DEF t
    <3> QED BY <3>1, <3>2
  <2>13. ASSUME NEW u \in ToSet(f[i])
         PROVE  u \in ToSet(b) \/ \E j \in 1..i : u = new[j]
    <3>1. u = t \/ u \in ToSet(s)
      BY <2>6, <2>11
    <3>2. i \in 1..i /\ \A j \in 1..(i - 1) : j \in 1..i
      BY <2>3
    <3> QED BY <2>1, <3>1, <3>2 DEF t
  <2> HIDE DEF Begins
  <2> QED BY <2>3, <2>12, <2>13
<1> HIDE DEF T
<1>7. \A i \in 0..n : i \in T
  BY <1>2, <1>5, <1>6, InductionUpTo
<1> DEFINE p == f[n]
<1>8. n <= Len(p) /\ \A j \in 1..n : p[j] = new[j]
  <2>1. n \in T
    BY <1>2, <1>7
  <2> QED BY <2>1 DEF T
<1>9. p \in Rows
  BY <1>2, <1>3
<1> HIDE DEF p
<1>10. Len(p) \in Nat /\ \A i, j \in 1..Len(p) : p[i].id = p[j].id => i = j
  BY <1>9, RowProps
<1>11. ASSUME NEW x \in 1..Len(p), p[x].id \in Box!Ids(new) PROVE x \in 1..n
  <2>1. PICK a \in 1..n : p[x].id = new[a].id
    BY <1>2, <1>11
  <2>2. a \in 1..Len(p) /\ p[a] = new[a]
    BY <1>2, <1>8, <1>10
  <2> QED BY <1>10, <2>1, <2>2
<1>12. InOrder(p, Box!Ids(new))
  BY <1>4, <1>8, <1>11 DEF InOrder
<1> QED BY <1>1, <1>12 DEF p

(***************************************************************************)
(* After every update the box holds exactly the list's tasks, each once,   *)
(* and the calls between two updates have changed what they can.           *)
(***************************************************************************)
LEMMA BoxInit == Box!Init => BoxIInv
<1> SUFFICES ASSUME Box!Init PROVE BoxIInv
  OBVIOUS
<1>1. list = <<>> /\ box = <<>> /\ calls = {}
  BY DEF Box!Init
<1>2. Box!Sorted(<<>>)
  BY DEF Box!Sorted
<1>3. IsFiniteSet(calls) /\ Cardinality(calls) = 0
  BY <1>1, FS_EmptySet
<1> QED BY <1>1, <1>2, <1>3, EmptyRow DEF BoxIInv, Box!BoxHoldsList, CallsTell

\* A call is one more, and the box waits.
LEMMA OneMoreCall ==
  ASSUME BoxIInv, NEW kind \in {"insert", "erase", "edit", "login"},
         Box!Called(kind)
  PROVE  /\ box' = box
         /\ calls' \subseteq {"insert", "erase", "edit", "login"} \X (0..CallStop)
         /\ IsFiniteSet(calls') /\ calls' # {}
         /\ \A c \in calls' : c[2] < Cardinality(calls')
         /\ Cardinality(calls') = 1 => calls = {}
         /\ calls \subseteq calls'
         /\ \E c \in calls' : c[1] = kind
         /\ calls = {} => \A c \in calls' : c[1] = kind
<1> DEFINE n == Cardinality(calls)
           c == <<kind, n>>
<1>1. /\ IsFiniteSet(calls) /\ n \in Nat /\ \A x \in calls : x[2] \in Nat /\ x[2] < n
      /\ calls \subseteq {"insert", "erase", "edit", "login"} \X (0..CallStop)
  BY FS_CardinalityType DEF BoxIInv, CallsTell
<1>2. n < CallStop /\ calls' = calls \union {c} /\ box' = box
  BY SameOperators DEF Box!Called
<1>3. CallStop \in Nat
  BY BoxConstants DEF Box!FlowBoxConstants
<1>4. c[1] = kind /\ c[2] = n
      /\ c \in {"insert", "erase", "edit", "login"} \X (0..CallStop)
  BY <1>1, <1>2, <1>3
<1>5. n = 0 => calls = {}
  BY <1>1, FS_EmptySet
<1> HIDE DEF n, c
<1>6. c \notin calls
  BY <1>1, <1>4
<1>7. IsFiniteSet(calls') /\ Cardinality(calls') = n + 1
  <2>1. /\ IsFiniteSet(calls \union {c})
        /\ Cardinality(calls \union {c}) =
             IF c \in calls THEN Cardinality(calls) ELSE Cardinality(calls) + 1
    BY <1>1, FS_AddElement
  <2> QED BY <1>2, <1>6, <2>1 DEF n
<1>8. ASSUME NEW x \in calls' PROVE x[2] < Cardinality(calls')
  <2>1. CASE x = c
    BY <1>1, <1>4, <1>7, <2>1
  <2>2. CASE x # c
    <3>1. x[2] \in Nat /\ x[2] < n
      BY <1>1, <1>2, <2>2
    <3> QED BY <1>1, <1>7, <3>1
  <2> QED BY <2>1, <2>2
<1>9. Cardinality(calls') = 1 => calls = {}
  BY <1>1, <1>5, <1>7
<1>10. calls' \subseteq {"insert", "erase", "edit", "login"} \X (0..CallStop)
  BY <1>1, <1>2, <1>4
<1>11. calls \subseteq calls' /\ c \in calls' /\ calls' # {}
  BY <1>2
<1>12. calls = {} => \A x \in calls' : x[1] = kind
  BY <1>2, <1>4
<1>13. \E x \in calls' : x[1] = kind
  BY <1>4, <1>11
<1> QED BY <1>2, <1>7, <1>8, <1>9, <1>10, <1>11, <1>12, <1>13

\* What every call keeps, whatever it does to the list.
LEMMA CallKeeps ==
  ASSUME BoxIInv, NEW kind \in {"insert", "erase", "edit", "login"},
         Box!Called(kind), list' \in Rows, Box!Sorted(list)',
         kind = "insert" => ToSet(list) \subseteq ToSet(list'),
         kind = "erase" => ToSet(list') \subseteq ToSet(list),
         kind = "edit" /\ calls = {} =>
           \E t \in ToSet(list') \ ToSet(box) :
             {u \in ToSet(box) : u.id # t.id} = ToSet(list') \ {t}
  PROVE  BoxIInv'
<1>1. /\ box' = box
      /\ calls' \subseteq {"insert", "erase", "edit", "login"} \X (0..CallStop)
      /\ IsFiniteSet(calls') /\ calls' # {}
      /\ \A c \in calls' : c[2] < Cardinality(calls')
      /\ Cardinality(calls') = 1 => calls = {}
      /\ calls \subseteq calls'
      /\ \E c \in calls' : c[1] = kind
      /\ calls = {} => \A c \in calls' : c[1] = kind
  BY OneMoreCall
<1>2. (\A c \in calls' : c[1] = "insert") => ToSet(box') \subseteq ToSet(list')
  BY <1>1 DEF BoxIInv, CallsTell
<1>3. (\A c \in calls' : c[1] = "erase") => ToSet(list') \subseteq ToSet(box')
  BY <1>1 DEF BoxIInv, CallsTell
<1>4. Cardinality(calls') = 1 /\ (\E c \in calls' : c[1] = "edit") =>
        \E t \in ToSet(list') \ ToSet(box') :
          {u \in ToSet(box') : u.id # t.id} = ToSet(list') \ {t}
  BY <1>1
<1>5. CallsTell'
  BY <1>1, <1>2, <1>3, <1>4 DEF CallsTell
<1>6. Box!BoxHoldsList'
  BY <1>1 DEF Box!BoxHoldsList
<1> QED BY <1>1, <1>5, <1>6 DEF BoxIInv

LEMMA BoxStep == BoxIInv /\ [Box!Next]_(Box!vars) => BoxIInv'
<1> SUFFICES ASSUME BoxIInv, [Box!Next]_(Box!vars) PROVE BoxIInv'
  OBVIOUS
<1>1. /\ list \in Rows /\ Box!Sorted(list) /\ box \in Rows
      /\ calls = {} => ToSet(box) = ToSet(list)
      /\ Box!Ids(list) = {t.id : t \in ToSet(list)}
      /\ \A t, u \in ToSet(list) : t.id = u.id => t = u
  BY RowProps, SameOperators DEF BoxIInv, Box!BoxHoldsList
<1>2. CASE Box!Insert
  <2>1. PICK t \in Box!Task : /\ \A i \in Box!Ids(list) : i < t.id
                              /\ t.key \notin Box!Keys(list)
                              /\ list' = Box!Put(list, t)
    BY <1>2 DEF Box!Insert
  <2>2. \A i \in Box!Ids(list) : i \in Int
    BY RowProps, <1>1 DEF Box!Ids, Box!Task
  <2>3. t.id \notin Box!Ids(list)
    BY <2>1, <2>2
  <2>4. list' \in Rows /\ Box!Sorted(list')
        /\ ToSet(list') = ToSet(list) \union {t}
    BY <1>1, <2>1, <2>3, PutRow
  <2> QED BY <1>2, <2>4, CallKeeps DEF Box!Insert
<1>3. CASE Box!Erase
  <2>1. PICK i : list' = Box!Drop(list, i)
    BY <1>3 DEF Box!Erase
  <2>2. list' \in Rows /\ Box!Sorted(list') /\ ToSet(list') \subseteq ToSet(list)
    BY <1>1, <2>1, DropRow, DropSorted
  <2> QED BY <1>3, <2>2, CallKeeps DEF Box!Erase
<1>4. CASE Box!EditKey
  <2>1. PICK i \in Box!Ids(list), k \in (1..KeyStop) \ Box!Keys(list) :
          list' = Box!Put(Box!Drop(list, i), [id |-> i, key |-> k])
    BY <1>4 DEF Box!EditKey
  <2> DEFINE d == Box!Drop(list, i)
             t == [id |-> i, key |-> k]
  <2>2. t \in Box!Task /\ t.id = i /\ t.key = k
    BY <1>1, <2>1, RowProps DEF Box!Task, Box!Ids
  <2>3. d \in Rows /\ Box!Sorted(d) /\ ToSet(d) = {u \in ToSet(list) : u.id # i}
    BY <1>1, DropRow, DropSorted
  <2> HIDE DEF d, t
  <2>4. t.id \notin Box!Ids(d)
    BY <2>2, <2>3, RowProps
  <2>5. \A u \in ToSet(list) : u.key # k
    BY <1>1, <2>1, RowProps DEF Box!Keys
  <2>6. t.key \notin Box!Keys(d)
    BY <2>2, <2>3, <2>5, RowProps DEF Box!Keys
  <2>7. /\ list' \in Rows /\ Box!Sorted(list')
        /\ ToSet(list') = ToSet(d) \union {t}
    BY <2>1, <2>2, <2>3, <2>4, <2>6, PutRow DEF d, t
  <2>8. ASSUME calls = {}
        PROVE  \E x \in ToSet(list') \ ToSet(box) :
                 {u \in ToSet(box) : u.id # x.id} = ToSet(list') \ {x}
    <3>1. ToSet(box) = ToSet(list)
      BY <1>1, <2>8
    <3>2. t \in ToSet(list') \ ToSet(box)
      BY <2>2, <2>5, <2>7, <3>1
    <3>3. {u \in ToSet(box) : u.id # t.id} = ToSet(list') \ {t}
      BY <2>2, <2>3, <2>7, <3>1
    <3> QED BY <3>2, <3>3
  <2> QED BY <1>4, <2>7, <2>8, CallKeeps DEF Box!EditKey
<1>5. CASE Box!Login
  <2>1. list' \in Box!BoundedSeq(Box!Task, IdStop)
        /\ Box!Sorted(list') /\ Box!OneEach(list')
    BY <1>5 DEF Box!Login, Box!Lists
  <2>2. list' \in Seq(Box!Task)
    <3>1. PICK m \in 0..IdStop : list' \in [1..m -> Box!Task]
      BY <2>1 DEF Box!BoundedSeq, Box!SeqOf
    <3>2. m \in Nat
      OBVIOUS
    <3> QED BY <3>1, <3>2, SeqDef
  <2>3. list' \in Rows /\ Box!Sorted(list')
    BY <2>1, <2>2 DEF Rows
  <2> QED BY <1>5, <2>3, CallKeeps DEF Box!Login
<1>6. CASE Box!Poll
  <2>1. list' = list /\ box' = Box!SetTasks(box, list) /\ calls' = {}
    BY <1>6 DEF Box!Poll
  <2>2. box' \in Rows /\ ToSet(box') = ToSet(list')
    BY <1>1, <2>1, SetTasksRow
  <2>3. Len(box') = Len(list')
    BY <1>1, <2>1, <2>2, SameLen
  <2>4. Box!BoxHoldsList'
    BY <2>2, <2>3, SameOperators DEF Box!BoxHoldsList
  <2>5. IsFiniteSet(calls') /\ Cardinality(calls') = 0
    BY <2>1, FS_EmptySet
  <2>6. CallsTell'
    BY <2>1, <2>2, <2>5 DEF CallsTell
  <2>7. list' \in Rows /\ Box!Sorted(list)'
    BY <1>1, <2>1
  <2> QED BY <2>1, <2>2, <2>4, <2>5, <2>6, <2>7 DEF BoxIInv
<1>7. CASE UNCHANGED Box!vars
  <2>1. list' = list /\ box' = box /\ calls' = calls
    BY <1>7 DEF Box!vars
  <2>2. Box!BoxHoldsList' /\ CallsTell'
    BY <2>1 DEF BoxIInv, Box!BoxHoldsList, CallsTell
  <2>3. Box!Sorted(list)'
    BY <1>1, <2>1
  <2> QED BY <2>1, <2>2, <2>3 DEF BoxIInv
<1> QED BY <1>2, <1>3, <1>4, <1>5, <1>6, <1>7 DEF Box!Next

LEMMA BoxAlways == Box!Spec => []BoxIInv
BY BoxInit, BoxStep, PTL DEF Box!Spec

\* After every update the box holds exactly the list's tasks, each once, in
\* whatever order it was before and however many calls the update brings.
THEOREM BoxHoldsTheList == Box!Spec => []BoxInv
<1>1. BoxIInv => BoxInv
  <2> SUFFICES ASSUME BoxIInv PROVE Box!BoxInv
    BY DEF BoxInv
  <2>1. {list, box} \subseteq Seq(Box!Task) /\ Box!OneEach(list)
    BY DEF BoxIInv, Rows
  <2> QED BY <2>1 DEF BoxIInv, Box!BoxInv, Box!TypeOK
<1> QED BY <1>1, BoxAlways, PTL

\* An update that brings one call, insertions only or erasures only leaves a
\* box that was in order in order, and the tasks of an account that shares
\* none with the one before come in order.
THEOREM OrderIsKept == Box!Spec => OrderKept
<1> DEFINE Kept ==
      (/\ box' # box
       /\ \/ Box!Sorted(box) /\ Box!Simple
          \/ Box!ToSet(box) \intersect Box!ToSet(list) = {})
      => box' = list
<1>1. BoxIInv /\ [Box!Next]_(Box!vars) => [Kept]_(Box!vars)
  <2> SUFFICES ASSUME BoxIInv, Box!Next, box' # box,
                      \/ Box!Sorted(box) /\ Box!Simple
                      \/ ToSet(box) \intersect ToSet(list) = {}
               PROVE  box' = list
    BY SameOperators
  <2>1. Box!Poll
    BY DEF Box!Next, Box!Insert, Box!Erase, Box!EditKey, Box!Login, Box!Called
  <2>2. /\ calls # {} /\ box' = Box!SetTasks(box, list)
        /\ list \in Rows /\ Box!Sorted(list) /\ box \in Rows
        /\ IsFiniteSet(calls)
        /\ calls \subseteq {"insert", "erase", "edit", "login"} \X (0..CallStop)
    BY <2>1 DEF Box!Poll, BoxIInv
  <2> DEFINE p == Box!Placed(box, list)
  <2>3. ASSUME Box!Sorted(p) PROVE InOrder(p, Box!Ids(list))
    BY <2>3 DEF Box!Sorted, InOrder
  <2> HIDE DEF p
  <2>4. CASE ToSet(box) \intersect ToSet(list) = {}
    BY <2>2, <2>4, PlacedOfOthers, BoxIsList
  <2>5. CASE Box!Sorted(box) /\ \A c \in calls : c[1] = "insert"
    <3>1. Box!Sorted(p)
      BY <2>2, <2>5, PlacedOfMore DEF BoxIInv, CallsTell, p
    <3> QED BY <2>2, <2>3, <3>1, BoxIsList DEF p
  <2>6. CASE Box!Sorted(box) /\ \A c \in calls : c[1] = "erase"
    <3>1. Box!Sorted(p)
      BY <2>2, <2>6, PlacedOfFewer DEF BoxIInv, CallsTell, p
    <3> QED BY <2>2, <2>3, <3>1, BoxIsList DEF p
  <2>7. CASE /\ Box!Sorted(box) /\ Cardinality(calls) = 1
             /\ \E c \in calls : c[1] = "edit"
    <3>1. PICK t \in ToSet(list) \ ToSet(box) :
                 {u \in ToSet(box) : u.id # t.id} = ToSet(list) \ {t}
      BY <2>7 DEF BoxIInv, CallsTell
    <3>2. t \in Box!Task
      BY <2>2, RowProps
    <3>3. Box!Sorted(p)
      BY <2>2, <2>7, <3>1, <3>2, PlacedOfEdited DEF p
    <3> QED BY <2>2, <2>3, <3>3, BoxIsList DEF p
  <2>8. CASE /\ Box!Sorted(box) /\ Box!Cardinality(calls) = 1
             /\ \A c \in calls : c[1] # "login"
    <3>1. Cardinality(calls) = 1
      BY <2>8, SameOperators
    <3>2. PICK c : calls = {c}
      BY <2>2, <3>1, FS_Singleton
    <3>3. c[1] \in {"insert", "erase", "edit"}
      BY <2>2, <2>8, <3>2
    <3> QED BY <2>5, <2>6, <2>7, <2>8, <3>1, <3>2, <3>3
  <2> QED BY <2>4, <2>5, <2>6, <2>8 DEF Box!Simple
<1> QED BY <1>1, BoxAlways, PTL DEF OrderKept, Box!OrderKept, Box!Spec, Kept
=============================================================================
