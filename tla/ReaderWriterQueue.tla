------------------------- MODULE ReaderWriterQueue -------------------------
(***************************************************************************)
(* The lock-free queue between a window's threads and its main loop        *)
(* (gui-gtk/dep/readwritequeue/readerwriterqueue.h): one producer thread,  *)
(* one consumer thread, a ring of blocks each of which is a ring of slots. *)
(*                                                                         *)
(* A step is one access to a variable that the other thread writes, with   *)
(* the accesses to the thread's own variables around it; a slot is written *)
(* or read in a step of its own.  The fences make every thread see the     *)
(* other's writes in program order, which is what steps one after another  *)
(* mean.                                                                   *)
(***************************************************************************)
EXTENDS Naturals, FiniteSets

CONSTANTS
  Block,      \* the blocks that make_block can return
  First,      \* the one the constructor makes
  FirstSize,  \* its number of slots
  MaxSize,    \* MAX_BLOCK_SIZE
  Ops,        \* the consumer's calls: a subset of {"dequeue", "pop", "peek"}
  LastItem,   \* bound: the producer makes this many calls
  NoBlock

VARIABLES
  block,       \* the blocks
  frontBlock,  \* where the consumer takes elements from
  tailBlock,   \* where the producer adds them
  largest,     \* largestBlockSize
  sent,        \* calls of enqueue so far: the n-th call enqueues n
  prod,        \* the producer: its place in enqueue, the block and slot in use
  cons,        \* the consumer: its place, call, block, slot, what it read, and
               \* (history) whether there was an element when the call began
  got          \* what the consumer's last call returned

vars == <<block, frontBlock, tailBlock, largest, sent, prod, cons, got>>

ASSUME QueueAssumption ==
  /\ IsFiniteSet(Block) /\ First \in Block /\ NoBlock \notin Block
  /\ FirstSize \in Nat /\ FirstSize >= 2
  /\ MaxSize \in Nat /\ MaxSize >= FirstSize
  \* Both are powers of two: doubling does not pass MaxSize.
  /\ \E S \in SUBSET (FirstSize..MaxSize) :
       FirstSize \in S /\ \A s \in S : s = MaxSize \/ 2 * s \in S
  /\ LastItem \in Nat
  /\ Ops \subseteq {"dequeue", "pop", "peek"}

Item == 1..LastItem
Dead == 0     \* the content of a slot in which no element lives

\* make_block(size): no element, both indices and their shadows at 0.
NewBlock(size, next) ==
  [size |-> size, front |-> 0, tail |-> 0, localTail |-> 0, localFront |-> 0,
   next |-> next, data |-> [i \in 0..(MaxSize - 1) |-> Dead]]

Allocated == {b \in Block : block[b].next # NoBlock}

\* (i + 1) & sizeMask
NextSlot(b, i) == (i + 1) % block[b].size

\* The slots of a block from front to tail.
Queued(b) ==
  {i \in 0..(block[b].size - 1) :
     LET s == block[b].size
     IN  (i + s - block[b].front) % s < (block[b].tail + s - block[b].front) % s}

\* Nothing in the front block, and no other block to go to.
Empty == frontBlock = tailBlock /\ block[frontBlock].front = block[frontBlock].tail

Init ==
  /\ block = [b \in Block |-> IF b = First THEN NewBlock(FirstSize, First)
                                            ELSE NewBlock(1, NoBlock)]
  /\ frontBlock = First /\ tailBlock = First
  /\ largest = FirstSize
  /\ sent = 0
  /\ prod = [pc |-> "idle", b |-> First, slot |-> 0]
  /\ cons = [pc |-> "idle", op |-> "dequeue", b |-> First, slot |-> 0,
             item |-> Dead, had |-> FALSE]
  /\ got = Dead

-----------------------------------------------------------------------------
(***************************************************************************)
(* enqueue, in the producer's thread.                                      *)
(***************************************************************************)
Enqueue ==
  /\ prod.pc = "idle" /\ sent < LastItem
  /\ sent' = sent + 1
  /\ LET b == block[tailBlock]
         room == NextSlot(tailBlock, b.tail) # b.localFront
     IN  prod' = [pc |-> IF room THEN "write" ELSE "reload",
                  b |-> tailBlock, slot |-> b.tail]
  /\ UNCHANGED <<block, frontBlock, tailBlock, largest, cons, got>>

\* The shadow says that the block is full: look at the consumer's index.
ReloadFront ==
  /\ prod.pc = "reload"
  /\ LET b == block[tailBlock]
     IN  /\ block' = [block EXCEPT ![tailBlock].localFront = b.front]
         /\ prod' = [prod EXCEPT !.pc =
                       IF NextSlot(tailBlock, b.tail) # b.front
                       THEN "write" ELSE "full"]
  /\ UNCHANGED <<frontBlock, tailBlock, largest, sent, cons, got>>

\* Slip: the next block is used even when the consumer is in it.
ReuseAnyBlock ==
  /\ prod.pc = "full"
  /\ prod' = [prod EXCEPT !.pc = "reuse"]
  /\ UNCHANGED <<block, frontBlock, tailBlock, largest, sent, cons, got>>

TestNextBlock ==
  /\ prod.pc = "full"
  /\ prod' = [prod EXCEPT !.pc = IF block[tailBlock].next # frontBlock
                                 THEN "reuse" ELSE "alloc"]
  /\ UNCHANGED <<block, frontBlock, tailBlock, largest, sent, cons, got>>

\* There is a free block ahead of the tail block.
ReuseNext ==
  /\ prod.pc = "reuse"
  /\ LET n == block[tailBlock].next
     IN  /\ block' = [block EXCEPT ![n].localFront = block[n].front]
         /\ prod' = [pc |-> "write", b |-> n, slot |-> block[n].tail]
  /\ UNCHANGED <<frontBlock, tailBlock, largest, sent, cons, got>>

Write ==
  /\ prod.pc = "write"
  /\ block' = [block EXCEPT ![prod.b].data[prod.slot] = sent]
  /\ prod' = [prod EXCEPT !.pc = "publish"]
  /\ UNCHANGED <<frontBlock, tailBlock, largest, sent, cons, got>>

\* The element's index; in the tail block it can be dequeued from here on.
Publish ==
  /\ prod.pc = "publish"
  /\ block' = [block EXCEPT ![prod.b].tail = NextSlot(prod.b, prod.slot)]
  /\ prod' = [prod EXCEPT !.pc = IF prod.b = tailBlock THEN "idle" ELSE "advance"]
  /\ UNCHANGED <<frontBlock, tailBlock, largest, sent, cons, got>>

\* A new block with the element in it, not yet in the ring.
Allocate ==
  /\ prod.pc = "alloc"
  /\ LET size == IF largest >= MaxSize THEN largest ELSE 2 * largest
         new == [NewBlock(size, block[tailBlock].next) EXCEPT
                   !.data[0] = sent, !.tail = 1, !.localTail = 1]
     IN  /\ largest' = size
         /\ \E b \in Block \ Allocated :
              /\ block' = [block EXCEPT ![b] = new]
              /\ prod' = [pc |-> "link", b |-> b, slot |-> 0]
  /\ UNCHANGED <<frontBlock, tailBlock, sent, cons, got>>

\* No memory (or try_enqueue, which may not allocate): false is returned.
Refuse ==
  /\ prod.pc = "alloc"
  /\ prod' = [prod EXCEPT !.pc = "idle"]
  /\ UNCHANGED <<block, frontBlock, tailBlock, largest, sent, cons, got>>

Link ==
  /\ prod.pc = "link"
  /\ block' = [block EXCEPT ![tailBlock].next = prod.b]
  /\ prod' = [prod EXCEPT !.pc = "advance"]
  /\ UNCHANGED <<frontBlock, tailBlock, largest, sent, cons, got>>

Advance ==
  /\ prod.pc = "advance"
  /\ tailBlock' = prod.b
  /\ prod' = [prod EXCEPT !.pc = "idle"]
  /\ UNCHANGED <<block, frontBlock, largest, sent, cons, got>>

-----------------------------------------------------------------------------
(***************************************************************************)
(* try_dequeue, pop and peek, in the consumer's thread.                    *)
(***************************************************************************)
Begin(op) ==
  /\ cons.pc = "idle"
  /\ LET b == block[frontBlock]
     IN  cons' = [pc |-> IF b.front # b.localTail THEN "read" ELSE "reload",
                  op |-> op, b |-> frontBlock, slot |-> b.front,
                  item |-> Dead, had |-> ~Empty]
  /\ UNCHANGED <<block, frontBlock, tailBlock, largest, sent, prod, got>>

\* localTail = tail, at two places; what an empty block means differs.
LoadTail(at, ifEmpty) ==
  /\ cons.pc = at
  /\ LET b == block[frontBlock]
     IN  /\ block' = [block EXCEPT ![frontBlock].localTail = b.tail]
         /\ cons' = [cons EXCEPT !.pc = IF b.front # b.tail THEN "read"
                                                            ELSE ifEmpty]
  /\ UNCHANGED <<frontBlock, tailBlock, largest, sent, prod, got>>

\* Slip: an empty front block is taken for an empty queue.
ReloadTailOnly == LoadTail("reload", "none")

ReloadTail == LoadTail("reload", "at_tail")

\* Slip: the front block is left without looking at its tail again.
TestTailOnly ==
  /\ cons.pc = "at_tail"
  /\ cons' = [cons EXCEPT !.pc = IF frontBlock # tailBlock THEN "next" ELSE "none"]
  /\ UNCHANGED <<block, frontBlock, tailBlock, largest, sent, prod, got>>

TestTailBlock ==
  /\ cons.pc = "at_tail"
  /\ cons' = [cons EXCEPT !.pc = IF frontBlock # tailBlock THEN "recheck" ELSE "none"]
  /\ UNCHANGED <<block, frontBlock, tailBlock, largest, sent, prod, got>>

\* The producer has left the front block, perhaps after filling it.
Recheck == LoadTail("recheck", "next")

ReadNext ==
  /\ cons.pc = "next"
  /\ LET n == block[frontBlock].next
     IN  cons' = [cons EXCEPT !.pc = "next_tail", !.b = n,
                              !.slot = block[n].front]
  /\ UNCHANGED <<block, frontBlock, tailBlock, largest, sent, prod, got>>

\* peek leaves the shadow and the front block as they are.
ReadNextTail ==
  /\ cons.pc = "next_tail"
  /\ IF cons.op = "peek"
     THEN /\ cons' = [cons EXCEPT !.pc = "read"]
          /\ UNCHANGED block
     ELSE /\ cons' = [cons EXCEPT !.pc = "move"]
          /\ block' = [block EXCEPT ![cons.b].localTail = block[cons.b].tail]
  /\ UNCHANGED <<frontBlock, tailBlock, largest, sent, prod, got>>

MoveFront ==
  /\ cons.pc = "move"
  /\ frontBlock' = cons.b
  /\ cons' = [cons EXCEPT !.pc = "read"]
  /\ UNCHANGED <<block, tailBlock, largest, sent, prod, got>>

\* Moved from and destroyed; peek only returns its address.
Read ==
  /\ cons.pc = "read"
  /\ LET item == block[cons.b].data[cons.slot]
     IN  IF cons.op = "peek"
         THEN /\ got' = item
              /\ cons' = [cons EXCEPT !.pc = "idle"]
              /\ UNCHANGED block
         ELSE /\ block' = [block EXCEPT ![cons.b].data[cons.slot] = Dead]
              /\ cons' = [cons EXCEPT !.pc = "take", !.item = item]
              /\ UNCHANGED got
  /\ UNCHANGED <<frontBlock, tailBlock, largest, sent, prod>>

\* From here on the producer may use the slot again.
Take ==
  /\ cons.pc = "take"
  /\ block' = [block EXCEPT ![cons.b].front = NextSlot(cons.b, cons.slot)]
  /\ got' = IF cons.op = "dequeue" THEN cons.item ELSE got
  /\ cons' = [cons EXCEPT !.pc = "idle"]
  /\ UNCHANGED <<frontBlock, tailBlock, largest, sent, prod>>

ReturnFalse ==
  /\ cons.pc = "none"
  /\ cons' = [cons EXCEPT !.pc = "idle"]
  /\ UNCHANGED <<block, frontBlock, tailBlock, largest, sent, prod, got>>

-----------------------------------------------------------------------------
Produce ==
  \/ Enqueue \/ ReloadFront \/ TestNextBlock \/ ReuseNext \/ Write \/ Publish
  \/ Allocate \/ Refuse \/ Link \/ Advance

Consume ==
  \/ \E op \in Ops : Begin(op)
  \/ ReloadTail \/ TestTailBlock \/ Recheck \/ ReadNext \/ ReadNextTail
  \/ MoveFront \/ Read \/ Take \/ ReturnFalse

Next == Produce \/ Consume

Spec == Init /\ [][Next]_vars

-----------------------------------------------------------------------------
(***************************************************************************)
(* Properties.                                                             *)
(***************************************************************************)

(* Every index stays inside its block and every pointer names a block that  *)
(* was allocated.                                                          *)
BlockOK(b) ==
  /\ b.size \in 1..MaxSize
  /\ b.front < b.size /\ b.tail < b.size
  /\ b.localFront < b.size /\ b.localTail < b.size
  /\ b.next \in Allocated \union {NoBlock}

TypeOK ==
  /\ \A b \in Block : BlockOK(block[b])
  /\ frontBlock \in Allocated /\ tailBlock \in Allocated
  /\ prod.slot < block[prod.b].size /\ cons.slot < block[cons.b].size
  /\ got \in 0..LastItem

(* An element lives in a slot exactly when the slot is between its block's  *)
(* front and tail, apart from the slot each thread is working on.  The     *)
(* producer never constructs over a live element, the consumer never moves *)
(* from a dead slot, and when both are idle the destructor, which walks    *)
(* every block from front to tail, destroys each element once.             *)
Constructed == IF prod.pc = "publish" THEN {<<prod.b, prod.slot>>} ELSE {}
Destroyed == IF cons.pc = "take" THEN {<<cons.b, cons.slot>>} ELSE {}

LiveExactlyQueued ==
  \A b \in Block : \A i \in 0..(block[b].size - 1) :
    block[b].data[i] # Dead <=>
      \/ i \in Queued(b) /\ <<b, i>> \notin Destroyed
      \/ <<b, i>> \in Constructed

(* The three assertions of the header: a block that the producer goes on to *)
(* is empty, a block that the consumer goes on to is not, a new block      *)
(* starts at 0; and a consumer that is about to read has something to read. *)
AssertionsHold ==
  /\ prod.pc = "write" /\ prod.b # tailBlock =>
       block[prod.b].localFront = block[prod.b].tail
  /\ cons.pc \in {"next_tail", "move"} =>
       block[cons.b].front # block[cons.b].tail
  /\ prod.pc = "link" => block[prod.b].front = 0
  /\ cons.pc = "read" => cons.slot \in Queued(cons.b)

(* What both threads and the destructor rely on in every block, whichever   *)
(* loads and stores of the other fall between theirs.                      *)
QueueInv == TypeOK /\ LiveExactlyQueued /\ AssertionsHold

(* false is returned only when nothing was in the queue as the call began:  *)
(* an element whose enqueue had returned is not missed.                    *)
NothingMissed == cons.pc = "none" => ~cons.had
=============================================================================
