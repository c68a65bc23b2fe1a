-------------------- MODULE ReaderWriterQueueImplements --------------------
(***************************************************************************)
(* The blocks of ReaderWriterQueue as the one queue of Fifo.               *)
(***************************************************************************)
EXTENDS ReaderWriterQueue, SequencesExt

\* The blocks in the order of the ring, from the front block.
Ring ==
  LET at[n \in 0..Cardinality(Block)] ==
        IF n = 0 THEN frontBlock ELSE block[at[n - 1]].next
  IN  at

\* What the slot holds; the consumer holds the element it is taking.
Content(b, i) ==
  IF cons.pc = "take" /\ cons.b = b /\ cons.slot = i
  THEN cons.item ELSE block[b].data[i]

Elements(b) ==
  LET s == block[b].size
  IN  [i \in 1..((block[b].tail + s - block[b].front) % s) |->
         Content(b, (block[b].front + i - 1) % s)]

\* From the front block to the tail block.
Contents ==
  LET last == CHOOSE n \in DOMAIN Ring :
                Ring[n] = tailBlock /\ \A m \in 0..(n - 1) : Ring[m] # tailBlock
  IN  FlattenSeq([n \in 1..(last + 1) |-> Elements(Ring[n - 1])])

Abstract == INSTANCE Fifo WITH queue <- Contents

(* Elements come out in the order in which they went in, each once: the     *)
(* ring of rings is one queue, at which each call takes effect at once.    *)
ImplementsFifo == Abstract!Spec
=============================================================================
