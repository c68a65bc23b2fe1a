-------------------------------- MODULE Fifo --------------------------------
(***************************************************************************)
(* What the threads of a window rely on when they pass lists and reminders *)
(* to the main loop: a first-in first-out queue with one thread at each    *)
(* end.  An operation takes effect at once; the calls that report an empty *)
(* queue or refuse an element change nothing and are stutters here.        *)
(***************************************************************************)
EXTENDS Sequences

CONSTANT Item

VARIABLES
  queue,  \* the elements, the oldest first
  got     \* what the consumer's last successful call gave it

vars == <<queue, got>>

Init == queue = <<>> /\ got \notin Item

Enqueue == \E i \in Item : queue' = Append(queue, i) /\ UNCHANGED got

Dequeue == queue # <<>> /\ got' = Head(queue) /\ queue' = Tail(queue)

Peek == queue # <<>> /\ got' = Head(queue) /\ UNCHANGED queue

Pop == queue # <<>> /\ queue' = Tail(queue) /\ UNCHANGED got

Next == Enqueue \/ Dequeue \/ Peek \/ Pop

Spec == Init /\ [][Next]_vars
=============================================================================
