----------------------------- MODULE TaskList -----------------------------
(***************************************************************************)
(* The pure part of backend/src/Schedule.cpp: the sorted list of tasks,    *)
(* the choice of a new task's id, and what a raw buffer decodes to.        *)
(*                                                                         *)
(* A task is its id, its key and its done flag.  The key stands for the    *)
(* pair (begin_time, name) that orders the list and must be unique in it;  *)
(* keys are compared with < as std::tie compares the pair.  The remaining  *)
(* properties (remind time, priority, type) are copied along with the flag *)
(* and no decision of the list code looks at them.                         *)
(***************************************************************************)
EXTENDS Integers, Sequences, SequencesExt

CONSTANTS
  IdMod       \* number of values of the id's type: 2^32 in the code

Task == [id : Nat, key : Nat, done : BOOLEAN]

\* What sixteen zero bytes decode to.
ZeroTask == [id |-> 0, key |-> 0, done |-> FALSE]

TaskIds(s) == {s[i].id : i \in DOMAIN s}

(***************************************************************************)
(* std::lower_bound.  Whatever the range, the binary search stops at an    *)
(* iterator whose predecessor compared less than the key and whose element *)
(* did not (or at an end of the range).  A sorted list has exactly one     *)
(* such position; an unsorted one, which only a torn buffer can produce,   *)
(* may have several, and the model allows each of them.                    *)
(***************************************************************************)
LowerBounds(s, k) ==
  {i \in 1..(Len(s) + 1) : /\ i > 1 => s[i - 1].key < k
                           /\ i <= Len(s) => s[i].key >= k}

\* TaskKeyEqual(task, *it), with it the position the search returned.
KeyTaken(s, i, k) == i <= Len(s) /\ s[i].key = k

(***************************************************************************)
(* The ids TaskInsert may hand out: one more than the largest id in the    *)
(* list (0 for the empty list), in the arithmetic of the id's type.        *)
(***************************************************************************)
MaxIds(s) ==
  {m \in {0} \union TaskIds(s) : \A n \in TaskIds(s) : n <= m}

NextId(m) == (m + 1) % IdMod

\* TaskPatch: the fields named in the mask are taken from the patch.
Patched(t, patch, mask) ==
  [t EXCEPT !.key  = IF "key" \in mask THEN patch.key ELSE @,
            !.done = IF "done" \in mask THEN patch.done ELSE @]

\* What the code keeps true of a list: keys strictly increase along it, and
\* no two tasks have the same id.
StrictlySorted(s) == \A i, j \in DOMAIN s : i < j => s[i].key < s[j].key
DistinctIds(s) == \A i, j \in DOMAIN s : s[i].id = s[j].id => i = j
GoodList(s) == StrictlySorted(s) /\ DistinctIds(s) /\ 0 \notin TaskIds(s)
===========================================================================
