------------------------------ MODULE FlowBox ------------------------------
(***************************************************************************)
(* The order of the tasks in the window's flow box: TaskFlowBox::set_tasks *)
(* (gui-gtk), which turns the children that are there into those of a new  *)
(* list, one by one, and the calls on the schedule between two lists.      *)
(***************************************************************************)
EXTENDS Naturals, FiniteSets, SequencesExt

CONSTANTS
  IdStop,    \* bound: the ids of tasks
  KeyStop,   \* bound: the keys that order them, each of one task at a time
  CallStop   \* bound: calls between two lists

VARIABLES
  list,   \* the schedule's list
  box,    \* the children of the flow box, each by its task
  calls   \* the calls since the box got its list

vars == <<list, box, calls>>

\* What the constants have to be.
FlowBoxConstants ==
  IdStop \in Nat /\ KeyStop \in Nat /\ CallStop \in Nat

Task == [id : 1..IdStop, key : 1..KeyStop]

Sorted(s) == \A i, j \in 1..Len(s) : i < j => s[i].key < s[j].key
Ids(s) == {s[i].id : i \in 1..Len(s)}
Keys(s) == {s[i].key : i \in 1..Len(s)}

\* Each id at most once.
OneEach(s) == \A i, j \in 1..Len(s) : s[i].id = s[j].id => i = j

\* The lists an account can have.
Lists == {s \in BoundedSeq(Task, IdStop) : Sorted(s) /\ OneEach(s)}

Init == list = <<>> /\ box = <<>> /\ calls = {}

-----------------------------------------------------------------------------
(***************************************************************************)
(* Calls of the schedule, which keeps its list sorted.                     *)
(***************************************************************************)
Put(s, t) ==
  InsertAt(s, 1 + Cardinality({i \in 1..Len(s) : s[i].key < t.key}), t)

Drop(s, id) ==
  IF id \in Ids(s)
  THEN RemoveAt(s, CHOOSE i \in 1..Len(s) : s[i].id = id) ELSE s

Called(kind) ==
  /\ Cardinality(calls) < CallStop
  /\ calls' = calls \union {<<kind, Cardinality(calls)>>}
  /\ UNCHANGED box

\* The new task's id is one above the largest.
Insert ==
  /\ \E t \in Task :
       /\ \A i \in Ids(list) : i < t.id
       /\ t.id = 1 \/ t.id - 1 \in Ids(list)
       /\ t.key \notin Keys(list)
       /\ list' = Put(list, t)
  /\ Called("insert")

Erase ==
  /\ \E i \in Ids(list) : list' = Drop(list, i)
  /\ Called("erase")

\* An edit of the key moves the task; others are of no concern here.
EditKey ==
  /\ \E i \in Ids(list), k \in (1..KeyStop) \ Keys(list) :
       list' = Put(Drop(list, i), [id |-> i, key |-> k])
  /\ Called("edit")

\* The next list is another account's.
Login == list' \in Lists /\ Called("login")

-----------------------------------------------------------------------------
(***************************************************************************)
(* set_tasks.                                                              *)
(***************************************************************************)
\* Gtk::FlowBox::insert: before the child at the position, counted from 0,
\* or at the end when there are not that many.
InsertChild(b, t, pos) ==
  InsertAt(b, IF pos < Len(b) THEN pos + 1 ELSE Len(b) + 1, t)

\* Slip: a child whose key changed stays where it is.
PlaceContent(b, t, pos) ==
  IF t.id \in Ids(b)
  THEN [i \in 1..Len(b) |-> IF b[i].id = t.id THEN t ELSE b[i]]
  ELSE InsertChild(b, t, pos)

\* The task at a position of the new list: its child stays, or is moved, or
\* is made.
Place(b, t, pos) ==
  IF t \in ToSet(b) THEN b
  ELSE InsertChild(Drop(b, t.id), t, pos)

\* The new list is gone through; then the children that are in it no more
\* are removed.
Placed(b, new) ==
  LET f[n \in 0..Len(new)] ==
        IF n = 0 THEN b ELSE Place(f[n - 1], new[n], n - 1)
  IN  f[Len(new)]

\* Slip: nothing is removed.
SetTasksOnly(b, new) == Placed(b, new)

SetTasks(b, new) ==
  LET p == Placed(b, new)
      f[n \in 0..Len(p)] ==
        IF n = 0 THEN <<>>
        ELSE IF p[n].id \in Ids(new) THEN Append(f[n - 1], p[n]) ELSE f[n - 1]
  IN  f[Len(p)]

\* The dispatcher brings the list as it is now.
Poll ==
  /\ calls # {}
  /\ box' = SetTasks(box, list)
  /\ calls' = {}
  /\ UNCHANGED list

Next == Insert \/ Erase \/ EditKey \/ Login \/ Poll

Spec == Init /\ [][Next]_vars

-----------------------------------------------------------------------------
(***************************************************************************)
(* Properties.                                                             *)
(***************************************************************************)
TypeOK ==
  /\ {list, box} \subseteq Seq(Task)
  /\ Sorted(list)
  /\ OneEach(list)
  /\ calls \subseteq {"insert", "erase", "edit", "login"} \X (0..CallStop)

\* After every update the box holds exactly the list's tasks, each once, in
\* whatever order it was before and however much has changed.
BoxHoldsList ==
  calls = {} => ToSet(box) = ToSet(list) /\ Len(box) = Len(list)

\* The types, and every task once.
BoxInv == TypeOK /\ BoxHoldsList

\* A box that was in order is in order again if what the update brings is
\* one call, or insertions only, or erasures only.  With others mixed it
\* need not be: children to be erased or moved later still count when those
\* before them get their positions.
Simple ==
  \/ Cardinality(calls) = 1 /\ \A c \in calls : c[1] # "login"
  \/ \A c \in calls : c[1] = "insert"
  \/ \A c \in calls : c[1] = "erase"

\* An account that shares no task with the one shown before gets its tasks in
\* order, whatever the order was.
OrderKept ==
  [][(/\ box' # box
      /\ \/ Sorted(box) /\ Simple
         \/ ToSet(box) \intersect ToSet(list) = {})
     => box' = list]_vars
============================================================================
