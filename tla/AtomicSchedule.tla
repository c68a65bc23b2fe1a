-------------------------- MODULE AtomicSchedule --------------------------
(***************************************************************************)
(* What a user's schedule promises its callers, with no shared memory, no  *)
(* file and no lock: one set of tasks that every token of the user reads   *)
(* and changes, one task at a time, each call taking effect at once.       *)
(*                                                                         *)
(* The set outlives the tokens: it survives every process detaching, and   *)
(* the next token finds the tasks the last one left.                       *)
(***************************************************************************)
EXTENDS Integers

CONSTANTS
  Proc,       \* the processes
  Id,         \* the ids TaskInsert may hand out
  Key         \* the keys a caller may give a task

VARIABLES
  tasks,      \* the tasks of the schedule
  answer      \* for each process what its GetTasks is about to return: {},
              \* or the set of one set of tasks

aVars == <<tasks, answer>>

KeyFree(k, others) == \A t \in others : t.key # k
IdFree(i) == \A t \in tasks : t.id # i

Init ==
  /\ tasks = {}
  /\ answer = [p \in Proc |-> {}]

\* A new task gets an id and a key that no task of the schedule has.
Insert ==
  \E i \in Id, k \in Key :
    /\ IdFree(i)
    /\ KeyFree(k, tasks)
    /\ tasks' = tasks \union {[id |-> i, key |-> k, done |-> FALSE]}
    /\ UNCHANGED answer

Erase ==
  \E t \in tasks :
    /\ tasks' = tasks \ {t}
    /\ UNCHANGED answer

\* TaskEdit and TaskToggleDone: one task changes and keeps its id.
Change ==
  \E t \in tasks : \E k \in Key \union {t.key}, d \in BOOLEAN :
    /\ KeyFree(k, tasks \ {t})
    /\ tasks' = (tasks \ {t}) \union {[id |-> t.id, key |-> k, done |-> d]}
    /\ UNCHANGED answer

\* GetTasks finds the tasks of the schedule, whatever was cached before,
Read(p) ==
  /\ answer[p] = {}
  /\ answer' = [answer EXCEPT ![p] = {tasks}]
  /\ UNCHANGED tasks

\* and returns them, unless its process dies.
Return(p) ==
  /\ answer[p] # {}
  /\ answer' = [answer EXCEPT ![p] = {}]
  /\ UNCHANGED tasks

Next ==
  \/ Insert
  \/ Erase
  \/ Change
  \/ \E p \in Proc : Read(p) \/ Return(p)

Spec == Init /\ [][Next]_aVars
===========================================================================
