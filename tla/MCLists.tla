------------------------------ MODULE MCLists ------------------------------
(***************************************************************************)
(* The list as bytes and the list as tasks.  An instance of TaskBytes with *)
(* blocks of three cells, one more than a task has fields, as 16 bytes are *)
(* one more than 15, and two deaths; and one of Schedule whose processes   *)
(* do not die: two tasks at a time with three keys, so that an edit moves  *)
(* a task past another.  They share no state: each is explored while the   *)
(* other rests.                                                            *)
(***************************************************************************)
EXTENDS TaskBytes, TLC

CONSTANTS
  Proc, Seg, NoProc, OwnerDied, NoSeg,
  Key, TaskCap, IdMod, IdStop, VersionMod, VersionStop

VARIABLES
  part,   \* the one that is explored
  lock, name, segs, userFile, pc, handle, pend, chunk, cache

Tasks == INSTANCE Schedule WITH
  Cap <- TaskCap, file <- userFile, RefStop <- 0,
  Calls <- {"get", "insert", "erase", "done", "edit", "release"},
  CrashAt <- {}, Overlap <- FALSE, IoFaults <- FALSE

tasksVars == <<lock, name, segs, userFile, pc, handle, pend, chunk, cache>>

MCInit == Init /\ Tasks!Init /\ part \in {"bytes", "tasks"}

MCNext ==
  \/ part = "bytes" /\ Next /\ UNCHANGED <<part, tasksVars>>
  \/ part = "tasks" /\ Tasks!Next /\ UNCHANGED <<part, vars>>

MCSpec == MCInit /\ [][MCNext]_<<part, vars, tasksVars>>

\* Processes and objects are interchangeable.
Symmetry == Permutations(Proc) \union Permutations(Seg)

\* The shared list is the file's while no call is running.
FileHoldsList == Tasks!FileHoldsList
============================================================================
