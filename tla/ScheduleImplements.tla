------------------------ MODULE ScheduleImplements ------------------------
(***************************************************************************)
(* Schedule implements AtomicSchedule: how the shared segment, the file    *)
(* and the lists the processes are about to write make up one set of       *)
(* tasks.                                                                  *)
(*                                                                         *)
(* A call takes effect with its first write to the segment: the mutex      *)
(* hides that the rest is still to come.  While nobody has the segment     *)
(* open, and while a process is still creating it, the tasks are those of  *)
(* the file.                                                               *)
(***************************************************************************)
EXTENDS Schedule

Writers == {p \in Proc : Writing(p)}
Creating == \E p \in Proc : pc[p] \in {"acq_trunc", "acq_mmap", "acq_zero",
                                        "acq_load"}

CurrentList ==
  IF Writers # {} THEN pend[CHOOSE p \in Writers : TRUE]
  ELSE IF name = NoSeg \/ Creating THEN file
  ELSE ListOf(segs[name])

\* What GetTasks has found and is about to return: m_local_tasks.
Answer(p) == IF pc[p] = "got" THEN {ToSet(cache[p].tasks)} ELSE {}

Atomic == INSTANCE AtomicSchedule WITH
            tasks <- ToSet(CurrentList),
            answer <- [p \in Proc |-> Answer(p)],
            Id <- 1..IdStop

\* No update is lost, none is half applied, and what GetTasks returns are the
\* schedule's tasks and never an older list, across attaching, detaching and
\* reloading from the file.
ImplementsAtomic == Atomic!Spec
===========================================================================
