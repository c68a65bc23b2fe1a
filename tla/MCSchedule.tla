---------------------------- MODULE MCSchedule ----------------------------
(***************************************************************************)
(* Instances of Schedule small enough for TLC.                             *)
(***************************************************************************)
EXTENDS ScheduleImplements, TLC

\* Processes and objects are interchangeable; runs with liveness use none.
Symmetry == Permutations(Proc) \union Permutations(Seg)

AllCalls == CallNames
Lifecycle == {"get", "insert", "release"}

NoCrash == {}
AnyPlace == Places

\* A creator that dies before the file's list is in the segment.
CreationWindow == {"acq_trunc", "acq_mmap", "acq_zero", "acq_load"}
\* A process that dies between the first and the last write of a list.
CopyWindow == {"st_version", "store_copy", "load_copy"}
OutsideWindows == Places \ (CreationWindow \union CopyWindow)
===========================================================================
