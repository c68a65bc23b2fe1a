----------------------------- MODULE Schedule -----------------------------
(***************************************************************************)
(* One user's schedule (backend/src/Schedule.cpp) as the processes of the  *)
(* machine share it: a named mutex, a named shared memory segment that     *)
(* holds the list, the file the list is saved to, and in every process a   *)
(* Schedule object with its mapping and its cache.                         *)
(*                                                                         *)
(* A step is what can be told apart from outside the process that takes    *)
(* it: a system call, a store to the segment, a write to the file.  Steps  *)
(* under the mutex are still separate steps, because Release touches the   *)
(* segment without the mutex and a process can die between any two.        *)
(***************************************************************************)
EXTENDS TaskList, FiniteSets

CONSTANTS
  Proc,         \* processes (each may run again after it exits or dies)
  Seg,          \* shared memory objects the kernel can hold
  Key,          \* keys a caller may give a task
  Cap,          \* tasks that fit in kMaxSharedScheduleMemory
  VersionMod,   \* number of values of the version's type: 2^32 in the code
  IdStop,       \* bound: TaskInsert is not called once an id reaches it
  VersionStop,  \* bound: no store once the version reaches it
  RefStop,      \* bound: an attached process does not die above this count
  Calls,        \* the calls the processes make: a subset of CallNames
  CrashAt,      \* the places at which a process may die: a subset of Places
  Overlap,      \* may a release run while another process attaches?
  IoFaults,     \* may creating the segment, reading or writing the file fail?
  NoProc, OwnerDied, NoSeg

VARIABLES
  lock,         \* the named mutex: its owner, NoProc, or OwnerDied
  name,         \* the object the segment's name is linked to, or NoSeg
  segs,         \* the objects: see Segment
  file,         \* the list the user's file decodes to; <<>> when there is
                \* no file, an empty one, or one with no task
  pc,           \* where each process is
  handle,       \* the object each process has open or mapped, or NoSeg
  pend,         \* the list each process is about to write
  chunk,        \* the next chunk of it to copy: 0 is the header
  cache         \* m_local_tasks of each process: the list and its version

vars == <<lock, name, segs, file, pc, handle, pend, chunk, cache>>

CallNames == {"get", "insert", "erase", "done", "edit", "release"}

\* Waiting for the mutex; then the places inside the critical section, in
\* Acquire and in the calls; then the ones outside it.
Waiting == {"acq_wait", "call_wait"}
InAcquire == {"acq_open", "acq_map", "acq_trunc", "acq_mmap", "acq_zero",
              "acq_load", "load_copy", "fail"}
InStore == {"st_version", "store_copy"}
InCall == {"locked", "got", "st_size", "st_open", "st_write", "unlock"}
            \union InStore
Inside == InAcquire \union InCall
Places == Waiting \union Inside \union {"ready", "rel_unlink"}

ASSUME ConstantsOK ==
  /\ Cap \in Nat \ {0} /\ IdMod \in Nat \ {0} /\ VersionMod \in Nat \ {0}
  /\ IdStop \in Nat /\ VersionStop \in Nat /\ RefStop \in Nat
  /\ Key \subseteq Nat
  /\ Calls \subseteq CallNames /\ CrashAt \subseteq Places
  /\ Overlap \in BOOLEAN /\ IoFaults \in BOOLEAN
  /\ IsFiniteSet(Proc)
  /\ NoProc \notin Proc /\ OwnerDied \notin Proc /\ NoProc # OwnerDied
  /\ NoSeg \notin Seg

(***************************************************************************)
(* A segment holds the size, the version and the raw list, and cpp-ipc's   *)
(* count of the processes that mapped it at its end.  The raw list is the  *)
(* header "Schedule" and then the tasks: size counts the tasks it claims,  *)
(* header says that the header's bytes are there, data[i] is the task that *)
(* the i-th chunk decodes to.  A new object is all zero bytes and has no   *)
(* size until ftruncate.                                                   *)
(***************************************************************************)
Segment == [sized : BOOLEAN, ref : Int, version : Nat, header : BOOLEAN,
            size : 0..Cap, data : [1..Cap -> Task]]

ZeroSegment == [sized |-> FALSE, ref |-> 0, version |-> 0, header |-> FALSE,
                size |-> 0, data |-> [i \in 1..Cap |-> ZeroTask]]

NoCache == [tasks |-> <<>>, version |-> 0]

\* Parse_string(shared_data, shared_size): empty when the header is missing.
ListOf(s) ==
  IF s.header THEN [i \in 1..s.size |-> s.data[i]] ELSE <<>>

\* The list the process's mapping holds: load_tasks_from_shm.
Shared(p) == ListOf(segs[handle[p]])

Init ==
  /\ lock = NoProc
  /\ name = NoSeg
  /\ segs = [s \in Seg |-> ZeroSegment]
  /\ file = <<>>
  /\ pc = [p \in Proc |-> "out"]
  /\ handle = [p \in Proc |-> NoSeg]
  /\ pend = [p \in Proc |-> <<>>]
  /\ chunk = [p \in Proc |-> 0]
  /\ cache = [p \in Proc |-> NoCache]

Goto(p, from, to) == pc[p] = from /\ pc' = [pc EXCEPT ![p] = to]

-----------------------------------------------------------------------------
(***************************************************************************)
(* The kernel frees an object that has no name and that nobody has open.   *)
(***************************************************************************)
Kept(ss, linked, held) ==
  [s \in Seg |-> IF s = linked \/ \E p \in Proc : held[p] = s
                 THEN ss[s] ELSE ZeroSegment]

\* The process ends without running a destructor: the mutex, if it owned
\* it, is left marked, and its reference to the segment is not given back.
Die(p) ==
  /\ lock' = IF lock = p THEN OwnerDied ELSE lock
  /\ pc' = [pc EXCEPT ![p] = "out"]
  /\ handle' = [handle EXCEPT ![p] = NoSeg]
  /\ segs' = Kept(segs, name, handle')
  /\ pend' = [pend EXCEPT ![p] = <<>>]
  /\ chunk' = [chunk EXCEPT ![p] = 0]
  /\ cache' = [cache EXCEPT ![p] = NoCache]
  /\ UNCHANGED <<name, file>>

Crash(p) ==
  /\ pc[p] \in CrashAt
  /\ handle[p] # NoSeg => segs[handle[p]].ref < RefStop
  /\ Die(p)

-----------------------------------------------------------------------------
(***************************************************************************)
(* The named mutex: a robust lock shared by the processes.                 *)
(***************************************************************************)
Lock(p) ==
  /\ lock = NoProc
  /\ lock' = p
  /\ \/ Goto(p, "acq_wait", "acq_open")
     \/ Goto(p, "call_wait", "locked")
  /\ UNCHANGED <<name, segs, file, handle, pend, chunk, cache>>

\* Slip: EOWNERDEAD is treated as an error that cannot be repaired.
RecoverNever(p) == FALSE /\ UNCHANGED vars

\* Slip: lock() returns true after it made the mutex consistent and unlocked it.
RecoverAndEnter(p) ==
  /\ lock = OwnerDied
  /\ lock' = NoProc
  /\ Goto(p, "acq_wait", "acq_open") \/ Goto(p, "call_wait", "locked")
  /\ UNCHANGED <<name, segs, file, handle, pend, chunk, cache>>

\* EOWNERDEAD: the waiter makes the mutex consistent, unlocks it and tries
\* again, in line with the others.
Recover(p) ==
  /\ pc[p] \in Waiting
  /\ lock = OwnerDied
  /\ lock' = NoProc
  /\ UNCHANGED <<name, segs, file, pc, handle, pend, chunk, cache>>

\* The scoped_lock goes out of scope and the call returns, from GetTasks with
\* the cached list.  After an error in Acquire the object is destroyed too,
\* with nothing mapped that it could release.
Unlock(p) ==
  /\ lock' = NoProc
  /\ \/ Goto(p, "unlock", "ready")
     \/ Goto(p, "got", "ready")
     \/ Goto(p, "fail", "out")
  /\ UNCHANGED <<name, segs, file, handle, pend, chunk, cache>>

-----------------------------------------------------------------------------
(***************************************************************************)
(* Acquire: initialize_shm_locked, from MaintainDirs on.                   *)
(***************************************************************************)
Acquire(p) ==
  /\ Goto(p, "out", "acq_wait")
  /\ UNCHANGED <<lock, name, segs, file, handle, pend, chunk, cache>>

\* The environment assumption that ~Overlap makes: no process gives its last
\* reference back while another one is between shm_open and the count.
NobodyMapping == \A q \in Proc : pc[q] # "acq_map"
NobodyUnlinking == \A q \in Proc : pc[q] # "rel_unlink"

OpenExisting(p) ==
  /\ Overlap \/ NobodyUnlinking
  /\ name # NoSeg
  /\ Goto(p, "acq_open", "acq_map")
  /\ handle' = [handle EXCEPT ![p] = name]
  /\ UNCHANGED <<lock, name, segs, file, pend, chunk, cache>>

CreateNew(p) ==
  /\ Overlap \/ NobodyUnlinking
  /\ name = NoSeg
  /\ \E s \in Seg :
       /\ \A q \in Proc : handle[q] # s
       /\ name' = s
       /\ handle' = [handle EXCEPT ![p] = s]
  /\ Goto(p, "acq_open", "acq_trunc")
  /\ UNCHANGED <<lock, segs, file, pend, chunk, cache>>

CreateFails(p) ==
  /\ IoFaults
  /\ name = NoSeg
  /\ Goto(p, "acq_open", "fail")
  /\ UNCHANGED <<lock, name, segs, file, handle, pend, chunk, cache>>

\* Slip: mapping an existing object does not count the process.
MapUncounted(p) ==
  /\ Goto(p, "acq_map", "unlock")
  /\ segs[handle[p]].sized
  /\ UNCHANGED <<lock, name, segs, file, handle, pend, chunk, cache>>

\* get_mem of an object that has a size: mapped, and counted.
Map(p) ==
  /\ Goto(p, "acq_map", "unlock")
  /\ segs[handle[p]].sized
  /\ segs' = [segs EXCEPT ![handle[p]].ref = @ + 1]
  /\ UNCHANGED <<lock, name, file, handle, pend, chunk, cache>>

\* get_mem returns null, for an object without a size or when mmap fails,
\* and leaves the local variable "size" uninitialized: what the test on it
\* reads decides between the error and a token whose pointers are null.
MapFails(p) ==
  /\ pc[p] = "acq_map"
  /\ IoFaults \/ ~segs[handle[p]].sized
  /\ Goto(p, "acq_map", "fail") \/ Goto(p, "acq_map", "unlock")
  /\ handle' = [handle EXCEPT ![p] = NoSeg]
  /\ segs' = Kept(segs, name, handle')
  /\ UNCHANGED <<lock, name, file, pend, chunk, cache>>

\* get_mem of the object just created: ftruncate, then mapped and counted.
SetSize(p) ==
  /\ Goto(p, "acq_trunc", "acq_mmap")
  /\ segs' = [segs EXCEPT ![handle[p]].sized = TRUE]
  /\ UNCHANGED <<lock, name, file, handle, pend, chunk, cache>>

MapNew(p) ==
  /\ Goto(p, "acq_mmap", "acq_zero")
  /\ segs' = [segs EXCEPT ![handle[p]].ref = @ + 1]
  /\ UNCHANGED <<lock, name, file, handle, pend, chunk, cache>>

\* When ftruncate or mmap fails, the same uninitialized size decides between
\* the error and a write through the null pointer.
NewFails(p) ==
  /\ IoFaults
  /\ pc[p] \in {"acq_trunc", "acq_mmap"}
  /\ \/ /\ pc' = [pc EXCEPT ![p] = "fail"]
        /\ handle' = [handle EXCEPT ![p] = NoSeg]
        /\ segs' = Kept(segs, name, handle')
        /\ UNCHANGED <<lock, name, file, pend, chunk, cache>>
     \/ Die(p)

ZeroHeader(p) ==
  /\ Goto(p, "acq_zero", "acq_load")
  /\ segs' = [segs EXCEPT ![handle[p]].size = 0, ![handle[p]].version = 1]
  /\ UNCHANGED <<lock, name, file, handle, pend, chunk, cache>>

\* raw.resize(kMaxSharedScheduleMemory)
Truncated(s) == SubSeq(s, 1, IF Len(s) <= Cap THEN Len(s) ELSE Cap)

\* A file that is not there, or that cannot be opened, is an empty list.
LoadFile(p) ==
  /\ \/ /\ file = <<>> \/ IoFaults
        /\ Goto(p, "acq_load", "unlock")
        /\ UNCHANGED <<segs, pend>>
     \/ /\ file # <<>>
        /\ Goto(p, "acq_load", "load_copy")
        /\ pend' = [pend EXCEPT ![p] = Truncated(file)]
        /\ segs' = [segs EXCEPT ![handle[p]].size = Len(Truncated(file)),
                                ![handle[p]].version = 1]
  /\ UNCHANGED <<lock, name, file, handle, chunk, cache>>

(***************************************************************************)
(* std::copy of the raw list into the segment, front to back: the header,  *)
(* then one task a step.  Acquire is done after it; a store goes on to the *)
(* file.                                                                   *)
(***************************************************************************)
WithChunk(s, i, list) ==
  IF i = 0 THEN [s EXCEPT !.header = TRUE]
           ELSE [s EXCEPT !.data[i] = list[i]]

CopyChunk(p) ==
  /\ pc[p] \in {"load_copy", "store_copy"}
  /\ segs' = [segs EXCEPT ![handle[p]] = WithChunk(@, chunk[p], pend[p])]
  /\ \/ /\ chunk[p] < Len(pend[p])
        /\ chunk' = [chunk EXCEPT ![p] = @ + 1]
        /\ UNCHANGED <<pc, pend>>
     \/ /\ chunk[p] = Len(pend[p])
        /\ Goto(p, "load_copy", "unlock")
        /\ chunk' = [chunk EXCEPT ![p] = 0]
        /\ pend' = [pend EXCEPT ![p] = <<>>]
     \/ /\ chunk[p] = Len(pend[p])
        /\ Goto(p, "store_copy", "st_open")
        /\ chunk' = [chunk EXCEPT ![p] = 0]
        /\ UNCHANGED pend
  /\ UNCHANGED <<lock, name, file, handle, cache>>

-----------------------------------------------------------------------------
(***************************************************************************)
(* The calls on a token.  Every one of them takes the mutex first; TaskEdit *)
(* with an empty mask returns before it, and is no step at all.             *)
(***************************************************************************)
Call(p) ==
  /\ Goto(p, "ready", "call_wait")
  /\ UNCHANGED <<lock, name, segs, file, handle, pend, chunk, cache>>

\* A token whose pointers are null: the first access ends the process.
Segfault(p) ==
  /\ pc[p] = "locked"
  /\ handle[p] = NoSeg
  /\ Die(p)

Calling(p, call) ==
  /\ pc[p] = "locked"
  /\ handle[p] # NoSeg
  /\ call \in Calls

Return(p) ==
  /\ Goto(p, "locked", "unlock")
  /\ UNCHANGED <<lock, name, segs, file, handle, pend, chunk, cache>>

\* Slip: the test against kMaxSharedScheduleMemory is missing.
StoreAnyLength(p, list) ==
  /\ segs[handle[p]].version < VersionStop
  /\ Goto(p, "locked", "st_size")
  /\ pend' = [pend EXCEPT ![p] = list]
  /\ UNCHANGED <<lock, name, segs, file, handle, chunk, cache>>

\* store_tasks, up to the test of the size (kSHMSizeExceed).
Store(p, list) ==
  \/ /\ Len(list) > Cap
     /\ Return(p)
  \/ /\ Len(list) <= Cap
     /\ segs[handle[p]].version < VersionStop
     /\ Goto(p, "locked", "st_size")
     /\ pend' = [pend EXCEPT ![p] = list]
     /\ UNCHANGED <<lock, name, segs, file, handle, chunk, cache>>

\* Slip: the new version is remembered without loading the list.
GetVersionOnly(p) ==
  /\ Calling(p, "get")
  /\ cache' = [cache EXCEPT ![p].version = segs[handle[p]].version]
  /\ Goto(p, "locked", "got")
  /\ UNCHANGED <<lock, name, segs, file, handle, pend, chunk>>

\* Slip: a list that was loaded once is not loaded again.
GetOnce(p) ==
  /\ Calling(p, "get")
  /\ cache' = IF cache[p].version = 0
              THEN [cache EXCEPT ![p] = [tasks |-> Shared(p),
                                         version |-> segs[handle[p]].version]]
              ELSE cache
  /\ Goto(p, "locked", "got")
  /\ UNCHANGED <<lock, name, segs, file, handle, pend, chunk>>

\* The list is loaded if the segment's version is above the cached one.
GetTasks(p) ==
  /\ Calling(p, "get")
  /\ LET seg == segs[handle[p]] IN
       cache' = IF seg.version > cache[p].version
                THEN [cache EXCEPT ![p] = [tasks |-> Shared(p),
                                           version |-> seg.version]]
                ELSE cache
  /\ Goto(p, "locked", "got")
  /\ UNCHANGED <<lock, name, segs, file, handle, pend, chunk>>

\* insert(): kTaskAlreadyExist, or the list with the task at its place.
InsertAndStore(p, list, task) ==
  \E i \in LowerBounds(list, task.key) :
    \/ KeyTaken(list, i, task.key) /\ Return(p)
    \/ ~KeyTaken(list, i, task.key) /\ Store(p, InsertAt(list, i, task))

TaskInsert(p) ==
  /\ Calling(p, "insert")
  /\ \E k \in Key, m \in MaxIds(Shared(p)) :
       /\ m < IdStop
       /\ InsertAndStore(p, Shared(p),
                         [id |-> NextId(m), key |-> k, done |-> FALSE])

\* find_if: the first task with the id, if there is one.
FirstWithId(list, id) ==
  {i \in DOMAIN list : /\ list[i].id = id
                       /\ \A j \in 1..(i - 1) : list[j].id # id}

NotFound(p) ==
  /\ \E call \in {"erase", "done", "edit"} : Calling(p, call)
  /\ \E id \in 0..IdStop : FirstWithId(Shared(p), id) = {}
  /\ Return(p)

TaskErase(p) ==
  /\ Calling(p, "erase")
  /\ \E id \in 0..IdStop : \E i \in FirstWithId(Shared(p), id) :
       Store(p, RemoveAt(Shared(p), i))

TaskToggleDone(p) ==
  /\ Calling(p, "done")
  /\ \E id \in 0..IdStop : \E i \in FirstWithId(Shared(p), id) :
       Store(p, [Shared(p) EXCEPT ![i].done = ~@])

\* Slip: a task whose key is edited stays at its place.
EditInPlace(p) ==
  /\ Calling(p, "edit")
  /\ \E id \in 0..IdStop, k \in Key, d \in BOOLEAN :
     \E mask \in SUBSET {"key", "done"} \ {{}} :
     \E i \in FirstWithId(Shared(p), id) :
       LET task == Patched(Shared(p)[i], [key |-> k, done |-> d], mask)
           others == RemoveAt(Shared(p), i)
       IN \E j \in LowerBounds(others, task.key) :
            \/ KeyTaken(others, j, task.key) /\ Return(p)
            \/ /\ ~KeyTaken(others, j, task.key)
               /\ Store(p, [Shared(p) EXCEPT ![i] = task])

TaskEdit(p) ==
  /\ Calling(p, "edit")
  /\ \E id \in 0..IdStop, k \in Key, d \in BOOLEAN :
     \E mask \in SUBSET {"key", "done"} \ {{}} :
     \E i \in FirstWithId(Shared(p), id) :
       LET task == Patched(Shared(p)[i], [key |-> k, done |-> d], mask) IN
       \/ /\ "key" \in mask
          /\ InsertAndStore(p, RemoveAt(Shared(p), i), task)
       \/ /\ "key" \notin mask
          /\ Store(p, [Shared(p) EXCEPT ![i] = task])

-----------------------------------------------------------------------------
(***************************************************************************)
(* store_tasks: size, version and list in the segment, then the file.      *)
(***************************************************************************)
WriteSize(p) ==
  /\ Goto(p, "st_size", "st_version")
  /\ segs' = [segs EXCEPT ![handle[p]].size = Len(pend[p])]
  /\ UNCHANGED <<lock, name, file, handle, pend, chunk, cache>>

BumpVersion(p) ==
  /\ Goto(p, "st_version", "store_copy")
  /\ segs' = [segs EXCEPT ![handle[p]].version = (@ + 1) % VersionMod]
  /\ UNCHANGED <<lock, name, file, handle, pend, chunk, cache>>

\* Slip: the change is left in memory and the file is not written (no store_tasks).
FileNotWritten(p) ==
  /\ Goto(p, "st_open", "unlock")
  /\ pend' = [pend EXCEPT ![p] = <<>>]
  /\ UNCHANGED <<lock, name, segs, file, handle, chunk, cache>>

\* ofstream{m_file_path}: opening the file for output empties it.
OpenFile(p) ==
  /\ Goto(p, "st_open", "st_write")
  /\ file' = <<>>
  /\ UNCHANGED <<lock, name, segs, handle, pend, chunk, cache>>

\* MaintainDirs or the open fails: kFileIOError, with the segment changed.
OpenFileFails(p) ==
  /\ IoFaults
  /\ Goto(p, "st_open", "unlock")
  /\ pend' = [pend EXCEPT ![p] = <<>>]
  /\ UNCHANGED <<lock, name, segs, file, handle, chunk, cache>>

\* The result of the write is not looked at: kSuccess either way.
WriteFile(p) ==
  /\ Goto(p, "st_write", "unlock")
  /\ \/ file' = pend[p]
     \/ IoFaults /\ UNCHANGED file
  /\ pend' = [pend EXCEPT ![p] = <<>>]
  /\ UNCHANGED <<lock, name, segs, handle, chunk, cache>>

-----------------------------------------------------------------------------
(***************************************************************************)
(* ~SyncObject: shm::release, without the mutex.  Giving the last          *)
(* reference back unlinks the segment's name, whatever it is linked to.    *)
(***************************************************************************)
\* Slip: a count of two is taken for the last reference.
ReleaseEarly(p) ==
  /\ "release" \in Calls
  /\ pc[p] = "ready"
  /\ Overlap \/ NobodyMapping
  /\ handle[p] # NoSeg
  /\ handle' = [handle EXCEPT ![p] = NoSeg]
  /\ cache' = [cache EXCEPT ![p] = NoCache]
  /\ Goto(p, "ready", IF segs[handle[p]].ref <= 2 THEN "rel_unlink" ELSE "out")
  /\ segs' = Kept([segs EXCEPT ![handle[p]].ref = @ - 1], name, handle')
  /\ UNCHANGED <<lock, name, file, pend, chunk>>

Release(p) ==
  /\ "release" \in Calls
  /\ pc[p] = "ready"
  /\ Overlap \/ NobodyMapping
  /\ handle' = [handle EXCEPT ![p] = NoSeg]
  /\ cache' = [cache EXCEPT ![p] = NoCache]
  /\ \/ /\ handle[p] = NoSeg
        /\ Goto(p, "ready", "out")
        /\ UNCHANGED segs
     \/ /\ handle[p] # NoSeg
        /\ Goto(p, "ready",
                IF segs[handle[p]].ref <= 1 THEN "rel_unlink" ELSE "out")
        /\ segs' = Kept([segs EXCEPT ![handle[p]].ref = @ - 1], name, handle')
  /\ UNCHANGED <<lock, name, file, pend, chunk>>

Unlink(p) ==
  /\ Goto(p, "rel_unlink", "out")
  /\ name' = NoSeg
  /\ segs' = Kept(segs, NoSeg, handle)
  /\ UNCHANGED <<lock, file, handle, pend, chunk, cache>>

-----------------------------------------------------------------------------
\* What a process does on its own once it has made a call.
Work(p) ==
  \/ Recover(p)
  \/ Unlock(p)
  \/ OpenExisting(p)
  \/ CreateNew(p)
  \/ CreateFails(p)
  \/ Map(p)
  \/ MapFails(p)
  \/ SetSize(p)
  \/ MapNew(p)
  \/ NewFails(p)
  \/ ZeroHeader(p)
  \/ LoadFile(p)
  \/ CopyChunk(p)
  \/ Segfault(p)
  \/ GetTasks(p)
  \/ TaskInsert(p)
  \/ NotFound(p)
  \/ TaskErase(p)
  \/ TaskToggleDone(p)
  \/ TaskEdit(p)
  \/ WriteSize(p)
  \/ BumpVersion(p)
  \/ OpenFile(p)
  \/ OpenFileFails(p)
  \/ WriteFile(p)
  \/ Unlink(p)

\* What its user decides, and what happens to it.
Decision(p) ==
  \/ Acquire(p)
  \/ Call(p)
  \/ Release(p)

Next == \E p \in Proc : Lock(p) \/ Work(p) \/ Decision(p) \/ Crash(p)

Spec == Init /\ [][Next]_vars

(***************************************************************************)
(* A process that runs is scheduled (weak fairness).  The mutex is a       *)
(* priority-inheritance futex, which the kernel hands to a waiter when it  *)
(* is unlocked: a process does not wait forever while others come and go   *)
(* (strong fairness of Lock).  Nothing makes a user call, or a crash come. *)
(***************************************************************************)
Fairness == \A p \in Proc : WF_vars(Work(p)) /\ SF_vars(Lock(p))

FairSpec == Spec /\ Fairness

-----------------------------------------------------------------------------
(***************************************************************************)
(* Properties.                                                             *)
(***************************************************************************)
Lists == {s \in Seq(Task) : Len(s) <= Cap}

\* Each variable holds what its C++ counterpart can: in particular no list
\* that reaches the segment or the file is longer than the segment holds.
TypeOK ==
  /\ lock \in Proc \union {NoProc, OwnerDied}
  /\ name \in Seg \union {NoSeg}
  /\ segs \in [Seg -> Segment]
  /\ file \in Lists
  /\ pc \in [Proc -> Places \union {"out"}]
  /\ handle \in [Proc -> Seg \union {NoSeg}]
  /\ pend \in [Proc -> Lists]
  /\ chunk \in [Proc -> 0..Cap]
  /\ cache \in [Proc -> [tasks : Lists, version : Nat]]

\* The mutex protects every access to the segment's list: a process inside
\* the critical section is the owner, whoever crashed before.
LockHeld == \A p \in Proc : pc[p] \in Inside <=> lock = p

\* A process that has a token, or is about to.
Attached(p) == handle[p] # NoSeg

\* All tokens of the user are tokens of one schedule: the object that a new
\* Acquire would open is the one that every attached process has open.
SharedView == \A p \in Proc : Attached(p) => handle[p] = name

\* The count in a segment covers the processes that have it mapped, so none
\* of them loses the name to another's release while the count is right.
Mapped(s) == {p \in Proc : handle[p] = s /\ pc[p] \notin
                              {"acq_map", "acq_trunc", "acq_mmap"}}
RefCovers == \A s \in Seg : segs[s].ref >= Cardinality(Mapped(s))

\* A process in the middle of changing the list of its segment.
Writing(p) == pc[p] \in InStore \union {"load_copy"}
Quiet(s) == \A p \in Proc : Writing(p) => handle[p] # s

\* Between two writes every list, in memory and saved, has increasing keys
\* and distinct ids, so find_if and lower_bound find the one task meant.
StoredListsGood ==
  /\ \A s \in Seg : Quiet(s) => GoodList(ListOf(segs[s]))
  /\ GoodList(file)

\* A cached version is never ahead of the segment's, and where they are
\* equal the cached list is the shared one: GetTasks may skip the load.
CacheCoherent ==
  \A p \in Proc : Attached(p) /\ Quiet(handle[p]) =>
    /\ cache[p].version <= segs[handle[p]].version
    /\ cache[p].version = segs[handle[p]].version => cache[p].tasks = Shared(p)

\* A token and the file agree while no call is running: what the next first
\* Acquire will load is what the last process saw, and what the first
\* Acquire loaded is what the file held.
FileHoldsList ==
  \A p \in Proc :
    Attached(p) /\ (\A q \in Proc : pc[q] \notin Inside) => Shared(p) = file

\* Two tasks of a list never share an id ("fetch a unique id").
IdsUnique == \A s \in Seg : Quiet(s) => DistinctIds(ListOf(segs[s]))

\* A call that was made returns, or its process dies: a crash of the owner
\* never leaves the others waiting for the mutex.
CallReturns ==
  \A p \in Proc : pc[p] \in Waiting \union Inside ~> pc[p] \in {"ready", "out"}

-----------------------------------------------------------------------------
(***************************************************************************)
(* What LockHeld, RefCovers and SharedView need to be inductive.           *)
(***************************************************************************)
\* Where a process has no object open, and where it must have one.
Detached == {"out", "acq_wait", "acq_open", "fail", "rel_unlink"}
MayBeNull == {"ready", "call_wait", "locked", "unlock"}
HandlePlaces ==
  \A p \in Proc :
    /\ pc[p] \in Detached => handle[p] = NoSeg
    /\ pc[p] \notin Detached \union MayBeNull => handle[p] # NoSeg

\* While an object is created, or the name of one is about to be unlinked,
\* nobody else has anything open.
Alone ==
  \A p \in Proc : pc[p] \in {"acq_trunc", "acq_mmap", "rel_unlink"} =>
    \A q \in Proc \ {p} : handle[q] = NoSeg

AttachInv == TypeOK /\ LockHeld /\ HandlePlaces /\ RefCovers
ViewInv == SharedView /\ Alone
===========================================================================
