---------------------------- MODULE NamedMutex ----------------------------
(***************************************************************************)
(* How processes come to share a mutex by its name: ipc::sync::mutex       *)
(* (cpp-ipc, platform/linux/mutex.h) over a named segment of shared memory *)
(* (sync_obj_impl.h, shm_posix.cpp).  A process keeps one handle per name  *)
(* in a table and counts the mutex objects that use it: the first to open  *)
(* maps the segment, the last to close gives it back, and whoever gives    *)
(* back the last reference removes the name.  The lock inside a segment is *)
(* RobustLock's; RobustMutex shows that it is one.                         *)
(***************************************************************************)
EXTENDS Naturals, FiniteSets

CONSTANTS
  Process,
  Segment,          \* the memory objects the kernel can make
  None,             \* no segment
  Nobody, OwnerDied,
  HandleStop,       \* bound: mutex objects of one process
  DeathStop         \* bound: no process dies any more after so many

VARIABLES
  name,     \* the segment that the name is linked to
  lock,     \* each segment's lock: its owner, Nobody, or OwnerDied
  ref,      \* each segment's reference count
  at,       \* the segment a process has open
  handles,  \* how many mutex objects of the process use it
  pc,
  deaths,
  raced     \* (history) has an open raced with another open, or with a close?

vars == <<name, lock, ref, at, handles, pc, deaths, raced>>

\* What the constants have to be.
NamedMutexConstants ==
  /\ None \notin Segment
  /\ Nobody \notin Process /\ OwnerDied \notin Process /\ Nobody # OwnerDied
  /\ HandleStop \in Nat \ {0} /\ DeathStop \in Nat

Opening == {"map", "test", "zero"}

Init ==
  /\ name = None
  /\ lock = [s \in Segment |-> Nobody]
  /\ ref = [s \in Segment |-> 0]
  /\ at = [p \in Process |-> None]
  /\ handles = [p \in Process |-> 0]
  /\ pc = [p \in Process |-> "idle"]
  /\ deaths = 0
  /\ raced = FALSE

Move(p, from, to) ==
  /\ pc[p] = from
  /\ pc' = [pc EXCEPT ![p] = to]

(***************************************************************************)
(* Opens and closes take no lock that the processes share, so they overlap *)
(* freely.  Two overlaps are races, and are remembered: a process maps the *)
(* memory while another is about to clear it, and a process has opened the *)
(* name, and is not counted yet, while another counts itself out as the    *)
(* last one and removes the name.                                          *)
(***************************************************************************)
Race(p, places) ==
  raced' = (raced \/ \E q \in Process \ {p} : pc[q] \in places)

\* The kernel keeps a segment while the name or a process refers to it.
Fresh(s) == s # name /\ \A p \in Process : at[p] # s

-----------------------------------------------------------------------------
\* open() finds the process's handle in the table.
OpenAgain(p) ==
  /\ handles[p] \in 1..(HandleStop - 1)
  /\ Move(p, "idle", "idle")
  /\ handles' = [handles EXCEPT ![p] = @ + 1]
  /\ UNCHANGED <<name, lock, ref, at, deaths, raced>>

\* open() makes one: shm_open(O_CREAT) finds the segment or creates it.
OpenFirst(p) ==
  /\ handles[p] = 0
  /\ Move(p, "idle", "map")
  /\ Race(p, {"unlink"})
  /\ \E s \in Segment :
       /\ \/ s = name /\ UNCHANGED <<lock, ref>>
          \/ /\ name = None /\ Fresh(s)
             /\ lock' = [lock EXCEPT ![s] = Nobody]
             /\ ref' = [ref EXCEPT ![s] = 0]
       /\ name' = s
       /\ at' = [at EXCEPT ![p] = s]
  /\ UNCHANGED <<handles, deaths>>

\* mmap, and the reference is counted.
Map(p) ==
  /\ Move(p, "map", "test")
  /\ Race(p, {"zero"})
  /\ ref' = [ref EXCEPT ![at[p]] = @ + 1]
  /\ UNCHANGED <<name, lock, at, handles, deaths>>

\* Slip: whoever opens clears the mutex.
TestNothing(p) ==
  /\ Move(p, "test", "zero")
  /\ UNCHANGED <<name, lock, ref, at, handles, deaths, raced>>

\* ref() > 1: somebody else has it.
Test(p) ==
  /\ pc[p] = "test"
  /\ pc' = [pc EXCEPT ![p] = IF ref[at[p]] > 1 THEN "idle" ELSE "zero"]
  /\ handles' = [handles EXCEPT ![p] = IF ref[at[p]] > 1 THEN 1 ELSE 0]
  /\ UNCHANGED <<name, lock, ref, at, deaths, raced>>

\* *h_ = A0_EMPTY, under no lock.
Zero(p) ==
  /\ Move(p, "zero", "idle")
  /\ lock' = [lock EXCEPT ![at[p]] = Nobody]
  /\ handles' = [handles EXCEPT ![p] = 1]
  /\ UNCHANGED <<name, ref, at, deaths, raced>>

-----------------------------------------------------------------------------
Lock(p) ==
  /\ handles[p] > 0
  /\ lock[at[p]] = Nobody
  /\ Move(p, "idle", "inside")
  /\ lock' = [lock EXCEPT ![at[p]] = p]
  /\ UNCHANGED <<name, ref, at, handles, deaths, raced>>

\* lock() repairs what a dead owner left and starts over.
Recover(p) ==
  /\ handles[p] > 0
  /\ lock[at[p]] = OwnerDied
  /\ Move(p, "idle", "idle")
  /\ lock' = [lock EXCEPT ![at[p]] = Nobody]
  /\ UNCHANGED <<name, ref, at, handles, deaths, raced>>

\* Only the owner can unlock; scoped_lock does not hear of a refusal.
Unlock(p) ==
  /\ Move(p, "inside", "idle")
  /\ lock' = [lock EXCEPT ![at[p]] = IF @ = p THEN Nobody ELSE @]
  /\ UNCHANGED <<name, ref, at, handles, deaths, raced>>

-----------------------------------------------------------------------------
\* close() with other mutex objects on the same handle.
Close(p) ==
  /\ handles[p] > 1
  /\ Move(p, "idle", "idle")
  /\ handles' = [handles EXCEPT ![p] = @ - 1]
  /\ UNCHANGED <<name, lock, ref, at, deaths, raced>>

\* close() of the last one: the handle is erased, its reference given back.
CloseLast(p) ==
  /\ handles[p] = 1
  /\ \/ /\ ref[at[p]] > 1
        /\ Move(p, "idle", "idle")
        /\ UNCHANGED raced
     \/ /\ ref[at[p]] <= 1
        /\ Move(p, "idle", "unlink")
        /\ Race(p, {"map"})
  /\ ref' = [ref EXCEPT ![at[p]] = @ - 1]
  /\ handles' = [handles EXCEPT ![p] = 0]
  /\ at' = [at EXCEPT ![p] = None]
  /\ UNCHANGED <<name, lock, deaths>>

\* shm_unlink removes the name, whatever it is linked to by now.
Unlink(p) ==
  /\ Move(p, "unlink", "idle")
  /\ name' = None
  /\ UNCHANGED <<lock, ref, at, handles, deaths, raced>>

\* Slip: the kernel is not told of the owner's death.
CrashUnmarked(p) ==
  /\ deaths < DeathStop
  /\ deaths' = deaths + 1
  /\ at' = [at EXCEPT ![p] = None]
  /\ handles' = [handles EXCEPT ![p] = 0]
  /\ pc' = [pc EXCEPT ![p] = "idle"]
  /\ UNCHANGED <<name, lock, ref, raced>>

\* A process dies anywhere.  The kernel marks the lock it owns and unmaps;
\* nobody takes its reference off.
Crash(p) ==
  /\ deaths < DeathStop
  /\ deaths' = deaths + 1
  /\ lock' = [s \in Segment |-> IF lock[s] = p THEN OwnerDied ELSE lock[s]]
  /\ at' = [at EXCEPT ![p] = None]
  /\ handles' = [handles EXCEPT ![p] = 0]
  /\ pc' = [pc EXCEPT ![p] = "idle"]
  /\ UNCHANGED <<name, ref, raced>>

Next ==
  \E p \in Process :
    \/ OpenAgain(p) \/ OpenFirst(p) \/ Map(p) \/ Test(p) \/ Zero(p)
    \/ Lock(p) \/ Recover(p) \/ Unlock(p)
    \/ Close(p) \/ CloseLast(p) \/ Unlink(p) \/ Crash(p)

Spec == Init /\ [][Next]_vars

-----------------------------------------------------------------------------
(***************************************************************************)
(* Properties.                                                             *)
(***************************************************************************)
\* A reference count is at most one per process and one per death.
TypeOK ==
  /\ name \in Segment \union {None}
  /\ lock \in [Segment -> Process \union {Nobody, OwnerDied}]
  /\ ref \in [Segment -> 0..(Cardinality(Process) + DeathStop)]
  /\ at \in [Process -> Segment \union {None}]
  /\ handles \in [Process -> 0..HandleStop]
  /\ pc \in [Process -> Opening \union {"idle", "inside", "unlink"}]
  /\ deaths \in 0..DeathStop
  /\ raced \in BOOLEAN

\* One process at a time is between lock() and unlock() of the name ("Named
\* IPC mutex").
Exclusive == Cardinality({p \in Process : pc[p] = "inside"}) <= 1

\* Until an open has raced it is so, whoever else opens and closes the name at
\* the same time, or died with it locked or open.
MutualExclusion == ~raced => Exclusive

\* All who have the name open have the one segment that it is linked to, so
\* that the next to open joins them, until an open has raced.
OneMutex == ~raced => \A p \in Process : at[p] \in {None, name}

\* A lock that is held is held by somebody inside: none is left locked by a
\* process that has gone, which nobody could ever take again, whatever raced.
HeldByInside ==
  \A s \in Segment : lock[s] \in Process =>
    pc[lock[s]] = "inside" /\ at[lock[s]] = s

\* One segment for all, and no lock in it that its owner has left.
NamedInv == TypeOK /\ OneMutex /\ HeldByInside
===========================================================================
