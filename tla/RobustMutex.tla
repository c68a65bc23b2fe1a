---------------------------- MODULE RobustMutex ----------------------------
(***************************************************************************)
(* The mutex in shared memory at the level of its futex word: robust_mutex *)
(* (cpp-ipc, platform/linux/mutex.h) on a0_mtx_t (platform/linux/a0/mtx.c) *)
(* as std::scoped_lock uses it, with the priority-inheritance futex calls  *)
(* and the exit of a thread as the Linux kernel implements them.           *)
(*                                                                         *)
(* A step is one access to the word, one change of the thread's robust     *)
(* list, or one system call.  A process can be killed between any two, and *)
(* then its threads exit one by one.                                       *)
(***************************************************************************)
EXTENDS Naturals, Sequences, SequencesExt

CONSTANTS
  Thread,
  Process,         \* a partition of the threads
  SignalStop,      \* bound: waits in the kernel that a signal interrupts
  DeathStop,       \* bound: no process is killed any more after so many
  Nobody,          \* no thread id
  NotRecoverable   \* the thread id with all bits set

VARIABLES
  word,      \* the futex: a thread id, FUTEX_WAITERS, FUTEX_OWNER_DIED
  queue,     \* the threads that wait for it in the kernel, first come first
  piOwner,   \* whom the kernel takes for the owner while there are waiters
  listed,    \* is the mutex on the thread's robust list?
  pending,   \* is it the thread's list_op_pending?
  pc,        \* where each thread is
  killed,    \* the threads that run no more and have yet to exit
  repairs,   \* did the thread get the mutex with EOWNERDEAD?
  deaths,    \* the number of processes killed
  signals    \* the number of waits interrupted

vars == <<word, queue, piOwner, listed, pending, pc, killed, repairs,
          deaths, signals>>

InLock == {"start", "try", "kernel", "blocked", "check", "add", "end",
           "repair"}
InUnlock == {"unlock", "del", "release", "handover", "done"}
Alive == InLock \union InUnlock \union {"idle", "critical"}
Places == Alive \union {"exiting", "dead"}

ASSUME RobustMutexConstants ==
  /\ Process \subseteq SUBSET Thread
  /\ \A t \in Thread : \E p \in Process : t \in p
  /\ SignalStop \in Nat /\ DeathStop \in Nat
  /\ Nobody \notin Thread /\ NotRecoverable \notin Thread
  /\ Nobody # NotRecoverable

Word(tid, waiters, died) == [tid |-> tid, waiters |-> waiters, died |-> died]

\* The zeroed word.
Free == Word(Nobody, FALSE, FALSE)

Init ==
  /\ word = Free
  /\ queue = <<>>
  /\ piOwner = Nobody
  /\ listed = [t \in Thread |-> FALSE]
  /\ pending = [t \in Thread |-> FALSE]
  /\ pc = [t \in Thread |-> "idle"]
  /\ killed = {}
  /\ repairs = [t \in Thread |-> FALSE]
  /\ deaths = 0
  /\ signals = 0

\* A thread that has not been killed goes on.
Move(t, from, to) ==
  /\ pc[t] = from /\ t \notin killed
  /\ pc' = [pc EXCEPT ![t] = to]
  /\ UNCHANGED killed

-----------------------------------------------------------------------------
(***************************************************************************)
(* lock(): a0_mtx_lock until it returns something other than EOWNERDEAD.   *)
(* A failure makes lock() return false, which scoped_lock does not look    *)
(* at: the thread goes on into the critical section.                       *)
(***************************************************************************)
Call(t) ==
  /\ Move(t, "idle", "start")
  /\ UNCHANGED <<word, queue, piOwner, listed, pending, repairs, deaths, signals>>

\* Slip: the operation is not announced to the kernel.
StartSilently(t) ==
  /\ Move(t, "start", "try")
  /\ UNCHANGED <<word, queue, piOwner, listed, pending, repairs, deaths, signals>>

\* robust_op_start
Start(t) ==
  /\ Move(t, "start", "try")
  /\ pending' = [pending EXCEPT ![t] = TRUE]
  /\ UNCHANGED <<word, queue, piOwner, listed, repairs, deaths, signals>>

\* The test for ENOTRECOVERABLE and the compare-and-swap of 0 by the id.
Try(t) ==
  /\ pc[t] = "try" /\ t \notin killed
  /\ word' = IF word = Free THEN Word(t, FALSE, FALSE) ELSE word
  /\ pc' = [pc EXCEPT ![t] = CASE word.tid = NotRecoverable -> "critical"
                               [] word = Free -> "add"
                               [] OTHER -> "kernel"]
  /\ UNCHANGED <<killed, queue, piOwner, listed, pending, repairs, deaths, signals>>

\* FUTEX_LOCK_PI of a word without an owner and without waiters: the caller
\* becomes the owner, and the mark of one that died stays.
LockFree(t) ==
  /\ queue = <<>> /\ word.tid = Nobody
  /\ Move(t, "kernel", "check")
  /\ word' = Word(t, FALSE, word.died)
  /\ UNCHANGED <<queue, piOwner, listed, pending, repairs, deaths, signals>>

\* Otherwise it joins the queue; but EDEADLK if it is the owner itself, and
\* ESRCH if the owner is a thread that exited without leaving its mark.
LockOwned(t) ==
  /\ queue # <<>> \/ word.tid # Nobody
  /\ LET waits == queue # <<>> \/ (word.tid \in Thread \ {t} /\ pc[word.tid] # "dead")
     IN  /\ Move(t, "kernel", IF waits THEN "blocked" ELSE "critical")
         /\ queue' = IF waits THEN Append(queue, t) ELSE queue
         /\ piOwner' = IF waits /\ queue = <<>> THEN word.tid ELSE piOwner
         /\ word' = [word EXCEPT !.waiters = waits \/ @]
  /\ UNCHANGED <<listed, pending, repairs, deaths, signals>>

\* The kernel has made the waiter the owner: FUTEX_LOCK_PI returns 0.
Wake(t) ==
  /\ word.tid = t
  /\ Move(t, "blocked", "check")
  /\ UNCHANGED <<word, queue, piOwner, listed, pending, repairs, deaths, signals>>

\* A thread stands at most once in the queue.
Without(q, t) ==
  IF \E i \in 1..Len(q) : q[i] = t
  THEN RemoveAt(q, CHOOSE i \in 1..Len(q) : q[i] = t)
  ELSE q

\* The thread leaves the queue; without waiters the kernel keeps no owner.
Dequeue(t) ==
  /\ queue' = Without(queue, t)
  /\ piOwner' = IF Without(queue, t) = <<>> THEN Nobody ELSE piOwner

\* EINTR: the loop tries again.
Interrupt(t) ==
  /\ signals < SignalStop
  /\ signals' = signals + 1
  /\ word.tid # t
  /\ Move(t, "blocked", "try")
  /\ Dequeue(t)
  /\ UNCHANGED <<word, listed, pending, repairs, deaths>>

\* EOWNERDEAD, if the word says so.
Check(t) ==
  /\ Move(t, "check", "add")
  /\ repairs' = [repairs EXCEPT ![t] = word.died]
  /\ UNCHANGED <<word, queue, piOwner, listed, pending, deaths, signals>>

\* robust_op_add
Add(t) ==
  /\ Move(t, "add", "end")
  /\ listed' = [listed EXCEPT ![t] = TRUE]
  /\ UNCHANGED <<word, queue, piOwner, pending, repairs, deaths, signals>>

\* robust_op_end; lock() returns true, or repairs the mutex.
End(t) ==
  /\ Move(t, "end", IF repairs[t] THEN "repair" ELSE "critical")
  /\ pending' = [pending EXCEPT ![t] = FALSE]
  /\ UNCHANGED <<word, queue, piOwner, listed, repairs, deaths, signals>>

\* a0_mtx_consistent
Repair(t) ==
  /\ Move(t, "repair", "unlock")
  /\ word' = [word EXCEPT !.died = FALSE]
  /\ UNCHANGED <<queue, piOwner, listed, pending, repairs, deaths, signals>>

-----------------------------------------------------------------------------
(***************************************************************************)
(* unlock(): a0_mtx_unlock, at the end of the critical section or of a     *)
(* repair.                                                                 *)
(***************************************************************************)
Leave(t) ==
  /\ Move(t, "critical", "unlock")
  /\ UNCHANGED <<word, queue, piOwner, listed, pending, repairs, deaths, signals>>

\* EPERM for all but the owner; robust_op_start.
Unlock(t) ==
  /\ Move(t, "unlock", IF word.tid = t THEN "del" ELSE "idle")
  /\ pending' = [pending EXCEPT ![t] = word.tid = t]
  /\ UNCHANGED <<word, queue, piOwner, listed, repairs, deaths, signals>>

\* robust_op_del
Del(t) ==
  /\ Move(t, "del", "release")
  /\ listed' = [listed EXCEPT ![t] = FALSE]
  /\ UNCHANGED <<word, queue, piOwner, pending, repairs, deaths, signals>>

\* new_val: a mutex that is still marked is given up for good.
NewValue == IF word.died THEN Word(NotRecoverable, FALSE, TRUE) ELSE Free

\* Slip: the word is simply stored, whether somebody waits or not.
ReleaseBlindly(t) ==
  /\ Move(t, "release", "done")
  /\ word' = NewValue
  /\ UNCHANGED <<queue, piOwner, listed, pending, repairs, deaths, signals>>

\* The compare-and-swap: it fails when a bit is set besides the id.
Release(t) ==
  /\ pc[t] = "release" /\ t \notin killed
  /\ word' = IF word = Word(t, FALSE, FALSE) THEN NewValue ELSE word
  /\ pc' = [pc EXCEPT ![t] =
              IF word = Word(t, FALSE, FALSE) THEN "done" ELSE "handover"]
  /\ UNCHANGED <<killed, queue, piOwner, listed, pending, repairs, deaths, signals>>

\* The first waiter becomes the owner.
HandOver(died) ==
  /\ word' = Word(Head(queue), TRUE, died)
  /\ queue' = Tail(queue)
  /\ piOwner' = IF Tail(queue) = <<>> THEN Nobody ELSE Head(queue)

\* FUTEX_UNLOCK_PI, and then the bits of ENOTRECOVERABLE if it was marked.
UnlockPi(t) ==
  /\ Move(t, "handover", "done")
  /\ \/ /\ queue # <<>> /\ ~word.died
        /\ HandOver(FALSE)
     \/ /\ queue = <<>> \/ word.died
        /\ word' = NewValue
        /\ UNCHANGED <<queue, piOwner>>
  /\ UNCHANGED <<listed, pending, repairs, deaths, signals>>

\* robust_op_end; after a repair lock() starts over.
Done(t) ==
  /\ Move(t, "done", IF repairs[t] THEN "start" ELSE "idle")
  /\ pending' = [pending EXCEPT ![t] = FALSE]
  /\ repairs' = [repairs EXCEPT ![t] = FALSE]
  /\ UNCHANGED <<word, queue, piOwner, listed, deaths, signals>>

-----------------------------------------------------------------------------
(***************************************************************************)
(* Deaths.                                                                 *)
(***************************************************************************)
Kill(p) ==
  /\ deaths < DeathStop
  /\ \A t \in p : pc[t] \in Alive
  /\ p \intersect killed = {}
  /\ deaths' = deaths + 1
  /\ UNCHANGED signals
  /\ killed' = killed \union p
  /\ UNCHANGED <<word, queue, piOwner, listed, pending, pc, repairs>>

\* The kernel's walk over the robust list and the pending operation: a word
\* that holds the thread's id loses it and is marked.
ExitRobust(t) ==
  /\ t \in killed
  /\ killed' = killed \ {t}
  /\ pc' = [pc EXCEPT ![t] = "exiting"]
  /\ Dequeue(t)
  /\ word' = IF word.tid = t /\ (listed[t] \/ pending[t])
             THEN Word(Nobody, word.waiters, TRUE) ELSE word
  /\ UNCHANGED <<listed, pending, repairs, deaths, signals>>

\* Then what it owned for waiters in the kernel goes to the first of them.
ExitPi(t) ==
  /\ Move(t, "exiting", "dead")
  /\ \/ piOwner = t /\ HandOver(TRUE)
     \/ piOwner # t /\ UNCHANGED <<word, queue, piOwner>>
  /\ UNCHANGED <<listed, pending, repairs, deaths, signals>>

\* The process is started again; a thread may get the id of an earlier one.
Restart(p) ==
  /\ \A t \in p : pc[t] = "dead"
  /\ pc' = [t \in Thread |-> IF t \in p THEN "idle" ELSE pc[t]]
  /\ listed' = [t \in Thread |-> t \notin p /\ listed[t]]
  /\ pending' = [t \in Thread |-> t \notin p /\ pending[t]]
  /\ repairs' = [t \in Thread |-> t \notin p /\ repairs[t]]
  /\ UNCHANGED <<word, queue, piOwner, killed, deaths, signals>>

-----------------------------------------------------------------------------
Locking(t) ==
  \/ Start(t) \/ Try(t) \/ LockFree(t) \/ LockOwned(t) \/ Wake(t)
  \/ Check(t) \/ Add(t) \/ End(t) \/ Repair(t)

Unlocking(t) ==
  \/ Leave(t) \/ Unlock(t) \/ Del(t) \/ Release(t) \/ UnlockPi(t) \/ Done(t)

Work(t) == Locking(t) \/ Unlocking(t) \/ ExitRobust(t) \/ ExitPi(t)

Next ==
  \/ \E t \in Thread : Call(t) \/ Work(t) \/ Interrupt(t)
  \/ \E p \in Process : Kill(p) \/ Restart(p)

Spec == Init /\ [][Next]_vars

\* A thread that can run is scheduled, also while it exits.  Nothing makes
\* it call lock(), and nothing kills or restarts a process.
Fairness == \A t \in Thread : WF_vars(Work(t))

FairSpec == Spec /\ Fairness

-----------------------------------------------------------------------------
(***************************************************************************)
(* Properties.                                                             *)
(***************************************************************************)
\* The bits are set beside an owner, or left by one that died.
WordType ==
  {w \in [tid : Thread \union {Nobody, NotRecoverable},
          waiters : BOOLEAN, died : BOOLEAN] :
     w.waiters => w.tid # Nobody \/ w.died}

TypeOK ==
  /\ word \in WordType
  /\ queue \in Seq(Thread)
  /\ piOwner \in Thread \union {Nobody}
  /\ listed \in [Thread -> BOOLEAN]
  /\ pending \in [Thread -> BOOLEAN]
  /\ pc \in [Thread -> Places]
  /\ killed \subseteq Thread
  /\ repairs \in [Thread -> BOOLEAN]
  /\ deaths \in 0..DeathStop /\ signals \in 0..SignalStop

\* At every instant a death can be repaired: whoever the word names, however
\* far it is in lock() or unlock(), the kernel finds the mutex on its robust
\* list or announced as pending, and it has not exited unnoticed.
DeathsAreSeen ==
  \A t \in Thread : word.tid = t =>
    (listed[t] \/ pending[t]) /\ pc[t] \notin {"exiting", "dead", "idle"}

\* A mutex marked by a death is repaired before it is unlocked: it never
\* becomes unusable for everybody (ENOTRECOVERABLE).
StaysRecoverable == word.tid # NotRecoverable

\* Nobody waits in the kernel for a lock that nobody will hand over: while
\* the queue is not empty, the kernel's owner has yet to unlock or to exit.
WaitersHaveOwner ==
  queue # <<>> =>
    /\ piOwner \in Thread
    /\ piOwner = word.tid \/ (pc[piOwner] = "exiting" /\ word.died)

\* What the word, the kernel's queue and the robust lists have in common at
\* every instant of every call and death.
MutexInv == TypeOK /\ DeathsAreSeen /\ StaysRecoverable /\ WaitersHaveOwner

\* A thread that called lock() gets the mutex, or is killed, however many
\* owners died before; so does one that waits behind others.
LockReturns ==
  \A t \in Thread : pc[t] = "start" ~> pc[t] \in {"critical", "dead"}
===========================================================================
