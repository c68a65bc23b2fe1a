----------------------- MODULE RobustMutexImplements -----------------------
(***************************************************************************)
(* RobustMutex implements RobustLock.                                      *)
(***************************************************************************)
EXTENDS RobustMutex

CONSTANT OwnerDied

ASSUME OwnerDiedIsNobody == OwnerDied \notin Thread \union {Nobody}

\* From EOWNERDEAD to the end of the unlock, the lock is still marked.
Owner ==
  IF word.died \/ (word.tid \in Thread /\ repairs[word.tid])
  THEN OwnerDied ELSE word.tid

\* In lock(), which unlocks what it repaired.
Wanting ==
  {t \in Thread : pc[t] \in InLock \/ (repairs[t] /\ pc[t] \in InUnlock)}

Abstract == INSTANCE RobustLock WITH
  lock <- Owner, want <- Wanting,
  inside <- {t \in Thread : pc[t] = "critical"}

\* One owner at a time, who is the only thread in the critical section; a
\* death leaves a mark that exactly the next who wants the lock removes.
ImplementsRobustLock == Abstract!Spec
===========================================================================
