----------------------------- MODULE RobustLock -----------------------------
(***************************************************************************)
(* What a robust mutex promises to those who share it, and what Schedule   *)
(* and Accounts take from it: one owner, who is the only one inside; an    *)
(* owner that dies leaves a mark, and the next to want the lock removes    *)
(* it.  Whoever leaves may hand the lock on to one who waits, which those  *)
(* modules see as an unlock and a lock.                                    *)
(***************************************************************************)
CONSTANTS Thread, Nobody, OwnerDied

VARIABLES
  lock,    \* the owner, Nobody, or OwnerDied
  want,    \* the threads that called lock() and are not back
  inside   \* the threads for which it returned

vars == <<lock, want, inside>>

Init == lock = Nobody /\ want = {} /\ inside = {}

Call(t) ==
  /\ t \notin want \union inside
  /\ want' = want \union {t}
  /\ UNCHANGED <<lock, inside>>

Take(t) ==
  /\ lock = Nobody
  /\ t \in want
  /\ lock' = t
  /\ UNCHANGED <<want, inside>>

Enter(t) ==
  /\ lock = t
  /\ t \in want
  /\ want' = want \ {t}
  /\ inside' = inside \union {t}
  /\ UNCHANGED lock

Leave(t) ==
  /\ t \in inside
  /\ inside' = inside \ {t}
  /\ UNCHANGED <<lock, want>>

\* The owner is out and lets go.
Release(t) ==
  /\ lock = t
  /\ t \notin want \union inside
  /\ lock' \in {Nobody} \union want
  /\ UNCHANGED <<want, inside>>

\* Somebody who wants the lock removes the mark; he gets no advantage by it.
Recover ==
  /\ lock = OwnerDied
  /\ want # {}
  /\ lock' \in {Nobody} \union want
  /\ UNCHANGED <<want, inside>>

\* A thread dies wherever it is.
Die(t) ==
  /\ lock' = IF lock = t THEN OwnerDied ELSE lock
  /\ want' = want \ {t}
  /\ inside' = inside \ {t}

Next ==
  \/ \E t \in Thread :
       Call(t) \/ Take(t) \/ Enter(t) \/ Leave(t) \/ Release(t) \/ Die(t)
  \/ Recover

Spec == Init /\ [][Next]_vars
===========================================================================
