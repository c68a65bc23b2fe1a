------------------------------ MODULE MCMutex ------------------------------
(***************************************************************************)
(* The mutex, its name, and those who take it: an instance of RobustMutex  *)
(* (a window with two threads, and another process), one of NamedMutex,    *)
(* and one of Accounts (two processes and two passwords; the processes     *)
(* were given one spelling of the directory, or two as "dir" and "./dir",  *)
(* which absolute() does not make one).  They share no state: each is      *)
(* explored while the others rest.  NamedMutex and Accounts use of the     *)
(* mutex only that it is a RobustLock.                                     *)
(***************************************************************************)
EXTENDS RobustMutexImplements

CONSTANTS
  t1, t2, t3,
  Opener, Segment, None, HandleStop,
  OpenerStop,  \* bound: NamedMutex's processes that die
  Proc, Path, Starts, Password, NoFile, EmptyFile, NoKey

VARIABLES
  part,   \* the one that is explored
  name, lock, ref, at, handles, doing, crashes, raced,
  pathOf, dirs, userFile, mutex, place, level, call, password, result, token,
  keyLost, misread

Three == {{t1, t2}, {t3}}

Named == INSTANCE NamedMutex WITH
  Process <- Opener, DeathStop <- OpenerStop, pc <- doing, deaths <- crashes

Users == INSTANCE Accounts WITH
  NoProc <- Nobody, file <- userFile, lock <- mutex, pc <- place

namedVars == <<name, lock, ref, at, handles, doing, crashes, raced>>

usersVars ==
  <<pathOf, dirs, userFile, mutex, place, level, call, password, result, token,
    keyLost, misread>>

ASSUME NamedConstants == Named!NamedMutexConstants
ASSUME UsersConstants == Users!AccountsConstants

\* The processes are alike, and so are the spellings.
OneStart == {CHOOSE f \in [Proc -> Path] : \A p, q \in Proc : f[p] = f[q]}
TwoStart == {CHOOSE f \in [Proc -> Path] : \A p, q \in Proc : f[p] = f[q] => p = q}
MCStarts == OneStart \union TwoStart

\* Where the accounts rest, one of their initial states stands for all.
MCInit ==
  /\ Init /\ Named!Init /\ Users!Init
  /\ part \in {"robust", "named", "accounts"}
  /\ part # "accounts" => pathOf \in OneStart /\ dirs = {}

MCNext ==
  \/ part = "robust" /\ Next /\ UNCHANGED <<part, namedVars, usersVars>>
  \/ part = "named" /\ Named!Next /\ UNCHANGED <<part, vars, usersVars>>
  \/ part = "accounts" /\ Users!Next /\ UNCHANGED <<part, vars, namedVars>>

\* The fairness of each where it is explored.
MCSpec ==
  /\ MCInit /\ [][MCNext]_<<part, vars, namedVars, usersVars>>
  /\ \A t \in Thread : WF_vars(part = "robust" /\ Work(t))
  /\ \A p \in Proc : /\ WF_usersVars(part = "accounts" /\ Users!Work(p))
                    /\ SF_usersVars(part = "accounts" /\ Users!Lock(p))

\* One process at a time is between lock() and unlock() of a name, until an
\* open has raced with another or with a close.
MutualExclusion == Named!MutualExclusion

\* The same whatever races.
Exclusive == Named!Exclusive

\* All who have the name open have the segment that it is linked to, until an
\* open has raced, and no lock is left held by a process that has gone.
NamedInv == Named!NamedInv

\* Types, and the directories behind every token.
AccountsInv == Users!AccountsInv

\* Every token carries the key that the user's file holds.
TokenHasFileKey == Users!TokenHasFileKey

\* A key that is stored is never replaced or lost.
KeyKept == Users!KeyKept

\* Nobody is told of a user that has no key yet.
ExistsMeansUsable == Users!ExistsMeansUsable

\* A name is registered once.
RegisteredOnce == Users!RegisteredOnce

\* Create, Register and Login return, or their process dies.
CallReturns == Users!CallReturns
============================================================================
