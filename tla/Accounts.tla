----------------------------- MODULE Accounts -----------------------------
(***************************************************************************)
(* One user name of one application directory (backend/src/User.cpp and    *)
(* Instance.cpp), as the processes of the machine share it: the three      *)
(* directories, the user's file, and the mutex that Register and Login     *)
(* take, which is named after the path the process was given.              *)
(*                                                                         *)
(* A step is one system call on the directories or the file, or one on the *)
(* mutex: MaintainDirs holds no lock, and a process can die between any    *)
(* two.  A key is the hash of a password, taken to be injective.           *)
(***************************************************************************)
EXTENDS Naturals, FiniteSets

CONSTANTS
  Proc,       \* processes (each may run again after it exits or dies)
  Path,       \* the spellings of the application directory's path
  Starts,     \* which process may have been started with which
  Password,
  NoProc, OwnerDied, NoFile, EmptyFile, NoKey

VARIABLES
  pathOf,     \* the spelling each process was started with
  dirs,       \* the directories that exist
  file,       \* the user's file: NoFile, EmptyFile, or the key it holds
  lock,       \* the mutex of each spelling: its owner, NoProc, or OwnerDied
  pc,         \* where each process is
  level,      \* the directory its MaintainDirs is at, the first when it is not
  call,       \* the call it makes, Create when it makes none
  password,   \* the password of a call that has the mutex, or NoKey
  result,     \* what its call is about to return, once that is decided
  token,      \* the key of the User it holds, or NoKey
  keyLost,    \* (history) did a key's write fail, or its process die at it?
  misread     \* (history) did Register fail to open a file that was there?

apart == <<pathOf, keyLost, misread>>
vars == <<dirs, file, lock, pc, level, call, password, result, token, apart>>

\* MaintainDirs goes through the directories in this order; the user's file
\* is in the second one.
AppDir == 1
UserDir == 2
ScheduleDir == 3
Dir == AppDir..ScheduleDir

CallNames == {"Create", "Register", "Login"}
Results == {"none", "kSuccess", "kFileIOError", "kUserAlreadyExist",
            "kUserNotFound", "kUserWrongPassword"}
Inside == {"probe", "open", "write", "read", "unlock"}
Places == Inside \union {"test", "make", "wait", "ready"}

AccountsConstants ==
  /\ Starts \subseteq [Proc -> Path]
  /\ NoProc \notin Proc /\ OwnerDied \notin Proc /\ NoProc # OwnerDied
  /\ NoFile \notin Password /\ EmptyFile \notin Password
  /\ NoFile # EmptyFile /\ NoKey \notin Password

\* No file yet, and as many of the directories as an earlier run, or
\* somebody's mkdir, left: never one without the directory above both.
Init ==
  /\ pathOf \in Starts
  /\ dirs \in {d \in SUBSET Dir : d # {} => AppDir \in d}
  /\ file = NoFile
  /\ lock = [h \in Path |-> NoProc]
  /\ pc = [p \in Proc |-> "out"]
  /\ level = [p \in Proc |-> AppDir]
  /\ call = [p \in Proc |-> "Create"]
  /\ password = [p \in Proc |-> NoKey]
  /\ result = [p \in Proc |-> "none"]
  /\ token = [p \in Proc |-> NoKey]
  /\ keyLost = FALSE
  /\ misread = FALSE

Goto(p, from, to) == pc[p] = from /\ pc' = [pc EXCEPT ![p] = to]
Answer(p, error) == result' = [result EXCEPT ![p] = error]

-----------------------------------------------------------------------------
(***************************************************************************)
(* MaintainDirs: exists, and create_directory when it does not.            *)
(***************************************************************************)
\* The process starts, and creates its Instance.
Create(p) ==
  /\ Goto(p, "out", "test")
  /\ call' = [call EXCEPT ![p] = "Create"]
  /\ UNCHANGED <<dirs, file, lock, level, password, result, token, apart>>

\* Its user registers or logs in.
Enter(p) ==
  /\ Goto(p, "ready", "test")
  /\ \E c \in CallNames \ {"Create"} : call' = [call EXCEPT ![p] = c]
  /\ UNCHANGED <<dirs, file, lock, level, password, result, token, apart>>

\* MaintainDirs returned true, or looks at the next directory.
NextLevel(p) ==
  /\ IF level[p] < ScheduleDir
     THEN /\ level' = [level EXCEPT ![p] = @ + 1]
          /\ pc' = [pc EXCEPT ![p] = "test"]
     ELSE /\ level' = [level EXCEPT ![p] = AppDir]
          /\ pc' = [pc EXCEPT ![p] = IF call[p] = "Create" THEN "ready" ELSE "wait"]
  /\ UNCHANGED call

\* The call is over.
Forget(p) == call' = [call EXCEPT ![p] = "Create"]

\* MaintainDirs returned false: Create returns null and the process is of no
\* use any more, Register and Login return kFileIOError at once.
MaintainFails(p) ==
  /\ pc' = [pc EXCEPT ![p] = IF call[p] = "Create" THEN "out" ELSE "ready"]
  /\ level' = [level EXCEPT ![p] = AppDir]
  /\ Forget(p)

\* Slip: a directory that is missing is passed over.
TestDirOnly(p) ==
  /\ pc[p] = "test"
  /\ NextLevel(p)
  /\ UNCHANGED <<dirs, file, lock, password, result, token, apart>>

\* What is there may also not be a directory, and exists() may throw.
TestDir(p) ==
  /\ pc[p] = "test"
  /\ \/ level[p] \in dirs /\ NextLevel(p)
     \/ level[p] \notin dirs /\ Goto(p, "test", "make") /\ UNCHANGED <<level, call>>
     \/ MaintainFails(p)
  /\ UNCHANGED <<dirs, file, lock, password, result, token, apart>>

MakeDir(p) ==
  /\ pc[p] = "make"
  /\ level[p] \notin dirs
  /\ dirs' = dirs \union {level[p]}
  /\ NextLevel(p)
  /\ UNCHANGED <<file, lock, password, result, token, apart>>

\* create_directory returns false, or throws, for a directory that another
\* process has created since the test; it throws when mkdir fails.
MakeDirFails(p) ==
  /\ pc[p] = "make"
  /\ MaintainFails(p)
  /\ UNCHANGED <<dirs, file, lock, password, result, token, apart>>

-----------------------------------------------------------------------------
(***************************************************************************)
(* Register and Login, under the mutex of the user's path.                 *)
(***************************************************************************)
Free(p) == lock' = [lock EXCEPT ![pathOf[p]] = NoProc]

\* The password that was typed makes no difference before.
Begin(p) ==
  /\ \E w \in Password : password' = [password EXCEPT ![p] = w]
  /\ \/ call[p] = "Register" /\ Goto(p, "wait", "probe")
     \/ call[p] = "Login" /\ Goto(p, "wait", "read")

\* Slip: the scoped_lock is forgotten.
LockNothing(p) ==
  /\ Begin(p)
  /\ UNCHANGED <<dirs, file, lock, level, call, result, token, apart>>

Lock(p) ==
  /\ lock[pathOf[p]] = NoProc
  /\ lock' = [lock EXCEPT ![pathOf[p]] = p]
  /\ Begin(p)
  /\ UNCHANGED <<dirs, file, level, call, result, token, apart>>

\* Slip: EOWNERDEAD is treated as an error that cannot be repaired.
RecoverNever(p) == FALSE /\ UNCHANGED vars

\* EOWNERDEAD: made consistent, unlocked, tried again.
Recover(p) ==
  /\ pc[p] = "wait"
  /\ lock[pathOf[p]] = OwnerDied
  /\ Free(p)
  /\ UNCHANGED <<dirs, file, pc, level, call, password, result, token, apart>>

\* Slip: Register does not look for the file.
ProbeNever(p) ==
  /\ Goto(p, "probe", "open")
  /\ UNCHANGED <<dirs, file, lock, level, call, password, result, token, apart>>

\* Register: the file can be opened for reading, or not.  That it cannot is
\* taken for a name that is free, for whatever reason the open failed.
Probe(p) ==
  /\ \/ /\ file # NoFile
        /\ Goto(p, "probe", "unlock")
        /\ Answer(p, "kUserAlreadyExist")
        /\ UNCHANGED misread
     \/ /\ Goto(p, "probe", "open")
        /\ misread' = (misread \/ file # NoFile)
        /\ UNCHANGED result
  /\ UNCHANGED <<pathOf, keyLost, dirs, file, lock, level, call, password, token>>

\* ofstream: created, or truncated.
Open(p) ==
  /\ Goto(p, "open", "write")
  /\ UserDir \in dirs
  /\ file' = EmptyFile
  /\ UNCHANGED <<dirs, lock, level, call, password, result, token, apart>>

OpenFails(p) ==
  /\ Goto(p, "open", "unlock")
  /\ Answer(p, "kFileIOError")
  /\ UNCHANGED <<dirs, file, lock, level, call, password, token, apart>>

\* The token is returned from here on: Register looks at no error any more.
Succeed(p) ==
  /\ Answer(p, "kSuccess")
  /\ token' = [token EXCEPT ![p] = password[p]]

\* The buffered key goes to the file when the stream is destroyed, which is
\* before the mutex is unlocked.
Write(p) ==
  /\ Goto(p, "write", "unlock")
  /\ \/ file' = password[p] /\ UNCHANGED keyLost
     \/ keyLost' = TRUE /\ UNCHANGED file
  /\ Succeed(p)
  /\ UNCHANGED <<pathOf, misread, dirs, lock, level, call, password>>

\* Login: the file is read and compared with the key.  An open that fails is
\* taken for a user who is not there, what a failing read leaves for a key.
Read(p) ==
  /\ Goto(p, "read", "unlock")
  /\ \/ file = password[p] /\ Succeed(p)
     \/ Answer(p, "kUserNotFound") /\ UNCHANGED token
     \/ file # NoFile /\ Answer(p, "kUserWrongPassword") /\ UNCHANGED token
  /\ UNCHANGED <<dirs, file, lock, level, call, password, apart>>

\* The scoped_lock goes out of scope and the call returns.
Unlock(p) ==
  /\ Goto(p, "unlock", "ready")
  /\ Free(p)
  /\ Answer(p, "none") /\ Forget(p)
  /\ password' = [password EXCEPT ![p] = NoKey]
  /\ UNCHANGED <<dirs, file, level, token, apart>>

-----------------------------------------------------------------------------
\* The process ends, or is killed: a mutex it owns is left marked.
Crash(p) ==
  /\ pc[p] \in Places
  /\ pc' = [pc EXCEPT ![p] = "out"]
  /\ keyLost' = (keyLost \/ pc[p] = "write")
  /\ lock' = [h \in Path |-> IF lock[h] = p THEN OwnerDied ELSE lock[h]]
  /\ token' = [token EXCEPT ![p] = NoKey]
  /\ level' = [level EXCEPT ![p] = AppDir]
  /\ Answer(p, "none") /\ Forget(p)
  /\ password' = [password EXCEPT ![p] = NoKey]
  /\ UNCHANGED <<pathOf, misread, dirs, file>>

Work(p) ==
  \/ TestDir(p) \/ MakeDir(p) \/ MakeDirFails(p)
  \/ Recover(p)
  \/ Probe(p) \/ Open(p) \/ OpenFails(p) \/ Write(p)
  \/ Read(p)
  \/ Unlock(p)

Next == \E p \in Proc : Create(p) \/ Enter(p) \/ Lock(p) \/ Work(p) \/ Crash(p)

Spec == Init /\ [][Next]_vars

\* As for the schedule's mutex: a running process is scheduled, and the
\* kernel hands the mutex to a waiter.
Fairness == \A p \in Proc : WF_vars(Work(p)) /\ SF_vars(Lock(p))

FairSpec == Spec /\ Fairness

-----------------------------------------------------------------------------
(***************************************************************************)
(* Properties.                                                             *)
(***************************************************************************)
AccountsTypeOK ==
  /\ pathOf \in [Proc -> Path] /\ keyLost \in BOOLEAN /\ misread \in BOOLEAN
  /\ dirs \subseteq Dir
  /\ file \in Password \union {NoFile, EmptyFile}
  /\ lock \in [Path -> Proc \union {NoProc, OwnerDied}]
  /\ pc \in [Proc -> Places \union {"out"}]
  /\ level \in [Proc -> Dir]
  /\ call \in [Proc -> CallNames]
  /\ password \in [Proc -> Password \union {NoKey}]
  /\ result \in [Proc -> Results]
  /\ token \in [Proc -> Password \union {NoKey}]

\* What the next ones rely on, and the code does not see to: all processes
\* were given the same spelling of the directory, so that they share a mutex,
\* and every key got into the file that was created for it.
OneSpelling == \A p, q \in Proc : pathOf[p] = pathOf[q]
Sound == OneSpelling /\ ~keyLost

\* Every token, whoever registered or logged in for it and whoever died
\* meanwhile, carries the key the user's file holds (User::m_key, from which
\* Schedule encrypts the list): no two processes hold one user's schedule
\* under two keys.  It holds as long as Register could open every file that
\* was there.
TokenHasFileKey ==
  Sound /\ ~misread => \A p \in Proc : token[p] # NoKey => token[p] = file

\* A key that is stored is never replaced or lost, as long as Register could
\* open every file that was there: Register of a name that is taken changes
\* nothing, however two calls interleave and whatever was lost before.
KeyKept ==
  [][OneSpelling /\ ~misread /\ file \in Password => file' = file]_file

\* A name is registered once ("User already exists"): all who hold a token
\* for it came with one password.  Register, which takes a file that it cannot
\* open for one that is not there, does not see to it.
RegisteredOnce ==
  Sound => \A p, q \in Proc :
    token[p] # NoKey /\ token[q] # NoKey => token[p] = token[q]

\* Whoever is told that the user exists, or that the password is wrong, is
\* told so of a user with a password: nobody sees the file between the step
\* that creates it and the one that fills it.
ExistsMeansUsable ==
  Sound => \A p \in Proc :
    pc[p] = "unlock" /\ result[p] \in {"kUserAlreadyExist", "kUserWrongPassword"}
      => file \in Password

\* Whoever got a token finds the directories of the user and of the schedule
\* files, whatever other processes made of them: Schedule can store its file.
DirsThere ==
  \A p \in Proc : token[p] # NoKey => dirs = Dir

\* The types, and the directories behind every token.
AccountsInv == AccountsTypeOK /\ DirsThere

\* A call that was made returns, or its process dies.
CallReturns ==
  \A p \in Proc : pc[p] \in Places \ {"ready"} ~> pc[p] \in {"ready", "out"}
===========================================================================
