--------------------------- MODULE AccountsProofs ---------------------------
(***************************************************************************)
(* What Register and Login promise, for any number of processes, spellings *)
(* and passwords, failures and deaths: proofs about Accounts, as MCMutex   *)
(* instantiates it.                                                        *)
(***************************************************************************)
EXTENDS MCMutex, TLAPS

\* Who is between Lock and Unlock owns the mutex of its spelling and has a
\* password, and nobody else owns one.
LockInv ==
  /\ \A p \in Proc : place[p] \in Users!Inside =>
       mutex[pathOf[p]] = p /\ password[p] \in Password
  /\ \A h \in Path : mutex[h] \in Proc =>
       place[mutex[h]] \in Users!Inside /\ pathOf[mutex[h]] = h

\* The directories that MaintainDirs has passed are there; it starts at the
\* first one.
DirInv ==
  \A p \in Proc :
    /\ place[p] \in {"test", "make"} =>
         Users!AppDir..(level[p] - 1) \subseteq dirs
    /\ place[p] \notin {"test", "make"} => level[p] = Users!AppDir
    /\ place[p] \in Users!Inside \union {"wait"} => dirs = Users!Dir

\* With one spelling the file is what the process inside has made of it, and
\* one it is about to create is not there, unless it misread.
FileInv ==
  Users!OneSpelling => \A p \in Proc :
    /\ place[p] = "open" /\ ~misread => userFile = NoFile
    /\ place[p] = "write" => userFile = EmptyFile

\* And with no key lost, a file without a key has somebody who writes it.
KeyInv ==
  Users!Sound =>
    /\ userFile = EmptyFile => \E p \in Proc : place[p] = "write"
    /\ ~misread => \A p \in Proc : token[p] # NoKey => token[p] = userFile

Inv ==
  /\ Users!AccountsTypeOK /\ LockInv /\ DirInv /\ Users!DirsThere
  /\ FileInv /\ KeyInv /\ Users!ExistsMeansUsable

\* Two processes inside have two spellings.
LEMMA OneInside ==
  ASSUME Users!AccountsTypeOK, LockInv, Users!OneSpelling,
         NEW p \in Proc, NEW q \in Proc,
         place[p] \in Users!Inside, place[q] \in Users!Inside
  PROVE  p = q
  BY DEF Users!AccountsTypeOK, LockInv, Users!OneSpelling

LEMMA DirsAre ==
  /\ Users!Dir = 1..3 /\ Users!Dir = {1, 2, 3}
  /\ Users!AppDir = 1 /\ Users!UserDir = 2 /\ Users!ScheduleDir = 3
  BY DEF Users!Dir, Users!AppDir, Users!ScheduleDir, Users!UserDir

LEMMA InitInv ==
  ASSUME Users!Init
  PROVE  Inv
  <1>1. Users!AccountsTypeOK
    BY UsersConstants, DirsAre
       DEF Users!AccountsConstants, Users!Init, Users!AccountsTypeOK,
           Users!Places, Users!Inside, Users!CallNames, Users!Results
  <1>2. /\ LockInv /\ DirInv /\ Users!DirsThere /\ FileInv /\ KeyInv
        /\ Users!ExistsMeansUsable
    BY UsersConstants
       DEF Users!AccountsConstants, Users!Init, LockInv, DirInv,
           Users!DirsThere, FileInv, KeyInv, Users!ExistsMeansUsable,
           Users!Inside, Users!Places
  <1> QED BY <1>1, <1>2 DEF Inv

LEMMA StepInv ==
  ASSUME Inv, NEW p \in Proc,
         \/ Users!Create(p) \/ Users!Enter(p) \/ Users!Lock(p)
         \/ Users!Work(p) \/ Users!Crash(p)
  PROVE  Inv'
  <1> USE UsersConstants, DirsAre
      DEF Inv, Users!apart, Users!AccountsConstants
  <1>1. CASE Users!Create(p)
    <2>1. Users!AccountsTypeOK'
      BY <1>1
         DEF Users!Create, Users!Goto, Users!AccountsTypeOK, Users!Places,
             Users!Inside, Users!CallNames, Users!Results
    <2>2. LockInv'
      BY <1>1
         DEF Users!Create, Users!Goto, LockInv, Users!AccountsTypeOK,
             Users!Inside
    <2>3. (DirInv /\ Users!DirsThere)'
      BY <1>1
         DEF Users!Create, Users!Goto, DirInv, Users!DirsThere,
             Users!AccountsTypeOK, Users!Inside, Users!Places
    <2>4. (FileInv /\ KeyInv /\ Users!ExistsMeansUsable)'
      BY <1>1, OneInside
         DEF Users!Create, Users!Goto, FileInv, KeyInv,
             Users!ExistsMeansUsable, Users!Sound, Users!OneSpelling,
             Users!AccountsTypeOK, Users!Inside
    <2> QED BY <2>1, <2>2, <2>3, <2>4
  <1>2. CASE Users!Enter(p)
    <2>1. Users!AccountsTypeOK'
      BY <1>2
         DEF Users!Enter, Users!Goto, Users!AccountsTypeOK, Users!Places,
             Users!Inside, Users!CallNames, Users!Results
    <2>2. LockInv'
      BY <1>2
         DEF Users!Enter, Users!Goto, LockInv, Users!AccountsTypeOK,
             Users!Inside
    <2>3. (DirInv /\ Users!DirsThere)'
      BY <1>2
         DEF Users!Enter, Users!Goto, DirInv, Users!DirsThere,
             Users!AccountsTypeOK, Users!Inside, Users!Places
    <2>4. (FileInv /\ KeyInv /\ Users!ExistsMeansUsable)'
      BY <1>2, OneInside
         DEF Users!Enter, Users!Goto, FileInv, KeyInv,
             Users!ExistsMeansUsable, Users!Sound, Users!OneSpelling,
             Users!AccountsTypeOK, Users!Inside
    <2> QED BY <2>1, <2>2, <2>3, <2>4
  <1>3. CASE Users!TestDir(p)
    <2>1. Users!AccountsTypeOK'
      BY <1>3
         DEF Users!TestDir, Users!NextLevel, Users!MaintainFails,
             Users!Forget, Users!Goto, Users!AccountsTypeOK, Users!Places,
             Users!Inside, Users!CallNames, Users!Results
    <2>2. LockInv'
      BY <1>3
         DEF Users!TestDir, Users!NextLevel, Users!MaintainFails,
             Users!Forget, Users!Goto, LockInv, Users!AccountsTypeOK,
             Users!Inside
    <2>a. dirs' = dirs /\ dirs \subseteq 1..3 /\ level[p] \in 1..3
          /\ 1..(level[p] - 1) \subseteq dirs
      BY <1>3 DEF Users!TestDir, DirInv, Users!AccountsTypeOK
    <2>b. level[p] \in dirs => 1..level[p] \subseteq dirs
      BY <2>a
    <2>c. level[p] = 3 /\ level[p] \in dirs => dirs = Users!Dir
      BY <2>a, <2>b DEF Users!Dir, Users!AppDir, Users!ScheduleDir
    <2>d. \/ level' = level
          \/ level' = [level EXCEPT ![p] = Users!AppDir]
          \/ level' = [level EXCEPT ![p] = @ + 1] /\ level[p] \in dirs
      BY <1>3 DEF Users!TestDir, Users!NextLevel, Users!MaintainFails
    <2>3. (DirInv /\ Users!DirsThere)'
      BY <1>3, <2>a, <2>b, <2>c, <2>d
         DEF Users!TestDir, Users!NextLevel, Users!MaintainFails,
             Users!Forget, Users!Goto, DirInv, Users!DirsThere,
             Users!AccountsTypeOK, Users!Inside, Users!Places
    <2>4. (FileInv /\ KeyInv /\ Users!ExistsMeansUsable)'
      BY <1>3, OneInside
         DEF Users!TestDir, Users!NextLevel, Users!MaintainFails,
             Users!Forget, Users!Goto, FileInv, KeyInv,
             Users!ExistsMeansUsable, Users!Sound, Users!OneSpelling,
             Users!AccountsTypeOK, Users!Inside
    <2> QED BY <2>1, <2>2, <2>3, <2>4
  <1>4. CASE Users!MakeDir(p)
    <2>a. /\ dirs' = dirs \union {level[p]}
          /\ dirs \subseteq 1..3 /\ level[p] \in 1..3
          /\ 1..(level[p] - 1) \subseteq dirs
      BY <1>4 DEF Users!MakeDir, DirInv, Users!AccountsTypeOK
    <2>f. \A i \in 1..level[p] : i \in 1..(level[p] - 1) \/ i = level[p]
      BY <2>a
    <2>b. 1..level[p] \subseteq dirs' /\ dirs' \subseteq 1..3
      BY <2>a, <2>f
    <2>c. level[p] = 3 => dirs' = Users!Dir
      BY <2>b
    <2>d. dirs = Users!Dir => dirs' = Users!Dir
      BY <2>a
    <2>e. \/ level' = [level EXCEPT ![p] = Users!AppDir]
          \/ level' = [level EXCEPT ![p] = @ + 1]
      BY <1>4 DEF Users!MakeDir, Users!NextLevel
    <2>1. Users!AccountsTypeOK'
      BY <1>4, <2>a, <2>b
         DEF Users!MakeDir, Users!NextLevel, Users!AccountsTypeOK,
             Users!Places, Users!Inside, Users!CallNames, Users!Results
    <2>2. LockInv'
      BY <1>4
         DEF Users!MakeDir, Users!NextLevel, LockInv, Users!AccountsTypeOK,
             Users!Inside
    <2>3. (DirInv /\ Users!DirsThere)'
      BY <1>4, <2>a, <2>b, <2>c, <2>d, <2>e
         DEF Users!MakeDir, Users!NextLevel, DirInv, Users!DirsThere,
             Users!AccountsTypeOK, Users!Inside, Users!Places
    <2>4. (FileInv /\ KeyInv /\ Users!ExistsMeansUsable)'
      BY <1>4, OneInside
         DEF Users!MakeDir, Users!NextLevel, FileInv, KeyInv,
             Users!ExistsMeansUsable, Users!Sound, Users!OneSpelling,
             Users!AccountsTypeOK, Users!Inside
    <2> QED BY <2>1, <2>2, <2>3, <2>4
  <1>5. CASE Users!MakeDirFails(p)
    <2>1. Users!AccountsTypeOK'
      BY <1>5
         DEF Users!MakeDirFails, Users!MaintainFails, Users!Forget,
             Users!AccountsTypeOK, Users!Places, Users!Inside,
             Users!CallNames, Users!Results
    <2>2. LockInv'
      BY <1>5
         DEF Users!MakeDirFails, Users!MaintainFails, Users!Forget, LockInv,
             Users!AccountsTypeOK, Users!Inside
    <2>3. (DirInv /\ Users!DirsThere)'
      BY <1>5
         DEF Users!MakeDirFails, Users!MaintainFails, Users!Forget, DirInv,
             Users!DirsThere, Users!AccountsTypeOK, Users!Inside,
             Users!Places
    <2>4. (FileInv /\ KeyInv /\ Users!ExistsMeansUsable)'
      BY <1>5, OneInside
         DEF Users!MakeDirFails, Users!MaintainFails, Users!Forget, FileInv,
             KeyInv, Users!ExistsMeansUsable, Users!Sound, Users!OneSpelling,
             Users!AccountsTypeOK, Users!Inside
    <2> QED BY <2>1, <2>2, <2>3, <2>4
  <1>6. CASE Users!Lock(p)
    <2>1. Users!AccountsTypeOK'
      BY <1>6, SMTT(30)
         DEF Users!Lock, Users!Begin, Users!Goto, Users!AccountsTypeOK,
             Users!Places, Users!Inside, Users!CallNames, Users!Results
    <2>2. LockInv'
      BY <1>6, SMTT(30)
         DEF Users!Lock, Users!Begin, Users!Goto, LockInv,
             Users!AccountsTypeOK, Users!Inside
    <2>3. (DirInv /\ Users!DirsThere)'
      BY <1>6
         DEF Users!Lock, Users!Begin, Users!Goto, DirInv, Users!DirsThere,
             Users!AccountsTypeOK, Users!Inside, Users!Places
    <2>4. (FileInv /\ KeyInv /\ Users!ExistsMeansUsable)'
      BY <1>6, OneInside
         DEF Users!Lock, Users!Begin, Users!Goto, FileInv, KeyInv,
             Users!ExistsMeansUsable, Users!Sound, Users!OneSpelling,
             Users!AccountsTypeOK, Users!Inside
    <2> QED BY <2>1, <2>2, <2>3, <2>4
  <1>7. CASE Users!Recover(p)
    <2>1. Users!AccountsTypeOK'
      BY <1>7
         DEF Users!Recover, Users!Free, Users!AccountsTypeOK, Users!Places,
             Users!Inside, Users!CallNames, Users!Results
    <2>2. LockInv'
      BY <1>7
         DEF Users!Recover, Users!Free, LockInv, Users!AccountsTypeOK,
             Users!Inside
    <2>3. (DirInv /\ Users!DirsThere)'
      BY <1>7
         DEF Users!Recover, Users!Free, DirInv, Users!DirsThere,
             Users!AccountsTypeOK, Users!Inside, Users!Places
    <2>4. (FileInv /\ KeyInv /\ Users!ExistsMeansUsable)'
      BY <1>7, OneInside
         DEF Users!Recover, Users!Free, FileInv, KeyInv,
             Users!ExistsMeansUsable, Users!Sound, Users!OneSpelling,
             Users!AccountsTypeOK, Users!Inside
    <2> QED BY <2>1, <2>2, <2>3, <2>4
  <1>8. CASE Users!Probe(p)
    <2>a. misread' \in BOOLEAN
      BY <1>8, Zenon DEF Users!Probe, Users!AccountsTypeOK
    <2>1. Users!AccountsTypeOK'
      BY <1>8, <2>a
         DEF Users!Probe, Users!Goto, Users!Answer, Users!AccountsTypeOK,
             Users!Places, Users!Inside, Users!CallNames, Users!Results
    <2>2. LockInv'
      BY <1>8
         DEF Users!Probe, Users!Goto, Users!Answer, LockInv,
             Users!AccountsTypeOK, Users!Inside
    <2>3. (DirInv /\ Users!DirsThere)'
      BY <1>8
         DEF Users!Probe, Users!Goto, Users!Answer, DirInv, Users!DirsThere,
             Users!AccountsTypeOK, Users!Inside, Users!Places
    <2>b. /\ ~misread' => ~misread
          /\ place[p] = "probe"
          /\ place'[p] = "open" /\ ~misread' => userFile = NoFile
      BY <1>8, Zenon DEF Users!Probe, Users!Goto, Users!AccountsTypeOK
    <2>c. /\ place' = [place EXCEPT ![p] = "unlock"]
             \/ place' = [place EXCEPT ![p] = "open"]
          /\ UNCHANGED <<pathOf, keyLost, userFile, token>>
      BY <1>8 DEF Users!Probe, Users!Goto
    <2>d. (FileInv /\ KeyInv)'
      BY <2>b, <2>c, OneInside
         DEF FileInv, KeyInv, Users!Sound, Users!OneSpelling,
             Users!AccountsTypeOK, Users!Inside
    <2>4. Users!ExistsMeansUsable'
      BY <1>8, <2>c, OneInside
         DEF Users!Probe, Users!Goto, Users!Answer, KeyInv,
             Users!ExistsMeansUsable, Users!Sound, Users!OneSpelling,
             Users!AccountsTypeOK, Users!Inside
    <2> QED BY <2>1, <2>2, <2>3, <2>d, <2>4
  <1>9. CASE Users!Open(p)
    <2>1. Users!AccountsTypeOK'
      BY <1>9
         DEF Users!Open, Users!Goto, Users!AccountsTypeOK, Users!Places,
             Users!Inside, Users!CallNames, Users!Results
    <2>2. LockInv'
      BY <1>9
         DEF Users!Open, Users!Goto, LockInv, Users!AccountsTypeOK,
             Users!Inside
    <2>3. (DirInv /\ Users!DirsThere)'
      BY <1>9
         DEF Users!Open, Users!Goto, DirInv, Users!DirsThere,
             Users!AccountsTypeOK, Users!Inside, Users!Places
    <2>4. (FileInv /\ KeyInv /\ Users!ExistsMeansUsable)'
      BY <1>9, OneInside
         DEF Users!Open, Users!Goto, FileInv, KeyInv, Users!ExistsMeansUsable,
             Users!Sound, Users!OneSpelling, Users!AccountsTypeOK,
             Users!Inside
    <2> QED BY <2>1, <2>2, <2>3, <2>4
  <1>10. CASE Users!OpenFails(p)
    <2>1. Users!AccountsTypeOK'
      BY <1>10
         DEF Users!OpenFails, Users!Goto, Users!Answer, Users!AccountsTypeOK,
             Users!Places, Users!Inside, Users!CallNames, Users!Results
    <2>2. LockInv'
      BY <1>10
         DEF Users!OpenFails, Users!Goto, Users!Answer, LockInv,
             Users!AccountsTypeOK, Users!Inside
    <2>3. (DirInv /\ Users!DirsThere)'
      BY <1>10
         DEF Users!OpenFails, Users!Goto, Users!Answer, DirInv,
             Users!DirsThere, Users!AccountsTypeOK, Users!Inside,
             Users!Places
    <2>4. (FileInv /\ KeyInv /\ Users!ExistsMeansUsable)'
      BY <1>10, OneInside
         DEF Users!OpenFails, Users!Goto, Users!Answer, FileInv, KeyInv,
             Users!ExistsMeansUsable, Users!Sound, Users!OneSpelling,
             Users!AccountsTypeOK, Users!Inside
    <2> QED BY <2>1, <2>2, <2>3, <2>4
  <1>11. CASE Users!Write(p)
    <2>a. userFile' \in Password \union {NoFile, EmptyFile}
      BY <1>11
         DEF Users!Write, Users!Goto, LockInv, Users!AccountsTypeOK,
             Users!Inside
    <2>b. keyLost' \in BOOLEAN
      BY <1>11, Zenon DEF Users!Write, Users!AccountsTypeOK
    <2>1. Users!AccountsTypeOK'
      BY <1>11, <2>a, <2>b
         DEF Users!Write, Users!Goto, Users!Succeed, Users!Answer,
             Users!AccountsTypeOK, Users!Places, Users!Inside, Users!Results
    <2>2. LockInv'
      BY <1>11
         DEF Users!Write, Users!Goto, Users!Succeed, Users!Answer, LockInv,
             Users!AccountsTypeOK, Users!Inside
    <2>3. (DirInv /\ Users!DirsThere)'
      BY <1>11
         DEF Users!Write, Users!Goto, Users!Succeed, Users!Answer, DirInv,
             Users!DirsThere, Users!AccountsTypeOK, Users!Inside,
             Users!Places
    <2>4. (FileInv /\ KeyInv /\ Users!ExistsMeansUsable)'
      BY <1>11, OneInside
         DEF Users!Write, Users!Goto, Users!Succeed, Users!Answer, LockInv,
             FileInv, KeyInv, Users!ExistsMeansUsable, Users!Sound,
             Users!OneSpelling, Users!AccountsTypeOK, Users!Inside
    <2> QED BY <2>1, <2>2, <2>3, <2>4
  <1>12. CASE Users!Read(p)
    <2>1. Users!AccountsTypeOK'
      BY <1>12
         DEF Users!Read, Users!Goto, Users!Succeed, Users!Answer,
             Users!AccountsTypeOK, Users!Places, Users!Inside,
             Users!CallNames, Users!Results
    <2>2. LockInv'
      BY <1>12
         DEF Users!Read, Users!Goto, Users!Succeed, Users!Answer, LockInv,
             Users!AccountsTypeOK, Users!Inside
    <2>3. (DirInv /\ Users!DirsThere)'
      BY <1>12
         DEF Users!Read, Users!Goto, Users!Succeed, Users!Answer, DirInv,
             Users!DirsThere, Users!AccountsTypeOK, Users!Inside,
             Users!Places
    <2>4. (FileInv /\ KeyInv /\ Users!ExistsMeansUsable)'
      BY <1>12, OneInside
         DEF Users!Read, Users!Goto, Users!Succeed, Users!Answer, FileInv,
             KeyInv, Users!ExistsMeansUsable, Users!Sound, Users!OneSpelling,
             Users!AccountsTypeOK, Users!Inside
    <2> QED BY <2>1, <2>2, <2>3, <2>4
  <1>13. CASE Users!Unlock(p)
    <2>1. Users!AccountsTypeOK'
      BY <1>13
         DEF Users!Unlock, Users!Forget, Users!Answer, Users!Goto, Users!Free,
             Users!AccountsTypeOK, Users!Places, Users!Inside,
             Users!CallNames, Users!Results
    <2>2. LockInv'
      BY <1>13
         DEF Users!Unlock, Users!Forget, Users!Answer, Users!Goto, Users!Free,
             LockInv, Users!AccountsTypeOK, Users!Inside
    <2>3. (DirInv /\ Users!DirsThere)'
      BY <1>13
         DEF Users!Unlock, Users!Forget, Users!Answer, Users!Goto, Users!Free,
             DirInv, Users!DirsThere, Users!AccountsTypeOK, Users!Inside,
             Users!Places
    <2>4. (FileInv /\ KeyInv /\ Users!ExistsMeansUsable)'
      BY <1>13, OneInside
         DEF Users!Unlock, Users!Forget, Users!Answer, Users!Goto, Users!Free,
             FileInv, KeyInv, Users!ExistsMeansUsable, Users!Sound,
             Users!OneSpelling, Users!AccountsTypeOK, Users!Inside
    <2> QED BY <2>1, <2>2, <2>3, <2>4
  <1>14. CASE Users!Crash(p)
    <2>1. Users!AccountsTypeOK'
      BY <1>14
         DEF Users!Crash, Users!Forget, Users!Answer, Users!AccountsTypeOK,
             Users!Places, Users!Inside, Users!CallNames, Users!Results
    <2>2. LockInv'
      BY <1>14
         DEF Users!Crash, Users!Forget, Users!Answer, LockInv,
             Users!AccountsTypeOK, Users!Inside
    <2>3. (DirInv /\ Users!DirsThere)'
      BY <1>14
         DEF Users!Crash, Users!Forget, Users!Answer, DirInv, Users!DirsThere,
             Users!AccountsTypeOK, Users!Inside, Users!Places
    <2>4. (FileInv /\ KeyInv /\ Users!ExistsMeansUsable)'
      BY <1>14, OneInside
         DEF Users!Crash, Users!Forget, Users!Answer, FileInv, KeyInv,
             Users!ExistsMeansUsable, Users!Sound, Users!OneSpelling,
             Users!AccountsTypeOK, Users!Inside
    <2> QED BY <2>1, <2>2, <2>3, <2>4
  <1> QED
    BY <1>1, <1>2, <1>3, <1>4, <1>5, <1>6, <1>7, <1>8, <1>9, <1>10, <1>11,
       <1>12, <1>13, <1>14
       DEF Users!Work

LEMMA NextInv ==
  ASSUME Inv, [Users!Next]_(Users!vars)
  PROVE  Inv'
  <1>1. CASE Users!Next
    BY <1>1, StepInv DEF Users!Next
  <1>2. CASE UNCHANGED Users!vars
    BY <1>2
       DEF Users!vars, Users!apart, Inv, Users!AccountsTypeOK, LockInv,
           DirInv, Users!DirsThere, FileInv, KeyInv, Users!ExistsMeansUsable,
           Users!Sound, Users!OneSpelling
  <1> QED BY <1>1, <1>2

(***************************************************************************)
(* Theorems.                                                               *)
(***************************************************************************)
LEMMA Invariant == Users!Spec => []Inv
  BY InitInv, NextInv, PTL DEF Users!Spec

\* Whoever holds a token finds all the directories.
THEOREM DirsAreThere == Users!Spec => []AccountsInv
  <1>1. Inv => AccountsInv
    BY DEF Inv, AccountsInv, Users!AccountsInv
  <1> QED BY <1>1, Invariant, PTL

\* Every token is for the key in the user's file, with one spelling of the
\* path, no key lost, and no file that was there and could not be opened.
THEOREM TokensFitTheFile == Users!Spec => []TokenHasFileKey
  <1>1. Inv => TokenHasFileKey
    BY DEF Inv, KeyInv, TokenHasFileKey, Users!TokenHasFileKey
  <1> QED BY <1>1, Invariant, PTL

\* Nobody is told of a user that has no key yet.
THEOREM NobodySeesHalfAUser == Users!Spec => []ExistsMeansUsable
  <1>1. Inv => ExistsMeansUsable
    BY DEF Inv, ExistsMeansUsable, Users!ExistsMeansUsable
  <1> QED BY <1>1, Invariant, PTL

\* A key that is in the file stays there, also when others were lost: with
\* one spelling only Register writes, and only to a file it has created, as
\* long as it could open every file that was there.
THEOREM KeysAreKept == Users!Spec => KeyKept
  <1>1. ASSUME Inv, [Users!Next]_(Users!vars)
        PROVE  [Users!OneSpelling /\ ~misread /\ userFile \in Password
                  => userFile' = userFile]_userFile
    <2>1. ASSUME NEW p \in Proc, Users!Open(p) \/ Users!Write(p),
                 Users!OneSpelling, ~misread
          PROVE  userFile \notin Password
      BY <1>1, <2>1, UsersConstants
         DEF Users!AccountsConstants, Inv, FileInv, Users!Open, Users!Write,
             Users!Goto
    <2>2. ASSUME NEW p \in Proc, ~Users!Open(p), ~Users!Write(p),
                 \/ Users!Create(p) \/ Users!Enter(p) \/ Users!Lock(p)
                 \/ Users!Work(p) \/ Users!Crash(p)
          PROVE  userFile' = userFile
      BY <2>2
         DEF Users!Create, Users!Enter, Users!Lock, Users!Work, Users!Crash,
             Users!TestDir, Users!MakeDir, Users!MakeDirFails, Users!Recover,
             Users!Probe, Users!OpenFails, Users!Read, Users!Unlock
    <2> QED BY <1>1, <2>1, <2>2 DEF Users!Next, Users!vars
  <1> QED BY <1>1, Invariant, PTL DEF Users!Spec, KeyKept, Users!KeyKept
=============================================================================
