-------------------------- MODULE ScheduleProofs --------------------------
(***************************************************************************)
(* Theorems about Schedule, for every set of processes, objects and keys,  *)
(* every capacity and every choice of faults: types, the mutex, references *)
(* and views; then the lists: that they stay good, that caches fit them,   *)
(* that the file holds them, and that the calls on them are atomic.        *)
(***************************************************************************)
EXTENDS ScheduleImplements, ListLemmas

\* The list a segment decodes to fits in a segment.
LEMMA ListOfType ==
  ASSUME NEW s \in Segment
  PROVE  ListOf(s) \in Lists
<1>1. CASE s.header
  BY <1>1, ConstantsOK DEF ListOf, Lists, Segment
<1>2. CASE ~s.header
  BY <1>2, ConstantsOK DEF ListOf, Lists
<1>3. QED BY <1>1, <1>2

LEMMA ZeroSegmentType == ZeroSegment \in Segment
BY ConstantsOK DEF ZeroSegment, Segment, ZeroTask, Task

LEMMA KeptType ==
  ASSUME NEW ss \in [Seg -> Segment], NEW linked, NEW held
  PROVE  Kept(ss, linked, held) \in [Seg -> Segment]
BY ZeroSegmentType DEF Kept

\* The list operators keep a list a list, within one of its length.
LEMMA ListOpsType ==
  ASSUME NEW list \in Lists
  PROVE  /\ \A k \in Nat, t \in Task : \A i \in LowerBounds(list, k) :
              InsertAt(list, i, t) \in Seq(Task)
         /\ \A i \in DOMAIN list : RemoveAt(list, i) \in Lists
         /\ \A i \in DOMAIN list, t \in Task :
              [list EXCEPT ![i] = t] \in Lists
<1>1. list \in Seq(Task) /\ Len(list) <= Cap
  BY DEF Lists
<1>2. ASSUME NEW k \in Nat, NEW t \in Task, NEW i \in LowerBounds(list, k)
      PROVE  InsertAt(list, i, t) \in Seq(Task)
  BY <1>1, InsertAtProps DEF LowerBounds
<1>3. ASSUME NEW i \in DOMAIN list
      PROVE  RemoveAt(list, i) \in Lists
  <2>1. i \in 1..Len(list)
    BY <1>1
  <2>2. RemoveAt(list, i) \in Seq(Task) /\ Len(RemoveAt(list, i)) = Len(list) - 1
    BY <1>1, <2>1, RemoveAtProps
  <2>3. QED BY <1>1, <2>2, ConstantsOK DEF Lists
<1>4. ASSUME NEW i \in DOMAIN list, NEW t \in Task
      PROVE  [list EXCEPT ![i] = t] \in Lists
  BY <1>1 DEF Lists
<1>5. QED BY <1>2, <1>3, <1>4

\* One store of a list copied into a segment leaves a segment.
LEMMA WithChunkType ==
  ASSUME NEW s \in Segment, NEW list \in Lists, NEW i \in 0..Len(list)
  PROVE  WithChunk(s, i, list) \in Segment
<1>1. list \in Seq(Task) /\ Len(list) <= Cap
  BY DEF Lists
<1>2. CASE i = 0
  BY <1>2 DEF WithChunk, Segment
<1>3. CASE i # 0
  <2>1. i \in 1..Cap /\ list[i] \in Task
    BY <1>1, <1>3, ConstantsOK
  <2>2. QED BY <2>1, <1>3 DEF WithChunk, Segment
<1>4. QED BY <1>2, <1>3

-----------------------------------------------------------------------------
(***************************************************************************)
(* Type correctness.                                                       *)
(***************************************************************************)
LEMMA NoCacheType == NoCache \in [tasks : Lists, version : Nat]
BY ConstantsOK DEF NoCache, Lists

LEMMA InitTypeOK == Init => TypeOK
<1> SUFFICES ASSUME Init PROVE TypeOK
  OBVIOUS
<1>1. <<>> \in Lists
  BY ConstantsOK DEF Lists
<1>2. QED
  BY <1>1, NoCacheType, ZeroSegmentType, ConstantsOK DEF Init, TypeOK

\* The last steps of a call that decides on a list: it is stored or not.
LEMMA StoreType ==
  ASSUME TypeOK, NEW p \in Proc, NEW list \in Seq(Task), Store(p, list)
  PROVE  TypeOK'
<1>1. CASE Return(p)
  BY <1>1 DEF TypeOK, Return, Goto, Places, Inside, InCall
<1>2. CASE ~Return(p)
  <2>1. list \in Lists
    BY <1>2 DEF Store, Lists
  <2>2. QED
    BY <1>2, <2>1 DEF TypeOK, Store, Goto, Places, Inside, InCall
<1>3. QED BY <1>1, <1>2

LEMMA InsertAndStoreType ==
  ASSUME TypeOK, NEW p \in Proc, NEW list \in Lists, NEW t \in Task,
         InsertAndStore(p, list, t)
  PROVE  TypeOK'
<1>1. PICK i \in LowerBounds(list, t.key) :
        \/ Return(p)
        \/ Store(p, InsertAt(list, i, t))
  BY DEF InsertAndStore
<1>2. t.key \in Nat
  BY DEF Task
<1>3. InsertAt(list, i, t) \in Seq(Task)
  BY <1>2, ListOpsType
<1>4. CASE Return(p)
  BY <1>4 DEF TypeOK, Return, Goto, Places, Inside, InCall
<1>5. QED BY <1>1, <1>3, <1>4, StoreType

LEMMA DieType ==
  ASSUME TypeOK, NEW p \in Proc, Die(p)
  PROVE  TypeOK'
<1>1. <<>> \in Lists /\ 0 \in 0..Cap
  BY ConstantsOK DEF Lists
<1>2. segs' \in [Seg -> Segment]
  BY KeptType DEF Die, TypeOK
<1>3. QED
  BY <1>1, <1>2, NoCacheType DEF Die, TypeOK

\* A process with a mapping sees a list.
LEMMA SharedType ==
  ASSUME TypeOK, NEW p \in Proc, handle[p] # NoSeg
  PROVE  Shared(p) \in Lists /\ segs[handle[p]] \in Segment
<1>1. segs[handle[p]] \in Segment
  BY DEF TypeOK
<1>2. QED BY <1>1, ListOfType DEF Shared

\* The calls decide on a list under the mutex.
LEMMA CallsType ==
  ASSUME TypeOK, NEW p \in Proc,
         \/ GetTasks(p) \/ TaskInsert(p) \/ NotFound(p)
         \/ TaskErase(p) \/ TaskToggleDone(p) \/ TaskEdit(p)
  PROVE  TypeOK'
<1>1. handle[p] # NoSeg
  BY DEF GetTasks, TaskInsert, NotFound, TaskErase, TaskToggleDone, TaskEdit,
         Calling
<1>2. Shared(p) \in Lists /\ segs[handle[p]] \in Segment
  BY <1>1, SharedType
<1>3. \A i \in DOMAIN Shared(p) : Shared(p)[i] \in Task
  BY <1>2 DEF Lists
<1>4. \A id : FirstWithId(Shared(p), id) \subseteq DOMAIN Shared(p)
  BY DEF FirstWithId
<1>5. CASE GetTasks(p)
  <2>1. cache' \in [Proc -> [tasks : Lists, version : Nat]]
    BY <1>5, <1>2 DEF GetTasks, TypeOK, Segment
  <2>2. QED
    BY <1>5, <2>1 DEF GetTasks, TypeOK, Goto, Places, Inside, InCall
<1>6. CASE TaskInsert(p)
  <2>1. PICK k \in Key, m \in MaxIds(Shared(p)) :
          InsertAndStore(p, Shared(p),
                         [id |-> NextId(m), key |-> k, done |-> FALSE])
    BY <1>6 DEF TaskInsert
  <2>2. m \in Nat
    BY <1>3 DEF MaxIds, TaskIds, Task
  <2>3. NextId(m) \in Nat
    BY <2>2, ConstantsOK DEF NextId
  <2>4. [id |-> NextId(m), key |-> k, done |-> FALSE] \in Task
    BY <2>3, ConstantsOK DEF Task
  <2>5. QED BY <2>1, <2>4, <1>2, InsertAndStoreType
<1>7. CASE NotFound(p)
  BY <1>7 DEF NotFound, TypeOK, Return, Goto, Places, Inside, InCall
<1>8. CASE TaskErase(p)
  <2>1. PICK i \in DOMAIN Shared(p) : Store(p, RemoveAt(Shared(p), i))
    BY <1>8, <1>4 DEF TaskErase
  <2>2. RemoveAt(Shared(p), i) \in Seq(Task)
    BY <1>2, ListOpsType DEF Lists
  <2>3. QED BY <2>1, <2>2, StoreType
<1>9. CASE TaskToggleDone(p)
  <2>1. PICK i \in DOMAIN Shared(p) :
          Store(p, [Shared(p) EXCEPT ![i].done = ~@])
    BY <1>9, <1>4 DEF TaskToggleDone
  <2>2. [Shared(p)[i] EXCEPT !.done = ~@] \in Task
    BY <1>3 DEF Task
  <2>3. [Shared(p) EXCEPT ![i].done = ~@]
          = [Shared(p) EXCEPT ![i] = [Shared(p)[i] EXCEPT !.done = ~@]]
    BY <1>2 DEF Lists
  <2>4. [Shared(p) EXCEPT ![i].done = ~@] \in Seq(Task)
    BY <1>2, <2>2, <2>3, ListOpsType DEF Lists
  <2>5. QED BY <2>1, <2>4, StoreType
<1>10. CASE TaskEdit(p)
  <2>1. PICK k \in Key, d \in BOOLEAN, mask \in SUBSET {"key", "done"},
             i \in DOMAIN Shared(p) :
          LET task == Patched(Shared(p)[i], [key |-> k, done |-> d], mask) IN
          \/ InsertAndStore(p, RemoveAt(Shared(p), i), task)
          \/ Store(p, [Shared(p) EXCEPT ![i] = task])
    BY <1>10, <1>4 DEF TaskEdit
  <2> DEFINE task == Patched(Shared(p)[i], [key |-> k, done |-> d], mask)
  <2>2. task \in Task
    BY <1>3, ConstantsOK DEF Patched, Task
  <2>3. /\ RemoveAt(Shared(p), i) \in Lists
        /\ [Shared(p) EXCEPT ![i] = task] \in Seq(Task)
    BY <1>2, <2>2, ListOpsType DEF Lists
  <2>4. QED BY <2>1, <2>2, <2>3, InsertAndStoreType, StoreType
<1>11. QED BY <1>5, <1>6, <1>7, <1>8, <1>9, <1>10

\* The single fields the code writes in a segment.
LEMMA FieldWrites ==
  ASSUME NEW t \in Segment, NEW n \in 0..Cap
  PROVE  /\ [t EXCEPT !.ref = @ + 1] \in Segment
         /\ [t EXCEPT !.ref = @ - 1] \in Segment
         /\ [t EXCEPT !.sized = TRUE] \in Segment
         /\ [t EXCEPT !.size = n] \in Segment
         /\ [t EXCEPT !.size = n, !.version = 1] \in Segment
         /\ [t EXCEPT !.version = (@ + 1) % VersionMod] \in Segment
<1>1. /\ t.ref + 1 \in Int
      /\ t.ref - 1 \in Int
      /\ (t.version + 1) % VersionMod \in Nat
  BY ConstantsOK DEF Segment
<1>2. /\ [t EXCEPT !.ref = @ + 1] \in Segment
      /\ [t EXCEPT !.ref = @ - 1] \in Segment
  BY <1>1 DEF Segment
<1>3. /\ [t EXCEPT !.sized = TRUE] \in Segment
      /\ [t EXCEPT !.size = n] \in Segment
  BY DEF Segment
<1>4. [t EXCEPT !.size = n, !.version = 1] \in Segment
  BY DEF Segment
<1>5. [t EXCEPT !.version = (@ + 1) % VersionMod] \in Segment
  BY <1>1 DEF Segment
<1>6. QED BY <1>2, <1>3, <1>4, <1>5

LEMMA SegmentWrites ==
  ASSUME segs \in [Seg -> Segment], NEW h, NEW n \in 0..Cap
  PROVE  /\ [segs EXCEPT ![h].ref = @ + 1] \in [Seg -> Segment]
         /\ [segs EXCEPT ![h].ref = @ - 1] \in [Seg -> Segment]
         /\ [segs EXCEPT ![h].sized = TRUE] \in [Seg -> Segment]
         /\ [segs EXCEPT ![h].size = n] \in [Seg -> Segment]
         /\ [segs EXCEPT ![h].size = n, ![h].version = 1] \in [Seg -> Segment]
         /\ [segs EXCEPT ![h].version = (@ + 1) % VersionMod] \in [Seg -> Segment]
<1> DEFINE t == segs[h]
<1>1. ASSUME NEW v, h \in Seg => v \in Segment
      PROVE  [segs EXCEPT ![h] = v] \in [Seg -> Segment]
  BY <1>1
<1>2. h \in Seg => /\ [t EXCEPT !.ref = @ + 1] \in Segment
                   /\ [t EXCEPT !.ref = @ - 1] \in Segment
                   /\ [t EXCEPT !.sized = TRUE] \in Segment
                   /\ [t EXCEPT !.size = n] \in Segment
                   /\ [t EXCEPT !.size = n, !.version = 1] \in Segment
                   /\ [t EXCEPT !.version = (@ + 1) % VersionMod] \in Segment
  BY FieldWrites
<1>3. /\ [segs EXCEPT ![h] = [t EXCEPT !.ref = @ + 1]] \in [Seg -> Segment]
      /\ [segs EXCEPT ![h] = [t EXCEPT !.ref = @ - 1]] \in [Seg -> Segment]
      /\ [segs EXCEPT ![h] = [t EXCEPT !.sized = TRUE]] \in [Seg -> Segment]
      /\ [segs EXCEPT ![h] = [t EXCEPT !.size = n]] \in [Seg -> Segment]
      /\ [segs EXCEPT ![h] = [t EXCEPT !.size = n, !.version = 1]]
           \in [Seg -> Segment]
      /\ [segs EXCEPT ![h] = [t EXCEPT !.version = (@ + 1) % VersionMod]]
           \in [Seg -> Segment]
  BY <1>1, <1>2
<1>4. QED BY <1>3

\* Every step keeps the types.
LEMMA NextTypeOK == TypeOK /\ [Next]_vars => TypeOK'
<1> SUFFICES ASSUME TypeOK, [Next]_vars PROVE TypeOK'
  OBVIOUS
<1> USE DEF Places, Waiting, Inside, InAcquire, InCall, InStore
<1>1. CASE UNCHANGED vars
  BY <1>1 DEF TypeOK, vars
<1>2. ASSUME NEW p \in Proc, Lock(p) \/ Recover(p) \/ Unlock(p)
      PROVE  TypeOK'
  BY <1>2 DEF TypeOK, Lock, Recover, Unlock, Goto
<1>3. ASSUME NEW p \in Proc, Acquire(p) \/ Call(p)
      PROVE  TypeOK'
  BY <1>3 DEF TypeOK, Acquire, Call, Goto
<1>4. ASSUME NEW p \in Proc, OpenExisting(p) \/ CreateNew(p) \/ CreateFails(p)
      PROVE  TypeOK'
  <2>1. CASE OpenExisting(p)
    BY <2>1 DEF TypeOK, OpenExisting, Goto
  <2>2. CASE CreateNew(p)
    BY <2>2, SMTT(30) DEF TypeOK, CreateNew, Goto
  <2>3. CASE CreateFails(p)
    BY <2>3 DEF TypeOK, CreateFails, Goto
  <2>4. QED
    BY <1>4, <2>1, <2>2, <2>3
<1>5. ASSUME NEW p \in Proc,
             Map(p) \/ SetSize(p) \/ MapNew(p) \/ ZeroHeader(p)
      PROVE  TypeOK'
  <2>1. segs' \in [Seg -> Segment]
    <3>1. 0 \in 0..Cap
      BY ConstantsOK
    <3>2. /\ [segs EXCEPT ![handle[p]].ref = @ + 1] \in [Seg -> Segment]
          /\ [segs EXCEPT ![handle[p]].sized = TRUE] \in [Seg -> Segment]
          /\ [segs EXCEPT ![handle[p]].size = 0, ![handle[p]].version = 1]
               \in [Seg -> Segment]
      BY <3>1, SegmentWrites DEF TypeOK
    <3>3. QED
      BY <1>5, <3>2 DEF Map, SetSize, MapNew, ZeroHeader
  <2>2. QED
    BY <1>5, <2>1 DEF TypeOK, Map, SetSize, MapNew, ZeroHeader, Goto
<1>6. ASSUME NEW p \in Proc, MapFails(p) \/ NewFails(p)
      PROVE  TypeOK'
  <2>1. CASE Die(p)
    BY <2>1, DieType
  <2>2. CASE ~Die(p)
    <3>1. segs' \in [Seg -> Segment]
      BY <1>6, <2>2, KeptType DEF TypeOK, MapFails, NewFails
    <3>2. QED
      BY <1>6, <2>2, <3>1 DEF TypeOK, MapFails, NewFails, Goto
  <2>3. QED BY <2>1, <2>2
<1>7. ASSUME NEW p \in Proc, LoadFile(p)
      PROVE  TypeOK'
  <2>1. Truncated(file) \in Lists
    BY ConstantsOK DEF TypeOK, Truncated, Lists
  <2>2. Len(Truncated(file)) \in 0..Cap
    BY <2>1, ConstantsOK DEF Lists
  <2>3. segs' \in [Seg -> Segment]
    <3>1. [segs EXCEPT ![handle[p]].size = Len(Truncated(file)),
                       ![handle[p]].version = 1] \in [Seg -> Segment]
      BY <2>2, SegmentWrites DEF TypeOK
    <3>2. QED BY <1>7, <3>1 DEF TypeOK, LoadFile
  <2>4. pc' \in [Proc -> Places \union {"out"}]
    BY <1>7 DEF TypeOK, LoadFile, Goto
  <2>5. pend' \in [Proc -> Lists]
    BY <1>7, <2>1 DEF TypeOK, LoadFile
  <2>6. QED BY <1>7, <2>3, <2>4, <2>5 DEF TypeOK, LoadFile
<1>8. ASSUME NEW p \in Proc, CopyChunk(p)
      PROVE  TypeOK'
  <2>1. /\ pend[p] \in Lists /\ Len(pend[p]) \in 0..Cap
        /\ chunk[p] \in 0..Len(pend[p])
    BY <1>8, ConstantsOK DEF TypeOK, CopyChunk, Lists
  <2>2. \A s \in Segment : WithChunk(s, chunk[p], pend[p]) \in Segment
    BY <2>1, WithChunkType
  <2>3. segs' \in [Seg -> Segment]
    BY <1>8, <2>2 DEF TypeOK, CopyChunk
  <2>4. chunk' \in [Proc -> 0..Cap]
    <3>1. chunk[p] < Len(pend[p]) => chunk[p] + 1 \in 0..Cap
      BY <2>1, ConstantsOK
    <3>2. 0 \in 0..Cap
      BY ConstantsOK
    <3>3. QED BY <1>8, <3>1, <3>2 DEF TypeOK, CopyChunk
  <2>5. <<>> \in Lists
    BY ConstantsOK DEF Lists
  <2>6. pend' \in [Proc -> Lists]
    BY <1>8, <2>5 DEF TypeOK, CopyChunk
  <2>7. pc' \in [Proc -> Places \union {"out"}]
    BY <1>8 DEF TypeOK, CopyChunk, Goto
  <2>8. QED BY <1>8, <2>3, <2>4, <2>6, <2>7 DEF TypeOK, CopyChunk
<1>9. ASSUME NEW p \in Proc,
             \/ GetTasks(p) \/ TaskInsert(p) \/ NotFound(p)
             \/ TaskErase(p) \/ TaskToggleDone(p) \/ TaskEdit(p)
      PROVE  TypeOK'
  BY <1>9, CallsType
<1>10. ASSUME NEW p \in Proc, WriteSize(p) \/ BumpVersion(p)
       PROVE  TypeOK'
  <2>1. Len(pend[p]) \in 0..Cap
    BY ConstantsOK DEF TypeOK, Lists
  <2>2. segs' \in [Seg -> Segment]
    <3>1. /\ [segs EXCEPT ![handle[p]].size = Len(pend[p])] \in [Seg -> Segment]
          /\ [segs EXCEPT ![handle[p]].version = (@ + 1) % VersionMod]
               \in [Seg -> Segment]
      BY <2>1, SegmentWrites DEF TypeOK
    <3>2. QED BY <1>10, <3>1 DEF WriteSize, BumpVersion
  <2>3. QED
    BY <1>10, <2>2 DEF TypeOK, WriteSize, BumpVersion, Goto
<1>11. ASSUME NEW p \in Proc, OpenFile(p) \/ OpenFileFails(p) \/ WriteFile(p)
       PROVE  TypeOK'
  <2>1. <<>> \in Lists
    BY ConstantsOK DEF Lists
  <2>2. QED
    <3>1. CASE OpenFile(p)
      BY <3>1, <2>1 DEF TypeOK, OpenFile, Goto
    <3>2. CASE OpenFileFails(p)
      BY <3>2, <2>1 DEF TypeOK, OpenFileFails, Goto
    <3>3. CASE WriteFile(p)
      BY <3>3, <2>1 DEF TypeOK, WriteFile, Goto
    <3>4. QED BY <1>11, <3>1, <3>2, <3>3
<1>12. ASSUME NEW p \in Proc, Release(p)
       PROVE  TypeOK'
  <2>1. segs' \in [Seg -> Segment]
    <3>1. [segs EXCEPT ![handle[p]].ref = @ - 1] \in [Seg -> Segment]
      <4>1. 0 \in 0..Cap
        BY ConstantsOK
      <4>2. QED BY <4>1, SegmentWrites DEF TypeOK
    <3>2. Kept([segs EXCEPT ![handle[p]].ref = @ - 1], name, handle')
            \in [Seg -> Segment]
      BY <3>1, KeptType
    <3>3. QED BY <1>12, <3>2 DEF TypeOK, Release
  <2>2. QED
    BY <1>12, <2>1, NoCacheType DEF TypeOK, Release, Goto
<1>13. ASSUME NEW p \in Proc, Unlink(p)
       PROVE  TypeOK'
  <2>1. segs' \in [Seg -> Segment]
    BY <1>13, KeptType DEF TypeOK, Unlink
  <2>2. QED BY <1>13, <2>1 DEF TypeOK, Unlink, Goto
<1>14. ASSUME NEW p \in Proc, Segfault(p) \/ Crash(p)
       PROVE  TypeOK'
  BY <1>14, DieType DEF Segfault, Crash
<1>15. QED
  BY <1>1, <1>2, <1>3, <1>4, <1>5, <1>6, <1>7, <1>8, <1>9, <1>10, <1>11,
     <1>12, <1>13, <1>14 DEF Next, Work, Decision

\* Whatever the processes do and wherever they die, every variable keeps its
\* type: no list longer than the segment is ever written to it or to the file.
THEOREM TypeCorrect == Spec => []TypeOK
<1>1. QED BY InitTypeOK, NextTypeOK, PTL DEF Spec

-----------------------------------------------------------------------------
(***************************************************************************)
(* The mutex.                                                              *)
(***************************************************************************)
\* What the calls leave alone, and where they go.
LEMMA CallsFrame ==
  ASSUME NEW p \in Proc,
         \/ GetTasks(p) \/ TaskInsert(p) \/ NotFound(p)
         \/ TaskErase(p) \/ TaskToggleDone(p) \/ TaskEdit(p)
  PROVE  /\ UNCHANGED <<lock, name, segs, file, handle>>
         /\ handle[p] # NoSeg
         /\ \E to \in {"got", "unlock", "st_size"} : Goto(p, "locked", to)
<1> DEFINE Frame == /\ UNCHANGED <<lock, name, segs, file, handle>>
                    /\ \E to \in {"got", "unlock", "st_size"} :
                         Goto(p, "locked", to)
<1>1. Return(p) => Frame
  BY DEF Return
<1>2. ASSUME NEW list, Store(p, list) PROVE Frame
  BY <1>1, <1>2 DEF Store
<1>3. ASSUME NEW list, NEW t, InsertAndStore(p, list, t) PROVE Frame
  BY <1>1, <1>2, <1>3 DEF InsertAndStore
<1> HIDE DEF Frame
<1>4. GetTasks(p) => Frame
  BY DEF GetTasks, Frame
<1>5. TaskInsert(p) => Frame
  BY <1>3 DEF TaskInsert
<1>6. NotFound(p) => Frame
  BY <1>1 DEF NotFound
<1>7. TaskErase(p) => Frame
  BY <1>2 DEF TaskErase
<1>8. TaskToggleDone(p) => Frame
  BY <1>2 DEF TaskToggleDone
<1>9. TaskEdit(p) => Frame
  BY <1>2, <1>3 DEF TaskEdit
<1>10. handle[p] # NoSeg
  BY DEF GetTasks, TaskInsert, NotFound, TaskErase, TaskToggleDone, TaskEdit,
         Calling
<1>11. QED
  BY <1>4, <1>5, <1>6, <1>7, <1>8, <1>9, <1>10 DEF Frame

\* Steps between two places inside the critical section.
InsideStep(p) ==
  \/ OpenExisting(p) \/ CreateNew(p) \/ CreateFails(p) \/ Map(p) \/ MapFails(p)
  \/ SetSize(p) \/ MapNew(p) \/ ZeroHeader(p) \/ LoadFile(p) \/ CopyChunk(p)
  \/ GetTasks(p) \/ TaskInsert(p) \/ NotFound(p)
  \/ TaskErase(p) \/ TaskToggleDone(p) \/ TaskEdit(p)
  \/ WriteSize(p) \/ BumpVersion(p)
  \/ OpenFile(p) \/ OpenFileFails(p) \/ WriteFile(p)
  \/ NewFails(p) /\ ~Die(p)

LEMMA InsideStepFrame ==
  ASSUME TypeOK, NEW p \in Proc, InsideStep(p)
  PROVE  /\ lock' = lock
         /\ pc[p] \in Inside /\ pc'[p] \in Inside
         /\ \A q \in Proc \ {p} : pc'[q] = pc[q]
<1> USE DEF Goto, Inside, InAcquire, InCall, InStore, TypeOK
<1>1. CASE \/ OpenExisting(p) \/ CreateNew(p) \/ CreateFails(p)
           \/ Map(p) \/ MapFails(p) \/ SetSize(p) \/ MapNew(p)
  BY <1>1 DEF OpenExisting, CreateNew, CreateFails, Map, MapFails, SetSize,
              MapNew
<1>2. CASE ZeroHeader(p) \/ LoadFile(p) \/ CopyChunk(p)
  BY <1>2 DEF ZeroHeader, LoadFile, CopyChunk
<1>3. CASE \/ GetTasks(p) \/ TaskInsert(p) \/ NotFound(p)
           \/ TaskErase(p) \/ TaskToggleDone(p) \/ TaskEdit(p)
  BY <1>3, CallsFrame
<1>4. CASE \/ WriteSize(p) \/ BumpVersion(p)
           \/ OpenFile(p) \/ OpenFileFails(p) \/ WriteFile(p)
  BY <1>4 DEF WriteSize, BumpVersion, OpenFile, OpenFileFails, WriteFile
<1>5. CASE NewFails(p) /\ ~Die(p)
  BY <1>5 DEF NewFails
<1>6. QED BY <1>1, <1>2, <1>3, <1>4, <1>5 DEF InsideStep

\* The steps of a process, by what they do to the mutex.
LEMMA NextCases ==
  ASSUME NEW p \in Proc, Lock(p) \/ Work(p) \/ Decision(p) \/ Crash(p)
  PROVE  \/ Lock(p) \/ Recover(p) \/ Unlock(p)
         \/ InsideStep(p)
         \/ Die(p) /\ pc[p] # "out"
         \/ Acquire(p) \/ Call(p) \/ Release(p) \/ Unlink(p)
<1>1. "out" \notin Places
  BY DEF Places, Waiting, Inside, InAcquire, InCall, InStore
<1>2. Crash(p) => Die(p) /\ pc[p] # "out"
  BY <1>1, ConstantsOK DEF Crash
<1>3. Segfault(p) => Die(p) /\ pc[p] # "out"
  BY DEF Segfault
<1>4. NewFails(p) => InsideStep(p) \/ (Die(p) /\ pc[p] # "out")
  BY DEF NewFails, InsideStep
<1>5. QED
  BY <1>2, <1>3, <1>4 DEF Work, Decision, InsideStep

LEMMA NextLockHeld == TypeOK /\ LockHeld /\ [Next]_vars => LockHeld'
<1> SUFFICES ASSUME TypeOK, LockHeld, [Next]_vars PROVE LockHeld'
  OBVIOUS
<1>1. CASE UNCHANGED vars
  BY <1>1 DEF LockHeld, vars
<1>2. ASSUME NEW p \in Proc, Lock(p) \/ Recover(p) \/ Unlock(p)
      PROVE  LockHeld'
  BY <1>2, ConstantsOK DEF LockHeld, TypeOK, Lock, Recover, Unlock, Goto, Waiting,
           Inside, InAcquire, InCall, InStore
<1>3. ASSUME NEW p \in Proc, InsideStep(p)
      PROVE  LockHeld'
  BY <1>3, InsideStepFrame DEF LockHeld
<1>4. ASSUME NEW p \in Proc, Die(p)
      PROVE  LockHeld'
  BY <1>4, ConstantsOK DEF LockHeld, TypeOK, Die, Inside, InAcquire, InCall, InStore
<1>5. ASSUME NEW p \in Proc, Acquire(p) \/ Call(p) \/ Release(p) \/ Unlink(p)
      PROVE  LockHeld'
  BY <1>5 DEF LockHeld, TypeOK, Acquire, Call, Release, Unlink, Goto,
           Inside, InAcquire, InCall, InStore
<1>6. QED
  BY <1>1, <1>2, <1>3, <1>4, <1>5, NextCases DEF Next

\* The critical section: a process is inside it if and only if it owns the
\* mutex, so at most one is, however many died holding it.
THEOREM MutexHeld == Spec => []LockHeld
<1>1. Init => LockHeld
  BY ConstantsOK DEF Init, LockHeld, Inside, InAcquire, InCall, InStore
<1>2. QED
  BY <1>1, NextLockHeld, TypeCorrect, PTL DEF Spec

-----------------------------------------------------------------------------
(***************************************************************************)
(* The count of a segment.                                                 *)
(***************************************************************************)
LEMMA NextHandlePlaces ==
  TypeOK /\ HandlePlaces /\ [Next]_vars => HandlePlaces'
<1> SUFFICES ASSUME TypeOK, HandlePlaces, [Next]_vars PROVE HandlePlaces'
  OBVIOUS
<1> USE DEF HandlePlaces, Detached, MayBeNull
<1>1. CASE UNCHANGED vars
  BY <1>1 DEF vars
<1>2. ASSUME NEW p \in Proc,
             \/ Lock(p) \/ Recover(p) \/ Unlock(p)
             \/ Acquire(p) \/ Call(p) \/ Release(p) \/ Unlink(p)
      PROVE  HandlePlaces'
  BY <1>2 DEF TypeOK, Lock, Recover, Unlock, Acquire, Call, Release, Unlink,
              Goto, Waiting
<1>3. ASSUME NEW p \in Proc, InsideStep(p)
      PROVE  HandlePlaces'
  <2>1. CASE \/ OpenExisting(p) \/ CreateNew(p) \/ CreateFails(p)
             \/ Map(p) \/ MapFails(p) \/ SetSize(p) \/ MapNew(p)
             \/ NewFails(p) /\ ~Die(p)
    BY <2>1, ConstantsOK DEF TypeOK, OpenExisting, CreateNew, CreateFails, Map,
                MapFails, SetSize, MapNew, NewFails, Goto
  <2>2. CASE ZeroHeader(p) \/ LoadFile(p) \/ CopyChunk(p)
    BY <2>2 DEF TypeOK, ZeroHeader, LoadFile, CopyChunk, Goto
  <2>3. CASE \/ GetTasks(p) \/ TaskInsert(p) \/ NotFound(p)
             \/ TaskErase(p) \/ TaskToggleDone(p) \/ TaskEdit(p)
    BY <2>3, CallsFrame DEF TypeOK, Goto
  <2>4. CASE \/ WriteSize(p) \/ BumpVersion(p)
             \/ OpenFile(p) \/ OpenFileFails(p) \/ WriteFile(p)
    BY <2>4 DEF TypeOK, WriteSize, BumpVersion, OpenFile, OpenFileFails,
                WriteFile, Goto
  <2>5. QED BY <1>3, <2>1, <2>2, <2>3, <2>4 DEF InsideStep
<1>4. ASSUME NEW p \in Proc, Die(p)
      PROVE  HandlePlaces'
  BY <1>4 DEF TypeOK, Die
<1>5. QED
  BY <1>1, <1>2, <1>3, <1>4, NextCases DEF Next

LEMMA MappedFinite ==
  /\ \A s : IsFiniteSet(Mapped(s)) /\ Cardinality(Mapped(s)) \in Nat
  /\ \A s : IsFiniteSet(Mapped(s)') /\ Cardinality(Mapped(s)') \in Nat
<1>1. \A s : Mapped(s) \in SUBSET Proc /\ Mapped(s)' \in SUBSET Proc
  BY DEF Mapped
<1>2. QED BY <1>1, ConstantsOK, FS_Subset, FS_CardinalityType

\* A step that maps nobody new and leaves the count, or frees the object.
CountKept(s) == /\ Mapped(s)' \subseteq Mapped(s)
                /\ segs'[s].ref = segs[s].ref
Freed(s) == Mapped(s)' = {} /\ segs'[s].ref = 0 /\ s # name'

LEMMA CountKeptCovers ==
  ASSUME TypeOK, NEW s \in Seg, segs[s].ref >= Cardinality(Mapped(s)),
         CountKept(s) \/ Freed(s)
  PROVE  segs'[s].ref >= Cardinality(Mapped(s)')
<1>1. CASE CountKept(s)
  <2>1. Cardinality(Mapped(s)') <= Cardinality(Mapped(s))
    BY <1>1, MappedFinite, FS_Subset DEF CountKept
  <2>2. segs[s].ref \in Int
    BY DEF TypeOK, Segment
  <2>3. QED BY <1>1, <2>1, <2>2, MappedFinite DEF CountKept
<1>2. CASE Freed(s)
  BY <1>2, FS_EmptySet DEF Freed
<1>3. QED BY <1>1, <1>2

\* An object is kept as it is, or nobody holds it and it is freed.
LEMMA KeptCases ==
  ASSUME NEW ss \in [Seg -> Segment], NEW linked, NEW held, NEW s \in Seg
  PROVE  \/ Kept(ss, linked, held)[s] = ss[s]
         \/ /\ Kept(ss, linked, held)[s] = ZeroSegment
            /\ s # linked /\ \A q \in Proc : held[q] # s
BY DEF Kept

\* The steps that count nobody and discount nobody.
LEMMA UncountedSteps ==
  ASSUME TypeOK, NEW p \in Proc, NEW s \in Seg,
         \/ Lock(p) \/ Recover(p) \/ Unlock(p)
         \/ Acquire(p) \/ Call(p) \/ Unlink(p) \/ Die(p)
         \/ InsideStep(p) /\ ~Map(p) /\ ~MapNew(p)
  PROVE  CountKept(s) \/ Freed(s)
<1> USE DEF CountKept, Freed, Mapped
<1>1. CASE Lock(p) \/ Recover(p) \/ Unlock(p) \/ Acquire(p) \/ Call(p)
  BY <1>1 DEF TypeOK, Lock, Recover, Unlock, Acquire, Call, Goto, Waiting
<1>2. CASE Unlink(p)
  <2>1. Mapped(s)' \subseteq Mapped(s)
    BY <1>2 DEF TypeOK, Unlink, Goto
  <2>2. \/ segs'[s] = segs[s]
        \/ segs'[s] = ZeroSegment /\ s # name' /\ \A q \in Proc : handle'[q] # s
    BY <1>2, KeptCases DEF TypeOK, Unlink
  <2>3. QED BY <2>1, <2>2 DEF ZeroSegment
<1>3. CASE Die(p)
  <2>1. Mapped(s)' \subseteq Mapped(s)
    <3>1. /\ handle'[p] # s
          /\ \A q \in Proc \ {p} : handle'[q] = handle[q] /\ pc'[q] = pc[q]
      BY <1>3, ConstantsOK DEF TypeOK, Die
    <3>2. QED BY <3>1
  <2>2. \/ segs'[s] = segs[s]
        \/ segs'[s] = ZeroSegment /\ s # name' /\ \A q \in Proc : handle'[q] # s
    <3>1. segs \in [Seg -> Segment] /\ segs' = Kept(segs, name, handle')
          /\ name' = name
      BY <1>3 DEF TypeOK, Die
    <3>2. QED BY <3>1, KeptCases
  <2>3. QED BY <2>1, <2>2 DEF ZeroSegment
<1>4. CASE MapFails(p) \/ (NewFails(p) /\ ~Die(p))
  <2>1. Mapped(s)' \subseteq Mapped(s)
    BY <1>4, ConstantsOK DEF TypeOK, MapFails, NewFails, Goto
  <2>2. \/ segs'[s] = segs[s]
        \/ segs'[s] = ZeroSegment /\ s # name' /\ \A q \in Proc : handle'[q] # s
    BY <1>4, KeptCases DEF TypeOK, MapFails, NewFails
  <2>3. QED BY <2>1, <2>2 DEF ZeroSegment
<1>5. CASE OpenExisting(p) \/ CreateNew(p) \/ CreateFails(p)
  BY <1>5 DEF TypeOK, OpenExisting, CreateNew, CreateFails, Goto
<1>6. CASE SetSize(p) \/ ZeroHeader(p) \/ LoadFile(p) \/ CopyChunk(p)
  <2>1. Mapped(s)' \subseteq Mapped(s)
    BY <1>6 DEF TypeOK, SetSize, ZeroHeader, LoadFile, CopyChunk, Goto
  <2>2. segs \in [Seg -> Segment] /\ segs[s] \in Segment
    BY DEF TypeOK
  <2>3. CASE s # handle[p]
    BY <1>6, <2>1, <2>2, <2>3 DEF SetSize, ZeroHeader, LoadFile, CopyChunk
  <2>4. CASE s = handle[p]
    <3>1. CASE SetSize(p)
      BY <2>1, <2>2, <2>4, <3>1 DEF SetSize, Segment
    <3>2. CASE ZeroHeader(p)
      BY <2>1, <2>2, <2>4, <3>2 DEF ZeroHeader, Segment
    <3>3. CASE LoadFile(p)
      BY <2>1, <2>2, <2>4, <3>3 DEF LoadFile, Segment
    <3>4. CASE CopyChunk(p)
      BY <2>1, <2>2, <2>4, <3>4 DEF CopyChunk, WithChunk, Segment
    <3>5. QED BY <1>6, <3>1, <3>2, <3>3, <3>4
  <2>5. QED BY <2>3, <2>4
<1>7. CASE \/ GetTasks(p) \/ TaskInsert(p) \/ NotFound(p)
           \/ TaskErase(p) \/ TaskToggleDone(p) \/ TaskEdit(p)
  BY <1>7, CallsFrame DEF TypeOK, Goto
<1>8. CASE \/ WriteSize(p) \/ BumpVersion(p)
           \/ OpenFile(p) \/ OpenFileFails(p) \/ WriteFile(p)
  <2>1. Mapped(s)' \subseteq Mapped(s)
    BY <1>8 DEF TypeOK, WriteSize, BumpVersion, OpenFile, OpenFileFails,
                WriteFile, Goto
  <2>2. segs \in [Seg -> Segment] /\ segs[s] \in Segment
    BY DEF TypeOK
  <2>3. CASE WriteSize(p)
    <3>1. CASE s # handle[p]
      BY <2>1, <2>2, <2>3, <3>1 DEF WriteSize
    <3>2. CASE s = handle[p]
      BY <2>1, <2>2, <2>3, <3>2 DEF WriteSize, Segment
    <3>3. QED BY <3>1, <3>2
  <2>4. CASE BumpVersion(p)
    <3>1. CASE s # handle[p]
      BY <2>1, <2>2, <2>4, <3>1 DEF BumpVersion
    <3>2. CASE s = handle[p]
      BY <2>1, <2>2, <2>4, <3>2 DEF BumpVersion, Segment
    <3>3. QED BY <3>1, <3>2
  <2>5. CASE OpenFile(p) \/ OpenFileFails(p) \/ WriteFile(p)
    BY <2>1, <2>5 DEF OpenFile, OpenFileFails, WriteFile
  <2>6. QED BY <1>8, <2>3, <2>4, <2>5
<1>9. QED
  BY <1>1, <1>2, <1>3, <1>4, <1>5, <1>6, <1>7, <1>8 DEF InsideStep

\* Mapping counts the one process that it maps.
LEMMA MapCounts ==
  ASSUME TypeOK, HandlePlaces, NEW p \in Proc, Map(p) \/ MapNew(p),
         NEW s \in Seg, NEW d \in Nat,
         segs[s].ref >= Cardinality(Mapped(s)) + d
  PROVE  segs'[s].ref >= Cardinality(Mapped(s)') + d
<1>1. segs[s].ref \in Int /\ segs[s] \in Segment
  BY DEF TypeOK, Segment
<1>2. pc[p] \in {"acq_map", "acq_mmap"} /\ handle' = handle
  BY DEF Map, MapNew, Goto
<1>3. CASE s = handle[p]
  <2>1. Mapped(s)' = Mapped(s) \union {p} /\ p \notin Mapped(s)
    BY <1>2, <1>3 DEF Mapped, TypeOK, Map, MapNew, Goto
  <2>2. Cardinality(Mapped(s)') = Cardinality(Mapped(s)) + 1
    BY <2>1, MappedFinite, FS_AddElement
  <2>3. segs'[s].ref = segs[s].ref + 1
    BY <1>1, <1>3 DEF Map, MapNew, TypeOK, Segment
  <2>4. QED BY <1>1, <2>2, <2>3, MappedFinite
<1>4. CASE s # handle[p]
  <2>1. Mapped(s)' = Mapped(s)
    BY <1>2, <1>4 DEF Mapped, TypeOK, Map, MapNew, Goto
  <2>2. segs'[s] = segs[s]
    BY <1>4 DEF Map, MapNew, TypeOK
  <2>3. QED BY <2>1, <2>2
<1>5. QED BY <1>3, <1>4

\* A release gives back the reference of the one process that had it.
LEMMA ReleaseDiscounts ==
  ASSUME TypeOK, NEW p \in Proc, Release(p),
         NEW s \in Seg, segs[s].ref >= Cardinality(Mapped(s))
  PROVE  segs'[s].ref >= Cardinality(Mapped(s)')
<1>1. segs[s].ref \in Int /\ segs[s] \in Segment
  BY DEF TypeOK, Segment
<1>2. CASE handle[p] = NoSeg
  <2>1. Mapped(s)' = Mapped(s) /\ segs' = segs
    BY <1>2, ConstantsOK DEF Mapped, TypeOK, Release, Goto
  <2>2. QED BY <2>1
<1>3. CASE handle[p] # NoSeg
  <2> DEFINE less == [segs EXCEPT ![handle[p]].ref = @ - 1]
  <2>1. less \in [Seg -> Segment]
    <3>1. 0 \in 0..Cap
      BY ConstantsOK
    <3>2. QED BY <3>1, SegmentWrites DEF TypeOK
  <2>2. segs' = Kept(less, name, handle')
    BY <1>3 DEF Release
  <2> HIDE DEF less
  <2>3. CASE \A q \in Proc : handle'[q] # s
    <3>1. Mapped(s)' = {} /\ Cardinality(Mapped(s)') = 0
      BY <2>3, FS_EmptySet DEF Mapped
    <3>2. segs'[s].ref >= 0
      <4>1. CASE segs'[s] = ZeroSegment
        BY <4>1 DEF ZeroSegment
      <4>2. CASE segs'[s] = less[s]
        <5>1. CASE s = handle[p]
          <6>1. p \in Mapped(s)
            BY <5>1 DEF Mapped, Release
          <6>2. Cardinality(Mapped(s)) # 0
            BY <6>1, MappedFinite, FS_EmptySet
          <6>3. less[s].ref = segs[s].ref - 1
            BY <5>1, <1>1 DEF less, TypeOK, Segment
          <6>4. QED BY <4>2, <6>2, <6>3, <1>1, MappedFinite
        <5>2. CASE s # handle[p]
          BY <4>2, <5>2, <1>1, MappedFinite DEF less, TypeOK
        <5>3. QED BY <5>1, <5>2
      <4>3. QED BY <4>1, <4>2, <2>1, <2>2, KeptCases
    <3>3. QED BY <3>1, <3>2
  <2>4. CASE \E q \in Proc : handle'[q] = s
    <3>1. segs'[s] = less[s]
      BY <2>1, <2>2, <2>4, KeptCases
    <3>2. CASE s = handle[p]
      <4>1. p \in Mapped(s) /\ Mapped(s)' = Mapped(s) \ {p}
        BY <3>2, ConstantsOK DEF Mapped, TypeOK, Release, Goto
      <4>2. Cardinality(Mapped(s)') = Cardinality(Mapped(s)) - 1
        BY <4>1, MappedFinite, FS_RemoveElement
      <4>3. less[s].ref = segs[s].ref - 1
        BY <3>2, <1>1 DEF less, TypeOK, Segment
      <4>4. QED BY <3>1, <4>2, <4>3, <1>1, MappedFinite
    <3>3. CASE s # handle[p]
      <4>1. Mapped(s)' = Mapped(s)
        BY <3>3, ConstantsOK DEF Mapped, TypeOK, Release, Goto
      <4>2. less[s] = segs[s]
        BY <3>3 DEF less, TypeOK
      <4>3. QED BY <3>1, <4>1, <4>2
    <3>4. QED BY <3>2, <3>3
  <2>5. QED BY <2>3, <2>4
<1>4. QED BY <1>2, <1>3

LEMMA NextRefCovers ==
  TypeOK /\ HandlePlaces /\ RefCovers /\ [Next]_vars => RefCovers'
<1> SUFFICES ASSUME TypeOK, HandlePlaces, RefCovers, [Next]_vars,
                    NEW s \in Seg
             PROVE  segs'[s].ref >= Cardinality(Mapped(s)')
  BY DEF RefCovers
<1>0. segs[s].ref >= Cardinality(Mapped(s))
  BY DEF RefCovers
<1>1. CASE UNCHANGED vars
  BY <1>0, <1>1 DEF Mapped, vars
<1>2. ASSUME NEW p \in Proc, Map(p) \/ MapNew(p)
      PROVE  segs'[s].ref >= Cardinality(Mapped(s)')
  <2>1. segs[s].ref >= Cardinality(Mapped(s)) + 0
    BY <1>0, MappedFinite
  <2>2. segs'[s].ref >= Cardinality(Mapped(s)') + 0
    BY <1>2, <2>1, MapCounts
  <2>3. QED BY <2>2, MappedFinite
<1>3. ASSUME NEW p \in Proc, Release(p)
      PROVE  segs'[s].ref >= Cardinality(Mapped(s)')
  BY <1>0, <1>3, ReleaseDiscounts
<1>4. ASSUME NEW p \in Proc,
             \/ Lock(p) \/ Recover(p) \/ Unlock(p)
             \/ Acquire(p) \/ Call(p) \/ Unlink(p) \/ Die(p)
             \/ InsideStep(p) /\ ~Map(p) /\ ~MapNew(p)
      PROVE  segs'[s].ref >= Cardinality(Mapped(s)')
  BY <1>0, <1>4, UncountedSteps, CountKeptCovers
<1>5. QED
  BY <1>1, <1>2, <1>3, <1>4, NextCases DEF Next

LEMMA InitRefCovers == Init => HandlePlaces /\ RefCovers
<1> SUFFICES ASSUME Init PROVE HandlePlaces /\ RefCovers
  OBVIOUS
<1>1. HandlePlaces
  BY DEF Init, HandlePlaces, Detached
<1>2. ASSUME NEW s \in Seg PROVE segs[s].ref >= Cardinality(Mapped(s))
  <2>1. Mapped(s) = {}
    BY ConstantsOK DEF Init, Mapped
  <2>2. QED BY <2>1, FS_EmptySet DEF Init, ZeroSegment
<1>3. QED BY <1>1, <1>2 DEF RefCovers

LEMMA PlacesAndCounts == Spec => [](HandlePlaces /\ RefCovers)
<1>1. QED
  BY InitRefCovers, NextHandlePlaces, NextRefCovers, TypeCorrect, PTL DEF Spec

\* The count of a segment covers the processes that have it mapped, however
\* releases, attaches, failures and deaths interleave.
THEOREM RefsCover == Spec => []RefCovers
<1>1. QED BY PlacesAndCounts, PTL
-----------------------------------------------------------------------------
(***************************************************************************)
(* One view, when no release overlaps an attach.                           *)
(***************************************************************************)
\* A step that opens nothing, moves no name, and goes to no place where
\* Alone asks for more than before.
NothingOpened ==
  /\ name' = name
  /\ \A q \in Proc : handle'[q] \in {handle[q], NoSeg}
  /\ \A q \in Proc : pc'[q] \in {"acq_trunc", "acq_mmap"} =>
                       pc[q] \in {"acq_trunc", "acq_mmap"}
  /\ \A q \in Proc : pc'[q] = "rel_unlink" => pc[q] = "rel_unlink"

LEMMA NothingOpenedView == ViewInv /\ NothingOpened => ViewInv'
BY DEF ViewInv, SharedView, Alone, Attached, NothingOpened

LEMMA NothingOpenedSteps ==
  ASSUME TypeOK, NEW p \in Proc,
         \/ Lock(p) \/ Recover(p) \/ Unlock(p)
         \/ Acquire(p) \/ Call(p) \/ Die(p)
         \/ InsideStep(p) /\ ~OpenExisting(p) /\ ~CreateNew(p)
  PROVE  NothingOpened
<1> USE DEF NothingOpened
<1>1. CASE Lock(p) \/ Recover(p) \/ Unlock(p) \/ Acquire(p) \/ Call(p)
  BY <1>1 DEF TypeOK, Lock, Recover, Unlock, Acquire, Call, Goto
<1>2. CASE Die(p)
  BY <1>2 DEF TypeOK, Die
<1>3. CASE \/ CreateFails(p) \/ Map(p) \/ MapFails(p) \/ SetSize(p)
           \/ MapNew(p) \/ (NewFails(p) /\ ~Die(p))
  BY <1>3 DEF TypeOK, CreateFails, Map, MapFails, SetSize, MapNew, NewFails,
              Goto
<1>4. CASE ZeroHeader(p) \/ LoadFile(p) \/ CopyChunk(p)
  BY <1>4 DEF TypeOK, ZeroHeader, LoadFile, CopyChunk, Goto
<1>5. CASE \/ GetTasks(p) \/ TaskInsert(p) \/ NotFound(p)
           \/ TaskErase(p) \/ TaskToggleDone(p) \/ TaskEdit(p)
  BY <1>5, CallsFrame DEF TypeOK, Goto
<1>6. CASE \/ WriteSize(p) \/ BumpVersion(p)
           \/ OpenFile(p) \/ OpenFileFails(p) \/ WriteFile(p)
  BY <1>6 DEF TypeOK, WriteSize, BumpVersion, OpenFile, OpenFileFails,
              WriteFile, Goto
<1>7. QED BY <1>1, <1>2, <1>3, <1>4, <1>5, <1>6 DEF InsideStep

\* Two processes are never both inside Acquire.
LEMMA OneAcquires ==
  ASSUME LockHeld, NEW p \in Proc, NEW q \in Proc \ {p}, pc[p] = "acq_open"
  PROVE  pc[q] \notin {"acq_trunc", "acq_mmap"}
BY DEF LockHeld, Inside, InAcquire

LEMMA OpenKeepsView ==
  ASSUME ~Overlap, AttachInv, ViewInv, NEW p \in Proc,
         OpenExisting(p) \/ CreateNew(p)
  PROVE  ViewInv'
<1>1. pc[p] = "acq_open" /\ NobodyUnlinking
  BY DEF OpenExisting, CreateNew, Goto
<1>2. \A q \in Proc \ {p} : pc[q] \notin {"acq_trunc", "acq_mmap", "rel_unlink"}
  BY <1>1, OneAcquires DEF AttachInv, NobodyUnlinking
<1>3. CASE OpenExisting(p)
  BY <1>2, <1>3 DEF AttachInv, TypeOK, ViewInv, SharedView, Alone, Attached,
                    OpenExisting, Goto
<1>4. CASE CreateNew(p)
  <2>1. \A q \in Proc : handle[q] = NoSeg
    BY <1>4 DEF CreateNew, ViewInv, SharedView, Attached
  <2>2. /\ handle'[p] = name'
        /\ \A q \in Proc \ {p} : handle'[q] = NoSeg /\ pc'[q] = pc[q]
    BY <1>4, <2>1 DEF CreateNew, AttachInv, TypeOK, Goto
  <2>3. QED BY <1>2, <2>2 DEF ViewInv, SharedView, Alone, Attached
<1>5. QED BY <1>3, <1>4

\* Whoever gives back a reference and finds it the last one is alone: the
\* count covers the mapped processes, and no one is between open and count.
LEMMA LastReleaseAlone ==
  ASSUME ~Overlap, AttachInv, ViewInv, NEW p \in Proc, Release(p),
         handle[p] # NoSeg, segs[handle[p]].ref <= 1
  PROVE  \A q \in Proc \ {p} : handle[q] = NoSeg
<1> SUFFICES ASSUME NEW q \in Proc \ {p}, handle[q] # NoSeg PROVE FALSE
  OBVIOUS
<1> DEFINE s == handle[p]
<1>1. s \in Seg /\ handle[q] = s
  BY DEF AttachInv, TypeOK, ViewInv, SharedView, Attached
<1>2. pc[q] \notin {"acq_map", "acq_trunc", "acq_mmap"} /\ pc[p] = "ready"
  BY DEF Release, NobodyMapping, ViewInv, Alone
<1>3. p \in Mapped(s) /\ q \in Mapped(s) \ {p}
  BY <1>1, <1>2 DEF Mapped
<1>4. Cardinality(Mapped(s)) <= 1
  <2>1. segs[s].ref \in Int
    BY <1>1 DEF AttachInv, TypeOK, Segment
  <2>2. QED BY <1>1, <2>1, MappedFinite DEF AttachInv, RefCovers
<1>5. /\ IsFiniteSet(Mapped(s) \ {p})
      /\ Cardinality(Mapped(s) \ {p}) = Cardinality(Mapped(s)) - 1
  BY <1>3, MappedFinite, FS_RemoveElement
<1>6. Cardinality(Mapped(s) \ {p}) # 0
  BY <1>3, <1>5, FS_EmptySet
<1>7. Cardinality(Mapped(s) \ {p}) \in Nat
  BY <1>5, FS_CardinalityType
<1>8. QED BY <1>4, <1>5, <1>6, <1>7, MappedFinite

LEMMA ReleaseKeepsView ==
  ASSUME ~Overlap, AttachInv, ViewInv, NEW p \in Proc, Release(p)
  PROVE  ViewInv'
<1>1. CASE handle[p] # NoSeg /\ segs[handle[p]].ref <= 1
  BY <1>1, LastReleaseAlone DEF AttachInv, TypeOK, ViewInv, SharedView, Alone,
                                Attached, Release, Goto
<1>2. CASE ~(handle[p] # NoSeg /\ segs[handle[p]].ref <= 1)
  <2>1. NothingOpened
    BY <1>2 DEF AttachInv, TypeOK, NothingOpened, Release, Goto
  <2>2. QED BY <2>1, NothingOpenedView
<1>3. QED BY <1>1, <1>2

LEMMA NextViewInv ==
  ~Overlap /\ AttachInv /\ ViewInv /\ [Next]_vars => ViewInv'
<1> SUFFICES ASSUME ~Overlap, AttachInv, ViewInv, [Next]_vars PROVE ViewInv'
  OBVIOUS
<1>1. CASE UNCHANGED vars
  BY <1>1 DEF vars, ViewInv, SharedView, Alone, Attached
<1>2. ASSUME NEW p \in Proc, OpenExisting(p) \/ CreateNew(p)
      PROVE  ViewInv'
  BY <1>2, OpenKeepsView
<1>3. ASSUME NEW p \in Proc, Release(p)
      PROVE  ViewInv'
  BY <1>3, ReleaseKeepsView
<1>4. ASSUME NEW p \in Proc, Unlink(p)
      PROVE  ViewInv'
  <2>1. pc[p] = "rel_unlink" /\ handle' = handle /\ name' = NoSeg
    BY <1>4 DEF Unlink, Goto
  <2>2. handle[p] = NoSeg
    BY <2>1 DEF AttachInv, HandlePlaces, Detached
  <2>3. \A q \in Proc : handle'[q] = NoSeg
    BY <2>1, <2>2 DEF ViewInv, Alone
  <2>4. QED BY <2>3 DEF ViewInv, SharedView, Alone, Attached
<1>5. ASSUME NEW p \in Proc,
             \/ Lock(p) \/ Recover(p) \/ Unlock(p)
             \/ Acquire(p) \/ Call(p) \/ Die(p)
             \/ InsideStep(p) /\ ~OpenExisting(p) /\ ~CreateNew(p)
      PROVE  ViewInv'
  BY <1>5, NothingOpenedSteps, NothingOpenedView DEF AttachInv
<1>6. QED
  BY <1>1, <1>2, <1>3, <1>4, <1>5, NextCases DEF Next

\* The condition under which the tokens of a user are tokens of one schedule:
\* if no process gives its last reference back while another one is between
\* shm_open and the count, every attached process has the object open that
\* the name is linked to, wherever processes die and whatever fails.
THEOREM OneView == ASSUME ~Overlap PROVE Spec => []SharedView
<1>1. Init => ViewInv
  BY DEF Init, ViewInv, SharedView, Alone, Attached
<1>2. Spec => []AttachInv
  BY MutexHeld, TypeCorrect, PlacesAndCounts, PTL DEF AttachInv
<1>3. AttachInv /\ ViewInv /\ [Next]_vars => ViewInv'
  BY NextViewInv
<1>4. Spec => []ViewInv
  BY <1>1, <1>2, <1>3, PTL DEF Spec
<1>5. ViewInv => SharedView
  BY DEF ViewInv
<1>6. QED BY <1>4, <1>5, PTL

(***************************************************************************)
(* What insert() and erase() keep of a good list.                          *)
(***************************************************************************)
LEMMA EmptyGood == GoodList(<<>>) /\ <<>> \in Lists
  BY ConstantsOK DEF GoodList, StrictlySorted, DistinctIds, TaskIds, Lists

LEMMA GoodElements ==
  ASSUME NEW list \in Lists
  PROVE  /\ list \in Seq(Task) /\ Len(list) \in Nat
         /\ DOMAIN list = 1..Len(list)
         /\ \A j \in 1..Len(list) :
              /\ list[j] \in Task /\ list[j].key \in Nat
              /\ list[j].id \in Nat
         /\ GoodList(list) <=>
              /\ \A a, b \in 1..Len(list) : a < b => list[a].key < list[b].key
              /\ \A a, b \in 1..Len(list) : list[a].id = list[b].id => a = b
              /\ \A a \in 1..Len(list) : list[a].id # 0
  <1>1. list \in Seq(Task) /\ Len(list) \in Nat /\ DOMAIN list = 1..Len(list)
    BY DEF Lists
  <1>2. \A j \in 1..Len(list) : list[j] \in Task
    BY <1>1
  <1>3. \A t \in Task : t.key \in Nat /\ t.id \in Nat
    BY DEF Task
  <1> QED BY <1>1, <1>2, <1>3
          DEF GoodList, StrictlySorted, DistinctIds, TaskIds

\* The keys before the place lower_bound finds, and those behind it.
LEMMA LowerBoundKeys ==
  ASSUME NEW list \in Lists, GoodList(list), NEW t \in Task,
         NEW i \in LowerBounds(list, t.key), ~KeyTaken(list, i, t.key)
  PROVE  \A j \in 1..Len(list) : /\ j < i => list[j].key < t.key
                                 /\ j >= i => t.key < list[j].key
  <1> DEFINE n == Len(list)
  <1>1. /\ n \in Nat /\ t.key \in Nat /\ i \in 1..(n + 1)
        /\ \A j \in 1..n : list[j].key \in Nat
        /\ \A a, b \in 1..n : a < b => list[a].key < list[b].key
    BY GoodElements DEF LowerBounds, Task
  <1>3. ASSUME NEW j \in 1..n, j < i
        PROVE  list[j].key < t.key
    <2>1. i - 1 \in 1..n /\ list[i - 1].key < t.key
      BY <1>1, <1>3 DEF LowerBounds
    <2>2. list[i - 1].key \in Nat /\ list[j].key \in Nat
      BY <1>1, <2>1
    <2>3. j = i - 1 \/ list[j].key < list[i - 1].key
      BY <1>1, <1>3, <2>1
    <2> QED BY <1>1, <2>1, <2>2, <2>3
  <1>4. ASSUME NEW j \in 1..n, j >= i
        PROVE  t.key < list[j].key
    <2>1. i \in 1..n /\ list[i].key >= t.key /\ list[i].key # t.key
      BY <1>1, <1>4 DEF LowerBounds, KeyTaken
    <2>2. list[i].key \in Nat /\ list[j].key \in Nat
      BY <1>1, <2>1
    <2>3. j = i \/ list[i].key < list[j].key
      BY <1>1, <1>4, <2>1
    <2> QED BY <1>1, <2>1, <2>2, <2>3
  <1> QED BY <1>3, <1>4

\* A task with a new id, put where lower_bound says, in a list without its
\* key.
LEMMA InsertGood ==
  ASSUME NEW list \in Lists, GoodList(list), NEW t \in Task,
         NEW i \in LowerBounds(list, t.key), ~KeyTaken(list, i, t.key),
         t.id # 0, \A j \in 1..Len(list) : list[j].id # t.id,
         InsertAt(list, i, t) \in Lists
  PROVE  GoodList(InsertAt(list, i, t))
  <1> DEFINE n == Len(list)
             new == InsertAt(list, i, t)
  <1>1. /\ n \in Nat /\ t.key \in Nat /\ i \in 1..(n + 1)
        /\ \A j \in 1..n : list[j].key \in Nat
        /\ \A a, b \in 1..n : a < b => list[a].key < list[b].key
        /\ \A a, b \in 1..n : list[a].id = list[b].id => a = b
        /\ \A a \in 1..n : list[a].id # 0
    BY GoodElements DEF LowerBounds, Task
  <1>2. /\ Len(new) = n + 1
        /\ \A j \in 1..(n + 1) : new[j] = IF j < i THEN list[j]
                                          ELSE IF j = i THEN t
                                          ELSE list[j - 1]
    BY <1>1, GoodElements, InsertAtProps
  <1>3. ASSUME NEW j \in 1..n, j < i
        PROVE  list[j].key < t.key
    BY <1>3, LowerBoundKeys
  <1>4. ASSUME NEW j \in 1..n, j >= i
        PROVE  t.key < list[j].key
    BY <1>4, LowerBoundKeys
  <1> HIDE DEF n, new
  <1>5. ASSUME NEW a \in 1..(n + 1), NEW b \in 1..(n + 1), a < b
        PROVE  new[a].key < new[b].key
    <2>1. CASE b < i
      <3>1. a \in 1..n /\ b \in 1..n /\ new[a] = list[a] /\ new[b] = list[b]
        BY <1>1, <1>2, <1>5, <2>1
      <3> QED BY <1>1, <1>5, <3>1
    <2>2. CASE a < i /\ b = i
      <3>1. a \in 1..n /\ new[a] = list[a] /\ new[b] = t
        BY <1>1, <1>2, <1>5, <2>2
      <3> QED BY <1>3, <2>2, <3>1
    <2>3. CASE a < i /\ b > i
      <3>1. /\ a \in 1..n /\ b - 1 \in 1..n /\ a < b - 1
            /\ new[a] = list[a] /\ new[b] = list[b - 1]
        BY <1>1, <1>2, <1>5, <2>3
      <3> QED BY <1>1, <3>1
    <2>4. CASE a = i
      <3>1. b - 1 \in 1..n /\ b - 1 >= i /\ new[a] = t /\ new[b] = list[b - 1]
        BY <1>1, <1>2, <1>5, <2>4
      <3> QED BY <1>4, <3>1
    <2>5. CASE a > i
      <3>1. /\ a - 1 \in 1..n /\ b - 1 \in 1..n /\ a - 1 < b - 1
            /\ new[a] = list[a - 1] /\ new[b] = list[b - 1]
        BY <1>1, <1>2, <1>5, <2>5
      <3> QED BY <1>1, <3>1
    <2> QED BY <1>1, <1>5, <2>1, <2>2, <2>3, <2>4, <2>5
  <1>6. ASSUME NEW a \in 1..(n + 1)
        PROVE  /\ new[a].id # 0
               /\ \A b \in 1..(n + 1) : new[a].id = new[b].id => a = b
    <2> DEFINE at(j) == IF j < i THEN j ELSE j - 1
    <2>1. \A j \in 1..(n + 1) :
            \/ j = i /\ new[j] = t
            \/ j # i /\ at(j) \in 1..n /\ new[j] = list[at(j)]
      BY <1>1, <1>2
    <2>2. \A j, k \in 1..(n + 1) : j # i /\ k # i /\ at(j) = at(k) => j = k
      BY <1>1
    <2> HIDE DEF at
    <2>3. \A j \in 1..n : list[j].id # t.id
      BY DEF n
    <2>4. new[a].id # 0
      BY <1>1, <2>1
    <2>5. ASSUME NEW b \in 1..(n + 1), new[a].id = new[b].id
          PROVE  a = b
      <3>1. CASE a = i \/ b = i
        BY <2>1, <2>3, <2>5, <3>1
      <3>2. CASE a # i /\ b # i
        <4>1. /\ at(a) \in 1..n /\ new[a] = list[at(a)]
              /\ at(b) \in 1..n /\ new[b] = list[at(b)]
          BY <2>1, <3>2
        <4>2. at(a) = at(b)
          BY <1>1, <2>5, <4>1
        <4> QED BY <2>2, <3>2, <4>2
      <3> QED BY <3>1, <3>2
    <2> QED BY <2>4, <2>5
  <1>7. new \in Lists
    BY DEF new
  <1> QED BY <1>2, <1>5, <1>6, <1>7, GoodElements DEF new

LEMMA RemoveGood ==
  ASSUME NEW list \in Lists, GoodList(list), NEW i \in 1..Len(list)
  PROVE  /\ GoodList(RemoveAt(list, i)) /\ RemoveAt(list, i) \in Lists
         /\ \A j \in 1..Len(RemoveAt(list, i)) :
              RemoveAt(list, i)[j].id # list[i].id
  <1> DEFINE n == Len(list)
             new == RemoveAt(list, i)
             at(j) == IF j < i THEN j ELSE j + 1
  <1>1. /\ n \in Nat
        /\ \A a, b \in 1..n : a < b => list[a].key < list[b].key
        /\ \A a, b \in 1..n : list[a].id = list[b].id => a = b
        /\ \A a \in 1..n : list[a].id # 0
    BY GoodElements
  <1>2. /\ Len(new) = n - 1
        /\ \A j \in 1..(n - 1) : new[j] = list[at(j)]
    <2>1. \A j \in 1..(n - 1) : new[j] = IF j < i THEN list[j] ELSE list[j + 1]
      BY <1>1, GoodElements, RemoveAtProps
    <2>2. Len(new) = n - 1
      BY <1>1, GoodElements, RemoveAtProps
    <2> QED BY <2>1, <2>2
  <1>3. new \in Lists
    BY GoodElements, ListOpsType
  <1>4. /\ \A j \in 1..(n - 1) : at(j) \in 1..n /\ at(j) # i
        /\ \A j, k \in 1..(n - 1) : j < k => at(j) < at(k)
        /\ \A j, k \in 1..(n - 1) : at(j) = at(k) => j = k
    BY <1>1
  <1> HIDE DEF n, new, at
  <1>5. GoodList(new)
    <2>1. ASSUME NEW a \in 1..(n - 1), NEW b \in 1..(n - 1)
          PROVE  /\ a < b => new[a].key < new[b].key
                 /\ new[a].id = new[b].id => a = b
                 /\ new[a].id # 0
      <3>1. /\ new[a] = list[at(a)] /\ new[b] = list[at(b)]
            /\ at(a) \in 1..n /\ at(b) \in 1..n
        BY <1>2, <1>4
      <3>2. a < b => new[a].key < new[b].key
        BY <1>1, <1>4, <3>1
      <3>3. new[a].id = new[b].id => a = b
        <4>1. new[a].id = new[b].id => at(a) = at(b)
          BY <1>1, <3>1
        <4> QED BY <1>4, <4>1
      <3> QED BY <1>1, <3>1, <3>2, <3>3
    <2> QED BY <1>2, <1>3, <2>1, GoodElements
  <1>6. \A j \in 1..(n - 1) : new[j].id # list[i].id
    BY <1>1, <1>2, <1>4 DEF n
  <1> QED BY <1>2, <1>3, <1>5, <1>6 DEF new

\* A task is changed in its place, where its id and key stay.
LEMMA ReplaceGood ==
  ASSUME NEW list \in Lists, GoodList(list), NEW i \in 1..Len(list),
         NEW t \in Task, t.id = list[i].id, t.key = list[i].key
  PROVE  /\ GoodList([list EXCEPT ![i] = t])
         /\ [list EXCEPT ![i] = t] \in Lists
  <1> DEFINE new == [list EXCEPT ![i] = t]
  <1>1. new \in Lists
    BY GoodElements, ListOpsType
  <1>2. Len(new) = Len(list)
    BY GoodElements
  <1>3. \A j \in 1..Len(list) :
          new[j].id = list[j].id /\ new[j].key = list[j].key
    BY GoodElements
  <1> HIDE DEF new
  <1>4. /\ \A a, b \in 1..Len(list) : a < b => list[a].key < list[b].key
        /\ \A a, b \in 1..Len(list) : list[a].id = list[b].id => a = b
        /\ \A a \in 1..Len(list) : list[a].id # 0
    BY GoodElements
  <1>5. GoodList(new)
    BY <1>1, <1>2, <1>3, <1>4, GoodElements
  <1> QED BY <1>1, <1>5 DEF new

\* One more than the largest id is no task's, as long as ids do not wrap.
LEMMA NewId ==
  ASSUME IdStop < IdMod, NEW list \in Lists, NEW m \in MaxIds(list),
         m < IdStop
  PROVE  /\ NextId(m) \in 1..IdStop
         /\ \A j \in 1..Len(list) : list[j].id # NextId(m)
  <1>1. m \in Nat
    BY GoodElements DEF MaxIds, TaskIds
  <1>2. NextId(m) = m + 1
    BY <1>1, ConstantsOK DEF NextId
  <1>3. \A j \in 1..Len(list) : list[j].id <= m /\ list[j].id \in Nat
    BY GoodElements DEF MaxIds, TaskIds
  <1> QED BY <1>1, <1>2, <1>3, ConstantsOK

\* The same operations on the set of the list's tasks.
LEMMA InsertSet ==
  ASSUME NEW list \in Lists, GoodList(list), NEW t \in Task,
         NEW i \in LowerBounds(list, t.key), ~KeyTaken(list, i, t.key)
  PROVE  /\ \A u \in ToSet(list) : u.key # t.key
         /\ ToSet(InsertAt(list, i, t)) = ToSet(list) \union {t}
  <1> DEFINE n == Len(list)
             new == InsertAt(list, i, t)
  <1>1. /\ n \in Nat /\ i \in 1..(n + 1) /\ t.key \in Nat
        /\ \A j \in 1..n : list[j].key \in Nat
    BY GoodElements DEF LowerBounds, Task
  <1>2. /\ DOMAIN new = 1..(n + 1)
        /\ \A j \in 1..(n + 1) : new[j] = IF j < i THEN list[j]
                                          ELSE IF j = i THEN t
                                          ELSE list[j - 1]
    BY <1>1, GoodElements, InsertAtProps
  <1>3. \A j \in 1..n : list[j].key # t.key
    <2>1. \A j \in 1..n : list[j].key < t.key \/ t.key < list[j].key
      BY <1>1, LowerBoundKeys
    <2> QED BY <1>1, <2>1
  <1>4. DOMAIN list = 1..n
    BY GoodElements
  <1> HIDE DEF n, new
  <1>5. ToSet(new) \subseteq ToSet(list) \union {t}
    <2>1. ASSUME NEW j \in 1..(n + 1)
          PROVE  new[j] = t \/ \E k \in 1..n : new[j] = list[k]
      <3>1. CASE j < i
        BY <1>1, <1>2, <3>1
      <3>2. CASE j = i
        BY <1>1, <1>2, <3>2
      <3>3. CASE j > i
        <4>1. j - 1 \in 1..n
          BY <1>1, <3>3
        <4> QED BY <1>1, <1>2, <3>3, <4>1
      <3> QED BY <1>1, <3>1, <3>2, <3>3
    <2> QED BY <1>2, <1>4, <2>1 DEF ToSet
  <1>6. ToSet(list) \union {t} \subseteq ToSet(new)
    <2>1. i \in 1..(n + 1) /\ new[i] = t
      BY <1>1, <1>2
    <2>2. ASSUME NEW k \in 1..n
          PROVE  \E j \in 1..(n + 1) : new[j] = list[k]
      <3>1. CASE k < i
        <4>1. k \in 1..(n + 1)
          BY <1>1
        <4> QED BY <1>2, <3>1, <4>1
      <3>2. CASE k >= i
        <4>1. k + 1 \in 1..(n + 1) /\ k + 1 > i /\ k + 1 - 1 = k
          BY <1>1, <3>2
        <4>2. new[k + 1] = list[k]
          BY <1>1, <1>2, <4>1
        <4> QED BY <4>1, <4>2
      <3> QED BY <1>1, <3>1, <3>2
    <2> QED BY <1>2, <1>4, <2>1, <2>2 DEF ToSet
  <1>7. \A u \in ToSet(list) : u.key # t.key
    BY <1>3, <1>4 DEF ToSet
  <1> QED BY <1>5, <1>6, <1>7 DEF new

LEMMA RemoveSet ==
  ASSUME NEW list \in Lists, GoodList(list), NEW i \in 1..Len(list)
  PROVE  ToSet(RemoveAt(list, i)) = ToSet(list) \ {list[i]}
  <1> DEFINE n == Len(list)
             new == RemoveAt(list, i)
  <1>1. /\ n \in Nat /\ i \in 1..n /\ DOMAIN list = 1..n
        /\ \A a, b \in 1..n : list[a].id = list[b].id => a = b
    BY GoodElements
  <1>2. /\ DOMAIN new = 1..(n - 1)
        /\ \A j \in 1..(n - 1) : new[j] = IF j < i THEN list[j]
                                          ELSE list[j + 1]
    BY <1>1, GoodElements, RemoveAtProps
  <1> HIDE DEF n, new
  <1>3. ToSet(new) \subseteq ToSet(list) \ {list[i]}
    <2>1. ASSUME NEW j \in 1..(n - 1)
          PROVE  \E k \in 1..n \ {i} : new[j] = list[k]
      <3>1. CASE j < i
        <4>1. j \in 1..n \ {i}
          BY <1>1, <3>1
        <4> QED BY <1>2, <3>1, <4>1
      <3>2. CASE j >= i
        <4>1. j + 1 \in 1..n \ {i}
          BY <1>1, <3>2
        <4>2. new[j] = list[j + 1]
          BY <1>1, <1>2, <3>2
        <4> QED BY <4>1, <4>2
      <3> QED BY <1>1, <3>1, <3>2
    <2>2. \A k \in 1..n \ {i} : list[k] # list[i]
      BY <1>1
    <2> QED BY <1>1, <1>2, <2>1, <2>2 DEF ToSet
  <1>4. ToSet(list) \ {list[i]} \subseteq ToSet(new)
    <2>1. ASSUME NEW k \in 1..n \ {i}
          PROVE  \E j \in 1..(n - 1) : new[j] = list[k]
      <3>1. CASE k < i
        <4>1. k \in 1..(n - 1)
          BY <1>1, <3>1
        <4> QED BY <1>2, <3>1, <4>1
      <3>2. CASE k > i
        <4>1. k - 1 \in 1..(n - 1) /\ ~(k - 1 < i) /\ k - 1 + 1 = k
          BY <1>1, <3>2
        <4>2. new[k - 1] = list[k]
          BY <1>1, <1>2, <4>1
        <4> QED BY <4>1, <4>2
      <3> QED BY <1>1, <3>1, <3>2
    <2>2. ASSUME NEW x \in ToSet(list), x # list[i]
          PROVE  x \in ToSet(new)
      <3>1. PICK k \in 1..n : x = list[k]
        BY <1>1 DEF ToSet
      <3>2. PICK j \in 1..(n - 1) : new[j] = list[k]
        BY <2>1, <2>2, <3>1
      <3> QED BY <1>2, <3>1, <3>2 DEF ToSet
    <2> QED BY <2>2
  <1> QED BY <1>3, <1>4 DEF new

LEMMA ReplaceSet ==
  ASSUME NEW list \in Lists, GoodList(list), NEW i \in 1..Len(list), NEW t
  PROVE  /\ ToSet([list EXCEPT ![i] = t]) = (ToSet(list) \ {list[i]})
                                              \union {t}
         /\ \A u \in ToSet(list) \ {list[i]} : u.key # list[i].key
  <1> DEFINE n == Len(list)
             new == [list EXCEPT ![i] = t]
  <1>1. /\ n \in Nat /\ i \in 1..n /\ DOMAIN list = 1..n
        /\ \A a, b \in 1..n : list[a].id = list[b].id => a = b
        /\ \A a, b \in 1..n : a < b => list[a].key < list[b].key
        /\ \A a \in 1..n : list[a].key \in Nat
    BY GoodElements
  <1>2. /\ DOMAIN new = 1..n /\ new[i] = t
        /\ \A j \in 1..n \ {i} : new[j] = list[j] /\ list[j] # list[i]
    BY <1>1, GoodElements
  <1>3. \A j \in 1..n \ {i} : list[j].key # list[i].key
    <2>1. \A j \in 1..n \ {i} : \/ list[j].key < list[i].key
                               \/ list[i].key < list[j].key
      BY <1>1
    <2> QED BY <1>1, <2>1
  <1> HIDE DEF n, new
  <1>4. ToSet(new) = (ToSet(list) \ {list[i]}) \union {t}
    BY <1>1, <1>2 DEF ToSet
  <1> QED BY <1>1, <1>3, <1>4 DEF new, ToSet

(***************************************************************************)
(* Copies.  While a list is copied the segment has its size, and the front *)
(* of its tasks up to the chunk that is next.                              *)
(***************************************************************************)
CopyPlaces == InStore \union {"load_copy"}
Copying == {"store_copy", "load_copy"}
Pending == CopyPlaces \union {"st_size", "st_open", "st_write"}

CopyOf(p) ==
  /\ pc[p] \in CopyPlaces => segs[handle[p]].size = Len(pend[p])
  /\ pc[p] \in Copying =>
       /\ chunk[p] <= Len(pend[p])
       /\ chunk[p] > 0 => segs[handle[p]].header
       /\ \A i \in 1..Len(pend[p]) :
            i < chunk[p] => segs[handle[p]].data[i] = pend[p][i]
  /\ pc[p] \notin Copying => chunk[p] = 0

CopyInv == \A p \in Proc : CopyOf(p)

USE DEF CopyPlaces, Copying, Pending, InStore

LEMMA AttachHolds == Spec => []AttachInv
  BY MutexHeld, TypeCorrect, PlacesAndCounts, PTL DEF AttachInv

\* What a list is made of, and the version it has.
Content(t) == <<t.version, t.size, t.header, t.data>>

LEMMA SameContent ==
  ASSUME NEW t, NEW u, Content(t) = Content(u)
  PROVE  /\ ListOf(t) = ListOf(u) /\ t.version = u.version
         /\ t.size = u.size /\ t.header = u.header /\ t.data = u.data
  BY DEF Content, ListOf

LEMMA ZeroList == ListOf(ZeroSegment) = <<>>
  BY DEF ListOf, ZeroSegment

\* A step that writes no list, and brings nobody to a place where one is to
\* be written.
CalmSeg(s) ==
  \/ Content(segs'[s]) = Content(segs[s])
  \/ segs'[s] = ZeroSegment /\ \A q \in Proc : handle'[q] # s

CalmProc(q) ==
  \/ /\ pc'[q] = pc[q] /\ pend'[q] = pend[q] /\ chunk'[q] = chunk[q]
     /\ handle'[q] = handle[q]
  \/ pc[q] \notin CopyPlaces /\ pc'[q] \notin Pending
     /\ chunk'[q] \in {chunk[q], 0}

Calm == /\ file' = file
        /\ \A s \in Seg : CalmSeg(s)
        /\ \A q \in Proc : CalmProc(q)

CalmStep(p) ==
  \/ Lock(p) \/ Recover(p) \/ Unlock(p)
  \/ Acquire(p) \/ Call(p) \/ Release(p) \/ Unlink(p)
  \/ OpenExisting(p) \/ CreateNew(p) \/ CreateFails(p)
  \/ Map(p) \/ MapFails(p) \/ SetSize(p) \/ MapNew(p)
  \/ NewFails(p) /\ ~Die(p)
  \/ GetTasks(p) \/ Return(p)

LEMMA KeptCalm ==
  ASSUME NEW ss \in [Seg -> Segment], NEW linked,
         segs' = Kept(ss, linked, handle'),
         NEW s \in Seg, Content(ss[s]) = Content(segs[s])
  PROVE  CalmSeg(s)
  BY KeptCases DEF CalmSeg, Kept

LEMMA FieldsCalm ==
  ASSUME TypeOK, NEW h \in Seg, NEW s \in Seg, NEW n \in Int
  PROVE  /\ Content([segs EXCEPT ![h].ref = n][s]) = Content(segs[s])
         /\ Content([segs EXCEPT ![h].sized = TRUE][s]) = Content(segs[s])
  <1>1. segs \in [Seg -> Segment]
    BY DEF TypeOK
  <1>2. CASE s = h
    BY <1>1, <1>2 DEF Content, Segment
  <1>3. CASE s # h
    BY <1>1, <1>3 DEF Content
  <1> QED BY <1>2, <1>3

LEMMA CalmSteps ==
  ASSUME AttachInv, NEW p \in Proc,
         CalmStep(p) \/ (Die(p) /\ pc[p] \notin CopyPlaces)
  PROVE  Calm
  <1>1. /\ pc \in [Proc -> Places \union {"out"}]
        /\ handle \in [Proc -> Seg \union {NoSeg}]
        /\ pend \in [Proc -> Lists] /\ chunk \in [Proc -> 0..Cap]
        /\ segs \in [Seg -> Segment] /\ TypeOK
    BY DEF AttachInv, TypeOK
  <1>2. CASE Lock(p) \/ Recover(p) \/ Unlock(p) \/ Acquire(p) \/ Call(p)
    BY <1>1, <1>2 DEF Calm, CalmSeg, CalmProc, Lock, Recover, Unlock,
                      Acquire, Call, Goto
  <1>3. CASE OpenExisting(p) \/ CreateNew(p) \/ CreateFails(p)
    BY <1>1, <1>3 DEF Calm, CalmSeg, CalmProc, OpenExisting, CreateNew,
                      CreateFails, Goto
  <1>4. CASE GetTasks(p) \/ Return(p)
    BY <1>1, <1>4 DEF Calm, CalmSeg, CalmProc, GetTasks, Return, Goto
  <1>5. CASE Map(p) \/ SetSize(p) \/ MapNew(p)
    <2>1. handle[p] \in Seg
      BY <1>1, <1>5 DEF AttachInv, HandlePlaces, Detached, MayBeNull, Map,
                        SetSize, MapNew, Goto
    <2>2. segs[handle[p]].ref + 1 \in Int
      BY <1>1, <2>1 DEF Segment
    <2>3. \/ segs' = [segs EXCEPT ![handle[p]].ref = segs[handle[p]].ref + 1]
          \/ segs' = [segs EXCEPT ![handle[p]].sized = TRUE]
      BY <1>1, <1>5, <2>1 DEF Map, SetSize, MapNew
    <2> DEFINE n == segs[handle[p]].ref + 1
    <2> HIDE DEF n
    <2>4. ASSUME NEW s \in Seg
          PROVE  Content(segs'[s]) = Content(segs[s])
      <3>1. /\ Content([segs EXCEPT ![handle[p]].ref = n][s])
                 = Content(segs[s])
            /\ Content([segs EXCEPT ![handle[p]].sized = TRUE][s])
                 = Content(segs[s])
        BY <1>1, <2>1, <2>2, FieldsCalm DEF n
      <3> QED BY <2>3, <3>1 DEF n
    <2>5. \A s \in Seg : CalmSeg(s)
      BY <2>4 DEF CalmSeg
    <2> QED BY <1>1, <1>5, <2>5 DEF Calm, CalmProc, Map, SetSize, MapNew, Goto
  <1>6. CASE MapFails(p) \/ (NewFails(p) /\ ~Die(p)) \/ Unlink(p)
    <2>1. \A s \in Seg : CalmSeg(s)
      BY <1>1, <1>6, KeptCalm DEF MapFails, NewFails, Unlink
    <2> QED BY <1>1, <1>6, <2>1 DEF Calm, CalmProc, MapFails, NewFails,
                                    Unlink, Goto
  <1>7. CASE Release(p)
    <2>1. CASE handle[p] = NoSeg
      BY <1>1, <1>7, <2>1 DEF Calm, CalmSeg, CalmProc, Release, Goto
    <2>2. CASE handle[p] # NoSeg
      <3>1. handle[p] \in Seg
        BY <1>1, <2>2
      <3>2. segs[handle[p]].ref - 1 \in Int
        BY <1>1, <3>1 DEF Segment
      <3> DEFINE ss == [segs EXCEPT ![handle[p]].ref = @ - 1]
      <3>3. ss \in [Seg -> Segment]
        <4>1. [segs[handle[p]] EXCEPT !.ref = @ - 1] \in Segment
          BY <1>1, <3>1, <3>2 DEF Segment
        <4> QED BY <1>1, <4>1
      <3>4. segs' = Kept(ss, name, handle')
        BY <1>7, <2>2 DEF Release
      <3>5. \A s \in Seg : Content(ss[s]) = Content(segs[s])
        BY <1>1, <3>1, <3>2, FieldsCalm
      <3> HIDE DEF ss
      <3>6. \A s \in Seg : CalmSeg(s)
        BY <3>3, <3>4, <3>5, KeptCalm
      <3> QED BY <1>1, <1>7, <3>6 DEF Calm, CalmProc, Release, Goto
    <2> QED BY <2>1, <2>2
  <1>8. CASE Die(p) /\ pc[p] \notin CopyPlaces
    <2>1. \A s \in Seg : CalmSeg(s)
      BY <1>1, <1>8, KeptCalm DEF Die
    <2> QED BY <1>1, <1>8, <2>1 DEF Calm, CalmProc, Die
  <1> QED BY <1>2, <1>3, <1>4, <1>5, <1>6, <1>7, <1>8 DEF CalmStep

LEMMA CalmKeepsCopies ==
  ASSUME AttachInv, CopyInv, Calm
  PROVE  CopyInv'
  <1>1. /\ handle \in [Proc -> Seg \union {NoSeg}]
        /\ \A q \in Proc : pc[q] \in CopyPlaces => handle[q] \in Seg
    BY DEF AttachInv, TypeOK, HandlePlaces, Detached, MayBeNull
  <1>2. ASSUME NEW q \in Proc
        PROVE  CopyOf(q)'
    <2>1. CopyOf(q) /\ CalmProc(q)
      BY DEF CopyInv, Calm
    <2>2. CASE pc'[q] \notin Pending
      BY <2>1, <2>2 DEF CopyOf, CalmProc
    <2>3. CASE pc'[q] \in Pending
      <3>1. /\ pc'[q] = pc[q] /\ pend'[q] = pend[q] /\ chunk'[q] = chunk[q]
            /\ handle'[q] = handle[q]
        BY <2>1, <2>3 DEF CalmProc
      <3>2. pc[q] \in CopyPlaces =>
              Content(segs'[handle[q]]) = Content(segs[handle[q]])
        BY <1>1, <3>1 DEF Calm, CalmSeg
      <3> QED BY <2>1, <3>1, <3>2, SameContent DEF CopyOf
    <2> QED BY <2>2, <2>3
  <1> QED BY <1>2 DEF CopyInv

\* One process at a time writes, and leaves the others' segments alone.
LEMMA OthersOutside ==
  ASSUME AttachInv, NEW p \in Proc, pc[p] \in Inside
  PROVE  \A q \in Proc \ {p} :
           pc[q] \notin Inside /\ pc[q] \notin Pending /\ pc[q] \notin Copying
  BY DEF AttachInv, LockHeld, Inside, InCall, InAcquire

\* A write of p to its own segment or to the file.
WriteStep(p) ==
  /\ pc[p] \in Inside /\ handle[p] \in Seg /\ handle' = handle
  /\ \A q \in Proc \ {p} : pc'[q] = pc[q] /\ chunk'[q] = chunk[q]
  /\ \A s \in Seg \ {handle[p]} : segs'[s] = segs[s]

LEMMA TruncatedList ==
  ASSUME NEW list \in Lists
  PROVE  Truncated(list) = list
  <1>1. list \in Seq(Task) /\ Len(list) <= Cap
    BY DEF Lists
  <1>2. SubSeq(list, 1, Len(list)) = list
    BY <1>1
  <1> QED BY <1>1, <1>2 DEF Truncated

\* The segment's list once all of it is copied.
LEMMA CopiedList ==
  ASSUME NEW t \in Segment, NEW list \in Lists, t.header,
         t.size = Len(list), \A i \in 1..Len(list) : t.data[i] = list[i]
  PROVE  ListOf(t) = list
  <1>1. list \in Seq(Task) /\ Len(list) <= Cap
    BY DEF Lists
  <1>2. list = [i \in 1..Len(list) |-> list[i]]
    BY <1>1
  <1> QED BY <1>2 DEF ListOf

\* The steps that write to the segment or the file.
InsideWrite(p) ==
  \/ ZeroHeader(p) \/ LoadFile(p) \/ CopyChunk(p)
  \/ WriteSize(p) \/ BumpVersion(p)
  \/ OpenFile(p) \/ OpenFileFails(p) \/ WriteFile(p)

LEMMA InsideWriteStep ==
  ASSUME AttachInv, NEW p \in Proc, InsideWrite(p)
  PROVE  /\ WriteStep(p) /\ segs[handle[p]] \in Segment
         /\ segs'[handle[p]] \in Segment /\ TypeOK'
  <1>1. /\ pc \in [Proc -> Places \union {"out"}]
        /\ handle \in [Proc -> Seg \union {NoSeg}]
        /\ chunk \in [Proc -> 0..Cap] /\ segs \in [Seg -> Segment]
    BY DEF AttachInv, TypeOK
  <1>2. /\ pc[p] \in Inside /\ handle' = handle
        /\ pc[p] \notin Detached \union MayBeNull
    BY DEF InsideWrite, ZeroHeader, LoadFile, CopyChunk, WriteSize,
           BumpVersion, OpenFile, OpenFileFails, WriteFile, Goto, Inside,
           InAcquire, InCall, Detached, MayBeNull
  <1>3. handle[p] \in Seg
    BY <1>1, <1>2 DEF AttachInv, HandlePlaces
  <1>4. \A q \in Proc \ {p} : pc'[q] = pc[q] /\ chunk'[q] = chunk[q]
    BY <1>1 DEF InsideWrite, ZeroHeader, LoadFile, CopyChunk, WriteSize,
                BumpVersion, OpenFile, OpenFileFails, WriteFile, Goto
  <1>5. \A s \in Seg \ {handle[p]} : segs'[s] = segs[s]
    BY <1>1, <1>3 DEF InsideWrite, ZeroHeader, LoadFile, CopyChunk, WriteSize,
                BumpVersion, OpenFile, OpenFileFails, WriteFile, Goto
  <1>6. Next
    BY DEF InsideWrite, Next, Work
  <1>7. TypeOK'
    BY <1>6, NextTypeOK DEF AttachInv
  <1> QED BY <1>1, <1>2, <1>3, <1>4, <1>5, <1>7 DEF WriteStep, TypeOK

\* One more chunk is copied; after the last one the segment has the list.
LEMMA ChunkCopied ==
  ASSUME AttachInv, CopyInv, NEW p \in Proc, CopyChunk(p)
  PROVE  /\ segs'[handle[p]].size = Len(pend[p]) /\ segs'[handle[p]].header
         /\ \A i \in 1..Len(pend[p]) : i < chunk[p] + 1 =>
              segs'[handle[p]].data[i] = pend[p][i]
         /\ chunk[p] = Len(pend[p]) => ListOf(segs'[handle[p]]) = pend[p]
  <1> DEFINE t == segs[handle[p]]
             u == segs'[handle[p]]
             c == chunk[p]
             l == pend[p]
  <1>1. handle[p] \in Seg /\ t \in Segment /\ u \in Segment /\ l \in Lists
    BY InsideWriteStep DEF InsideWrite, WriteStep, AttachInv, TypeOK
  <1>2. Len(l) \in Nat /\ \A i \in 1..Len(l) : i \in 1..Cap
    BY <1>1, ConstantsOK DEF Lists
  <1>3. c \in Nat /\ u = WithChunk(t, c, l) /\ pc[p] \in Copying
    BY <1>1 DEF CopyChunk, AttachInv, TypeOK
  <1>4. /\ t.size = Len(l) /\ c <= Len(l) /\ (c > 0 => t.header)
        /\ \A i \in 1..Len(l) : i < c => t.data[i] = l[i]
    BY <1>3 DEF CopyInv, CopyOf
  <1>5. /\ u.size = Len(l) /\ u.header
        /\ \A i \in 1..Len(l) : i < c + 1 => u.data[i] = l[i]
    <2>1. CASE c = 0
      BY <1>1, <1>2, <1>3, <1>4, <2>1 DEF WithChunk, Segment
    <2>2. CASE c > 0
      <3>1. u = [t EXCEPT !.data[c] = l[c]]
        BY <1>3, <2>2 DEF WithChunk
      <3>2. /\ u.size = t.size /\ u.header = t.header
            /\ u.data = [t.data EXCEPT ![c] = l[c]]
            /\ t.data \in [1..Cap -> Task]
        BY <1>1, <3>1 DEF Segment
      <3>3. ASSUME NEW i \in 1..Len(l), i < c + 1
            PROVE  u.data[i] = l[i]
        <4>1. i \in 1..Cap
          BY <1>2
        <4>2. i < c \/ i = c
          BY <1>2, <1>3, <3>3
        <4> HIDE DEF t, u, l, c
        <4> QED BY <1>4, <3>2, <4>1, <4>2
      <3> QED BY <1>4, <2>2, <3>2, <3>3
    <2> QED BY <1>3, <2>1, <2>2
  <1>6. c = Len(l) => ListOf(u) = l
    <2> SUFFICES ASSUME c = Len(l) PROVE ListOf(u) = l
      OBVIOUS
    <2>1. \A i \in 1..Len(l) : u.data[i] = l[i]
      BY <1>2, <1>5
    <2> HIDE DEF u, l
    <2> QED BY <1>1, <1>5, <2>1, CopiedList
  <1> QED BY <1>5, <1>6

LEMMA WritesKeepCopies ==
  ASSUME AttachInv, CopyInv, NEW p \in Proc, InsideWrite(p)
  PROVE  CopyInv'
  <1> DEFINE h == handle[p]
             t == segs[h]
             u == segs'[h]
  <1>1. /\ WriteStep(p) /\ t \in Segment /\ u \in Segment /\ h \in Seg
        /\ handle'[p] = h
    BY InsideWriteStep DEF WriteStep
  <1>2. /\ segs \in [Seg -> Segment] /\ pend \in [Proc -> Lists]
        /\ pc \in [Proc -> Places \union {"out"}]
        /\ chunk \in [Proc -> 0..Cap] /\ file \in Lists
    BY DEF AttachInv, TypeOK
  <1>3. CopyOf(p)
    BY DEF CopyInv
  <1>4. Len(pend[p]) \in Nat /\ \A i \in 1..Len(pend[p]) : i \in 1..Cap
    BY <1>2, ConstantsOK DEF Lists
  <1>5. SUFFICES CopyOf(p)'
    <2>1. ASSUME NEW q \in Proc \ {p} PROVE CopyOf(q)'
      BY <1>1, OthersOutside DEF WriteStep, CopyInv, CopyOf
    <2> QED BY <1>5, <2>1 DEF CopyInv
  <1>6. CASE ZeroHeader(p)
    <2>1. pc[p] = "acq_zero" /\ pc'[p] = "acq_load" /\ chunk' = chunk
      BY <1>2, <1>6 DEF ZeroHeader, Goto
    <2> QED BY <1>3, <2>1 DEF CopyOf
  <1>7. CASE LoadFile(p)
    <2>1. CASE pc'[p] = "unlock"
      <3>1. pc[p] = "acq_load" /\ chunk' = chunk
        BY <1>2, <1>7, <2>1 DEF LoadFile, Goto
      <3> QED BY <1>3, <2>1, <3>1 DEF CopyOf
    <2>2. CASE pc'[p] # "unlock"
      <3>1. Len(file) \in 0..Cap
        BY <1>2 DEF Lists
      <3>2. /\ pc[p] = "acq_load" /\ pc'[p] = "load_copy"
            /\ pend'[p] = file /\ u.size = Len(file) /\ chunk' = chunk
        BY <1>1, <1>2, <1>7, <2>2, TruncatedList
           DEF LoadFile, Goto, Segment
      <3> QED BY <1>1, <1>2, <1>3, <3>1, <3>2 DEF CopyOf
    <2> QED BY <2>1, <2>2
  <1>8. CASE CopyChunk(p)
    <2> DEFINE c == chunk[p]
               l == pend[p]
    <2>1. pc[p] \in Copying /\ c \in Nat /\ Len(l) \in Nat
      BY <1>2, <1>4, <1>8 DEF CopyChunk
    <2>2. /\ u.size = Len(l) /\ u.header
          /\ \A i \in 1..Len(l) : i < c + 1 => u.data[i] = l[i]
      BY <1>8, ChunkCopied
    <2>3. CASE c < Len(l) /\ chunk'[p] = c + 1 /\ UNCHANGED <<pc, pend>>
      BY <1>1, <1>2, <2>1, <2>2, <2>3 DEF CopyOf
    <2>4. CASE c = Len(l)
      <3>1. pc'[p] \in {"unlock", "st_open"} /\ chunk'[p] = 0
        BY <1>2, <1>8, <2>4 DEF CopyChunk, Goto
      <3> QED BY <3>1 DEF CopyOf
    <2>5. \/ c < Len(l) /\ chunk'[p] = c + 1 /\ UNCHANGED <<pc, pend>>
          \/ c = Len(l)
      BY <1>2, <1>8 DEF CopyChunk
    <2> QED BY <2>3, <2>4, <2>5
  <1>9. CASE WriteSize(p)
    <2>1. /\ pc[p] = "st_size" /\ pc'[p] = "st_version"
          /\ u.size = Len(pend[p]) /\ pend' = pend /\ chunk' = chunk
      BY <1>1, <1>2, <1>9 DEF WriteSize, Goto, Segment
    <2> QED BY <1>1, <1>2, <1>3, <2>1 DEF CopyOf
  <1>10. CASE BumpVersion(p)
    <2>1. /\ pc[p] = "st_version" /\ pc'[p] = "store_copy"
          /\ u.size = t.size /\ pend' = pend /\ chunk' = chunk
      BY <1>1, <1>2, <1>10 DEF BumpVersion, Goto, Segment
    <2> QED BY <1>1, <1>2, <1>3, <1>4, <2>1 DEF CopyOf
  <1>11. CASE OpenFile(p) \/ OpenFileFails(p) \/ WriteFile(p)
    <2>1. /\ pc[p] \in {"st_open", "st_write"} /\ chunk' = chunk
          /\ pc'[p] \in {"st_write", "unlock"}
      BY <1>2, <1>11 DEF OpenFile, OpenFileFails, WriteFile, Goto
    <2> QED BY <1>3, <2>1 DEF CopyOf
  <1> QED BY <1>6, <1>7, <1>8, <1>9, <1>10, <1>11 DEF InsideWrite

\* Nobody dies between the size and the last task of a list.
NoTear == CrashAt \intersect CopyPlaces = {}

\* The steps of a process, by what they do to the lists.
LEMMA ListCases ==
  ASSUME NEW p \in Proc, Lock(p) \/ Work(p) \/ Decision(p) \/ Crash(p)
  PROVE  \/ CalmStep(p)
         \/ Die(p) /\ pc[p] \in CrashAt
         \/ Die(p) /\ pc[p] \notin CopyPlaces
         \/ TaskInsert(p) \/ TaskErase(p) \/ TaskToggleDone(p) \/ TaskEdit(p)
         \/ InsideWrite(p)
  <1>1. Crash(p) => Die(p) /\ pc[p] \in CrashAt
    BY DEF Crash
  <1>2. Segfault(p) => Die(p) /\ pc[p] \notin CopyPlaces
    BY DEF Segfault
  <1>3. NewFails(p) => CalmStep(p) \/ (Die(p) /\ pc[p] \notin CopyPlaces)
    BY DEF NewFails, CalmStep
  <1>4. NotFound(p) => CalmStep(p)
    BY DEF NotFound, CalmStep
  <1> QED BY <1>1, <1>2, <1>3, <1>4 DEF Work, Decision, CalmStep, InsideWrite

LEMMA CallsStore ==
  ASSUME NEW p \in Proc,
         TaskInsert(p) \/ TaskErase(p) \/ TaskToggleDone(p) \/ TaskEdit(p)
  PROVE  handle[p] # NoSeg /\ (Return(p) \/ \E list : Store(p, list))
  <1> DEFINE Done == Return(p) \/ \E list : Store(p, list)
  <1>1. ASSUME NEW l, NEW t, InsertAndStore(p, l, t)
        PROVE  Done
    BY <1>1 DEF InsertAndStore
  <1>2. ASSUME NEW l, Store(p, l)
        PROVE  Done
    BY <1>2
  <1> HIDE DEF Done
  <1>3. TaskInsert(p) => Done
    BY <1>1 DEF TaskInsert
  <1>4. TaskErase(p) => Done
    BY <1>2 DEF TaskErase
  <1>5. TaskToggleDone(p) => Done
    BY <1>2 DEF TaskToggleDone
  <1>6. TaskEdit(p) => Done
    BY <1>1, <1>2 DEF TaskEdit
  <1>7. handle[p] # NoSeg
    BY DEF TaskInsert, TaskErase, TaskToggleDone, TaskEdit, Calling
  <1> QED BY <1>3, <1>4, <1>5, <1>6, <1>7 DEF Done

LEMMA NextCopies ==
  ASSUME NoTear, AttachInv, CopyInv, [Next]_vars
  PROVE  CopyInv'
  <1>1. CASE UNCHANGED vars
    BY <1>1 DEF vars, CopyInv, CopyOf
  <1>2. ASSUME NEW p \in Proc,
               \/ CalmStep(p)
               \/ Die(p) /\ (pc[p] \in CrashAt \/ pc[p] \notin CopyPlaces)
        PROVE  CopyInv'
    BY <1>2, CalmSteps, CalmKeepsCopies DEF NoTear
  <1>3. ASSUME NEW p \in Proc,
               \/ TaskInsert(p) \/ TaskErase(p)
               \/ TaskToggleDone(p) \/ TaskEdit(p)
        PROVE  CopyInv'
    <2>1. Return(p) => CopyInv'
      BY <1>2 DEF CalmStep
    <2>2. ASSUME NEW list, Store(p, list), ~Return(p) PROVE CopyInv'
      <3>1. /\ pc[p] = "locked" /\ pc'[p] = "st_size"
            /\ UNCHANGED <<segs, handle, chunk>>
            /\ \A q \in Proc \ {p} : pc'[q] = pc[q] /\ pend'[q] = pend[q]
        BY <2>2 DEF Store, Goto, AttachInv, TypeOK
      <3> QED BY <3>1 DEF CopyInv, CopyOf
    <2> QED BY <1>3, <2>1, <2>2, CallsStore
  <1>4. ASSUME NEW p \in Proc, InsideWrite(p)
        PROVE  CopyInv'
    BY <1>4, WritesKeepCopies
  <1> QED BY <1>1, <1>2, <1>3, <1>4, ListCases DEF Next

LEMMA InitCopies == Init => CopyInv
  BY DEF Init, CopyInv, CopyOf

(***************************************************************************)
(* Between two writes every list is good, if nobody dies while he copies   *)
(* one and ids do not wrap.                                                *)
(***************************************************************************)
GoodPending(p) == pc[p] \in Pending => GoodList(pend[p])

ListsInv == CopyInv /\ (\A p \in Proc : GoodPending(p)) /\ StoredListsGood

LEMMA CalmKeepsLists ==
  ASSUME AttachInv, ListsInv, Calm
  PROVE  ListsInv'
  <1>1. CopyInv'
    BY CalmKeepsCopies DEF ListsInv
  <1>2. ASSUME NEW q \in Proc
        PROVE  GoodPending(q)'
    BY DEF ListsInv, GoodPending, Calm, CalmProc
  <1>3. ASSUME NEW s \in Seg, Quiet(s)'
        PROVE  GoodList(ListOf(segs'[s]))
    <2>1. Quiet(s)
      <3>1. ASSUME NEW q \in Proc, Writing(q), handle[q] = s
            PROVE  FALSE
        <4>1. pc'[q] = pc[q] /\ handle'[q] = handle[q]
          BY <3>1 DEF Calm, CalmProc, Writing
        <4> QED BY <1>3, <3>1, <4>1 DEF Quiet, Writing
      <3> QED BY <3>1 DEF Quiet
    <2>2. GoodList(ListOf(segs[s]))
      BY <2>1 DEF ListsInv, StoredListsGood
    <2>3. ListOf(segs'[s]) \in {ListOf(segs[s]), <<>>}
      BY SameContent, ZeroList DEF Calm, CalmSeg
    <2> QED BY <2>2, <2>3, EmptyGood
  <1>4. GoodList(file')
    BY DEF Calm, ListsInv, StoredListsGood
  <1> QED BY <1>1, <1>2, <1>3, <1>4 DEF ListsInv, StoredListsGood

\* What one call does to the set of tasks: AtomicSchedule's Insert, Erase and
\* Change.
OneChange(old, new) ==
  \/ \E i \in 1..IdStop, k \in Key :
       /\ \A t \in old : t.id # i /\ t.key # k
       /\ new = old \union {[id |-> i, key |-> k, done |-> FALSE]}
  \/ \E t \in old : new = old \ {t}
  \/ \E t \in old : \E k \in Key \union {t.key}, d \in BOOLEAN :
       /\ \A u \in old \ {t} : u.key # k
       /\ new = (old \ {t}) \union {[id |-> t.id, key |-> k, done |-> d]}

\* The calls hand a good list to store_tasks, which is one change away from
\* the one they read.
LEMMA CallsGood ==
  ASSUME IdStop < IdMod, AttachInv, ListsInv, NEW p \in Proc,
         TaskInsert(p) \/ TaskErase(p) \/ TaskToggleDone(p) \/ TaskEdit(p)
  PROVE  \/ Return(p)
         \/ \E list \in Lists :
              /\ GoodList(list)
              /\ OneChange(ToSet(Shared(p)), ToSet(list))
              /\ Store(p, list)
  <1> DEFINE list == Shared(p)
             Changed(set) == OneChange(ToSet(list), set)
             Done == \/ Return(p)
                     \/ \E l \in Lists : /\ GoodList(l) /\ Changed(ToSet(l))
                                        /\ Store(p, l)
  <1>1. pc[p] = "locked" /\ handle[p] # NoSeg /\ handle[p] \in Seg
    BY DEF TaskInsert, TaskErase, TaskToggleDone, TaskEdit, Calling,
           AttachInv, TypeOK
  <1>2. list \in Lists /\ GoodList(list)
    <2>1. Quiet(handle[p])
      <3>1. \A q \in Proc : q # p => pc[q] \notin Inside
        BY <1>1 DEF AttachInv, LockHeld, Inside, InCall
      <3> QED BY <1>1, <3>1 DEF Quiet, Writing, Inside, InCall, InAcquire
    <2> QED BY <1>1, <2>1, SharedType
            DEF AttachInv, ListsInv, StoredListsGood, Shared
  <1>3. Key \subseteq Nat
    BY ConstantsOK
  <1>4. ASSUME NEW i \in DOMAIN list
        PROVE  list[i] \in ToSet(list)
    BY DEF ToSet
  <1> HIDE DEF list, Done, Changed
  <1>5. ASSUME NEW l \in Seq(Task), Store(p, l), GoodList(l),
               Changed(ToSet(l))
        PROVE  Done
    BY <1>5 DEF Store, Lists, Done
  <1>6. ASSUME NEW l \in Lists, GoodList(l), NEW t \in Task, t.id # 0,
               \A j \in 1..Len(l) : l[j].id # t.id, InsertAndStore(p, l, t),
               (\A u \in ToSet(l) : u.key # t.key) =>
                 Changed(ToSet(l) \union {t})
        PROVE  Done
    <2>1. PICK i \in LowerBounds(l, t.key) :
            \/ Return(p)
            \/ ~KeyTaken(l, i, t.key) /\ Store(p, InsertAt(l, i, t))
      BY <1>6 DEF InsertAndStore
    <2>2. CASE Return(p)
      BY <2>2 DEF Done
    <2>3. CASE ~Return(p)
      <3>1. InsertAt(l, i, t) \in Lists
        <4>1. t.key \in Nat
          BY DEF Task
        <4>2. InsertAt(l, i, t) \in Seq(Task)
          BY <4>1, ListOpsType
        <4> QED BY <2>1, <2>3, <4>2 DEF Store, Lists
      <3>2. GoodList(InsertAt(l, i, t))
        BY <1>6, <2>1, <2>3, <3>1, InsertGood
      <3>3. Changed(ToSet(InsertAt(l, i, t)))
        BY <1>6, <2>1, <2>3, InsertSet
      <3> QED BY <2>1, <2>3, <3>1, <3>2, <3>3 DEF Done
    <2> QED BY <2>2, <2>3
  <1>7. ASSUME TaskInsert(p) PROVE Done
    <2>1. PICK k \in Key, m \in MaxIds(list) :
            /\ m < IdStop
            /\ InsertAndStore(p, list,
                              [id |-> NextId(m), key |-> k, done |-> FALSE])
      BY <1>7 DEF TaskInsert, list
    <2> DEFINE t == [id |-> NextId(m), key |-> k, done |-> FALSE]
    <2>2. NextId(m) \in 1..IdStop /\ \A j \in 1..Len(list) :
                                       list[j].id # NextId(m)
      BY <1>2, <2>1, NewId
    <2>3. t \in Task /\ t.id = NextId(m) /\ t.id # 0
      BY <1>3, <2>2 DEF Task
    <2>4. InsertAndStore(p, list, t)
      BY <2>1
    <2> HIDE DEF t
    <2>5. \A j \in 1..Len(list) : list[j].id # t.id
      BY <2>2, <2>3
    <2>6. (\A v \in ToSet(list) : v.key # t.key) =>
            Changed(ToSet(list) \union {t})
      <3>1. \A v \in ToSet(list) : v.id # NextId(m)
        BY <1>2, <2>2, GoodElements DEF ToSet
      <3>2. t = [id |-> NextId(m), key |-> k, done |-> FALSE] /\ t.key = k
        BY DEF t
      <3> QED BY <2>2, <3>1, <3>2 DEF Changed, OneChange
    <2> QED BY <1>2, <1>6, <2>3, <2>4, <2>5, <2>6
  <1>8. ASSUME TaskErase(p) PROVE Done
    <2>0. PICK id \in 0..IdStop :
            \E i \in FirstWithId(list, id) : Store(p, RemoveAt(list, i))
      BY <1>8 DEF TaskErase, list
    <2>1. PICK i \in FirstWithId(list, id) : Store(p, RemoveAt(list, i))
      BY <2>0
    <2>2. i \in 1..Len(list)
      BY <1>2, GoodElements DEF FirstWithId
    <2>3. Changed(ToSet(RemoveAt(list, i)))
      BY <1>2, <1>4, <2>2, RemoveSet, GoodElements DEF Changed, OneChange
    <2> QED BY <1>2, <1>5, <2>1, <2>2, <2>3, RemoveGood, GoodElements
  <1>9. ASSUME NEW i \in 1..Len(list), NEW t \in Task,
               t.id = list[i].id, t.key = list[i].key,
               Store(p, [list EXCEPT ![i] = t])
        PROVE  Done
    <2>1. /\ list[i] \in ToSet(list) /\ t.done \in BOOLEAN
          /\ t = [id |-> list[i].id, key |-> list[i].key, done |-> t.done]
      BY <1>2, <1>4, <1>9, GoodElements DEF Task
    <2>2. Changed(ToSet([list EXCEPT ![i] = t]))
      <3> DEFINE o == list[i]
                 new == ToSet([list EXCEPT ![i] = t])
      <3>1. /\ new = (ToSet(list) \ {o}) \union {t}
            /\ \A u \in ToSet(list) \ {o} : u.key # o.key
        BY <1>2, ReplaceSet
      <3>2. /\ o \in ToSet(list) /\ o.key \in Key \union {o.key}
            /\ t.done \in BOOLEAN
            /\ t = [id |-> o.id, key |-> o.key, done |-> t.done]
        BY <2>1
      <3> HIDE DEF o, new
      <3>3. new = (ToSet(list) \ {o})
                    \union {[id |-> o.id, key |-> o.key, done |-> t.done]}
        BY <3>1, <3>2
      <3>4. OneChange(ToSet(list), new)
        BY <3>1, <3>2, <3>3 DEF OneChange
      <3> QED BY <3>4 DEF Changed, new
    <2> QED BY <1>2, <1>5, <1>9, <2>2, ReplaceGood, GoodElements
  <1>10. ASSUME TaskToggleDone(p) PROVE Done
    <2>0. PICK id \in 0..IdStop :
            \E i \in FirstWithId(list, id) :
              Store(p, [list EXCEPT ![i].done = ~@])
      BY <1>10 DEF TaskToggleDone, list
    <2>1. PICK i \in FirstWithId(list, id) :
            Store(p, [list EXCEPT ![i].done = ~@])
      BY <2>0
    <2>2. i \in 1..Len(list) /\ list[i] \in Task
      BY <1>2, GoodElements DEF FirstWithId
    <2> DEFINE t == [list[i] EXCEPT !.done = ~@]
    <2>3. t \in Task /\ t.id = list[i].id /\ t.key = list[i].key
      BY <2>2 DEF Task
    <2>4. Store(p, [list EXCEPT ![i] = t])
      BY <2>1
    <2> HIDE DEF t
    <2> QED BY <1>9, <2>2, <2>3, <2>4
  <1>11. ASSUME TaskEdit(p) PROVE Done
    <2>0. PICK id \in 0..IdStop, k \in Key, d \in BOOLEAN,
               mask \in SUBSET {"key", "done"} \ {{}} :
            \E i \in FirstWithId(list, id) :
              LET task == Patched(list[i], [key |-> k, done |-> d], mask) IN
              \/ /\ "key" \in mask
                 /\ InsertAndStore(p, RemoveAt(list, i), task)
              \/ /\ "key" \notin mask
                 /\ Store(p, [list EXCEPT ![i] = task])
      BY <1>11 DEF TaskEdit, list
    <2>1. PICK i \in FirstWithId(list, id) :
            LET task == Patched(list[i], [key |-> k, done |-> d], mask) IN
            \/ /\ "key" \in mask
               /\ InsertAndStore(p, RemoveAt(list, i), task)
            \/ /\ "key" \notin mask
               /\ Store(p, [list EXCEPT ![i] = task])
      BY <2>0
    <2>2. i \in 1..Len(list) /\ list[i] \in Task /\ list[i].id # 0
      BY <1>2, GoodElements DEF FirstWithId
    <2> DEFINE t == Patched(list[i], [key |-> k, done |-> d], mask)
    <2>3. /\ t \in Task /\ t.id = list[i].id
          /\ "key" \notin mask => t.key = list[i].key
          /\ "key" \in mask => t.key = k
      BY <1>3, <2>2 DEF Task, Patched
    <2> HIDE DEF t
    <2>4. CASE "key" \in mask
      <3>1. InsertAndStore(p, RemoveAt(list, i), t)
        BY <2>1, <2>4 DEF t
      <3> DEFINE rest == RemoveAt(list, i)
      <3>2. rest \in Lists /\ GoodList(rest)
        BY <1>2, <2>2, RemoveGood
      <3>3. \A j \in 1..Len(rest) : rest[j].id # t.id
        BY <1>2, <2>2, <2>3, RemoveGood
      <3> HIDE DEF rest
      <3>4. InsertAndStore(p, rest, t) /\ t.id # 0 /\ t \in Task
        BY <2>2, <2>3, <3>1 DEF rest
      <3>5. (\A u \in ToSet(rest) : u.key # t.key) =>
              Changed(ToSet(rest) \union {t})
        <4>1. ToSet(rest) = ToSet(list) \ {list[i]}
          BY <1>2, <2>2, RemoveSet DEF rest
        <4>2. /\ list[i] \in ToSet(list) /\ t.done \in BOOLEAN
              /\ t = [id |-> list[i].id, key |-> k, done |-> t.done]
          BY <1>2, <1>4, <2>2, <2>3, <2>4, GoodElements DEF Task
        <4> QED BY <2>3, <2>4, <4>1, <4>2 DEF Changed, OneChange
      <3> QED BY <1>6, <3>2, <3>3, <3>4, <3>5
    <2>5. CASE "key" \notin mask
      <3>1. Store(p, [list EXCEPT ![i] = t])
        BY <2>1, <2>5 DEF t
      <3>2. t \in Task /\ t.id = list[i].id /\ t.key = list[i].key
        BY <2>3, <2>5
      <3> QED BY <1>9, <2>2, <3>1, <3>2
    <2> QED BY <2>4, <2>5
  <1> QED BY <1>7, <1>8, <1>10, <1>11 DEF Done, Changed, list

LEMMA WriteKeepsLists ==
  ASSUME AttachInv, ListsInv, NEW p \in Proc, WriteStep(p),
         CopyInv', GoodPending(p)', GoodList(file'),
         pc'[p] \notin CopyPlaces => GoodList(ListOf(segs'[handle[p]]))
  PROVE  ListsInv'
  <1>1. \A q \in Proc \ {p} : /\ pc[q] \notin Inside /\ pc[q] \notin Pending
                              /\ pc[q] \notin Copying
    BY OthersOutside DEF WriteStep
  <1>2. ASSUME NEW q \in Proc \ {p}
        PROVE  GoodPending(q)'
    BY <1>1 DEF WriteStep, ListsInv, GoodPending
  <1>3. ASSUME NEW s \in Seg, Quiet(s)'
        PROVE  GoodList(ListOf(segs'[s]))
    <2>1. CASE s = handle[p]
      <3>1. pc'[p] \notin CopyPlaces
        BY <1>3, <2>1 DEF Quiet, Writing, WriteStep
      <3> QED BY <2>1, <3>1
    <2>2. CASE s # handle[p]
      <3>1. Quiet(s)
        BY <1>1, <2>2 DEF Quiet, Writing
      <3> QED BY <2>2, <3>1 DEF WriteStep, ListsInv, StoredListsGood
    <2> QED BY <2>1, <2>2
  <1> QED BY <1>2, <1>3 DEF ListsInv, StoredListsGood

LEMMA WritesKeepLists ==
  ASSUME AttachInv, ListsInv, NEW p \in Proc, InsideWrite(p)
  PROVE  ListsInv'
  <1> DEFINE h == handle[p]
             t == segs[h]
             u == segs'[h]
  <1>1. WriteStep(p) /\ h \in Seg
    BY InsideWriteStep DEF WriteStep
  <1>2. /\ pend \in [Proc -> Lists]
        /\ pc \in [Proc -> Places \union {"out"}] /\ GoodList(file)
    BY DEF AttachInv, TypeOK, ListsInv, StoredListsGood
  <1>3. GoodPending(p) /\ (pc[p] \notin CopyPlaces => GoodList(ListOf(t)))
    <2>1. pc[p] \notin CopyPlaces => Quiet(h)
      BY <1>1, OthersOutside DEF Quiet, Writing, WriteStep, Inside
    <2> QED BY <1>1, <2>1 DEF ListsInv, StoredListsGood
  <1>4. CopyInv'
    BY WritesKeepCopies DEF ListsInv
  <1>5. SUFFICES /\ GoodPending(p)' /\ GoodList(file')
                 /\ pc'[p] \notin CopyPlaces => GoodList(ListOf(u))
    BY <1>1, <1>4, WriteKeepsLists
  <1>6. CASE ZeroHeader(p)
    <2>1. pc'[p] = "acq_load" /\ u.size = 0 /\ file' = file
      <3>1. segs \in [Seg -> Segment]
        BY DEF AttachInv, TypeOK
      <3> QED BY <1>1, <1>2, <1>6, <3>1 DEF ZeroHeader, Goto, Segment
    <2>2. ListOf(u) = <<>>
      BY <2>1 DEF ListOf
    <2> QED BY <1>2, <2>1, <2>2, EmptyGood DEF GoodPending
  <1>7. CASE LoadFile(p)
    <2>1. CASE pc'[p] = "unlock"
      <3>1. pc[p] = "acq_load" /\ u = t /\ file' = file
        BY <1>2, <1>7, <2>1 DEF LoadFile, Goto
      <3> QED BY <1>2, <1>3, <2>1, <3>1 DEF GoodPending
    <2>2. CASE pc'[p] # "unlock"
      <3>1. file \in Lists
        BY DEF AttachInv, TypeOK
      <3>2. pc'[p] = "load_copy" /\ pend'[p] = file /\ file' = file
        BY <1>2, <1>7, <2>2, <3>1, TruncatedList DEF LoadFile, Goto
      <3> QED BY <1>2, <3>2 DEF GoodPending
    <2> QED BY <2>1, <2>2
  <1>8. CASE CopyChunk(p)
    <2>1. pc[p] \in Copying /\ file' = file
      BY <1>8 DEF CopyChunk
    <2>2. CASE UNCHANGED <<pc, pend>>
      BY <1>2, <1>3, <2>1, <2>2 DEF GoodPending
    <2>3. CASE chunk[p] = Len(pend[p])
      <3>1. ListOf(u) = pend[p]
        BY <1>8, <2>3, ChunkCopied DEF ListsInv
      <3>2. /\ pc'[p] \in {"unlock", "st_open"}
            /\ pc'[p] = "st_open" => pend'[p] = pend[p]
        BY <1>2, <1>8, <2>3 DEF CopyChunk, Goto
      <3> QED BY <1>2, <1>3, <2>1, <3>1, <3>2 DEF GoodPending
    <2> QED BY <1>8, <2>2, <2>3 DEF CopyChunk
  <1>9. CASE WriteSize(p) \/ BumpVersion(p)
    <2>1. /\ pc[p] \in {"st_size", "st_version"}
          /\ pc'[p] \in {"st_version", "store_copy"}
          /\ pend' = pend /\ file' = file
      BY <1>2, <1>9 DEF WriteSize, BumpVersion, Goto
    <2> QED BY <1>2, <1>3, <2>1 DEF GoodPending
  <1>10. CASE OpenFile(p) \/ OpenFileFails(p) \/ WriteFile(p)
    <2>1. /\ pc[p] \in {"st_open", "st_write"} /\ u = t
          /\ \/ pc'[p] = "st_write" /\ pend'[p] = pend[p] /\ file' = <<>>
             \/ pc'[p] = "unlock" /\ file' \in {file, pend[p]}
      BY <1>2, <1>10 DEF OpenFile, OpenFileFails, WriteFile, Goto
    <2> QED BY <1>2, <1>3, <2>1, EmptyGood DEF GoodPending
  <1> QED BY <1>6, <1>7, <1>8, <1>9, <1>10 DEF InsideWrite

\* Passing a list to store_tasks writes nothing yet.
LEMMA StoreKeepsLists ==
  ASSUME AttachInv, ListsInv, CopyInv', NEW p \in Proc, handle[p] # NoSeg,
         NEW list \in Lists, GoodList(list), Store(p, list)
  PROVE  ListsInv'
  <1>1. CASE Return(p)
    BY <1>1, CalmSteps, CalmKeepsLists DEF CalmStep
  <1>2. CASE ~Return(p)
    <2>1. /\ pc \in [Proc -> Places \union {"out"}]
          /\ handle \in [Proc -> Seg \union {NoSeg}]
          /\ pend \in [Proc -> Lists]
      BY DEF AttachInv, TypeOK
    <2>2. /\ pc[p] = "locked" /\ pc'[p] = "st_size" /\ pend'[p] = list
          /\ UNCHANGED <<segs, file, handle, chunk>>
          /\ \A q \in Proc \ {p} : pc'[q] = pc[q]
      BY <1>2, <2>1 DEF Store, Goto
    <2>3. WriteStep(p)
      BY <2>1, <2>2 DEF WriteStep, Inside, InCall
    <2>4. Quiet(handle[p])
      BY <2>2, <2>3, OthersOutside DEF Quiet, Writing, WriteStep
    <2>5. GoodPending(p)'
      BY <2>2 DEF GoodPending
    <2> QED BY <2>1, <2>2, <2>3, <2>4, <2>5, WriteKeepsLists
            DEF ListsInv, StoredListsGood
  <1> QED BY <1>1, <1>2

LEMMA NextListsInv ==
  ASSUME NoTear, IdStop < IdMod, AttachInv, ListsInv, [Next]_vars
  PROVE  ListsInv'
  <1>0. CopyInv'
    BY NextCopies DEF ListsInv
  <1>1. CASE UNCHANGED vars
    BY <1>0, <1>1 DEF vars, ListsInv, GoodPending, StoredListsGood, Quiet,
                      Writing
  <1>2. ASSUME NEW p \in Proc, CalmStep(p)
        PROVE  ListsInv'
    BY <1>2, CalmSteps, CalmKeepsLists
  <1>3. ASSUME NEW p \in Proc, Die(p),
               pc[p] \in CrashAt \/ pc[p] \notin CopyPlaces
        PROVE  ListsInv'
    <2>1. pc[p] \notin CopyPlaces
      BY <1>3 DEF NoTear
    <2> QED BY <1>3, <2>1, CalmSteps, CalmKeepsLists
  <1>4. ASSUME NEW p \in Proc,
               \/ TaskInsert(p) \/ TaskErase(p)
               \/ TaskToggleDone(p) \/ TaskEdit(p)
        PROVE  ListsInv'
    <2>1. handle[p] # NoSeg
      BY <1>4 DEF TaskInsert, TaskErase, TaskToggleDone, TaskEdit, Calling
    <2>2. Return(p) => ListsInv'
      BY <1>2 DEF CalmStep
    <2> QED BY <1>0, <1>4, <2>1, <2>2, CallsGood, StoreKeepsLists
  <1>5. ASSUME NEW p \in Proc, InsideWrite(p)
        PROVE  ListsInv'
    BY <1>5, WritesKeepLists
  <1> QED BY <1>1, <1>2, <1>3, <1>4, <1>5, ListCases DEF Next

LEMMA InitListsInv == Init => ListsInv
  <1>1. Init => \A p \in Proc : GoodPending(p)
    BY DEF Init, GoodPending
  <1>2. Init => StoredListsGood
    BY ZeroList, EmptyGood DEF Init, StoredListsGood
  <1> QED BY <1>1, <1>2, InitCopies DEF ListsInv

\* Between two writes every list, in memory and saved, is sorted and has
\* distinct keys and ids, if no process dies copying one and ids do not wrap.
THEOREM ListsStayGood ==
  ASSUME NoTear, IdStop < IdMod
  PROVE  Spec => []StoredListsGood
  <1>1. Init => ListsInv
    BY InitListsInv
  <1>2. AttachInv /\ ListsInv /\ [Next]_vars => ListsInv'
    BY NextListsInv
  <1>3. ListsInv => StoredListsGood
    BY DEF ListsInv
  <1> QED BY <1>1, <1>2, <1>3, AttachHolds, PTL DEF Spec

(***************************************************************************)
(* Caches.  Versions grow, if they do not wrap: whoever has cached the     *)
(* current version has cached the current list.                            *)
(***************************************************************************)
Creation == {"acq_trunc", "acq_mmap", "acq_zero", "acq_load", "load_copy"}

\* Nobody but its creator has an object open before the file's list is in it.
FreshInv ==
  \A p \in Proc : pc[p] \in Creation =>
    \A q \in Proc \ {p} : handle[q] # handle[p]

\* Where the cache is empty, and what versions there are.
VersionOf(p) ==
  /\ handle[p] = NoSeg \/ pc[p] \in Creation \union {"acq_map"} =>
       cache[p] = NoCache
  /\ pc[p] \in {"st_size", "st_version"} =>
       segs[handle[p]].version < VersionStop
  /\ pc[p] \in Copying => segs[handle[p]].version > 0
VersionInv ==
  /\ \A s \in Seg : segs[s].version = 0 => ~segs[s].header
  /\ \A p \in Proc : VersionOf(p)

CacheOf(q) ==
  handle[q] # NoSeg =>
    /\ cache[q].version <= segs[handle[q]].version
    /\ cache[q].version = segs[handle[q]].version =>
         /\ \A p \in Proc : pc[p] \in Copying => handle[p] # handle[q]
         /\ Quiet(handle[q]) => cache[q].tasks = Shared(q)

CacheInv == FreshInv /\ VersionInv /\ \A q \in Proc : CacheOf(q)

LEMMA CacheInvCoherent == CacheInv => CacheCoherent
  BY DEF CacheInv, CacheOf, CacheCoherent, Attached

LEMMA NextFresh ==
  ASSUME AttachInv, FreshInv, [Next]_vars
  PROVE  FreshInv'
  <1>1. /\ pc \in [Proc -> Places \union {"out"}]
        /\ handle \in [Proc -> Seg \union {NoSeg}]
        /\ \A p \in Proc : pc[p] \in Creation => handle[p] # NoSeg
    BY DEF AttachInv, TypeOK, HandlePlaces, Detached, MayBeNull, Creation
  <1>2. CASE UNCHANGED vars
    BY <1>2 DEF vars, FreshInv
  <1>3. ASSUME NEW p \in Proc, OpenExisting(p) \/ CreateNew(p)
        PROVE  FreshInv'
    <2>1. /\ pc[p] = "acq_open" /\ pc'[p] \in {"acq_map", "acq_trunc"}
          /\ \A q \in Proc \ {p} : /\ pc'[q] = pc[q] /\ handle'[q] = handle[q]
                                   /\ pc[q] \notin Creation
          /\ pc'[p] = "acq_trunc" =>
               \A q \in Proc \ {p} : handle'[q] # handle'[p]
      <3>1. pc[p] \in Inside
        BY <1>3 DEF OpenExisting, CreateNew, Goto, Inside, InAcquire
      <3>2. \A q \in Proc \ {p} : pc[q] \notin Creation
        BY <3>1, OthersOutside DEF Creation, Inside, InAcquire
      <3> QED BY <1>1, <1>3, <3>2 DEF OpenExisting, CreateNew, Goto
    <2> QED BY <2>1 DEF FreshInv, Creation
  <1>4. ASSUME NEW p \in Proc,
               /\ \A q \in Proc \ {p} : /\ pc'[q] = pc[q]
                                        /\ handle'[q] = handle[q]
               /\ handle'[p] \in {handle[p], NoSeg}
               /\ pc'[p] \in Creation => pc[p] \in Creation /\ handle' = handle
        PROVE  FreshInv'
    BY <1>1, <1>4 DEF FreshInv
  <1>5. ASSUME NEW p \in Proc, InsideWrite(p)
        PROVE  FreshInv'
    <2>1. pc'[p] \in Creation => pc[p] \in Creation
      BY <1>1, <1>5 DEF InsideWrite, ZeroHeader, LoadFile, CopyChunk,
           WriteSize, BumpVersion, OpenFile, OpenFileFails, WriteFile, Goto,
           Creation
    <2> QED BY <1>4, <1>5, <2>1, InsideWriteStep DEF WriteStep
  <1>6. ASSUME NEW p \in Proc,
               \/ GetTasks(p) \/ NotFound(p) \/ TaskInsert(p) \/ TaskErase(p)
               \/ TaskToggleDone(p) \/ TaskEdit(p)
        PROVE  FreshInv'
    BY <1>1, <1>4, <1>6, CallsFrame DEF Goto, Creation
  <1>7. ASSUME NEW p \in Proc,
               \/ Lock(p) \/ Recover(p) \/ Unlock(p) \/ Acquire(p) \/ Call(p)
               \/ Release(p) \/ Unlink(p) \/ Die(p)
        PROVE  FreshInv'
    BY <1>1, <1>4, <1>7 DEF Lock, Recover, Unlock, Acquire, Call, Release,
         Unlink, Die, Goto, Creation
  <1>8. ASSUME NEW p \in Proc,
               \/ CreateFails(p) \/ Map(p) \/ MapFails(p) \/ SetSize(p)
               \/ MapNew(p) \/ (NewFails(p) /\ ~Die(p))
        PROVE  FreshInv'
    BY <1>1, <1>4, <1>8 DEF CreateFails, Map, MapFails, SetSize, MapNew,
         NewFails, Goto, Creation
  <1>9. ASSUME NEW p \in Proc, InsideStep(p)
        PROVE  FreshInv'
    BY <1>3, <1>5, <1>6, <1>8, <1>9 DEF InsideStep, InsideWrite
  <1> QED BY <1>2, <1>7, <1>9, NextCases DEF Next

\* A death leaves the segments as they are, or frees them.
LEMMA DieSegs ==
  ASSUME AttachInv, NEW p \in Proc, Die(p)
  PROVE  \A s \in Seg : CalmSeg(s)
  BY KeptCalm DEF Die, AttachInv, TypeOK

LEMMA CalmVersions ==
  ASSUME AttachInv, VersionInv, NEW p \in Proc, CalmStep(p) \/ Die(p)
  PROVE  VersionInv'
  <1>1. /\ pc \in [Proc -> Places \union {"out"}]
        /\ handle \in [Proc -> Seg \union {NoSeg}]
        /\ cache \in [Proc -> [tasks : Lists, version : Nat]]
        /\ \A q \in Proc : /\ VersionOf(q)
                           /\ pc[q] = "acq_open" => handle[q] = NoSeg
                           /\ pc[q] \in {"st_size", "st_version"}
                                          \union Copying => handle[q] # NoSeg
    BY DEF AttachInv, TypeOK, HandlePlaces, Detached, MayBeNull, VersionInv
  <1>2. \A s \in Seg : CalmSeg(s)
    BY DieSegs, CalmSteps DEF Calm
  <1>3. \A s \in Seg : segs'[s].version = 0 => ~segs'[s].header
    <2>1. ~ZeroSegment.header
      BY DEF ZeroSegment
    <2> QED BY <1>2, <2>1, SameContent DEF CalmSeg, VersionInv
  <1>4. ASSUME NEW q \in Proc
        PROVE  /\ \/ cache'[q] = cache[q] \/ cache'[q] = NoCache
                  \/ handle'[q] # NoSeg /\ pc'[q] \in {"got", "unlock"}
               /\ handle'[q] = NoSeg \/ pc'[q] \in Creation \union {"acq_map"}
                    => \/ cache'[q] = NoCache
                       \/ handle[q] = NoSeg
                       \/ pc[q] \in Creation \union {"acq_map"}
               /\ pc'[q] \in {"st_size", "st_version"} \union Copying =>
                    pc'[q] = pc[q] /\ handle'[q] = handle[q]
    <2>1. CASE \/ Lock(p) \/ Recover(p) \/ Unlock(p) \/ Acquire(p) \/ Call(p)
               \/ Release(p) \/ Unlink(p) \/ Die(p)
      BY <1>1, <2>1 DEF Lock, Recover, Unlock, Acquire, Call, Release,
           Unlink, Die, Goto, Creation
    <2>2. CASE \/ OpenExisting(p) \/ CreateNew(p) \/ CreateFails(p)
               \/ Map(p) \/ MapFails(p) \/ SetSize(p) \/ MapNew(p)
               \/ NewFails(p) /\ ~Die(p)
      BY <1>1, <2>2 DEF OpenExisting, CreateNew, CreateFails, Map, MapFails,
           SetSize, MapNew, NewFails, Goto, Creation
    <2>3. CASE GetTasks(p) \/ Return(p)
      BY <1>1, <2>3 DEF GetTasks, Calling, Return, Goto, Creation
    <2> QED BY <2>1, <2>2, <2>3 DEF CalmStep
  <1>5. ASSUME NEW q \in Proc
        PROVE  VersionOf(q)'
    <2>1. handle'[q] = NoSeg \/ pc'[q] \in Creation \union {"acq_map"} =>
            cache'[q] = NoCache
      BY <1>1, <1>4 DEF VersionOf, Creation
    <2>2. pc'[q] \in {"st_size", "st_version"} \union Copying =>
            segs'[handle'[q]].version = segs[handle[q]].version
      BY <1>1, <1>2, <1>4, SameContent DEF CalmSeg
    <2> QED BY <1>1, <1>4, <2>1, <2>2 DEF VersionOf
  <1> QED BY <1>3, <1>5 DEF VersionInv

LEMMA StoreVersions ==
  ASSUME AttachInv, VersionInv, NEW p \in Proc, handle[p] # NoSeg,
         NEW list, Store(p, list)
  PROVE  VersionInv'
  <1>1. CASE Return(p)
    BY <1>1, CalmVersions DEF CalmStep
  <1>2. CASE ~Return(p)
    <2>1. /\ pc[p] = "locked" /\ pc'[p] = "st_size"
          /\ segs[handle[p]].version < VersionStop
          /\ UNCHANGED <<segs, handle, cache>>
          /\ \A q \in Proc \ {p} : pc'[q] = pc[q]
      BY <1>2 DEF Store, Goto, AttachInv, TypeOK
    <2> QED BY <2>1 DEF VersionInv, VersionOf, Creation
  <1> QED BY <1>1, <1>2

\* What a write does to its segment's version: none goes back.
LEMMA WriteVersions ==
  ASSUME VersionStop < VersionMod, AttachInv, VersionInv,
         NEW p \in Proc, InsideWrite(p)
  PROVE  /\ VersionInv' /\ cache' = cache
         /\ pc[p] \notin Creation =>
              segs'[handle[p]].version >= segs[handle[p]].version
         /\ BumpVersion(p) =>
              segs'[handle[p]].version > segs[handle[p]].version
  <1> DEFINE h == handle[p]
             t == segs[h]
             u == segs'[h]
  <1>1. /\ WriteStep(p) /\ t \in Segment /\ u \in Segment /\ h \in Seg
        /\ handle'[p] = h
    BY InsideWriteStep DEF WriteStep
  <1>2. /\ segs \in [Seg -> Segment] /\ pc \in [Proc -> Places \union {"out"}]
        /\ VersionOf(p) /\ t.version \in Nat /\ cache' = cache
        /\ t.version = 0 => ~t.header
    BY <1>1 DEF AttachInv, TypeOK, VersionInv, Segment, InsideWrite,
       ZeroHeader, LoadFile, CopyChunk, WriteSize, BumpVersion, OpenFile,
       OpenFileFails, WriteFile
  <1>3. SUFFICES /\ VersionOf(p)' /\ (u.version = 0 => ~u.header)
                 /\ pc[p] \notin Creation => u.version >= t.version
                 /\ BumpVersion(p) => u.version > t.version
    <2>1. \A q \in Proc \ {p} : pc[q] \notin Inside
      BY <1>1, OthersOutside DEF WriteStep
    <2>2. \A q \in Proc \ {p} : VersionOf(q)'
      BY <1>1, <1>2, <2>1 DEF WriteStep, VersionInv, VersionOf, Inside, InCall,
         InAcquire, Creation
    <2>3. \A s \in Seg \ {h} : segs'[s].version = 0 => ~segs'[s].header
      BY <1>1 DEF WriteStep, VersionInv
    <2> QED BY <1>2, <1>3, <2>2, <2>3 DEF VersionInv
  <1>4. CASE ZeroHeader(p)
    <2>1. /\ pc[p] = "acq_zero" /\ pc'[p] = "acq_load" /\ u.version = 1
          /\ u.header = t.header
      BY <1>1, <1>2, <1>4 DEF ZeroHeader, Goto, Segment
    <2> QED BY <1>1, <1>2, <2>1 DEF VersionOf, Creation, BumpVersion, Goto
  <1>5. CASE LoadFile(p)
    <2>1. /\ pc[p] = "acq_load"
          /\ \/ pc'[p] = "unlock" /\ u = t
             \/ pc'[p] = "load_copy" /\ u.version = 1 /\ u.header = t.header
      BY <1>1, <1>2, <1>5 DEF LoadFile, Goto, Segment
    <2> QED BY <1>1, <1>2, <2>1 DEF VersionOf, Creation, BumpVersion, Goto
  <1>6. CASE CopyChunk(p)
    <2>1. /\ pc[p] \in Copying /\ u.version = t.version
          /\ pc'[p] \in {pc[p], "unlock", "st_open"}
      BY <1>1, <1>2, <1>6 DEF CopyChunk, Goto, WithChunk, Segment
    <2> QED BY <1>1, <1>2, <2>1 DEF VersionOf, Creation, BumpVersion, Goto
  <1>7. CASE WriteSize(p)
    <2>1. /\ pc[p] = "st_size" /\ pc'[p] = "st_version"
          /\ u.version = t.version /\ u.header = t.header
      BY <1>1, <1>2, <1>7 DEF WriteSize, Goto, Segment
    <2> QED BY <1>1, <1>2, <2>1 DEF VersionOf, Creation, BumpVersion, Goto
  <1>8. CASE BumpVersion(p)
    <2>1. /\ pc[p] = "st_version" /\ pc'[p] = "store_copy"
          /\ u.version = (t.version + 1) % VersionMod
      BY <1>1, <1>2, <1>8 DEF BumpVersion, Goto, Segment
    <2>2. u.version = t.version + 1
      BY <1>2, <2>1, ConstantsOK DEF VersionOf
    <2> QED BY <1>1, <1>2, <2>1, <2>2 DEF VersionOf, Creation
  <1>9. CASE OpenFile(p) \/ OpenFileFails(p) \/ WriteFile(p)
    <2>1. /\ pc[p] \in {"st_open", "st_write"} /\ u = t
          /\ pc'[p] \in {"st_write", "unlock"}
      BY <1>2, <1>9 DEF OpenFile, OpenFileFails, WriteFile, Goto
    <2> QED BY <1>1, <1>2, <2>1 DEF VersionOf, Creation, BumpVersion, Goto
  <1> QED BY <1>4, <1>5, <1>6, <1>7, <1>8, <1>9 DEF InsideWrite

\* An empty cache fits every segment.
LEMMA NoCacheFits ==
  ASSUME AttachInv', VersionInv', NEW q \in Proc, cache'[q] = NoCache
  PROVE  CacheOf(q)'
  <1> SUFFICES ASSUME handle'[q] # NoSeg PROVE CacheOf(q)'
    BY DEF CacheOf
  <1>1. handle'[q] \in Seg /\ segs'[handle'[q]] \in Segment
    BY DEF AttachInv, TypeOK
  <1>2. segs'[handle'[q]].version \in Nat
    BY <1>1 DEF Segment
  <1>3. cache'[q].version = 0 /\ cache'[q].tasks = <<>>
    BY DEF NoCache
  <1>4. segs'[handle'[q]].version = 0 =>
          /\ ListOf(segs'[handle'[q]]) = <<>>
          /\ \A p \in Proc : pc'[p] \in Copying => handle'[p] # handle'[q]
    BY <1>1 DEF VersionInv, VersionOf, ListOf
  <1> QED BY <1>2, <1>3, <1>4 DEF CacheOf, Shared

\* A token keeps its segment and its cache, and the segment its content.
LEMMA CalmCache ==
  ASSUME AttachInv, NEW q \in Proc, CacheOf(q),
         \A s \in Seg : CalmSeg(s),
         handle'[q] = handle[q], cache'[q] = cache[q],
         \A p \in Proc :
           /\ pc'[p] \in Copying => pc'[p] = pc[p] /\ handle'[p] = handle[p]
           /\ pc[p] \in CopyPlaces /\ handle[p] = handle[q] =>
                pc[p] \in Copying
                \/ (pc'[p] \in CopyPlaces /\ handle'[p] = handle[p])
  PROVE  CacheOf(q)'
  <1> SUFFICES ASSUME handle[q] # NoSeg PROVE CacheOf(q)'
    BY DEF CacheOf
  <1> DEFINE h == handle[q]
  <1>1. h \in Seg
    BY DEF AttachInv, TypeOK
  <1>2. Content(segs'[h]) = Content(segs[h])
    BY <1>1 DEF CalmSeg
  <1>3. /\ segs'[h].version = segs[h].version
        /\ ListOf(segs'[h]) = ListOf(segs[h])
    BY <1>2, SameContent
  <1>4. ASSUME cache[q].version = segs[h].version
        PROVE  /\ \A p \in Proc : pc'[p] \in Copying => handle'[p] # h
               /\ Quiet(h)' => cache[q].tasks = ListOf(segs[h])
    <2>1. \A p \in Proc : pc[p] \in Copying => handle[p] # h
      BY <1>4 DEF CacheOf
    <2>2. Quiet(h)' => Quiet(h)
      BY <2>1 DEF Quiet, Writing
    <2>3. Quiet(h) => cache[q].tasks = ListOf(segs[h])
      BY <1>4 DEF CacheOf, Shared
    <2> QED BY <2>1, <2>2, <2>3
  <1> QED BY <1>3, <1>4 DEF CacheOf, Shared

LEMMA CalmCaches ==
  ASSUME AttachInv, CacheInv, VersionInv', AttachInv', NEW p \in Proc,
         \/ CalmStep(p) /\ ~GetTasks(p)
         \/ Die(p) /\ pc[p] # "st_version"
         \/ \E list : Store(p, list) /\ handle[p] # NoSeg
  PROVE  \A q \in Proc : CacheOf(q)'
  <1>1. /\ pc \in [Proc -> Places \union {"out"}]
        /\ handle \in [Proc -> Seg \union {NoSeg}]
        /\ cache \in [Proc -> [tasks : Lists, version : Nat]]
    BY DEF AttachInv, TypeOK
  <1>2. \A s \in Seg : CalmSeg(s)
    <2>1. ASSUME NEW list, Store(p, list)
          PROVE  \A s \in Seg : CalmSeg(s)
      BY <2>1 DEF Store, Return, CalmSeg
    <2> QED BY <2>1, DieSegs, CalmSteps DEF Calm
  <1>3. /\ \A q \in Proc \ {p} : /\ pc'[q] = pc[q] /\ handle'[q] = handle[q]
                                 /\ cache'[q] = cache[q]
        /\ pc'[p] \notin Copying
        /\ pc[p] \notin CopyPlaces \/ pc[p] \in Copying
        /\ \/ handle'[p] = handle[p] /\ cache'[p] = cache[p]
           \/ cache'[p] = NoCache
    <2>1. CASE \/ Lock(p) \/ Recover(p) \/ Unlock(p) \/ Acquire(p) \/ Call(p)
               \/ Release(p) \/ Unlink(p)
      BY <1>1, <2>1 DEF Lock, Recover, Unlock, Acquire, Call, Release,
           Unlink, Goto, Waiting
    <2>2. CASE Die(p) /\ pc[p] # "st_version"
      BY <1>1, <2>2 DEF Die
    <2>3. CASE \/ OpenExisting(p) \/ CreateNew(p) \/ CreateFails(p)
               \/ Map(p) \/ MapFails(p) \/ SetSize(p) \/ MapNew(p)
               \/ NewFails(p) /\ ~Die(p)
      <3>1. pc[p] = "acq_open" => cache[p] = NoCache
        BY DEF AttachInv, HandlePlaces, Detached, CacheInv, VersionInv,
           VersionOf
      <3>2. pc[p] \in Creation \union {"acq_map"} => cache[p] = NoCache
        BY DEF CacheInv, VersionInv, VersionOf
      <3> QED BY <1>1, <2>3, <3>1, <3>2
              DEF OpenExisting, CreateNew, CreateFails, Map, MapFails,
                  SetSize, MapNew, NewFails, Goto, Creation
    <2>4. CASE Return(p)
      BY <1>1, <2>4 DEF Return, Goto
    <2>5. ASSUME NEW list, Store(p, list), ~Return(p)
          PROVE  /\ handle' = handle /\ cache' = cache
                 /\ pc[p] = "locked" /\ pc' = [pc EXCEPT ![p] = "st_size"]
      BY <2>5 DEF Store, Goto
    <2> QED BY <1>1, <2>1, <2>2, <2>3, <2>4, <2>5 DEF CalmStep
  <1>4. ASSUME NEW q \in Proc
        PROVE  CacheOf(q)'
    <2>1. CASE cache'[q] = NoCache
      BY <2>1, NoCacheFits
    <2>2. CASE handle'[q] = handle[q] /\ cache'[q] = cache[q]
      <3>1. \A r \in Proc :
              /\ pc'[r] \in Copying => pc'[r] = pc[r] /\ handle'[r] = handle[r]
              /\ pc[r] \in CopyPlaces /\ handle[r] = handle[q] =>
                   pc[r] \in Copying
                   \/ (pc'[r] \in CopyPlaces /\ handle'[r] = handle[r])
        BY <1>3
      <3> QED BY <1>2, <2>2, <3>1, CalmCache DEF CacheInv
    <2> QED BY <1>3, <2>1, <2>2
  <1> QED BY <1>4

\* GetTasks loads the list of a newer version.
LEMMA GetCaches ==
  ASSUME AttachInv, CacheInv, NEW p \in Proc, GetTasks(p)
  PROVE  \A q \in Proc : CacheOf(q)'
  <1>1. /\ pc[p] = "locked" /\ pc'[p] = "got" /\ handle[p] # NoSeg
        /\ UNCHANGED <<segs, handle>>
        /\ \A q \in Proc \ {p} : pc'[q] = pc[q] /\ cache'[q] = cache[q]
        /\ cache'[p] = IF segs[handle[p]].version > cache[p].version
                       THEN [tasks |-> Shared(p),
                             version |-> segs[handle[p]].version]
                       ELSE cache[p]
    BY DEF GetTasks, Calling, Goto, AttachInv, TypeOK
  <1>2. \A q \in Proc : pc[q] \notin CopyPlaces /\ pc'[q] \notin CopyPlaces
    BY <1>1, OthersOutside DEF Inside, InCall
  <1>3. segs[handle[p]].version \in Nat
    <2>1. segs[handle[p]] \in Segment
      BY <1>1, SharedType DEF AttachInv
    <2> QED BY <2>1 DEF Segment
  <1>4. \A q \in Proc : CacheOf(q)
    BY DEF CacheInv
  <1>5. ASSUME NEW q \in Proc \ {p}
        PROVE  CacheOf(q)'
    BY <1>1, <1>2, <1>4 DEF CacheOf, Quiet, Writing, Shared
  <1>6. CacheOf(p)'
    BY <1>1, <1>2, <1>3, <1>4 DEF CacheOf, Quiet, Writing, Shared
  <1> QED BY <1>5, <1>6

LEMMA WriteCaches ==
  ASSUME VersionStop < VersionMod, AttachInv, CacheInv, NEW p \in Proc,
         InsideWrite(p)
  PROVE  \A q \in Proc : CacheOf(q)'
  <1> DEFINE h == handle[p]
             t == segs[h]
             u == segs'[h]
  <1>1. /\ WriteStep(p) /\ t \in Segment /\ u \in Segment /\ h \in Seg
        /\ handle' = handle /\ cache' = cache /\ VersionInv' /\ AttachInv'
        /\ pc[p] \notin Creation => u.version >= t.version
        /\ BumpVersion(p) => u.version > t.version
        /\ h # NoSeg
    <2>1. Next
      BY DEF InsideWrite, Next, Work
    <2>2. AttachInv'
      BY <2>1, NextTypeOK, NextLockHeld, NextHandlePlaces, NextRefCovers
         DEF AttachInv
    <2> QED BY <2>2, InsideWriteStep, WriteVersions, ConstantsOK
            DEF WriteStep, CacheInv
  <1>2. /\ segs \in [Seg -> Segment] /\ pc \in [Proc -> Places \union {"out"}]
        /\ t.version \in Nat /\ u.version \in Nat
        /\ \A q \in Proc : cache[q].version \in Nat /\ CacheOf(q)
    BY <1>1 DEF AttachInv, TypeOK, Segment, CacheInv
  <1>3. \A q \in Proc \ {p} : /\ pc'[q] = pc[q] /\ pc[q] \notin CopyPlaces
                              /\ pc[q] \notin Copying
    BY <1>1, OthersOutside DEF WriteStep, Inside, InCall, InAcquire
  <1>4. ASSUME NEW q \in Proc, handle[q] # h
        PROVE  CacheOf(q)'
    <2>1. handle[q] # NoSeg => segs'[handle[q]] = segs[handle[q]]
      BY <1>1, <1>4 DEF WriteStep, AttachInv, TypeOK
    <2>2. Quiet(handle[q])' => Quiet(handle[q])
      BY <1>1, <1>3, <1>4 DEF Quiet, Writing
    <2> QED BY <1>1, <1>2, <1>3, <1>4, <2>1, <2>2 DEF CacheOf, Shared
  <1>5. ASSUME NEW q \in Proc, handle[q] = h
        PROVE  CacheOf(q)'
    <2>1. CASE pc[p] \in Creation
      <3>1. q = p
        BY <1>5, <2>1 DEF CacheInv, FreshInv
      <3>2. cache'[q] = NoCache
        BY <1>1, <2>1, <3>1 DEF CacheInv, VersionInv, VersionOf
      <3> QED BY <1>1, <3>2, NoCacheFits
    <2>2. CASE pc[p] \notin Creation
      <3>1. cache[q].version <= t.version
        BY <1>1, <1>2, <1>5 DEF CacheOf
      <3>2. SUFFICES ASSUME cache[q].version = u.version
                     PROVE  /\ pc'[p] \notin Copying
                            /\ pc'[p] \notin CopyPlaces =>
                                 cache[q].tasks = ListOf(u)
        <4>1. Quiet(h)' => pc'[p] \notin CopyPlaces
          BY <1>1 DEF Quiet, Writing
        <4> QED BY <1>1, <1>2, <1>3, <1>5, <2>2, <3>1, <3>2, <4>1
                DEF CacheOf, Shared
      <3>3. cache[q].version = t.version /\ ~BumpVersion(p)
        BY <1>1, <1>2, <2>2, <3>1, <3>2
      <3>4. pc[p] \notin Copying /\ (Quiet(h) => cache[q].tasks = ListOf(t))
        BY <1>1, <1>2, <1>5, <3>3 DEF CacheOf, Shared
      <3>5. pc[p] \notin CopyPlaces => Quiet(h)
        BY <1>3 DEF Quiet, Writing
      <3>6. \/ pc[p] = "st_size" /\ pc'[p] = "st_version"
            \/ /\ pc[p] \in {"st_open", "st_write"} /\ u = t
               /\ pc'[p] \in {"st_write", "unlock"}
        BY <1>2, <2>2, <3>3, <3>4 DEF InsideWrite, ZeroHeader, LoadFile,
           CopyChunk, WriteSize, OpenFile, OpenFileFails, WriteFile, Goto,
           Creation
      <3> QED BY <3>4, <3>5, <3>6
    <2> QED BY <2>1, <2>2
  <1> QED BY <1>4, <1>5

LEMMA NextAttachInv ==
  ASSUME AttachInv, [Next]_vars
  PROVE  AttachInv'
  BY NextTypeOK, NextLockHeld, NextHandlePlaces, NextRefCovers DEF AttachInv

\* A death at st_version would leave a list of another length under a version
\* that others have cached.
LEMMA NextCacheInv ==
  ASSUME "st_version" \notin CrashAt, VersionStop < VersionMod,
         AttachInv, CacheInv, [Next]_vars
  PROVE  CacheInv'
  <1>1. AttachInv' /\ FreshInv'
    BY NextAttachInv, NextFresh DEF CacheInv
  <1>2. CASE UNCHANGED vars
    BY <1>2 DEF vars, CacheInv, FreshInv, VersionInv, VersionOf, CacheOf,
                Quiet, Writing, Shared
  <1>3. ASSUME NEW p \in Proc,
               \/ CalmStep(p) /\ ~GetTasks(p)
               \/ Die(p) /\ pc[p] # "st_version"
        PROVE  CacheInv'
    <2>1. VersionInv'
      BY <1>3, CalmVersions DEF CacheInv
    <2> QED BY <1>1, <1>3, <2>1, CalmCaches DEF CacheInv
  <1>4. ASSUME NEW p \in Proc, GetTasks(p)
        PROVE  CacheInv'
    <2>1. VersionInv'
      BY <1>4, CalmVersions DEF CalmStep, CacheInv
    <2> QED BY <1>1, <1>4, <2>1, GetCaches DEF CacheInv
  <1>5. ASSUME NEW p \in Proc,
               \/ TaskInsert(p) \/ TaskErase(p)
               \/ TaskToggleDone(p) \/ TaskEdit(p)
        PROVE  CacheInv'
    <2>1. CASE Return(p)
      <3>1. ~GetTasks(p) \/ GetTasks(p)
        OBVIOUS
      <3> QED BY <1>3, <1>4, <2>1, <3>1 DEF CalmStep
    <2>2. ASSUME NEW list, Store(p, list), handle[p] # NoSeg
          PROVE  CacheInv'
      <3>1. VersionInv'
        BY <2>2, StoreVersions DEF CacheInv
      <3> QED BY <1>1, <2>2, <3>1, CalmCaches DEF CacheInv
    <2> QED BY <1>5, <2>1, <2>2, CallsStore
  <1>6. ASSUME NEW p \in Proc, InsideWrite(p)
        PROVE  CacheInv'
    BY <1>1, <1>6, WriteVersions, WriteCaches DEF CacheInv
  <1>7. ASSUME NEW p \in Proc, Die(p),
               pc[p] \in CrashAt \/ pc[p] \notin CopyPlaces
        PROVE  CacheInv'
    BY <1>3, <1>7 DEF CopyPlaces, InStore
  <1> QED BY <1>2, <1>3, <1>4, <1>5, <1>6, <1>7, ListCases DEF Next

LEMMA InitCacheInv == Init => CacheInv
  BY ConstantsOK DEF Init, CacheInv, FreshInv, VersionInv, VersionOf,
     CacheOf, ZeroSegment, Creation, Copying

\* Outside a write no cache is ahead of its segment, and one with the
\* segment's version holds the segment's list: GetTasks may skip the load, if
\* versions do not wrap and no process dies between the size and the version.
THEOREM CachesFit ==
  ASSUME "st_version" \notin CrashAt, VersionStop < VersionMod
  PROVE  Spec => []CacheCoherent
  <1>1. Init => CacheInv
    BY InitCacheInv
  <1>2. AttachInv /\ CacheInv /\ [Next]_vars => CacheInv'
    BY NextCacheInv
  <1> QED BY <1>1, <1>2, CacheInvCoherent, AttachHolds, PTL DEF Spec

(***************************************************************************)
(* The file.  It has the segment's list whenever nobody is creating the    *)
(* segment or storing a list.                                              *)
(***************************************************************************)
Clean == {"acq_trunc", "acq_mmap", "acq_zero", "acq_load"}
Unsettled == Clean \union CopyPlaces \union {"st_open", "st_write"}
Settled == \A p \in Proc : pc[p] \notin Unsettled

\* Nobody dies creating the segment, or between the size and the last task.
ListSafe == CrashAt \intersect (Clean \union CopyPlaces) = {}

\* Nor between the last task and the saved file.
CrashSafe == CrashAt \intersect Unsettled = {}

\* An object without a name and a holder is a new one, with no list.
FreedInv ==
  \A s \in Seg : s # name /\ (\A q \in Proc : handle[q] # s) =>
    ~segs[s].header

SavedOf(p) ==
  /\ pc[p] \in Clean => ~segs[handle[p]].header
  /\ pc[p] = "load_copy" => pend[p] = file
  /\ pc[p] \in {"st_open", "st_write"} => Shared(p) = pend[p]

SavedInv == FreedInv /\ \A p \in Proc : SavedOf(p)

\* Between two calls the file has what the name's object holds.
NameSaved == name # NoSeg /\ Settled => ListOf(segs[name]) = file

\* A dead process left its reference to the name's object, which is never
\* removed then: it may hold what the file does not.
Spared ==
  /\ name # NoSeg /\ segs[name].ref > Cardinality(Mapped(name))
  /\ NobodyUnlinking

NameKept == name # NoSeg /\ Settled => ListOf(segs[name]) = file \/ Spared

LEMMA SavedHolds ==
  ASSUME AttachInv, ViewInv, NameSaved
  PROVE  FileHoldsList
  BY DEF NameSaved, Settled, Unsettled, Clean, ViewInv, SharedView, Attached,
         FileHoldsList, Shared, Inside, InAcquire, InCall, AttachInv, TypeOK

\* Who gives back the last reference removes no name that a dead process has
\* left one to.
LEMMA ReleaseSpares ==
  ASSUME AttachInv, ViewInv, Spared, NEW p \in Proc, Release(p), name' = name
  PROVE  Spared'
  <1> DEFINE s == name
             less == [segs EXCEPT ![s].ref = @ - 1]
  <1>1. /\ s \in Seg /\ segs \in [Seg -> Segment] /\ segs[s] \in Segment
        /\ segs[s].ref \in Int /\ TypeOK
    BY DEF AttachInv, TypeOK, Spared, Segment
  <1>2. CASE handle[p] = NoSeg
    <2>1. /\ Mapped(s)' = Mapped(s) /\ segs' = segs
          /\ NobodyUnlinking'
      BY <1>1, <1>2, ConstantsOK
         DEF Mapped, TypeOK, Release, Goto, Spared, NobodyUnlinking
    <2> QED BY <2>1 DEF Spared, Mapped
  <1>3. CASE handle[p] # NoSeg
    <2>1. handle[p] = s /\ p \in Mapped(s)
      BY <1>3 DEF ViewInv, SharedView, Attached, Mapped, Release
    <2>2. /\ Cardinality(Mapped(s)) \in Nat /\ Cardinality(Mapped(s)) # 0
      BY <2>1, MappedFinite, FS_EmptySet
    <2>3. segs[s].ref > 1
      BY <1>1, <2>2 DEF Spared
    <2>4. NobodyUnlinking'
      BY <1>1, <1>3, <2>1, <2>3
         DEF Release, Goto, TypeOK, Spared, NobodyUnlinking
    <2>5. Mapped(s)' = Mapped(s) \ {p}
      BY <1>1, <2>1, ConstantsOK DEF Mapped, TypeOK, Release, Goto
    <2>6. Cardinality(Mapped(s)') = Cardinality(Mapped(s)) - 1
      BY <2>1, <2>5, MappedFinite, FS_RemoveElement
    <2>7. segs'[s].ref = segs[s].ref - 1
      <3>1. segs' = Kept(less, s, handle')
        BY <1>3, <2>1 DEF Release
      <3>2. less[s].ref = segs[s].ref - 1
        BY <1>1 DEF Segment
      <3> HIDE DEF less
      <3>3. segs'[s] = less[s]
        BY <1>1, <3>1 DEF Kept
      <3> QED BY <3>2, <3>3
    <2>8. segs'[s].ref > Cardinality(Mapped(s)')
      BY <1>1, <2>2, <2>6, <2>7 DEF Spared
    <2> QED BY <2>4, <2>8 DEF Spared, Mapped
  <1> QED BY <1>2, <1>3

LEMMA SparedStays ==
  ASSUME AttachInv, ViewInv, Spared, [Next]_vars, name' = name
  PROVE  Spared'
  <1> DEFINE s == name
  <1>1. /\ s \in Seg /\ segs \in [Seg -> Segment] /\ segs[s].ref \in Int
        /\ TypeOK /\ HandlePlaces /\ s # NoSeg
        /\ segs[s].ref >= Cardinality(Mapped(s)) + 1
        /\ Cardinality(Mapped(s)) \in Nat
    BY MappedFinite DEF AttachInv, TypeOK, Spared, Segment
  <1>2. CASE UNCHANGED vars
    BY <1>2 DEF vars, Spared, Mapped, NobodyUnlinking
  <1>3. ASSUME NEW p \in Proc, Release(p)
        PROVE  Spared'
    BY <1>3, ReleaseSpares
  <1>4. ASSUME NEW p \in Proc,
               \/ Lock(p) \/ Recover(p) \/ Unlock(p)
               \/ Acquire(p) \/ Call(p) \/ Unlink(p) \/ Die(p)
               \/ InsideStep(p)
        PROVE  Spared'
    <2>1. NobodyUnlinking'
      <3>1. CASE Unlink(p)
        BY <1>1, <3>1 DEF Unlink, Spared, NobodyUnlinking, Goto
      <3>2. CASE OpenExisting(p) \/ CreateNew(p)
        BY <1>1, <3>2 DEF OpenExisting, CreateNew, TypeOK, Spared,
                          NobodyUnlinking, Goto
      <3>3. CASE NothingOpened
        BY <3>3 DEF NothingOpened, Spared, NobodyUnlinking
      <3> QED BY <1>1, <1>4, <3>1, <3>2, <3>3, NothingOpenedSteps
    <2>2. segs'[s].ref >= Cardinality(Mapped(s)') + 1
      <3>1. CASE ~Map(p) /\ ~MapNew(p)
        <4>1. CountKept(s)
          BY <1>1, <1>4, <3>1, UncountedSteps DEF Freed
        <4>2. Cardinality(Mapped(s)') <= Cardinality(Mapped(s))
          BY <4>1, MappedFinite, FS_Subset DEF CountKept
        <4> QED BY <1>1, <4>1, <4>2, MappedFinite DEF CountKept
      <3>2. CASE Map(p) \/ MapNew(p)
        BY <1>1, <3>2, MapCounts
      <3> QED BY <3>1, <3>2
    <2>3. Cardinality(Mapped(s)') \in Nat /\ segs'[s].ref \in Int
      <3>1. TypeOK'
        BY <1>1, NextTypeOK
      <3> QED BY <1>1, <3>1, MappedFinite DEF TypeOK, Segment
    <2> QED BY <1>1, <2>1, <2>2, <2>3 DEF Spared, Mapped
  <1> QED BY <1>2, <1>3, <1>4, NextCases DEF Next

\* The list of a name that stays is left alone, and what is freed is new.
LinkedCalm ==
  \A s \in Seg :
    /\ name = s /\ name' = s => Content(segs'[s]) = Content(segs[s])
    /\ s # name' /\ (\A q \in Proc : handle'[q] # s) => ~segs'[s].header

LEMMA KeptLinks ==
  ASSUME NEW ss \in [Seg -> Segment], segs' = Kept(ss, name', handle'),
         \A s \in Seg : Content(ss[s]) = Content(segs[s])
  PROVE  LinkedCalm
  <1>1. ~ZeroSegment.header
    BY DEF ZeroSegment
  <1> QED BY <1>1 DEF LinkedCalm, Kept

LEMMA CalmLinks ==
  ASSUME AttachInv, FreedInv, NEW p \in Proc, CalmStep(p) \/ Die(p)
  PROVE  LinkedCalm
  <1>1. /\ pc \in [Proc -> Places \union {"out"}]
        /\ handle \in [Proc -> Seg \union {NoSeg}]
        /\ segs \in [Seg -> Segment] /\ TypeOK
    BY DEF AttachInv, TypeOK
  <1>2. ASSUME name' = name, handle' = handle,
               \A s \in Seg : Content(segs'[s]) = Content(segs[s])
        PROVE  LinkedCalm
    BY <1>2, SameContent DEF LinkedCalm, FreedInv
  <1>3. CASE \/ Lock(p) \/ Recover(p) \/ Unlock(p) \/ Acquire(p) \/ Call(p)
             \/ CreateFails(p) \/ GetTasks(p) \/ Return(p)
    BY <1>2, <1>3 DEF Lock, Recover, Unlock, Acquire, Call, CreateFails,
                      GetTasks, Return
  <1>4. CASE OpenExisting(p) \/ CreateNew(p)
    <2>1. /\ handle[p] = NoSeg /\ segs' = segs
          /\ \A q \in Proc \ {p} : handle'[q] = handle[q]
          /\ handle'[p] = name' /\ (name = name' \/ name = NoSeg)
      BY <1>1, <1>4 DEF OpenExisting, CreateNew, Goto, AttachInv,
                        HandlePlaces, Detached
    <2>2. \A s \in Seg : s # NoSeg
      BY ConstantsOK
    <2> QED BY <2>1, <2>2 DEF LinkedCalm, FreedInv
  <1>5. CASE Map(p) \/ SetSize(p) \/ MapNew(p)
    <2>1. handle[p] \in Seg
      BY <1>1, <1>5 DEF AttachInv, HandlePlaces, Detached, MayBeNull, Map,
                        SetSize, MapNew, Goto
    <2> DEFINE n == segs[handle[p]].ref + 1
    <2>2. n \in Int
      BY <1>1, <2>1 DEF Segment
    <2>3. \/ segs' = [segs EXCEPT ![handle[p]].ref = n]
          \/ segs' = [segs EXCEPT ![handle[p]].sized = TRUE]
      BY <1>1, <1>5, <2>1 DEF Map, SetSize, MapNew
    <2> HIDE DEF n
    <2>4. ASSUME NEW s \in Seg
          PROVE  Content(segs'[s]) = Content(segs[s])
      <3>1. /\ Content([segs EXCEPT ![handle[p]].ref = n][s])
                 = Content(segs[s])
            /\ Content([segs EXCEPT ![handle[p]].sized = TRUE][s])
                 = Content(segs[s])
        BY <1>1, <2>1, <2>2, FieldsCalm
      <3> QED BY <2>3, <3>1
    <2> QED BY <1>2, <1>5, <2>4 DEF Map, SetSize, MapNew
  <1>6. CASE MapFails(p) \/ (NewFails(p) /\ ~Die(p)) \/ Unlink(p) \/ Die(p)
    BY <1>1, <1>6, KeptLinks DEF MapFails, NewFails, Unlink, Die
  <1>7. CASE Release(p)
    <2>1. CASE handle[p] = NoSeg
      <3>1. name' = name /\ handle' = handle /\ segs' = segs
        BY <1>1, <1>7, <2>1 DEF Release
      <3> QED BY <1>2, <3>1
    <2>2. CASE handle[p] # NoSeg
      <3>1. handle[p] \in Seg
        BY <1>1, <2>2
      <3>2. segs[handle[p]].ref - 1 \in Int
        BY <1>1, <3>1 DEF Segment
      <3> DEFINE ss == [segs EXCEPT ![handle[p]].ref = @ - 1]
      <3>3. ss \in [Seg -> Segment]
        <4>1. [segs[handle[p]] EXCEPT !.ref = @ - 1] \in Segment
          BY <1>1, <3>1, <3>2 DEF Segment
        <4> QED BY <1>1, <4>1
      <3>4. segs' = Kept(ss, name', handle')
        BY <1>7, <2>2 DEF Release
      <3>5. \A s \in Seg : Content(ss[s]) = Content(segs[s])
        BY <1>1, <3>1, <3>2, FieldsCalm
      <3> HIDE DEF ss
      <3> QED BY <3>3, <3>4, <3>5, KeptLinks
    <2> QED BY <2>1, <2>2
  <1> QED BY <1>3, <1>4, <1>5, <1>6, <1>7 DEF CalmStep

LEMMA CalmPlaces ==
  ASSUME ~IoFaults, AttachInv, NEW p \in Proc, CalmStep(p) \/ Die(p)
  PROVE  /\ \/ CreateNew(p)
            \/ \A q \in Proc : pc'[q] \in Clean =>
                                pc[q] \in Clean /\ handle'[q] = handle[q]
         /\ CalmStep(p) \/ pc[p] \notin Unsettled =>
              \A q \in Proc : pc[q] \in Unsettled => pc'[q] \in Unsettled
         /\ CreateNew(p) \/ Unlink(p) \/ name' = name
  <1>1. /\ pc \in [Proc -> Places \union {"out"}]
        /\ handle \in [Proc -> Seg \union {NoSeg}]
    BY DEF AttachInv, TypeOK
  <1> USE DEF Unsettled, Clean
  <1>2. CASE Lock(p) \/ Recover(p) \/ Unlock(p) \/ Acquire(p) \/ Call(p)
    BY <1>1, <1>2 DEF Lock, Recover, Unlock, Acquire, Call, Goto, Waiting
  <1>3. CASE Release(p) \/ Unlink(p)
    BY <1>1, <1>3 DEF Release, Unlink, Goto
  <1>4. CASE \/ OpenExisting(p) \/ CreateNew(p) \/ CreateFails(p) \/ Map(p)
             \/ MapFails(p) \/ SetSize(p) \/ MapNew(p) \/ NewFails(p)
    BY <1>1, <1>4 DEF OpenExisting, CreateNew, CreateFails, Map, MapFails,
                      SetSize, MapNew, NewFails, Goto
  <1>5. CASE GetTasks(p) \/ Return(p)
    BY <1>1, <1>5 DEF GetTasks, Return, Goto
  <1>6. CASE ~CalmStep(p) /\ Die(p)
    BY <1>1, <1>6 DEF Die
  <1> QED BY <1>2, <1>3, <1>4, <1>5, <1>6 DEF CalmStep

LEMMA CalmKeepsSaved ==
  ASSUME ~IoFaults, AttachInv, SavedInv, NEW p \in Proc,
         CalmStep(p) \/ (Die(p) /\ pc[p] \notin CopyPlaces)
  PROVE  SavedInv'
  <1>1. /\ Calm /\ LinkedCalm
        /\ \A q \in Proc : pc[q] \in Unsettled => handle[q] \in Seg
        /\ name \in Seg \union {NoSeg}
    <2>1. Calm
      BY CalmSteps
    <2>2. LinkedCalm
      BY CalmLinks DEF SavedInv
    <2> QED BY <2>1, <2>2 DEF AttachInv, TypeOK, HandlePlaces, Detached,
            MayBeNull, Unsettled, Clean
  <1>2. FreedInv'
    BY <1>1 DEF FreedInv, LinkedCalm
  <1>3. ASSUME NEW q \in Proc, pc[q] \in Unsettled, handle'[q] = handle[q]
        PROVE  Content(segs'[handle[q]]) = Content(segs[handle[q]])
    BY <1>1, <1>3 DEF Calm, CalmSeg
  <1>4. ASSUME NEW q \in Proc
        PROVE  SavedOf(q)'
    <2>1. pc'[q] \in Clean => ~segs'[handle'[q]].header
      <3>1. CASE pc[q] \in Clean /\ handle'[q] = handle[q]
        BY <1>3, <3>1, SameContent DEF SavedInv, SavedOf, Unsettled
      <3>2. CASE CreateNew(p)
        <4>1. /\ handle'[p] \in Seg /\ ~segs'[handle'[p]].header
              /\ \A r \in Proc \ {p} : pc'[r] = pc[r]
                                       /\ handle'[r] = handle[r]
          BY <3>2, ConstantsOK
             DEF CreateNew, Goto, AttachInv, TypeOK, SavedInv, FreedInv
        <4> QED BY <3>1, <4>1
      <3> QED BY <3>1, <3>2, CalmPlaces
    <2>2. CASE pc'[q] \in Pending
      <3>1. /\ pc'[q] = pc[q] /\ pend'[q] = pend[q]
            /\ handle'[q] = handle[q] /\ file' = file
        BY <1>1, <2>2 DEF Calm, CalmProc
      <3>2. pc[q] \in Unsettled => Shared(q)' = Shared(q)
        BY <1>3, <3>1, SameContent DEF Shared
      <3> QED BY <2>1, <3>1, <3>2 DEF SavedInv, SavedOf, Unsettled
    <2> QED BY <2>1, <2>2 DEF SavedOf
  <1> QED BY <1>2, <1>4 DEF SavedInv

\* A name that is there when all is settled was there before the step.
LEMMA SettledName ==
  ASSUME ~IoFaults, AttachInv, NEW p \in Proc, CalmStep(p) \/ Die(p),
         name' # NoSeg, Settled'
  PROVE  /\ name' = name
         /\ CalmStep(p) \/ pc[p] \notin Unsettled => Settled
  <1>1. ~CreateNew(p)
    BY DEF CreateNew, Goto, Settled, Unsettled, Clean, AttachInv, TypeOK
  <1>2. ~Unlink(p)
    BY DEF Unlink
  <1> QED BY <1>1, <1>2, CalmPlaces DEF Settled

LEMMA CalmKeepsName ==
  ASSUME ~IoFaults, AttachInv, SavedInv, NameSaved, NEW p \in Proc,
         CalmStep(p) \/ (Die(p) /\ pc[p] \notin Unsettled)
  PROVE  NameSaved'
  <1> SUFFICES ASSUME name' # NoSeg, Settled'
               PROVE  ListOf(segs'[name']) = file'
    BY DEF NameSaved
  <1>1. name' = name /\ Settled /\ name \in Seg
    BY SettledName DEF AttachInv, TypeOK
  <1>2. LinkedCalm /\ file' = file
    BY CalmSteps, CalmLinks DEF Calm, Unsettled, SavedInv
  <1> QED BY <1>1, <1>2, SameContent DEF LinkedCalm, NameSaved

\* A process that dies before its list is in the file leaves its reference.
LEMMA DeathSpares ==
  ASSUME AttachInv, ViewInv, NEW p \in Proc, Die(p),
         pc[p] \in {"st_open", "st_write"}
  PROVE  Spared'
  <1> DEFINE s == name
  <1>1. /\ segs \in [Seg -> Segment] /\ TypeOK /\ s = handle[p] /\ s \in Seg
        /\ segs[s].ref >= Cardinality(Mapped(s)) /\ s # NoSeg
    BY ConstantsOK DEF AttachInv, TypeOK, HandlePlaces, Detached, MayBeNull,
                       ViewInv, SharedView, Attached, RefCovers
  <1>2. segs'[s] = segs[s] /\ name' = s
    BY <1>1 DEF Die, Kept
  <1>3. p \in Mapped(s) /\ Mapped(s)' = Mapped(s) \ {p}
    BY <1>1 DEF Mapped, TypeOK, Die
  <1>4. Cardinality(Mapped(s)') = Cardinality(Mapped(s)) - 1
    BY <1>3, MappedFinite, FS_RemoveElement
  <1>5. NobodyUnlinking'
    BY <1>1 DEF ViewInv, Alone, NobodyUnlinking, Die, TypeOK
  <1>6. segs[s].ref \in Int /\ Cardinality(Mapped(s)) \in Nat
    BY <1>1, MappedFinite DEF Segment
  <1> QED BY <1>1, <1>2, <1>4, <1>5, <1>6 DEF Spared, Mapped

LEMMA CalmNameKept ==
  ASSUME ~IoFaults, AttachInv, ViewInv, SavedInv, NameKept, [Next]_vars,
         NEW p \in Proc,
         \/ CalmStep(p)
         \/ Die(p) /\ pc[p] \notin Clean \union CopyPlaces
  PROVE  NameKept'
  <1> SUFFICES ASSUME name' # NoSeg, Settled'
               PROVE  (ListOf(segs[name]) = file)' \/ Spared'
    BY DEF NameKept
  <1>1. /\ name' = name /\ name \in Seg
        /\ CalmStep(p) \/ pc[p] \notin Unsettled => Settled
    BY SettledName DEF AttachInv, TypeOK
  <1>2. CASE Die(p) /\ pc[p] \in {"st_open", "st_write"}
    BY <1>2, DeathSpares
  <1>3. CASE CalmStep(p) \/ pc[p] \notin Unsettled
    <2>1. LinkedCalm /\ file' = file
      BY CalmSteps, CalmLinks DEF Calm, SavedInv
    <2>2. CASE Spared
      BY <1>1, <2>2, SparedStays
    <2>3. CASE ListOf(segs[name]) = file
      BY <1>1, <2>1, <2>3, SameContent DEF LinkedCalm
    <2> QED BY <1>1, <1>3, <2>2, <2>3 DEF NameKept
  <1> QED BY <1>2, <1>3 DEF Unsettled

LEMMA StoreFrame ==
  ASSUME AttachInv, NEW p \in Proc, NEW list, Store(p, list), ~Return(p)
  PROVE  /\ pc[p] = "locked" /\ pc'[p] = "st_size"
         /\ UNCHANGED <<segs, file, handle, name, cache>>
         /\ \A q \in Proc \ {p} : pc'[q] = pc[q] /\ pend'[q] = pend[q]
         /\ Settled' <=> Settled
  <1>1. /\ pc[p] = "locked" /\ pc'[p] = "st_size"
        /\ UNCHANGED <<segs, file, handle, name, cache>>
        /\ \A q \in Proc \ {p} : pc'[q] = pc[q] /\ pend'[q] = pend[q]
    BY DEF Store, Goto, AttachInv, TypeOK
  <1>2. Settled' <=> Settled
    BY <1>1 DEF Settled, Unsettled, Clean, CopyPlaces, InStore
  <1> QED BY <1>1, <1>2

LEMMA StoreKeepsSaved ==
  ASSUME ~IoFaults, AttachInv, SavedInv, NEW p \in Proc, NEW list,
         Store(p, list), ~Return(p)
  PROVE  /\ SavedInv'
         /\ NameSaved => NameSaved'
         /\ ViewInv /\ NameKept /\ [Next]_vars => NameKept'
  <1>1. SavedInv'
    BY StoreFrame DEF SavedInv, FreedInv, SavedOf, Clean, Shared
  <1>2. NameSaved => NameSaved'
    BY StoreFrame DEF NameSaved
  <1>3. ViewInv /\ NameKept /\ [Next]_vars => NameKept'
    BY StoreFrame, SparedStays DEF NameKept
  <1> QED BY <1>1, <1>2, <1>3

LEMMA WriteKeepsSaved ==
  ASSUME ~IoFaults, AttachInv, ViewInv, CopyInv, SavedInv, NEW p \in Proc,
         InsideWrite(p)
  PROVE  SavedInv' /\ NameSaved'
  <1> DEFINE h == handle[p]
             t == segs[h]
             u == segs'[h]
  <1>1. /\ WriteStep(p) /\ t \in Segment /\ u \in Segment /\ h \in Seg
        /\ handle' = handle /\ h = name /\ name' = name
    <2>1. WriteStep(p) /\ t \in Segment /\ u \in Segment
      BY InsideWriteStep
    <2>2. h \in Seg /\ handle' = handle
      BY <2>1 DEF WriteStep
    <2>3. h = name
      BY <2>2, ConstantsOK DEF ViewInv, SharedView, Attached
    <2>4. name' = name
      BY DEF InsideWrite, ZeroHeader, LoadFile, CopyChunk, WriteSize,
             BumpVersion, OpenFile, OpenFileFails, WriteFile
    <2> QED BY <2>1, <2>2, <2>3, <2>4
  <1>2. /\ segs \in [Seg -> Segment] /\ pend \in [Proc -> Lists]
        /\ pc \in [Proc -> Places \union {"out"}] /\ file \in Lists
        /\ SavedOf(p)
    BY DEF AttachInv, TypeOK, SavedInv
  <1>3. \A q \in Proc \ {p} : /\ pc'[q] = pc[q] /\ pc[q] \notin Inside
                              /\ pc[q] \notin Unsettled
    BY <1>1, OthersOutside
       DEF WriteStep, Unsettled, Clean, Inside, InAcquire, InCall
  <1>4. SUFFICES /\ SavedOf(p)'
                 /\ pc'[p] \notin Unsettled => ListOf(u) = file'
    <2>1. FreedInv'
      BY <1>1 DEF SavedInv, FreedInv, WriteStep
    <2>2. \A q \in Proc \ {p} : SavedOf(q)'
      BY <1>3 DEF SavedOf, Unsettled, Clean
    <2>3. NameSaved'
      BY <1>1, <1>4 DEF NameSaved, Settled
    <2> QED BY <1>4, <2>1, <2>2, <2>3 DEF SavedInv
  <1> USE DEF Unsettled, Clean
  <1>5. CASE ZeroHeader(p)
    <2>1. /\ pc[p] = "acq_zero" /\ pc'[p] = "acq_load" /\ u.header = t.header
      BY <1>1, <1>2, <1>5 DEF ZeroHeader, Goto, Segment
    <2> QED BY <1>1, <1>2, <2>1 DEF SavedOf
  <1>6. CASE LoadFile(p)
    <2>1. pc[p] = "acq_load" /\ file' = file /\ ~t.header
      BY <1>2, <1>6 DEF LoadFile, Goto, SavedOf
    <2>2. CASE file = <<>>
      <3>1. pc'[p] = "unlock" /\ u = t
        BY <1>2, <1>6, <2>2 DEF LoadFile, Goto
      <3> QED BY <2>1, <2>2, <3>1 DEF SavedOf, ListOf
    <2>3. CASE file # <<>>
      <3>1. pc'[p] = "load_copy" /\ pend'[p] = file
        BY <1>2, <1>6, <2>3, TruncatedList DEF LoadFile, Goto
      <3> QED BY <2>1, <3>1 DEF SavedOf
    <2> QED BY <2>2, <2>3
  <1>7. CASE CopyChunk(p)
    <2>1. /\ file' = file /\ pc[p] \in Copying
          /\ pc[p] = "load_copy" => pend[p] = file
          /\ \/ UNCHANGED <<pc, pend>>
             \/ /\ chunk[p] = Len(pend[p])
                /\ \/ pc[p] = "load_copy" /\ pc'[p] = "unlock"
                   \/ pc'[p] = "st_open" /\ pend' = pend
      BY <1>2, <1>7 DEF CopyChunk, Goto, SavedOf
    <2>2. chunk[p] = Len(pend[p]) => ListOf(u) = pend[p]
      BY <1>7, ChunkCopied
    <2> QED BY <1>1, <2>1, <2>2 DEF SavedOf, Shared
  <1>8. CASE WriteSize(p) \/ BumpVersion(p)
    <2>1. pc'[p] \in {"st_version", "store_copy"}
      BY <1>2, <1>8 DEF WriteSize, BumpVersion, Goto
    <2> QED BY <2>1 DEF SavedOf
  <1>9. CASE OpenFile(p)
    <2>1. /\ pc[p] = "st_open" /\ pc'[p] = "st_write" /\ u = t
          /\ pend' = pend
      BY <1>2, <1>9 DEF OpenFile, Goto
    <2> QED BY <1>1, <1>2, <2>1 DEF SavedOf, Shared
  <1>10. CASE OpenFileFails(p) \/ WriteFile(p)
    <2>1. /\ pc[p] = "st_write" /\ pc'[p] = "unlock" /\ u = t
          /\ file' = pend[p]
      BY <1>2, <1>10 DEF OpenFileFails, WriteFile, Goto
    <2> QED BY <1>1, <1>2, <2>1 DEF SavedOf, Shared
  <1> QED BY <1>5, <1>6, <1>7, <1>8, <1>9, <1>10 DEF InsideWrite

\* The steps of a process, by what they do to the file and its list.
LEMMA SavingCases ==
  ASSUME ~IoFaults, NEW p \in Proc,
         Lock(p) \/ Work(p) \/ Decision(p) \/ Crash(p)
  PROVE  \/ CalmStep(p)
         \/ Die(p) /\ (pc[p] \in CrashAt \/ pc[p] \notin Unsettled)
         \/ TaskInsert(p) \/ TaskErase(p) \/ TaskToggleDone(p) \/ TaskEdit(p)
         \/ InsideWrite(p)
  <1>1. Segfault(p) => Die(p) /\ pc[p] \notin Unsettled
    BY DEF Segfault, Unsettled, Clean
  <1>2. NewFails(p) => CalmStep(p)
    BY DEF NewFails
  <1>3. Crash(p) => Die(p) /\ pc[p] \in CrashAt
    BY DEF Crash
  <1>4. NotFound(p) => CalmStep(p)
    BY DEF NotFound, CalmStep
  <1> QED BY <1>1, <1>2, <1>3, <1>4 DEF Work, Decision, CalmStep, InsideWrite

\* A death that ListSafe allows changes no list.
LEMMA DeathsSaved ==
  ASSUME ListSafe, NEW p \in Proc,
         pc[p] \in CrashAt \/ pc[p] \notin Unsettled
  PROVE  pc[p] \notin Clean \union CopyPlaces
  BY DEF ListSafe, Unsettled

LEMMA NextSaved ==
  ASSUME ~IoFaults, ListSafe, AttachInv, ViewInv, CopyInv, SavedInv,
         [Next]_vars
  PROVE  SavedInv'
  <1>1. CASE UNCHANGED vars
    BY <1>1 DEF vars, SavedInv, FreedInv, SavedOf, Shared
  <1>2. ASSUME NEW p \in Proc,
               \/ CalmStep(p)
               \/ Die(p) /\ (pc[p] \in CrashAt \/ pc[p] \notin Unsettled)
        PROVE  SavedInv'
    BY <1>2, CalmKeepsSaved, DeathsSaved
  <1>3. ASSUME NEW p \in Proc,
               \/ TaskInsert(p) \/ TaskErase(p)
               \/ TaskToggleDone(p) \/ TaskEdit(p)
        PROVE  SavedInv'
    <2>1. Return(p) => SavedInv'
      BY <1>2 DEF CalmStep
    <2> QED BY <1>3, <2>1, CallsStore, StoreKeepsSaved
  <1>4. ASSUME NEW p \in Proc, InsideWrite(p)
        PROVE  SavedInv'
    BY <1>4, WriteKeepsSaved
  <1> QED BY <1>1, <1>2, <1>3, <1>4, SavingCases DEF Next

LEMMA NextNameSaved ==
  ASSUME ~IoFaults, CrashSafe, AttachInv, ViewInv, CopyInv, SavedInv,
         NameSaved, [Next]_vars
  PROVE  NameSaved'
  <1>1. CASE UNCHANGED vars
    BY <1>1 DEF vars, NameSaved, Settled
  <1>2. ASSUME NEW p \in Proc,
               \/ CalmStep(p)
               \/ Die(p) /\ (pc[p] \in CrashAt \/ pc[p] \notin Unsettled)
        PROVE  NameSaved'
    BY <1>2, CalmKeepsName DEF CrashSafe
  <1>3. ASSUME NEW p \in Proc,
               \/ TaskInsert(p) \/ TaskErase(p)
               \/ TaskToggleDone(p) \/ TaskEdit(p)
        PROVE  NameSaved'
    <2>1. Return(p) => NameSaved'
      BY <1>2 DEF CalmStep
    <2> QED BY <1>3, <2>1, CallsStore, StoreKeepsSaved
  <1>4. ASSUME NEW p \in Proc, InsideWrite(p)
        PROVE  NameSaved'
    BY <1>4, WriteKeepsSaved
  <1> QED BY <1>1, <1>2, <1>3, <1>4, SavingCases DEF Next

LEMMA NextNameKept ==
  ASSUME ~IoFaults, ListSafe, AttachInv, ViewInv, CopyInv, SavedInv,
         NameKept, [Next]_vars
  PROVE  NameKept'
  <1>1. CASE UNCHANGED vars
    BY <1>1 DEF vars, NameKept, Settled, Spared, Mapped, NobodyUnlinking
  <1>2. ASSUME NEW p \in Proc,
               \/ CalmStep(p)
               \/ Die(p) /\ (pc[p] \in CrashAt \/ pc[p] \notin Unsettled)
        PROVE  NameKept'
    BY <1>2, CalmNameKept, DeathsSaved
  <1>3. ASSUME NEW p \in Proc,
               \/ TaskInsert(p) \/ TaskErase(p)
               \/ TaskToggleDone(p) \/ TaskEdit(p)
        PROVE  NameKept'
    <2>1. Return(p) => NameKept'
      BY <1>2 DEF CalmStep
    <2> QED BY <1>3, <2>1, CallsStore, StoreKeepsSaved
  <1>4. ASSUME NEW p \in Proc, InsideWrite(p)
        PROVE  NameKept'
    BY <1>4, WriteKeepsSaved DEF NameSaved, NameKept
  <1> QED BY <1>1, <1>2, <1>3, <1>4, SavingCases DEF Next

\* The shared list and the file agree whenever no call runs, if the file can
\* be read and written, no release overlaps an attach and nobody dies creating
\* the segment or storing a list.
THEOREM FileHasList ==
  ASSUME ~Overlap, ~IoFaults, CrashSafe
  PROVE  Spec => []FileHoldsList
  <1>1. NoTear /\ ListSafe
    BY DEF CrashSafe, Unsettled, NoTear, ListSafe
  <1>2. Init => ViewInv /\ CopyInv /\ SavedInv /\ NameSaved
    <2>1. Init => ViewInv
      BY DEF Init, ViewInv, SharedView, Alone, Attached
    <2>2. Init => SavedInv /\ NameSaved
      BY DEF Init, SavedInv, FreedInv, SavedOf, ZeroSegment, Clean, NameSaved
    <2> QED BY <2>1, <2>2, InitCopies
  <1>3. AttachInv /\ ViewInv /\ CopyInv /\ SavedInv /\ NameSaved /\ [Next]_vars
          => ViewInv' /\ CopyInv' /\ SavedInv' /\ NameSaved'
    BY <1>1, NextViewInv, NextCopies, NextSaved, NextNameSaved
  <1>4. AttachInv /\ ViewInv /\ NameSaved => FileHoldsList
    BY SavedHolds
  <1> QED BY <1>2, <1>3, <1>4, AttachHolds, PTL DEF Spec

\* A change that is not in the file is in the object that the name stands for,
\* and stays there: a process that dies in store_tasks, after the list and
\* before the end of the file's write, gives no reference back, so that no
\* release after it removes the name.
THEOREM ListSurvives ==
  ASSUME ~Overlap, ~IoFaults, ListSafe
  PROVE  Spec => []NameKept
  <1>1. NoTear
    BY DEF ListSafe, NoTear
  <1>2. Init => ViewInv /\ CopyInv /\ SavedInv /\ NameKept
    <2>1. Init => ViewInv
      BY DEF Init, ViewInv, SharedView, Alone, Attached
    <2>2. Init => SavedInv /\ NameKept
      BY DEF Init, SavedInv, FreedInv, SavedOf, ZeroSegment, Clean, NameKept
    <2> QED BY <2>1, <2>2, InitCopies
  <1>3. AttachInv /\ ViewInv /\ CopyInv /\ SavedInv /\ NameKept /\ [Next]_vars
          => ViewInv' /\ CopyInv' /\ SavedInv' /\ NameKept'
    BY <1>1, NextViewInv, NextCopies, NextSaved, NextNameKept
  <1> QED BY <1>2, <1>3, AttachHolds, PTL DEF Spec

(***************************************************************************)
(* The calls are atomic.  A list about to be stored is one change away     *)
(* from the one in the segment.  The tasks of the schedule are the list    *)
(* somebody stores; else those of the object, while the name has one and   *)
(* nobody fills it; else those of the file.                                *)
(***************************************************************************)
Storing == InStore \union {"st_open", "st_write"}

ChangeInv ==
  \A p \in Proc :
    pc[p] = "st_size" => OneChange(ToSet(Shared(p)), ToSet(pend[p]))

LEMMA CalmKeepsChange ==
  ASSUME AttachInv, ChangeInv, Calm
  PROVE  ChangeInv'
  <1> SUFFICES ASSUME NEW q \in Proc, pc'[q] = "st_size"
               PROVE  OneChange(ToSet(Shared(q)), ToSet(pend[q]))'
    BY DEF ChangeInv
  <1>1. /\ pc[q] = "st_size" /\ pend'[q] = pend[q] /\ handle'[q] = handle[q]
    BY DEF Calm, CalmProc
  <1>2. handle[q] \in Seg
    BY <1>1 DEF AttachInv, TypeOK, HandlePlaces, Detached, MayBeNull
  <1>3. ListOf(segs'[handle[q]]) = ListOf(segs[handle[q]])
    BY <1>1, <1>2, SameContent DEF Calm, CalmSeg
  <1>4. Shared(q)' = Shared(q)
    BY <1>1, <1>3 DEF Shared
  <1>5. OneChange(ToSet(Shared(q)), ToSet(pend[q]))
    BY <1>1 DEF ChangeInv
  <1>6. OneChange(ToSet(Shared(q)'), ToSet(pend'[q]))
    BY <1>1, <1>4, <1>5
  <1> QED BY <1>6 DEF OneChange

LEMMA StoreKeepsChange ==
  ASSUME AttachInv, ChangeInv, NEW p \in Proc, handle[p] # NoSeg, NEW list,
         OneChange(ToSet(Shared(p)), ToSet(list)), Store(p, list)
  PROVE  ChangeInv'
  <1>1. CASE Return(p)
    BY <1>1, CalmSteps, CalmKeepsChange DEF CalmStep
  <1>2. CASE ~Return(p)
    <2>1. /\ pc[p] = "locked" /\ pc'[p] = "st_size" /\ pend'[p] = list
          /\ segs' = segs /\ handle' = handle
          /\ \A q \in Proc \ {p} : pc'[q] = pc[q] /\ pc[q] # "st_size"
      <3>1. pc[p] \in Inside
        BY <1>2 DEF Store, Goto, Inside, InCall
      <3> QED BY <1>2, <3>1, OthersOutside
              DEF Store, Goto, AttachInv, TypeOK
    <2>2. Shared(p)' = Shared(p)
      BY <2>1 DEF Shared
    <2>3. OneChange(ToSet(Shared(p)'), ToSet(pend'[p]))
      BY <2>1, <2>2
    <2> QED BY <2>1, <2>3 DEF ChangeInv, OneChange
  <1> QED BY <1>1, <1>2

LEMMA WriteKeepsChange ==
  ASSUME AttachInv, ChangeInv, NEW p \in Proc, InsideWrite(p)
  PROVE  ChangeInv'
  <1>1. WriteStep(p) /\ pc \in [Proc -> Places \union {"out"}]
    BY InsideWriteStep DEF AttachInv, TypeOK
  <1>2. pc'[p] # "st_size"
    BY <1>1 DEF InsideWrite, ZeroHeader, LoadFile, CopyChunk, WriteSize,
                BumpVersion, OpenFile, OpenFileFails, WriteFile, Goto
  <1>3. \A q \in Proc \ {p} : pc'[q] = pc[q] /\ pc[q] # "st_size"
    BY <1>1, OthersOutside DEF WriteStep
  <1> QED BY <1>2, <1>3 DEF ChangeInv

\* The tasks of the schedule while nobody stores a list.
SavedList ==
  IF name = NoSeg \/ ~Settled THEN file ELSE ListOf(segs[name])

Steady == AttachInv /\ ViewInv /\ SavedInv /\ NameKept

LEMMA ListNow ==
  ASSUME Steady
  PROVE  /\ \A p \in Proc : pc[p] \in Storing => CurrentList = pend[p]
         /\ (\A p \in Proc : pc[p] \notin Storing) => CurrentList = SavedList
  <1> USE DEF Steady, Storing
  <1>1. \A p, q \in Proc : pc[p] \in Pending \union Clean
                          /\ pc[q] \in Pending \union Clean => p = q
    BY DEF AttachInv, LockHeld, Inside, InAcquire, InCall, Clean
  <1>2. ASSUME NEW p \in Proc, Writing(p)
        PROVE  CurrentList = pend[p]
    <2>1. Writers = {p}
      BY <1>1, <1>2 DEF Writers, Writing
    <2> QED BY <2>1 DEF CurrentList
  <1>3. ASSUME NEW p \in Proc, pc[p] \in {"st_open", "st_write"}
        PROVE  CurrentList = pend[p]
    <2>1. Writers = {} /\ ~Creating
      BY <1>1, <1>3 DEF Writers, Writing, Creating, Clean
    <2>2. handle[p] # NoSeg /\ name = handle[p]
      BY <1>3 DEF AttachInv, HandlePlaces, Detached, MayBeNull, ViewInv,
                  SharedView, Attached
    <2>3. ListOf(segs[handle[p]]) = pend[p]
      BY <1>3 DEF SavedInv, SavedOf, Shared
    <2> QED BY <2>1, <2>2, <2>3 DEF CurrentList
  <1>4. ASSUME \A p \in Proc : pc[p] \notin Storing
        PROVE  CurrentList = SavedList
    <2>1. CASE \E p \in Proc : pc[p] = "load_copy"
      <3>1. ~Settled
        BY <2>1 DEF Settled, Unsettled, CopyPlaces
      <3> QED BY <1>2, <2>1, <3>1 DEF Writing, SavedInv, SavedOf, SavedList
    <2>2. CASE \A p \in Proc : pc[p] # "load_copy"
      <3>1. Writers = {}
        BY <1>4, <2>2 DEF Writers, Writing
      <3>2. ~Creating <=> Settled
        BY <1>4, <2>2 DEF Creating, Settled, Unsettled, Clean, CopyPlaces
      <3> QED BY <3>1, <3>2 DEF CurrentList, SavedList
    <2> QED BY <2>1, <2>2
  <1> QED BY <1>2, <1>3, <1>4 DEF Writing

LEMMA ListNext ==
  ASSUME Steady'
  PROVE  /\ \A p \in Proc : pc'[p] \in Storing => CurrentList' = pend'[p]
         /\ (\A p \in Proc : pc'[p] \notin Storing) => CurrentList' = SavedList'
  <1> USE DEF Steady, Storing
  <1>1. \A p, q \in Proc : pc'[p] \in Pending \union Clean
                          /\ pc'[q] \in Pending \union Clean => p = q
    BY DEF AttachInv, LockHeld, Inside, InAcquire, InCall, Clean
  <1>2. ASSUME NEW p \in Proc, Writing(p)'
        PROVE  CurrentList' = pend'[p]
    <2>1. Writers' = {p}
      BY <1>1, <1>2 DEF Writers, Writing
    <2> QED BY <2>1 DEF CurrentList
  <1>3. ASSUME NEW p \in Proc, pc'[p] \in {"st_open", "st_write"}
        PROVE  CurrentList' = pend'[p]
    <2>1. Writers' = {} /\ ~Creating'
      BY <1>1, <1>3 DEF Writers, Writing, Creating, Clean
    <2>2. handle'[p] # NoSeg /\ name' = handle'[p]
      BY <1>3 DEF AttachInv, HandlePlaces, Detached, MayBeNull, ViewInv,
                  SharedView, Attached
    <2>3. ListOf(segs'[handle'[p]]) = pend'[p]
      BY <1>3 DEF SavedInv, SavedOf, Shared
    <2> QED BY <2>1, <2>2, <2>3 DEF CurrentList
  <1>4. ASSUME \A p \in Proc : pc'[p] \notin Storing
        PROVE  CurrentList' = SavedList'
    <2>1. CASE \E p \in Proc : pc'[p] = "load_copy"
      <3>1. ~Settled'
        BY <2>1 DEF Settled, Unsettled, CopyPlaces
      <3> QED BY <1>2, <2>1, <3>1 DEF Writing, SavedInv, SavedOf, SavedList
    <2>2. CASE \A p \in Proc : pc'[p] # "load_copy"
      <3>1. Writers' = {}
        BY <1>4, <2>2 DEF Writers, Writing
      <3>2. ~Creating' <=> Settled'
        BY <1>4, <2>2 DEF Creating, Settled, Unsettled, Clean, CopyPlaces
      <3> QED BY <3>1, <3>2 DEF CurrentList, SavedList
    <2> QED BY <2>1, <2>2
  <1> QED BY <1>2, <1>3, <1>4 DEF Writing

\* No step of these changes the list the schedule has while nobody stores.
\* A name is removed only from an object whose list is in the file.
LEMMA CalmSavedList ==
  ASSUME ~IoFaults, Steady, NEW p \in Proc,
         CalmStep(p) \/ (Die(p) /\ pc[p] \notin Unsettled)
  PROVE  SavedList' = SavedList
  <1>1. /\ AttachInv /\ name \in Seg \union {NoSeg}
        /\ pc \in [Proc -> Places \union {"out"}]
    BY DEF Steady, AttachInv, TypeOK
  <1>2. Calm /\ LinkedCalm /\ file' = file
    BY <1>1, CalmSteps, CalmLinks DEF Calm, Unsettled, Steady, SavedInv
  <1>3. CASE CreateNew(p)
    <2>1. name = NoSeg /\ pc'[p] = "acq_trunc"
      BY <1>1, <1>3 DEF CreateNew, Goto
    <2>2. ~Settled'
      BY <2>1 DEF Settled, Unsettled, Clean
    <2> QED BY <1>2, <2>1, <2>2 DEF SavedList
  <1>4. CASE Unlink(p)
    <2>1. name' = NoSeg /\ ~NobodyUnlinking
      BY <1>4 DEF Unlink, Goto, NobodyUnlinking
    <2>2. name # NoSeg /\ Settled => ListOf(segs[name]) = file
      BY <2>1 DEF Steady, NameKept, Spared
    <2> QED BY <1>2, <2>1, <2>2 DEF SavedList
  <1>5. CASE name' = name /\ ~CreateNew(p)
    <2>1. Settled' => Settled
      BY <1>1, CalmPlaces DEF Settled
    <2>2. Settled => Settled'
      <3>1. \A q \in Proc : pc'[q] \in Clean => pc[q] \in Clean
        BY <1>1, <1>5, CalmPlaces
      <3>2. \A q \in Proc : pc'[q] \in Pending => pc[q] = pc'[q]
        BY <1>2 DEF Calm, CalmProc
      <3> QED BY <3>1, <3>2 DEF Settled, Unsettled, Pending
    <2>3. name # NoSeg => ListOf(segs'[name]) = ListOf(segs[name])
      BY <1>1, <1>2, <1>5, SameContent DEF LinkedCalm
    <2> QED BY <1>2, <1>5, <2>1, <2>2, <2>3 DEF SavedList
  <1>6. CreateNew(p) \/ Unlink(p) \/ name' = name
    BY <1>1, CalmPlaces
  <1> QED BY <1>3, <1>4, <1>5, <1>6

\* Who dies before its list is in the file leaves it in the object.
LEMMA DeathTasks ==
  ASSUME Steady, Steady', NEW p \in Proc, Die(p),
         pc[p] \in {"st_open", "st_write"}
  PROVE  CurrentList' = CurrentList
  <1>1. /\ AttachInv /\ pc'[p] = "out" /\ name' = name
        /\ \A q \in Proc \ {p} : pc'[q] = pc[q]
    BY DEF Steady, AttachInv, TypeOK, Die
  <1>2. handle[p] = name /\ name \in Seg /\ name # NoSeg
    BY ConstantsOK DEF Steady, ViewInv, SharedView, Attached, AttachInv, TypeOK,
                       HandlePlaces, Detached, MayBeNull
  <1>3. \A q \in Proc \ {p} : pc[q] \notin Inside
    BY <1>1, OthersOutside DEF Inside, InCall
  <1>4. Settled' /\ \A q \in Proc : pc'[q] \notin Storing
    BY <1>1, <1>3
       DEF Settled, Unsettled, Clean, CopyPlaces, Storing, Inside, InCall,
           InAcquire
  <1>5. CurrentList = ListOf(segs[name])
    BY <1>2, ListNow DEF Storing, Steady, SavedInv, SavedOf, Shared
  <1>6. segs'[name] = segs[name]
    BY <1>2 DEF Die, Kept
  <1>7. CurrentList' = SavedList'
    BY <1>4, ListNext
  <1> QED BY <1>1, <1>2, <1>4, <1>5, <1>6, <1>7 DEF SavedList

LEMMA CalmTasks ==
  ASSUME ~IoFaults, Steady, Steady', NEW p \in Proc,
         CalmStep(p) \/ (Die(p) /\ pc[p] \notin Unsettled)
  PROVE  CurrentList' = CurrentList
  <1>1. AttachInv
    BY DEF Steady
  <1>2. Calm
    BY <1>1, CalmSteps DEF Unsettled
  <1>3. ASSUME NEW q \in Proc
        PROVE  /\ pc[q] \in Storing => pc'[q] = pc[q]
               /\ pc'[q] \in Storing => pc'[q] = pc[q] /\ pend'[q] = pend[q]
    <2>1. CASE pc'[q] \in Pending
      BY <1>2, <2>1 DEF Calm, CalmProc, Storing
    <2>2. CASE pc'[q] \notin Pending
      <3>1. ~(pc[q] \in Storing)
        <4> SUFFICES ASSUME pc[q] \in Storing PROVE FALSE
          OBVIOUS
        <4>1. pc'[q] \in Clean
          BY <1>1, <2>2, CalmPlaces DEF Storing, Unsettled
        <4>2. CreateNew(p)
          BY <1>1, <4>1, CalmPlaces DEF Storing, Clean
        <4>3. q # p => pc'[q] = pc[q]
          BY <1>1, <4>2 DEF CreateNew, Goto, AttachInv, TypeOK
        <4> QED BY <2>2, <4>2, <4>3 DEF CreateNew, Goto, Storing
      <3> QED BY <2>2, <3>1 DEF Storing
    <2> QED BY <2>1, <2>2
  <1>4. CASE \E q \in Proc : pc[q] \in Storing
    <2>1. PICK q \in Proc : pc[q] \in Storing
      BY <1>4
    <2>2. pc'[q] \in Storing /\ pend'[q] = pend[q]
      BY <1>3, <2>1
    <2> QED BY <2>1, <2>2, ListNow, ListNext
  <1>5. CASE \A q \in Proc : pc[q] \notin Storing
    <2>1. \A q \in Proc : pc'[q] \notin Storing
      BY <1>3, <1>5
    <2> QED BY <1>5, <2>1, ListNow, ListNext, CalmSavedList
  <1> QED BY <1>4, <1>5

\* A step of p inside the mutex: the list before it, and the one after it.
LEMMA InsideTasks ==
  ASSUME Steady, Steady', NEW p \in Proc, pc[p] \in Inside,
         \A q \in Proc \ {p} : pc'[q] = pc[q]
  PROVE  /\ CurrentList = IF pc[p] \in Storing THEN pend[p] ELSE SavedList
         /\ CurrentList' = IF pc'[p] \in Storing THEN pend'[p] ELSE SavedList'
  <1>1. \A q \in Proc \ {p} : pc[q] \notin Storing /\ pc'[q] \notin Storing
    BY OthersOutside DEF Steady, Storing
  <1>2. pc[p] \in Storing => CurrentList = pend[p]
    BY ListNow
  <1>3. pc[p] \notin Storing => CurrentList = SavedList
    BY <1>1, ListNow
  <1>4. pc'[p] \in Storing => CurrentList' = pend'[p]
    BY ListNext
  <1>5. pc'[p] \notin Storing => CurrentList' = SavedList'
    BY <1>1, ListNext
  <1> QED BY <1>2, <1>3, <1>4, <1>5

\* The list a process finds when it has the mutex is the schedule's.
LEMMA SharedIsSaved ==
  ASSUME Steady, NEW p \in Proc, handle[p] # NoSeg,
         pc[p] \in {"locked", "st_size"}
  PROVE  Shared(p) = SavedList
  <1>1. \A q \in Proc \ {p} : pc[q] \notin Unsettled
    BY OthersOutside
       DEF Steady, Inside, InCall, InAcquire, Unsettled, Clean
  <1>2. Settled
    BY <1>1 DEF Settled, Unsettled, Clean
  <1>3. handle[p] = name
    BY DEF Steady, ViewInv, SharedView, Attached
  <1> QED BY <1>2, <1>3 DEF SavedList, Shared

LEMMA WriteTasks ==
  ASSUME ~IoFaults, Steady, Steady', CopyInv, ChangeInv, NEW p \in Proc,
         InsideWrite(p)
  PROVE  \/ CurrentList' = CurrentList
         \/ OneChange(ToSet(CurrentList), ToSet(CurrentList'))
  <1>1. /\ pc \in [Proc -> Places \union {"out"}]
        /\ pend \in [Proc -> Lists] /\ AttachInv /\ WriteStep(p)
    BY InsideWriteStep DEF Steady, AttachInv, TypeOK
  <1>2. /\ CurrentList = IF pc[p] \in Storing THEN pend[p] ELSE SavedList
        /\ CurrentList' = IF pc'[p] \in Storing THEN pend'[p] ELSE file'
    <2>1. SavedList' = file'
      <3>1. NameSaved'
        BY WriteKeepsSaved DEF Steady
      <3> QED BY <3>1 DEF NameSaved, SavedList
    <2> QED BY <1>1, <2>1, InsideTasks DEF WriteStep
  <1> HIDE DEF CurrentList
  <1>3. pc[p] \in Clean \union {"load_copy"} => SavedList = file
    BY DEF SavedList, Settled, Unsettled, CopyPlaces
  <1>4. CASE ZeroHeader(p) \/ LoadFile(p) \/ CopyChunk(p)
    <2>1. \/ /\ pc[p] \notin Storing /\ pc'[p] \notin Storing /\ file' = file
             /\ pc[p] \in Clean \union {"load_copy"}
          \/ pc[p] \in Storing /\ pc'[p] \in Storing /\ pend' = pend
      BY <1>1, <1>4
         DEF ZeroHeader, LoadFile, CopyChunk, Goto, Storing, Clean
    <2> QED BY <1>2, <1>3, <2>1
  <1>5. CASE WriteSize(p)
    <2>1. /\ pc[p] = "st_size" /\ pc'[p] = "st_version" /\ pend' = pend
          /\ handle[p] # NoSeg
      BY <1>1, <1>5, ConstantsOK DEF WriteSize, Goto, WriteStep
    <2>2. OneChange(ToSet(Shared(p)), ToSet(pend[p]))
      BY <2>1 DEF ChangeInv
    <2>3. CurrentList = Shared(p) /\ CurrentList' = pend[p]
      BY <1>2, <2>1, SharedIsSaved DEF Storing
    <2> QED BY <2>2, <2>3
  <1>6. CASE BumpVersion(p) \/ OpenFile(p)
    <2>1. pc[p] \in Storing /\ pc'[p] \in Storing /\ pend' = pend
      BY <1>1, <1>6 DEF BumpVersion, OpenFile, Goto, Storing
    <2> QED BY <1>2, <2>1
  <1>7. CASE OpenFileFails(p) \/ WriteFile(p)
    <2>1. pc[p] \in Storing /\ pc'[p] \notin Storing /\ file' = pend[p]
      BY <1>1, <1>7 DEF OpenFileFails, WriteFile, Goto, Storing
    <2> QED BY <1>2, <2>1
  <1> QED BY <1>4, <1>5, <1>6, <1>7 DEF InsideWrite

\* What a caller may see of a step.
AtomicStep == [Atomic!Next]_(Atomic!aVars)

\* Whoever moves has returned, if it had an answer; the others keep theirs.
LEMMA OtherAnswers ==
  ASSUME NEW p \in Proc, pc'[p] # "got",
         \A q \in Proc \ {p} : pc'[q] = pc[q] /\ cache'[q] = cache[q]
  PROVE  \A q \in Proc : Answer(q)' = Answer(q) \/ (q = p /\ Answer(q)' = {})
  BY DEF Answer

LEMMA NoAnswers ==
  ASSUME NEW p \in Proc, pc[p] # "got", pc'[p] # "got", cache' = cache,
         \A q \in Proc \ {p} : pc'[q] = pc[q]
  PROVE  \A q \in Proc : Answer(q)' = Answer(q)
  BY DEF Answer

LEMMA SameTasks ==
  ASSUME CurrentList' = CurrentList, NEW p \in Proc,
         \A q \in Proc : Answer(q)' = Answer(q) \/ (q = p /\ Answer(q)' = {})
  PROVE  AtomicStep
  <1>1. CASE \A q \in Proc : Answer(q)' = Answer(q)
    BY <1>1 DEF AtomicStep, Atomic!aVars
  <1>2. CASE Answer(p) # {} /\ Answer(p)' = {}
    <2>1. Atomic!Return(p)
      BY <1>2 DEF Atomic!Return
    <2> QED BY <2>1 DEF AtomicStep, Atomic!Next
  <1> QED BY <1>1, <1>2

LEMMA ChangedTasks ==
  ASSUME OneChange(ToSet(CurrentList), ToSet(CurrentList')),
         \A q \in Proc : Answer(q)' = Answer(q)
  PROVE  AtomicStep
  <1>1. Atomic!Insert \/ Atomic!Erase \/ Atomic!Change
    BY DEF OneChange, Atomic!Insert, Atomic!Erase, Atomic!Change,
           Atomic!IdFree, Atomic!KeyFree
  <1> QED BY <1>1 DEF AtomicStep, Atomic!Next

LEMMA ReadTasks ==
  ASSUME Steady, CacheInv, NEW p \in Proc, GetTasks(p),
         CurrentList' = CurrentList
  PROVE  AtomicStep
  <1>1. /\ pc \in [Proc -> Places \union {"out"}]
        /\ cache \in [Proc -> [tasks : Lists, version : Nat]]
        /\ AttachInv
    BY DEF Steady, AttachInv, TypeOK
  <1>2. pc[p] = "locked" /\ handle[p] # NoSeg
    BY DEF GetTasks, Calling
  <1>3. CurrentList = Shared(p)
    <2>1. \A q \in Proc : pc[q] \notin Storing
      BY <1>1, <1>2, OthersOutside DEF Inside, InCall, Storing
    <2> QED BY <1>2, <2>1, ListNow, SharedIsSaved
  <1>4. \A q \in Proc \ {p} : cache'[q] = cache[q]
    BY <1>1 DEF GetTasks
  <1>5. cache'[p].tasks = Shared(p)
    <2> DEFINE v == segs[handle[p]].version
    <2>1. v \in Nat /\ cache[p].version \in Nat
      <3>1. segs[handle[p]] \in Segment
        BY <1>1, <1>2, SharedType DEF AttachInv
      <3> QED BY <1>1, <3>1 DEF Segment
    <2>2. CASE v > cache[p].version
      BY <1>1, <2>2 DEF GetTasks
    <2>3. CASE ~(v > cache[p].version)
      <3>1. cache'[p] = cache[p]
        BY <2>3 DEF GetTasks
      <3>2. cache[p].version = v
        BY <1>2, <2>1, <2>3 DEF CacheInv, CacheOf
      <3>3. Quiet(handle[p])
        BY <1>1, <1>2, OthersOutside DEF Quiet, Writing, Inside, InCall
      <3> QED BY <1>2, <3>1, <3>2, <3>3 DEF CacheInv, CacheOf
    <2> QED BY <2>2, <2>3
  <1>6. Answer(p) = {} /\ Answer(p)' = {ToSet(CurrentList)}
    <2>1. pc'[p] = "got"
      BY <1>1 DEF GetTasks, Goto
    <2> QED BY <1>2, <1>3, <1>5, <2>1 DEF Answer
  <1>7. \A q \in Proc \ {p} : Answer(q)' = Answer(q)
    <2>1. \A q \in Proc \ {p} : pc'[q] = pc[q]
      BY <1>1 DEF GetTasks, Goto
    <2> QED BY <1>4, <2>1 DEF Answer
  <1>8. Atomic!Read(p)
    <2> HIDE DEF Answer
    <2> QED BY <1>6, <1>7 DEF Atomic!Read
  <1> QED BY <1>8 DEF AtomicStep, Atomic!Next

AllInv ==
  /\ AttachInv /\ ViewInv /\ ListsInv /\ CacheInv /\ SavedInv /\ NameKept
  /\ ChangeInv

\* No release overlaps an attach, the file can be read and written, nobody
\* dies while the segment's list is incomplete, and ids and versions do not
\* wrap.
Undisturbed ==
  /\ ~Overlap /\ ~IoFaults /\ ListSafe
  /\ IdStop < IdMod /\ VersionStop < VersionMod

LEMMA NextAll ==
  ASSUME Undisturbed, AllInv, [Next]_vars
  PROVE  AllInv' /\ AtomicStep
  <1> USE DEF AllInv, Undisturbed
  <1>1. /\ AttachInv' /\ ViewInv' /\ ListsInv' /\ CacheInv' /\ SavedInv'
        /\ NameKept'
    <2>1. NoTear /\ "st_version" \notin CrashAt
      BY DEF ListSafe, CopyPlaces, InStore, NoTear
    <2> QED BY <2>1, NextAttachInv, NextViewInv, NextListsInv, NextCacheInv,
               NextSaved, NextNameKept DEF ListsInv
  <1>2. /\ Steady /\ Steady'
        /\ cache \in [Proc -> [tasks : Lists, version : Nat]]
        /\ pc \in [Proc -> Places \union {"out"}]
    BY <1>1 DEF Steady, AttachInv, TypeOK
  <1> SUFFICES ChangeInv' /\ AtomicStep
    BY <1>1
  <1>3. CASE UNCHANGED vars
    <2>1. ChangeInv'
      BY <1>3 DEF vars, ChangeInv, OneChange, Shared
    <2>2. UNCHANGED Atomic!aVars
      BY <1>3 DEF vars, Atomic!aVars, CurrentList, Writers, Writing, Creating,
                  Answer
    <2> QED BY <2>1, <2>2 DEF AtomicStep
  <1>4. ASSUME NEW p \in Proc,
               \/ CalmStep(p)
               \/ Die(p) /\ (pc[p] \in CrashAt \/ pc[p] \notin Unsettled)
        PROVE  ChangeInv' /\ AtomicStep
    <2>1. CalmStep(p) \/ (Die(p) /\ pc[p] \notin Clean \union CopyPlaces)
      BY <1>4, DeathsSaved
    <2>2. ChangeInv'
      BY <2>1, CalmSteps, CalmKeepsChange
    <2>3. CurrentList' = CurrentList
      BY <1>2, <2>1, CalmTasks, DeathTasks DEF Unsettled
    <2>4. CASE GetTasks(p)
      BY <1>2, <2>2, <2>3, <2>4, ReadTasks
    <2>5. CASE ~GetTasks(p)
      <3>1. /\ cache' = cache \/ cache' = [cache EXCEPT ![p] = NoCache]
            /\ \A q \in Proc \ {p} : pc'[q] = pc[q]
            /\ pc'[p] # "got"
        BY <1>2, <2>1, <2>5
           DEF CalmStep, Lock, Recover, Unlock, Acquire, Call, Release,
               Unlink, OpenExisting, CreateNew, CreateFails, Map, MapFails,
               SetSize, MapNew, NewFails, Return, Die, Goto, Waiting
      <3>2. \A q \in Proc \ {p} : cache'[q] = cache[q]
        BY <1>2, <3>1
      <3> QED BY <2>2, <2>3, <3>1, <3>2, OtherAnswers, SameTasks
    <2> QED BY <2>4, <2>5
  <1>5. ASSUME NEW p \in Proc,
               \/ TaskInsert(p) \/ TaskErase(p)
               \/ TaskToggleDone(p) \/ TaskEdit(p)
        PROVE  ChangeInv' /\ AtomicStep
    <2>1. CASE Return(p)
      BY <1>4, <2>1 DEF CalmStep
    <2>2. CASE ~Return(p)
      <3>1. PICK list \in Lists : /\ OneChange(ToSet(Shared(p)), ToSet(list))
                                  /\ Store(p, list)
        BY <1>5, <2>2, CallsGood
      <3>2. handle[p] # NoSeg
        BY <1>5, CallsStore
      <3>3. ChangeInv'
        BY <3>1, <3>2, StoreKeepsChange
      <3>4. /\ pc[p] = "locked" /\ pc'[p] = "st_size" /\ cache' = cache
            /\ \A q \in Proc \ {p} : pc'[q] = pc[q]
            /\ SavedList' = SavedList
        BY <2>2, <3>1, StoreFrame DEF SavedList
      <3>5. CurrentList' = CurrentList
        BY <1>2, <3>4, InsideTasks DEF Inside, InCall, Storing
      <3> QED BY <3>3, <3>4, <3>5, NoAnswers, SameTasks
    <2> QED BY <2>1, <2>2
  <1>6. ASSUME NEW p \in Proc, InsideWrite(p)
        PROVE  ChangeInv' /\ AtomicStep
    <2>1. ChangeInv'
      BY <1>6, WriteKeepsChange
    <2>2. cache' = cache
      BY <1>6 DEF InsideWrite, ZeroHeader, LoadFile, CopyChunk, WriteSize,
                  BumpVersion, OpenFile, OpenFileFails, WriteFile
    <2>3. \/ CurrentList' = CurrentList
          \/ OneChange(ToSet(CurrentList), ToSet(CurrentList'))
      BY <1>2, <1>6, WriteTasks DEF ListsInv
    <2>4. \A q \in Proc : Answer(q)' = Answer(q)
      <3>1. /\ pc[p] # "got" /\ pc'[p] # "got"
            /\ \A q \in Proc \ {p} : pc'[q] = pc[q]
        BY <1>2, <1>6
           DEF InsideWrite, ZeroHeader, LoadFile, CopyChunk, WriteSize,
               BumpVersion, OpenFile, OpenFileFails, WriteFile, Goto
      <3> QED BY <2>2, <3>1, NoAnswers
    <2> QED BY <2>1, <2>3, <2>4, SameTasks, ChangedTasks
  <1>7. ASSUME NEW p \in Proc,
               Lock(p) \/ Work(p) \/ Decision(p) \/ Crash(p)
        PROVE  ChangeInv' /\ AtomicStep
    BY <1>4, <1>5, <1>6, <1>7, SavingCases
  <1> QED BY <1>3, <1>7 DEF Next

LEMMA InitAll ==
  ASSUME Init
  PROVE  AllInv /\ Atomic!Init
  <1>1. AttachInv
    BY InitTypeOK, InitRefCovers, ConstantsOK
       DEF Init, AttachInv, LockHeld, Inside, InAcquire, InCall
  <1>2. ViewInv
    BY DEF Init, ViewInv, SharedView, Alone, Attached
  <1>3. SavedInv /\ NameKept
    BY DEF Init, SavedInv, FreedInv, SavedOf, ZeroSegment, Clean, NameKept
  <1>4. CacheInv
    BY InitCacheInv
  <1>5. ChangeInv
    BY DEF Init, ChangeInv
  <1>6. CurrentList = <<>>
    <2>1. \A p \in Proc : pc[p] \notin Storing
      BY DEF Init, Storing
    <2> QED BY <1>1, <1>2, <1>3, <2>1, ListNow DEF Steady, Init, SavedList
  <1>7. ToSet(<<>>) = {}
    BY DEF ToSet
  <1>8. Atomic!Init
    BY <1>6, <1>7 DEF Atomic!Init, Init, Answer
  <1> QED BY <1>1, <1>2, <1>3, <1>4, <1>5, <1>8, InitListsInv DEF AllInv

\* Schedule implements AtomicSchedule: every token reads and changes one set
\* of tasks, one task at a time, which outlives all the tokens.  It holds if
\* the file can be read and written, no release overlaps an attach, ids and
\* versions do not wrap, and nobody dies creating the segment or copying a
\* list into it.
\* A process may die while the file is written: the file lacks the change then,
\* but the dead process's reference keeps the object that has it.
THEOREM CallsAreAtomic == ASSUME Undisturbed PROVE Spec => ImplementsAtomic
  <1>1. Init => AllInv /\ Atomic!Init
    BY InitAll
  <1>2. AllInv /\ [Next]_vars => AllInv' /\ [Atomic!Next]_(Atomic!aVars)
    BY NextAll DEF AtomicStep
  <1> QED BY <1>1, <1>2, PTL DEF Spec, ImplementsAtomic, Atomic!Spec
===========================================================================
