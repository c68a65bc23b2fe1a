---------------------------- MODULE MutexProofs ----------------------------
(***************************************************************************)
(* That the robust mutex stays usable whatever dies and is a RobustLock,   *)
(* for any number of threads, processes, deaths and signals; and that all  *)
(* who name a mutex share one and exclude each other until an open has     *)
(* raced, for any number of processes and deaths: proofs about RobustMutex *)
(* and NamedMutex.                                                         *)
(***************************************************************************)
EXTENDS MCMutex, ListLemmas, FiniteSetTheorems

(***************************************************************************)
(* NamedMutex.                                                             *)
(***************************************************************************)
\* The processes that have counted their reference to a segment.
Openers(s) == {p \in Opener : at[p] = s /\ doing[p] # "map"}

\* What a process has open fits where it is.
PlaceInv ==
  \A p \in Opener :
    /\ handles[p] > 0 => at[p] # None /\ doing[p] \in {"idle", "inside"}
    /\ doing[p] = "inside" => handles[p] > 0
    /\ doing[p] \in Named!Opening => handles[p] = 0 /\ at[p] # None
    /\ doing[p] = "unlink" => handles[p] = 0
    /\ handles[p] = 0 /\ doing[p] \notin Named!Opening => at[p] = None

\* Whoever is inside owns the lock: nobody has cleared it meanwhile.
OwnInv ==
  ~raced => \A p \in Opener : doing[p] = "inside" => lock[at[p]] = p

\* What one clears or removes nobody else has, except to map it, which will
\* be a race.
AloneInv ==
  ~raced => \A p, q \in Opener : p # q =>
    /\ doing[p] = "zero" /\ at[q] # None => doing[q] = "map"
    /\ doing[p] = "unlink" => at[q] = None

\* A count is short of nobody, and only deaths make it too large.
CountInv ==
  \A s \in Segment :
    /\ Cardinality(Openers(s)) <= ref[s]
    /\ ref[s] <= Cardinality(Openers(s)) + crashes

SegmentInv ==
  /\ Named!TypeOK /\ PlaceInv /\ OwnInv /\ AloneInv /\ CountInv
  /\ Named!OneMutex /\ Named!HeldByInside

NamedHypotheses ==
  /\ Named!NamedMutexConstants
  /\ IsFiniteSet(Opener)

\* Cardinality as NamedMutex takes it from the library is the library's.
LEMMA SameCardinality == \A S : Named!Cardinality(S) = Cardinality(S)
  BY DEF Named!Cardinality, Cardinality

LEMMA UsersFinite ==
  ASSUME NamedHypotheses
  PROVE  \A s : /\ IsFiniteSet(Openers(s)) /\ Cardinality(Openers(s)) \in Nat
                /\ Cardinality(Openers(s)) <= Cardinality(Opener)
  BY FS_Subset, FS_CardinalityType DEF NamedHypotheses, Openers

\* Two users are counted.
LEMMA TwoUsers ==
  ASSUME NamedHypotheses, NEW s, NEW p \in Openers(s), NEW q \in Openers(s), p # q
  PROVE  Cardinality(Openers(s)) >= 2
  <1>1. {p, q} \subseteq Openers(s) /\ IsFiniteSet(Openers(s))
    BY UsersFinite
  <1>2. Cardinality({p, q}) = 2
    <2>1. IsFiniteSet({p}) /\ Cardinality({p}) = 1
      BY FS_Singleton
    <2>2. {p, q} = {p} \union {q} /\ q \notin {p}
      OBVIOUS
    <2> QED BY <2>1, <2>2, FS_AddElement
  <1> QED BY <1>1, <1>2, FS_Subset, UsersFinite

LEMMA SegmentInitInv ==
  ASSUME NamedHypotheses, Named!Init
  PROVE  SegmentInv
  <1>1. \A s \in Segment : Openers(s) = {}
    BY DEF Named!Init, Openers, NamedHypotheses, Named!NamedMutexConstants
  <1>2. CountInv
    BY <1>1, FS_EmptySet DEF Named!Init, CountInv
  <1>3. Cardinality(Opener) \in Nat
    BY FS_CardinalityType DEF NamedHypotheses
  <1>4. Named!TypeOK
    <2>1. raced \in BOOLEAN
      BY DEF Named!Init
    <2> QED BY <1>3, <2>1, SameCardinality
            DEF Named!Init, Named!TypeOK, NamedHypotheses,
                Named!NamedMutexConstants
  <1>5. PlaceInv /\ OwnInv /\ AloneInv /\ Named!OneMutex /\ Named!HeldByInside
    BY DEF Named!Init, PlaceInv, OwnInv, AloneInv, Named!OneMutex, Named!HeldByInside,
           Named!Opening, NamedHypotheses, Named!NamedMutexConstants
  <1> QED BY <1>2, <1>4, <1>5 DEF SegmentInv

(***************************************************************************)
(* The counts.                                                             *)
(***************************************************************************)
LEMMA StepCount ==
  ASSUME NamedHypotheses, SegmentInv, NEW p \in Opener,
         \/ Named!OpenAgain(p) \/ Named!OpenFirst(p)
         \/ Named!Map(p) \/ Named!Test(p) \/ Named!Zero(p)
         \/ Named!Lock(p) \/ Named!Recover(p) \/ Named!Unlock(p)
         \/ Named!Close(p) \/ Named!CloseLast(p) \/ Named!Unlink(p) \/ Named!Crash(p)
  PROVE  CountInv'
  <1> SUFFICES ASSUME NEW s \in Segment
               PROVE  /\ Cardinality(Openers(s)') <= ref'[s]
                      /\ ref'[s] <= Cardinality(Openers(s)') + crashes'
    BY DEF CountInv
  <1>a. /\ Cardinality(Openers(s)) \in Nat /\ IsFiniteSet(Openers(s))
        /\ ref[s] \in Nat /\ crashes \in Nat
        /\ Cardinality(Openers(s)) <= ref[s]
        /\ ref[s] <= Cardinality(Openers(s)) + crashes
    BY UsersFinite, FS_CardinalityType
       DEF SegmentInv, Named!TypeOK, CountInv, NamedHypotheses,
           Named!NamedMutexConstants
  <1>1. CASE \/ Named!OpenAgain(p) \/ Named!Test(p)
             \/ Named!Zero(p) \/ Named!Lock(p) \/ Named!Recover(p)
             \/ Named!Unlock(p) \/ Named!Close(p) \/ Named!Unlink(p)
    <2>1. Openers(s)' = Openers(s)
      BY <1>1 DEF Openers, Named!OpenAgain, Named!Test, Named!Zero, Named!Lock,
                  Named!Recover, Named!Unlock, Named!Close, Named!Unlink,
                  Named!Move, SegmentInv, Named!TypeOK
    <2>2. ref' = ref /\ crashes' = crashes
      BY <1>1 DEF Named!OpenAgain, Named!Test, Named!Zero, Named!Lock,
                  Named!Recover, Named!Unlock, Named!Close, Named!Unlink
    <2> QED BY <1>a, <2>1, <2>2
  <1>2. CASE Named!OpenFirst(p)
    <2>1. Openers(s)' = Openers(s)
      BY <1>2 DEF Openers, Named!OpenFirst, Named!Move, SegmentInv, Named!TypeOK,
                  PlaceInv, NamedHypotheses, Named!NamedMutexConstants,
                  Named!Opening
    <2>2. ref'[s] = ref[s] \/ (ref'[s] = 0 /\ Openers(s) = {})
      BY <1>2 DEF Named!OpenFirst, Named!Fresh, Openers, SegmentInv, Named!TypeOK
    <2> QED BY <1>a, <1>2, <2>1, <2>2, FS_EmptySet DEF Named!OpenFirst
  <1>3. CASE Named!Map(p)
    <2>1. CASE at[p] = s
      <3>1. Openers(s)' = Openers(s) \union {p} /\ p \notin Openers(s)
        BY <1>3, <2>1 DEF Openers, Named!Map, Named!Move, SegmentInv, Named!TypeOK
      <3>2. ref'[s] = ref[s] + 1 /\ crashes' = crashes
        BY <1>3, <2>1 DEF Named!Map, SegmentInv, Named!TypeOK
      <3>3. Cardinality(Openers(s) \union {p}) = Cardinality(Openers(s)) + 1
        BY <1>a, <3>1, FS_AddElement
      <3>4. Cardinality(Openers(s)') = Cardinality(Openers(s)) + 1
        BY <3>1, <3>3
      <3> QED BY <1>a, <3>2, <3>4
    <2>2. CASE at[p] # s
      <3>1. Openers(s)' = Openers(s) /\ ref'[s] = ref[s] /\ crashes' = crashes
        BY <1>3, <2>2 DEF Openers, Named!Map, Named!Move, SegmentInv, Named!TypeOK
      <3> QED BY <1>a, <3>1
    <2> QED BY <2>1, <2>2
  <1>4. CASE Named!CloseLast(p)
    <2>1. CASE at[p] = s
      <3>1. Openers(s)' = Openers(s) \ {p} /\ p \in Openers(s)
        BY <1>4, <2>1 DEF Openers, Named!CloseLast, Named!Move, SegmentInv,
                          Named!TypeOK, NamedHypotheses,
                          Named!NamedMutexConstants
      <3>2. ref'[s] = ref[s] - 1 /\ crashes' = crashes
        BY <1>4, <2>1 DEF Named!CloseLast, SegmentInv, Named!TypeOK
      <3>3. Cardinality(Openers(s) \ {p}) = Cardinality(Openers(s)) - 1
        BY <1>a, <3>1, FS_RemoveElement
      <3>4. Cardinality(Openers(s)') = Cardinality(Openers(s)) - 1
        BY <3>1, <3>3
      <3> QED BY <1>a, <3>2, <3>4
    <2>2. CASE at[p] # s
      <3>1. Openers(s)' = Openers(s) /\ ref'[s] = ref[s] /\ crashes' = crashes
        BY <1>4, <2>2 DEF Openers, Named!CloseLast, Named!Move, SegmentInv,
                          Named!TypeOK, NamedHypotheses,
                          Named!NamedMutexConstants
      <3> QED BY <1>a, <3>1
    <2> QED BY <2>1, <2>2
  <1>5. CASE Named!Crash(p)
    <2>1. Openers(s)' = Openers(s) \ {p}
      BY <1>5 DEF Openers, Named!Crash, SegmentInv, Named!TypeOK, NamedHypotheses,
                  Named!NamedMutexConstants
    <2>2. ref' = ref /\ crashes' = crashes + 1
      BY <1>5 DEF Named!Crash
    <2>3. CASE p \in Openers(s)
      <3>1. Cardinality(Openers(s) \ {p}) = Cardinality(Openers(s)) - 1
        BY <1>a, <2>3, FS_RemoveElement
      <3>2. Cardinality(Openers(s)') = Cardinality(Openers(s)) - 1
        BY <2>1, <3>1
      <3> QED BY <1>a, <2>2, <3>2
    <2>4. CASE p \notin Openers(s)
      <3>1. Openers(s)' = Openers(s)
        BY <2>1, <2>4
      <3> QED BY <1>a, <2>2, <3>1
    <2> QED BY <2>3, <2>4
  <1> QED BY <1>1, <1>2, <1>3, <1>4, <1>5

(***************************************************************************)
(* The places and the locks.                                               *)
(***************************************************************************)
\* Until a race, who has counted the last reference that is left is alone
\* with it, but for those who have not mapped it yet.
LEMMA LastAlone ==
  ASSUME NamedHypotheses, SegmentInv, ~raced, NEW p \in Opener,
         doing[p] # "map", at[p] # None, ref[at[p]] <= 1
  PROVE  \A q \in Opener \ {p} : at[q] # None => doing[q] = "map"
  <1> SUFFICES ASSUME NEW q \in Opener \ {p}, at[q] # None, doing[q] # "map"
               PROVE  FALSE
    OBVIOUS
  <1>1. at[p] \in Segment /\ at[q] = at[p]
    BY DEF SegmentInv, Named!TypeOK, Named!OneMutex
  <1>2. p \in Openers(at[p]) /\ q \in Openers(at[p]) /\ p # q
    BY <1>1 DEF Openers
  <1>3. Cardinality(Openers(at[p])) >= 2
    BY <1>2, TwoUsers
  <1>4. ref[at[p]] \in Nat /\ Cardinality(Openers(at[p])) \in Nat
    BY <1>1, UsersFinite, FS_CardinalityType
       DEF SegmentInv, Named!TypeOK, NamedHypotheses, Named!NamedMutexConstants
  <1>5. Cardinality(Openers(at[p])) <= ref[at[p]]
    BY <1>1 DEF SegmentInv, CountInv
  <1> QED BY <1>3, <1>4, <1>5

\* What OpenFirst, Test and Zero leave.
LEMMA StepOpen ==
  ASSUME NamedHypotheses, SegmentInv, NEW p \in Opener,
         Named!OpenAgain(p) \/ Named!OpenFirst(p)
                            \/ Named!Map(p) \/ Named!Test(p) \/ Named!Zero(p)
  PROVE  (PlaceInv /\ OwnInv /\ AloneInv /\ Named!OneMutex /\ Named!HeldByInside)'
  <1> USE DEF SegmentInv, Named!TypeOK, PlaceInv, OwnInv, AloneInv, Named!OneMutex,
              Named!HeldByInside, Named!Move, Named!Opening, NamedHypotheses,
              Named!NamedMutexConstants
  <1>1. CASE Named!OpenAgain(p)
    BY <1>1 DEF Named!OpenAgain
  <1>2. CASE Named!OpenFirst(p)
    <2>1. /\ doing[p] = "idle" /\ at[p] = None
          /\ ~raced' => ~raced /\ \A q \in Opener \ {p} : doing[q] # "unlink"
      BY <1>2 DEF Named!OpenFirst, Named!Race
    <2>2. /\ name' \in Segment /\ at' = [at EXCEPT ![p] = name']
          /\ name' = name \/ name = None
          /\ doing' = [doing EXCEPT ![p] = "map"] /\ handles' = handles
          /\ handles[p] = 0
          /\ \/ lock' = lock
             \/ name = None /\ lock' = [lock EXCEPT ![name'] = Nobody]
      <3>1. PICK s \in Segment :
              /\ \/ s = name /\ lock' = lock
                 \/ name = None /\ lock' = [lock EXCEPT ![s] = Nobody]
              /\ name' = s /\ at' = [at EXCEPT ![p] = s]
        BY <1>2 DEF Named!OpenFirst
      <3>2. /\ doing' = [doing EXCEPT ![p] = "map"] /\ handles' = handles
            /\ handles[p] = 0
        BY <1>2 DEF Named!OpenFirst
      <3>3. /\ name' \in Segment /\ at' = [at EXCEPT ![p] = name']
            /\ name' = name \/ name = None
        BY <3>1
      <3>4. \/ lock' = lock
            \/ name = None /\ lock' = [lock EXCEPT ![name'] = Nobody]
        BY <3>1
      <3> HIDE DEF SegmentInv, Named!TypeOK, PlaceInv, OwnInv, AloneInv, Named!OneMutex,
                   Named!HeldByInside
      <3> QED BY <3>2, <3>3, <3>4
    <2>3. (PlaceInv /\ OwnInv /\ AloneInv /\ Named!OneMutex)'
      BY <2>1, <2>2
    <2>4. Named!HeldByInside'
      BY <2>1, <2>2
    <2> QED BY <2>3, <2>4
  <1>3. CASE Named!Map(p)
    <2>1. ~raced' => ~raced /\ \A q \in Opener \ {p} : doing[q] # "zero"
      BY <1>3 DEF Named!Map, Named!Race
    <2> QED BY <1>3, <2>1 DEF Named!Map
  <1>4. CASE Named!Test(p)
    <2>1. doing[p] = "test" /\ at[p] # None /\ handles[p] = 0
      BY <1>4 DEF Named!Test
    <2>2. ~raced /\ ref[at[p]] <= 1 =>
            \A q \in Opener \ {p} : at[q] # None => doing[q] = "map"
      BY <2>1, LastAlone
    <2>3. ref[at[p]] \in Nat
      BY <2>1, FS_CardinalityType
    <2> QED BY <1>4, <2>1, <2>2, <2>3 DEF Named!Test
  <1>5. CASE Named!Zero(p)
    <2>1. doing[p] = "zero" /\ at[p] \in Segment
      BY <1>5 DEF Named!Zero
    <2>2. ~raced => \A q \in Opener \ {p} : at[q] # None => doing[q] = "map"
      BY <2>1
    <2> QED BY <1>5, <2>1, <2>2 DEF Named!Zero
  <1> QED BY <1>1, <1>2, <1>3, <1>4, <1>5

LEMMA StepUse ==
  ASSUME NamedHypotheses, SegmentInv, NEW p \in Opener,
         \/ Named!Lock(p) \/ Named!Recover(p) \/ Named!Unlock(p)
         \/ Named!Close(p) \/ Named!CloseLast(p) \/ Named!Unlink(p) \/ Named!Crash(p)
  PROVE  (PlaceInv /\ OwnInv /\ AloneInv /\ Named!OneMutex /\ Named!HeldByInside)'
  <1> USE DEF SegmentInv, Named!TypeOK, PlaceInv, OwnInv, AloneInv, Named!OneMutex,
              Named!HeldByInside, Named!Move, Named!Opening, NamedHypotheses,
              Named!NamedMutexConstants
  <1>1. CASE Named!Lock(p)
    <2>1. at[p] \in Segment /\ (~raced => at[p] = name)
      BY <1>1 DEF Named!Lock
    <2>2. ~raced => \A q \in Opener : doing[q] # "inside"
      BY <1>1, <2>1 DEF Named!Lock
    <2> QED BY <1>1, <2>1, <2>2 DEF Named!Lock
  <1>2. CASE Named!Recover(p)
    <2>1. at[p] \in Segment /\ (~raced => at[p] = name)
      BY <1>2 DEF Named!Recover
    <2>2. ~raced => \A q \in Opener : doing[q] # "inside"
      BY <1>2, <2>1 DEF Named!Recover
    <2> QED BY <1>2, <2>1, <2>2 DEF Named!Recover
  <1>3. CASE Named!Unlock(p)
    <2>1. /\ doing[p] = "inside" /\ at[p] \in Segment
          /\ ~raced => at[p] = name /\ lock[at[p]] = p
      BY <1>3 DEF Named!Unlock
    <2>2. ~raced => \A q \in Opener \ {p} : doing[q] # "inside"
      BY <2>1
    <2> QED BY <1>3, <2>1, <2>2 DEF Named!Unlock
  <1>4. CASE Named!Close(p)
    BY <1>4 DEF Named!Close
  <1>5. CASE Named!CloseLast(p)
    <2>1. doing[p] = "idle" /\ at[p] # None /\ at[p] \in Segment
      BY <1>5 DEF Named!CloseLast
    <2>2. ~raced /\ ref[at[p]] <= 1 =>
            \A q \in Opener \ {p} : at[q] # None => doing[q] = "map"
      BY <2>1, LastAlone
    <2>3. ~raced' => ~raced
      BY <1>5 DEF Named!CloseLast, Named!Race
    <2>4. ASSUME ~raced', ref[at[p]] <= 1
          PROVE  \A q \in Opener \ {p} : at[q] = None
      <3>1. ref[at[p]] \in Nat
        BY <2>1, FS_CardinalityType
      <3>2. Named!Race(p, {"map"})
        BY <1>5, <2>4, <3>1 DEF Named!CloseLast
      <3>3. \A q \in Opener \ {p} : doing[q] # "map"
        <4> HIDE DEF SegmentInv, NamedHypotheses
        <4> QED BY <2>4, <3>2, Zenon DEF Named!Race
      <3> QED BY <2>2, <2>3, <2>4, <3>3
    <2> QED BY <1>5, <2>1, <2>3, <2>4 DEF Named!CloseLast
  <1>6. CASE Named!Unlink(p)
    <2>1. ~raced => \A q \in Opener : at[q] = None
      BY <1>6 DEF Named!Unlink
    <2> QED BY <1>6, <2>1 DEF Named!Unlink
  <1>7. CASE Named!Crash(p)
    BY <1>7 DEF Named!Crash
  <1> QED BY <1>1, <1>2, <1>3, <1>4, <1>5, <1>6, <1>7

(***************************************************************************)
(* The types.  The counts stay in their range because of CountInv.         *)
(***************************************************************************)
LEMMA StepType ==
  ASSUME NamedHypotheses, SegmentInv, CountInv', NEW p \in Opener,
         \/ Named!OpenAgain(p) \/ Named!OpenFirst(p)
         \/ Named!Map(p) \/ Named!Test(p) \/ Named!Zero(p)
         \/ Named!Lock(p) \/ Named!Recover(p) \/ Named!Unlock(p)
         \/ Named!Close(p) \/ Named!CloseLast(p) \/ Named!Unlink(p) \/ Named!Crash(p)
  PROVE  Named!TypeOK'
  <1> USE DEF NamedHypotheses, Named!NamedMutexConstants
  <1>a. Cardinality(Opener) \in Nat
    BY FS_CardinalityType
  <1>1. /\ name' \in Segment \union {None}
        /\ lock' \in [Segment -> Opener \union {Nobody, OwnerDied}]
    BY DEF SegmentInv, Named!TypeOK, Named!OpenAgain, Named!OpenFirst,
           Named!Map, Named!Test, Named!Zero, Named!Lock, Named!Recover,
           Named!Unlock, Named!Close, Named!CloseLast, Named!Unlink, Named!Crash
  <1>2. /\ at' \in [Opener -> Segment \union {None}]
        /\ doing' \in [Opener -> Named!Opening \union {"idle", "inside", "unlink"}]
    BY DEF SegmentInv, Named!TypeOK, Named!OpenAgain, Named!OpenFirst,
           Named!Map, Named!Test, Named!Zero, Named!Lock, Named!Recover,
           Named!Unlock, Named!Close, Named!CloseLast, Named!Unlink,
           Named!Crash, Named!Move, Named!Opening
  <1>3. handles' \in [Opener -> 0..HandleStop] /\ crashes' \in 0..OpenerStop
    BY DEF SegmentInv, Named!TypeOK, Named!OpenAgain, Named!OpenFirst,
           Named!Map, Named!Test, Named!Zero, Named!Lock, Named!Recover,
           Named!Unlock, Named!Close, Named!CloseLast, Named!Unlink, Named!Crash
  <1>b. raced' \in BOOLEAN
    BY DEF SegmentInv, Named!TypeOK, Named!OpenAgain, Named!OpenFirst,
           Named!Map, Named!Test, Named!Zero, Named!Lock, Named!Recover,
           Named!Unlock, Named!Close, Named!CloseLast, Named!Unlink,
           Named!Crash, Named!Race
  <1>4. ref' \in [Segment -> Int]
    BY <1>a DEF SegmentInv, Named!TypeOK, Named!OpenAgain, Named!OpenFirst,
                Named!Map, Named!Test, Named!Zero, Named!Lock, Named!Recover,
                Named!Unlock, Named!Close, Named!CloseLast, Named!Unlink,
                Named!Crash
  <1>5. ASSUME NEW s \in Segment
        PROVE  ref'[s] \in 0..(Cardinality(Opener) + OpenerStop)
    <2>1. /\ Cardinality(Openers(s)') \in Nat
          /\ Cardinality(Openers(s)') <= Cardinality(Opener)
      BY FS_Subset, FS_CardinalityType DEF Openers
    <2>2. /\ Cardinality(Openers(s)') <= ref'[s]
          /\ ref'[s] <= Cardinality(Openers(s)') + crashes'
      BY <1>5 DEF CountInv
    <2> QED BY <1>a, <1>3, <1>4, <1>5, <2>1, <2>2
  <1>6. ref' \in [Segment -> 0..(Cardinality(Opener) + OpenerStop)]
    BY <1>4, <1>5
  <1> QED BY <1>b, <1>1, <1>2, <1>3, <1>6, SameCardinality DEF Named!TypeOK

LEMMA SegmentStepInv ==
  ASSUME NamedHypotheses, SegmentInv, [Named!Next]_(Named!vars)
  PROVE  SegmentInv'
  <1>1. CASE Named!Next
    <2> PICK p \in Opener :
          \/ Named!OpenAgain(p) \/ Named!OpenFirst(p)
          \/ Named!Map(p) \/ Named!Test(p) \/ Named!Zero(p)
          \/ Named!Lock(p) \/ Named!Recover(p) \/ Named!Unlock(p)
          \/ Named!Close(p) \/ Named!CloseLast(p) \/ Named!Unlink(p) \/ Named!Crash(p)
      BY <1>1 DEF Named!Next
    <2>1. CountInv'
      BY StepCount
    <2>2. Named!TypeOK'
      BY <2>1, StepType
    <2>3. (PlaceInv /\ OwnInv /\ AloneInv /\ Named!OneMutex /\ Named!HeldByInside)'
      BY StepOpen, StepUse
    <2> QED BY <2>1, <2>2, <2>3 DEF SegmentInv
  <1>2. CASE UNCHANGED Named!vars
    BY <1>2 DEF Named!vars, SegmentInv, Named!TypeOK, PlaceInv, OwnInv, AloneInv,
                CountInv, Openers, Named!OneMutex, Named!HeldByInside
  <1> QED BY <1>1, <1>2

(***************************************************************************)
(* Theorems.                                                               *)
(***************************************************************************)
LEMMA SegmentInvariant ==
  ASSUME NamedHypotheses
  PROVE  Named!Spec => []SegmentInv
  BY SegmentInitInv, SegmentStepInv, PTL DEF Named!Spec

\* Until an open has raced, all who have the name open have the one segment;
\* and no lock is ever left by a process that has gone, whatever races.
THEOREM OneSegmentForAll ==
  ASSUME NamedHypotheses
  PROVE  Named!Spec => []NamedInv
  <1>1. SegmentInv => NamedInv
    BY DEF SegmentInv, NamedInv, Named!NamedInv
  <1> QED BY <1>1, SegmentInvariant, PTL

\* Until then they also exclude each other, whoever opens, closes or dies.
THEOREM NameExcludes ==
  ASSUME NamedHypotheses
  PROVE  Named!Spec => []MutualExclusion
  <1>1. ASSUME SegmentInv, ~raced PROVE Named!Exclusive
    <2> DEFINE S == {p \in Opener : doing[p] = "inside"}
    <2>1. \A p, q \in S : p = q
      BY <1>1 DEF SegmentInv, Named!TypeOK, PlaceInv, OwnInv, Named!OneMutex
    <2>2. CASE S = {}
      BY <2>2, FS_EmptySet, SameCardinality DEF Named!Exclusive
    <2>3. CASE S # {}
      <3>1. PICK p \in S : TRUE
        BY <2>3
      <3>2. S = {p}
        BY <2>1, <3>1
      <3>3. Cardinality(S) = 1
        BY <3>2, FS_Singleton
      <3> QED BY <3>3, SameCardinality DEF Named!Exclusive
    <2> QED BY <2>2, <2>3
  <1>2. SegmentInv => MutualExclusion
    BY <1>1 DEF MutualExclusion, Named!MutualExclusion
  <1> QED BY <1>2, SegmentInvariant, PTL

-----------------------------------------------------------------------------
(***************************************************************************)
(* RobustMutex.                                                            *)
(***************************************************************************)
\* Where a thread is the mutex's owner.
Holding == {"check", "add", "end", "repair", "critical", "unlock", "del",
            "release", "handover"}

\* Who holds it is who the word names; whom the word names holds it, or is
\* about to wake up with it.
OwnerInv ==
  \A t \in Thread :
    /\ pc[t] \in Holding => word.tid = t
    /\ word.tid = t => pc[t] \in Holding \union {"blocked"}

\* Between the beginning and the end of an operation it is announced, and
\* from there to the next the mutex is on the list.
ListInv ==
  \A t \in Thread :
    /\ pc[t] \in {"try", "kernel", "blocked", "check", "add", "end", "del",
                  "release", "handover"} => pending[t]
    /\ pc[t] \in {"end", "repair", "critical", "unlock", "del"} => listed[t]

\* The owner knows of the mark before it unlocks, and has removed it then;
\* who does not have the mutex knows of none.
MarkInv ==
  \A t \in Thread :
    /\ pc[t] \in {"idle", "start", "try", "kernel", "blocked", "check",
                   "critical"} => ~repairs[t]
    /\ pc[t] \in {"add", "end"} => repairs[t] = word.died
    /\ pc[t] = "repair" => repairs[t]
    /\ pc[t] \in {"critical", "unlock", "del", "release", "handover"} =>
         ~word.died

\* The kernel's queue: who waits is asleep, once in it, and not the owner;
\* and there is somebody who will hand the mutex over.
QueueInv ==
  /\ \A i \in 1..Len(queue) :
       pc[queue[i]] = "blocked" /\ queue[i] # word.tid
  /\ \A i, j \in 1..Len(queue) : queue[i] = queue[j] => i = j
  /\ queue = <<>> => piOwner = Nobody
  /\ queue # <<>> =>
       /\ word.waiters /\ piOwner \in Thread
       /\ \/ piOwner = word.tid
          \/ pc[piOwner] = "exiting" /\ word.died /\ word.tid = Nobody

\* Only who was alive is killed.
KilledInv == \A t \in killed : pc[t] \in Alive

Inv ==
  /\ TypeOK /\ StaysRecoverable
  /\ OwnerInv /\ ListInv /\ MarkInv /\ QueueInv /\ KilledInv

USE RobustMutexConstants DEF RobustMutexConstants

(***************************************************************************)
(* What the queue is after it changed.                                     *)
(***************************************************************************)
\* A thread leaves it: those who stay are as they were, each once.
LEMMA WithoutProps ==
  ASSUME NEW q \in Seq(Thread), NEW t \in Thread,
         \A i, j \in 1..Len(q) : q[i] = q[j] => i = j
  PROVE  /\ Without(q, t) \in Seq(Thread)
         /\ \A i \in 1..Len(Without(q, t)) :
              /\ Without(q, t)[i] # t
              /\ \E j \in 1..Len(q) : Without(q, t)[i] = q[j]
         /\ \A i, j \in 1..Len(Without(q, t)) :
              Without(q, t)[i] = Without(q, t)[j] => i = j
         /\ (\A i \in 1..Len(q) : q[i] # t) => Without(q, t) = q
         /\ q = <<>> => Without(q, t) = <<>>
  <1>1. CASE \A i \in 1..Len(q) : q[i] # t
    BY <1>1 DEF Without
  <1>2. CASE \E i \in 1..Len(q) : q[i] = t
    <2> DEFINE k == CHOOSE i \in 1..Len(q) : q[i] = t
               w == RemoveAt(q, k)
    <2>1. k \in 1..Len(q) /\ q[k] = t /\ Len(q) \in Nat
      BY <1>2, LenProperties
    <2>2. Without(q, t) = w
      BY <1>2 DEF Without
    <2> HIDE DEF k
    <2>3. /\ w \in Seq(Thread) /\ Len(w) = Len(q) - 1
          /\ \A i \in 1..(Len(q) - 1) :
               w[i] = IF i < k THEN q[i] ELSE q[i + 1]
      BY <2>1, RemoveAtProps
    <2> HIDE DEF w
    <2>4. ASSUME NEW i \in 1..(Len(q) - 1)
          PROVE  w[i] # t /\ \E j \in 1..Len(q) : w[i] = q[j]
      BY <2>1, <2>3
    <2>5. ASSUME NEW i \in 1..(Len(q) - 1), NEW j \in 1..(Len(q) - 1),
                 w[i] = w[j]
          PROVE  i = j
      BY <2>1, <2>3, <2>5
    <2>6. q # <<>>
      BY <2>1
    <2> QED BY <1>2, <2>2, <2>3, <2>4, <2>5, <2>6
  <1> QED BY <1>1, <1>2

(***************************************************************************)
(* The steps of a thread by itself.                                        *)
(***************************************************************************)
LEMMA InitInv ==
  ASSUME Init
  PROVE  Inv
  BY DEF Init, Inv, TypeOK, WordType, StaysRecoverable, OwnerInv,
         ListInv, MarkInv, QueueInv, KilledInv, Holding, Places,
         Alive, InLock, InUnlock, Move, Word, Free

LEMMA QueueOfThreads ==
  ASSUME Inv
  PROVE  Len(queue) \in Nat /\ \A i \in 1..Len(queue) : queue[i] \in Thread
  BY ElementOfSeq, LenProperties DEF Inv, TypeOK

LEMMA LocalInv ==
  ASSUME Inv, NEW t \in Thread,
         \/ Call(t) \/ Start(t) \/ Wake(t) \/ Check(t) \/ Add(t) \/ End(t)
         \/ Leave(t) \/ Unlock(t) \/ Del(t) \/ Done(t)
  PROVE  Inv'
  <1> USE QueueOfThreads DEF Inv, TypeOK, WordType, StaysRecoverable, OwnerInv,
              ListInv, MarkInv, QueueInv, KilledInv, Holding, Places,
              Alive, InLock, InUnlock, Move, Word, Free
  <1>1. CASE Call(t)
    BY <1>1 DEF Call
  <1>2. CASE Start(t)
    BY <1>2 DEF Start
  <1>3. CASE Wake(t)
    BY <1>3 DEF Wake
  <1>4. CASE Check(t)
    BY <1>4 DEF Check
  <1>5. CASE Add(t)
    BY <1>5 DEF Add
  <1>6. CASE End(t)
    BY <1>6 DEF End
  <1>7. CASE Leave(t)
    BY <1>7 DEF Leave
  <1>8. CASE Unlock(t)
    BY <1>8 DEF Unlock
  <1>9. CASE Del(t)
    BY <1>9 DEF Del
  <1>10. CASE Done(t)
    BY <1>10 DEF Done
  <1> QED BY <1>1, <1>2, <1>3, <1>4, <1>5, <1>6, <1>7, <1>8, <1>9, <1>10

(***************************************************************************)
(* The steps of a thread on the word.                                      *)
(***************************************************************************)
LEMMA TryInv ==
  ASSUME Inv, NEW t \in Thread, Try(t)
  PROVE  Inv'
  <1>1. /\ pc[t] = "try" /\ t \notin killed
        /\ word.tid # NotRecoverable /\ word.tid # t
        /\ UNCHANGED <<killed, queue, piOwner, listed, pending, repairs,
                       deaths, signals>>
    BY DEF Try, Inv, StaysRecoverable, OwnerInv, Holding
  <1>2. CASE word = Free
    <2>1. /\ word' = [tid |-> t, waiters |-> FALSE, died |-> FALSE]
          /\ pc' = [pc EXCEPT ![t] = "add"]
      BY <1>1, <1>2 DEF Try, Word
    <2>2. /\ word.tid = Nobody /\ ~word.waiters /\ ~word.died
          /\ queue = <<>>
      BY <1>2, QueueOfThreads DEF Free, Word, Inv, QueueInv
    <2>3. TypeOK'
      BY <1>1, <2>1, <2>2
         DEF Inv, TypeOK, WordType, Places, Alive, InLock, InUnlock
    <2>4. (StaysRecoverable /\ KilledInv)'
      BY <1>1, <2>1, <2>2
         DEF Inv, TypeOK, StaysRecoverable, KilledInv, Alive, InLock, InUnlock
    <2>5. OwnerInv'
      BY <1>1, <2>1, <2>2 DEF Inv, TypeOK, WordType, OwnerInv, Holding
    <2>6. ListInv'
      BY <1>1, <2>1, <2>2 DEF Inv, TypeOK, ListInv
    <2>7. MarkInv'
      BY <1>1, <2>1, <2>2 DEF Inv, TypeOK, WordType, OwnerInv, MarkInv, Holding
    <2>8. QueueInv'
      BY <1>1, <2>1, <2>2
         DEF Inv, TypeOK, WordType, OwnerInv, QueueInv, Holding
    <2> QED BY <2>3, <2>4, <2>5, <2>6, <2>7, <2>8 DEF Inv
  <1>3. CASE word # Free
    <2>1. /\ word' = word
          /\ pc' = [pc EXCEPT ![t] = "kernel"]
      BY <1>1, <1>3 DEF Try
    <2>2. TypeOK'
      BY <1>1, <2>1 DEF Inv, TypeOK, WordType, Places, Alive, InLock, InUnlock
    <2>3. (StaysRecoverable /\ KilledInv)'
      BY <1>1, <2>1
         DEF Inv, TypeOK, StaysRecoverable, KilledInv, Alive, InLock, InUnlock
    <2>4. OwnerInv'
      BY <1>1, <2>1 DEF Inv, TypeOK, WordType, OwnerInv, Holding
    <2>5. ListInv'
      BY <1>1, <2>1 DEF Inv, TypeOK, ListInv
    <2>6. MarkInv'
      BY <1>1, <2>1 DEF Inv, TypeOK, WordType, OwnerInv, MarkInv, Holding
    <2>7. QueueInv'
      BY <1>1, <2>1 DEF Inv, TypeOK, WordType, OwnerInv, QueueInv, Holding
    <2> QED BY <2>2, <2>3, <2>4, <2>5, <2>6, <2>7 DEF Inv
  <1> QED BY <1>2, <1>3

LEMMA LockFreeInv ==
  ASSUME Inv, NEW t \in Thread, LockFree(t)
  PROVE  Inv'
  BY QueueOfThreads
     DEF LockFree, Inv, TypeOK, WordType, StaysRecoverable, OwnerInv,
         ListInv, MarkInv, QueueInv, KilledInv, Holding, Places,
         Alive, InLock, InUnlock, Move, Word, Free

LEMMA RepairInv ==
  ASSUME Inv, NEW t \in Thread, Repair(t)
  PROVE  Inv'
  <1>1. /\ pc[t] = "repair" /\ t \notin killed /\ word.tid = t
        /\ pc' = [pc EXCEPT ![t] = "unlock"]
        /\ word' = [tid |-> t, waiters |-> word.waiters, died |-> FALSE]
        /\ UNCHANGED <<killed, queue, piOwner, listed, pending, repairs,
                       deaths, signals>>
    BY DEF Repair, Move, Inv, TypeOK, WordType, OwnerInv, Holding
  <1>2. TypeOK'
    BY <1>1 DEF Inv, TypeOK, WordType, Places, Alive, InLock, InUnlock
  <1>3. (StaysRecoverable /\ KilledInv)'
    BY <1>1
       DEF Inv, TypeOK, StaysRecoverable, KilledInv, Alive, InLock, InUnlock
  <1>4. OwnerInv'
    BY <1>1 DEF Inv, TypeOK, WordType, OwnerInv, Holding
  <1>5. ListInv'
    BY <1>1 DEF Inv, TypeOK, ListInv
  <1>6. MarkInv'
    BY <1>1 DEF Inv, TypeOK, WordType, OwnerInv, MarkInv, Holding
  <1>7. QueueInv'
    BY <1>1 DEF Inv, TypeOK, WordType, OwnerInv, QueueInv, Holding
  <1> QED BY <1>2, <1>3, <1>4, <1>5, <1>6, <1>7 DEF Inv

LEMMA ReleaseInv ==
  ASSUME Inv, NEW t \in Thread, Release(t)
  PROVE  Inv'
  <1>1. /\ pc[t] = "release" /\ t \notin killed /\ word.tid = t /\ ~word.died
        /\ UNCHANGED <<killed, queue, piOwner, listed, pending, repairs,
                       deaths, signals>>
    BY DEF Release, Inv, OwnerInv, MarkInv, Holding
  <1>2. CASE word = Word(t, FALSE, FALSE)
    <2>1. /\ word' = [tid |-> Nobody, waiters |-> FALSE, died |-> FALSE]
          /\ pc' = [pc EXCEPT ![t] = "done"]
          /\ queue = <<>>
      BY <1>1, <1>2, QueueOfThreads
         DEF Release, NewValue, Free, Word, Inv, QueueInv
    <2>2. TypeOK'
      BY <1>1, <2>1 DEF Inv, TypeOK, WordType, Places, Alive, InLock, InUnlock
    <2>3. (StaysRecoverable /\ KilledInv)'
      BY <1>1, <2>1
         DEF Inv, TypeOK, StaysRecoverable, KilledInv, Alive, InLock, InUnlock
    <2>4. OwnerInv'
      BY <1>1, <2>1 DEF Inv, TypeOK, WordType, OwnerInv, Holding
    <2>5. ListInv'
      BY <1>1, <2>1 DEF Inv, TypeOK, ListInv
    <2>6. MarkInv'
      BY <1>1, <2>1 DEF Inv, TypeOK, WordType, OwnerInv, MarkInv, Holding
    <2>7. QueueInv'
      BY <1>1, <2>1 DEF Inv, TypeOK, WordType, OwnerInv, QueueInv, Holding
    <2> QED BY <2>2, <2>3, <2>4, <2>5, <2>6, <2>7 DEF Inv
  <1>3. CASE word # Word(t, FALSE, FALSE)
    <2>1. word' = word /\ pc' = [pc EXCEPT ![t] = "handover"]
      BY <1>1, <1>3 DEF Release
    <2>2. TypeOK'
      BY <1>1, <2>1 DEF Inv, TypeOK, WordType, Places, Alive, InLock, InUnlock
    <2>3. (StaysRecoverable /\ KilledInv)'
      BY <1>1, <2>1
         DEF Inv, TypeOK, StaysRecoverable, KilledInv, Alive, InLock, InUnlock
    <2>4. OwnerInv'
      BY <1>1, <2>1 DEF Inv, TypeOK, WordType, OwnerInv, Holding
    <2>5. ListInv'
      BY <1>1, <2>1 DEF Inv, TypeOK, ListInv
    <2>6. MarkInv'
      BY <1>1, <2>1 DEF Inv, TypeOK, WordType, OwnerInv, MarkInv, Holding
    <2>7. QueueInv'
      BY <1>1, <2>1 DEF Inv, TypeOK, WordType, OwnerInv, QueueInv, Holding
    <2> QED BY <2>2, <2>3, <2>4, <2>5, <2>6, <2>7 DEF Inv
  <1> QED BY <1>2, <1>3

(***************************************************************************)
(* The steps that change the kernel's queue.                               *)
(***************************************************************************)
\* A waiter leaves the queue for the mutex.
LEMMA FirstWaiter ==
  ASSUME Inv, queue # <<>>
  PROVE  /\ Head(queue) \in Thread /\ pc[Head(queue)] = "blocked"
         /\ Head(queue) # word.tid
         /\ Tail(queue) \in Seq(Thread)
         /\ \A i \in 1..Len(Tail(queue)) :
              /\ pc[Tail(queue)[i]] = "blocked"
              /\ Tail(queue)[i] # Head(queue)
              /\ Tail(queue)[i] # word.tid
              /\ Tail(queue)[i] \in Thread
         /\ \A i, j \in 1..Len(Tail(queue)) :
              Tail(queue)[i] = Tail(queue)[j] => i = j
  <1>1. /\ queue \in Seq(Thread) /\ Len(queue) \in Nat
        /\ \A i \in 1..Len(queue) :
             queue[i] \in Thread /\ pc[queue[i]] = "blocked"
               /\ queue[i] # word.tid
        /\ \A i, j \in 1..Len(queue) : queue[i] = queue[j] => i = j
    BY QueueOfThreads DEF Inv, TypeOK, QueueInv
  <1>2. /\ Tail(queue) \in Seq(Thread) /\ Len(Tail(queue)) = Len(queue) - 1
        /\ \A i \in 1..Len(Tail(queue)) : Tail(queue)[i] = queue[i + 1]
    BY <1>1, HeadTailProperties
  <1>3. Head(queue) = queue[1] /\ Len(queue) >= 1
    BY <1>1 DEF Inv, QueueInv
  <1> QED BY <1>1, <1>2, <1>3

LEMMA LockOwnedInv ==
  ASSUME Inv, NEW t \in Thread, LockOwned(t)
  PROVE  Inv'
  <1>1. /\ pc[t] = "kernel" /\ t \notin killed /\ word.tid # t
        /\ queue # <<>> \/ word.tid # Nobody
        /\ UNCHANGED <<killed, listed, pending, repairs, deaths, signals>>
    BY DEF LockOwned, Move, Inv, OwnerInv, Holding
  <1>2. queue # <<>> \/ (word.tid \in Thread \ {t} /\ pc[word.tid] # "dead")
    BY <1>1 DEF Inv, TypeOK, WordType, StaysRecoverable, OwnerInv, Holding
  <1>3. /\ pc' = [pc EXCEPT ![t] = "blocked"]
        /\ queue' = Append(queue, t)
        /\ piOwner' = IF queue = <<>> THEN word.tid ELSE piOwner
        /\ word' = [word EXCEPT !.waiters = TRUE]
    BY <1>2 DEF LockOwned, Move, Inv, TypeOK, WordType
  <1>4. /\ queue' \in Seq(Thread) /\ queue' # <<>>
        /\ Len(queue') = Len(queue) + 1
        /\ \A i \in 1..Len(queue) : queue'[i] = queue[i]
        /\ queue'[Len(queue) + 1] = t
    BY <1>3, AppendProperties DEF Inv, TypeOK
  <1>5. \A i \in 1..Len(queue) : queue[i] # t
    BY <1>1 DEF Inv, QueueInv
  <1>a. Len(queue) \in Nat /\ \A i \in 1..Len(queue) : queue[i] \in Thread
    BY QueueOfThreads
  <1>6. TypeOK'
    BY <1>1, <1>2, <1>3, <1>4, <1>5, <1>a
       DEF Inv, TypeOK, WordType, QueueInv, Places, Alive, InLock, InUnlock
  <1>7. (StaysRecoverable /\ KilledInv)'
    BY <1>1, <1>2, <1>3, <1>4, <1>5, <1>a
       DEF Inv, TypeOK, StaysRecoverable, KilledInv, Alive, InLock, InUnlock
  <1>8. OwnerInv'
    BY <1>1, <1>2, <1>3, <1>4, <1>5, <1>a
       DEF Inv, TypeOK, WordType, OwnerInv, Holding
  <1>9. ListInv'
    BY <1>1, <1>2, <1>3, <1>4, <1>5, <1>a DEF Inv, TypeOK, ListInv
  <1>10. MarkInv'
    BY <1>1, <1>2, <1>3, <1>4, <1>5, <1>a
       DEF Inv, TypeOK, WordType, OwnerInv, MarkInv, Holding
  <1>11. QueueInv'
    BY <1>1, <1>2, <1>3, <1>4, <1>5, <1>a
       DEF Inv, TypeOK, WordType, OwnerInv, QueueInv, Holding
  <1> QED BY <1>6, <1>7, <1>8, <1>9, <1>10, <1>11 DEF Inv

LEMMA InterruptInv ==
  ASSUME Inv, NEW t \in Thread, Interrupt(t)
  PROVE  Inv'
  <1>1. /\ pc[t] = "blocked" /\ t \notin killed /\ word.tid # t
        /\ pc' = [pc EXCEPT ![t] = "try"]
        /\ queue' = Without(queue, t)
        /\ piOwner' = IF queue' = <<>> THEN Nobody ELSE piOwner
        /\ UNCHANGED <<killed, word, listed, pending, repairs, deaths>>
        /\ signals < SignalStop /\ signals' = signals + 1
    BY DEF Interrupt, Dequeue, Move
  <1>2. /\ queue' \in Seq(Thread)
        /\ \A i \in 1..Len(queue') :
             queue'[i] # t /\ \E j \in 1..Len(queue) : queue'[i] = queue[j]
        /\ \A i, j \in 1..Len(queue') : queue'[i] = queue'[j] => i = j
        /\ queue = <<>> => queue' = <<>>
    <2>1. /\ queue \in Seq(Thread)
          /\ \A i, j \in 1..Len(queue) : queue[i] = queue[j] => i = j
      BY DEF Inv, TypeOK, QueueInv
    <2> QED BY <1>1, <2>1, WithoutProps
  <1>3. TypeOK'
    BY <1>1, <1>2 DEF Inv, TypeOK, WordType, Places, Alive, InLock, InUnlock
  <1>4. (StaysRecoverable /\ KilledInv)'
    BY <1>1, <1>2
       DEF Inv, TypeOK, StaysRecoverable, KilledInv, Alive, InLock, InUnlock
  <1>5. OwnerInv'
    BY <1>1, <1>2 DEF Inv, TypeOK, WordType, OwnerInv, Holding
  <1>6. ListInv'
    BY <1>1, <1>2 DEF Inv, TypeOK, ListInv
  <1>7. MarkInv'
    BY <1>1, <1>2 DEF Inv, TypeOK, WordType, OwnerInv, MarkInv, Holding
  <1>8. QueueInv'
    BY <1>1, <1>2 DEF Inv, TypeOK, WordType, OwnerInv, QueueInv, Holding
  <1> QED BY <1>3, <1>4, <1>5, <1>6, <1>7, <1>8 DEF Inv

LEMMA UnlockPiInv ==
  ASSUME Inv, NEW t \in Thread, UnlockPi(t)
  PROVE  Inv'
  <1>1. /\ pc[t] = "handover" /\ t \notin killed
        /\ word.tid = t /\ ~word.died
        /\ pc' = [pc EXCEPT ![t] = "done"]
        /\ UNCHANGED <<killed, listed, pending, repairs, deaths, signals>>
        /\ \A u \in Thread \ {t} : pc[u] \notin Holding
    BY DEF UnlockPi, Move, Inv, OwnerInv, MarkInv, Holding
  <1>2. CASE queue # <<>>
    <2>1. /\ word' = [tid |-> Head(queue), waiters |-> TRUE, died |-> FALSE]
          /\ queue' = Tail(queue)
          /\ piOwner' = IF Tail(queue) = <<>> THEN Nobody ELSE Head(queue)
      BY <1>1, <1>2 DEF UnlockPi, HandOver, Word
    <2>2. TypeOK'
      BY <1>1, <1>2, <2>1, FirstWaiter
         DEF Inv, TypeOK, WordType, Places, Alive, InLock, InUnlock
    <2>3. (StaysRecoverable /\ KilledInv)'
      BY <1>1, <1>2, <2>1, FirstWaiter
         DEF Inv, TypeOK, StaysRecoverable, KilledInv, Alive, InLock, InUnlock
    <2>4. OwnerInv'
      BY <1>1, <1>2, <2>1, FirstWaiter
         DEF Inv, TypeOK, WordType, OwnerInv, Holding
    <2>5. ListInv'
      BY <1>1, <1>2, <2>1, FirstWaiter DEF Inv, TypeOK, ListInv
    <2>6. MarkInv'
      <3>1. /\ pc'[t] \notin Holding \union
                          {"idle", "start", "try", "kernel", "blocked"}
            /\ \A u \in Thread \ {t} : pc'[u] = pc[u] /\ pc[u] \notin Holding
        BY <1>1, <1>2, <2>1, FirstWaiter DEF Inv, TypeOK, Holding
      <3>2. repairs' = repairs
        BY <1>1
      <3> QED BY <3>1, <3>2 DEF Inv, MarkInv, Holding
    <2>7. QueueInv'
      BY <1>1, <1>2, <2>1, FirstWaiter
         DEF Inv, TypeOK, WordType, OwnerInv, QueueInv, Holding
    <2> QED BY <2>2, <2>3, <2>4, <2>5, <2>6, <2>7 DEF Inv
  <1>3. CASE queue = <<>>
    <2>1. /\ word' = [tid |-> Nobody, waiters |-> FALSE, died |-> FALSE]
          /\ UNCHANGED <<queue, piOwner>>
      BY <1>1, <1>3 DEF UnlockPi, NewValue, Free, Word
    <2>2. TypeOK'
      BY <1>1, <1>3, <2>1
         DEF Inv, TypeOK, WordType, Places, Alive, InLock, InUnlock
    <2>3. (StaysRecoverable /\ KilledInv)'
      BY <1>1, <1>3, <2>1
         DEF Inv, TypeOK, StaysRecoverable, KilledInv, Alive, InLock, InUnlock
    <2>4. OwnerInv'
      BY <1>1, <1>3, <2>1 DEF Inv, TypeOK, WordType, OwnerInv, Holding
    <2>5. ListInv'
      BY <1>1, <1>3, <2>1 DEF Inv, TypeOK, ListInv
    <2>6. MarkInv'
      BY <1>1, <1>3, <2>1 DEF Inv, TypeOK, WordType, OwnerInv, MarkInv, Holding
    <2>7. QueueInv'
      BY <1>1, <1>3, <2>1
         DEF Inv, TypeOK, WordType, OwnerInv, QueueInv, Holding
    <2> QED BY <2>2, <2>3, <2>4, <2>5, <2>6, <2>7 DEF Inv
  <1> QED BY <1>2, <1>3

(***************************************************************************)
(* Deaths.                                                                 *)
(***************************************************************************)
LEMMA ExitRobustInv ==
  ASSUME Inv, NEW t \in Thread, ExitRobust(t)
  PROVE  Inv'
  <1>1. /\ t \in killed /\ killed' = killed \ {t} /\ pc[t] \in Alive
        /\ pc' = [pc EXCEPT ![t] = "exiting"]
        /\ queue' = Without(queue, t)
        /\ piOwner' = IF queue' = <<>> THEN Nobody ELSE piOwner
        /\ UNCHANGED <<listed, pending, repairs, deaths, signals>>
        /\ word.tid = t => \A u \in Thread \ {t} : pc[u] \notin Holding
    BY DEF ExitRobust, Dequeue, Inv, OwnerInv, KilledInv, Holding
  <1>2. /\ queue' \in Seq(Thread)
        /\ \A i \in 1..Len(queue') :
             queue'[i] # t /\ \E j \in 1..Len(queue) : queue'[i] = queue[j]
        /\ \A i, j \in 1..Len(queue') : queue'[i] = queue'[j] => i = j
        /\ queue = <<>> => queue' = <<>>
    <2>1. /\ queue \in Seq(Thread)
          /\ \A i, j \in 1..Len(queue) : queue[i] = queue[j] => i = j
      BY DEF Inv, TypeOK, QueueInv
    <2> QED BY <1>1, <2>1, WithoutProps
  <1>3. CASE word.tid = t
    <2>1. word' = [tid |-> Nobody, waiters |-> word.waiters, died |-> TRUE]
      BY <1>1, <1>3 DEF ExitRobust, Word, Inv, OwnerInv, ListInv, Holding
    <2>2. TypeOK'
      BY <1>1, <1>2, <1>3, <2>1
         DEF Inv, TypeOK, WordType, Places, Alive, InLock, InUnlock
    <2>3. (StaysRecoverable /\ KilledInv)'
      BY <1>1, <1>2, <1>3, <2>1
         DEF Inv, TypeOK, StaysRecoverable, KilledInv, Alive, InLock, InUnlock
    <2>4. OwnerInv'
      BY <1>1, <1>2, <1>3, <2>1 DEF Inv, TypeOK, WordType, OwnerInv, Holding
    <2>5. ListInv'
      BY <1>1, <1>2, <1>3, <2>1 DEF Inv, TypeOK, ListInv
    <2>6. MarkInv'
      <3>1. /\ pc'[t] \notin Holding \union
                          {"idle", "start", "try", "kernel", "blocked"}
            /\ \A u \in Thread \ {t} : pc'[u] = pc[u] /\ pc[u] \notin Holding
        BY <1>1, <1>2, <1>3, <2>1 DEF Inv, TypeOK, Holding
      <3>2. repairs' = repairs
        BY <1>1
      <3> QED BY <3>1, <3>2 DEF Inv, MarkInv, Holding
    <2>7. QueueInv'
      BY <1>1, <1>2, <1>3, <2>1
         DEF Inv, TypeOK, WordType, OwnerInv, QueueInv, Holding
    <2> QED BY <2>2, <2>3, <2>4, <2>5, <2>6, <2>7 DEF Inv
  <1>4. CASE word.tid # t
    <2>1. word' = word
      BY <1>4 DEF ExitRobust
    <2>2. TypeOK'
      BY <1>1, <1>2, <1>4, <2>1
         DEF Inv, TypeOK, WordType, Places, Alive, InLock, InUnlock
    <2>3. (StaysRecoverable /\ KilledInv)'
      BY <1>1, <1>2, <1>4, <2>1
         DEF Inv, TypeOK, StaysRecoverable, KilledInv, Alive, InLock, InUnlock
    <2>4. OwnerInv'
      BY <1>1, <1>2, <1>4, <2>1 DEF Inv, TypeOK, WordType, OwnerInv, Holding
    <2>5. ListInv'
      BY <1>1, <1>2, <1>4, <2>1 DEF Inv, TypeOK, ListInv
    <2>6. MarkInv'
      BY <1>1, <1>2, <1>4, <2>1
         DEF Inv, TypeOK, WordType, OwnerInv, MarkInv, Holding
    <2>7. QueueInv'
      BY <1>1, <1>2, <1>4, <2>1
         DEF Inv, TypeOK, WordType, OwnerInv, QueueInv, Holding
    <2> QED BY <2>2, <2>3, <2>4, <2>5, <2>6, <2>7 DEF Inv
  <1> QED BY <1>3, <1>4

LEMMA ExitPiInv ==
  ASSUME Inv, NEW t \in Thread, ExitPi(t)
  PROVE  Inv'
  <1>1. /\ pc[t] = "exiting" /\ t \notin killed /\ word.tid # t
        /\ pc' = [pc EXCEPT ![t] = "dead"]
        /\ UNCHANGED <<killed, listed, pending, repairs, deaths, signals>>
    BY DEF ExitPi, Move, Inv, OwnerInv, Holding
  <1>2. CASE piOwner = t
    <2>1. queue # <<>> /\ word.tid = Nobody
      BY <1>1, <1>2 DEF Inv, QueueInv
    <2>2. /\ word' = [tid |-> Head(queue), waiters |-> TRUE, died |-> TRUE]
          /\ queue' = Tail(queue)
          /\ piOwner' = IF Tail(queue) = <<>> THEN Nobody ELSE Head(queue)
      BY <1>2 DEF ExitPi, HandOver, Word
    <2>3. TypeOK'
      BY <1>1, <1>2, <2>1, <2>2, FirstWaiter
         DEF Inv, TypeOK, WordType, Places, Alive, InLock, InUnlock
    <2>4. (StaysRecoverable /\ KilledInv)'
      BY <1>1, <1>2, <2>1, <2>2, FirstWaiter
         DEF Inv, TypeOK, StaysRecoverable, KilledInv, Alive, InLock, InUnlock
    <2>5. OwnerInv'
      BY <1>1, <1>2, <2>1, <2>2, FirstWaiter
         DEF Inv, TypeOK, WordType, OwnerInv, Holding
    <2>6. ListInv'
      BY <1>1, <1>2, <2>1, <2>2, FirstWaiter DEF Inv, TypeOK, ListInv
    <2>7. MarkInv'
      BY <1>1, <1>2, <2>1, <2>2, FirstWaiter
         DEF Inv, TypeOK, WordType, OwnerInv, MarkInv, Holding
    <2>8. QueueInv'
      BY <1>1, <1>2, <2>1, <2>2, FirstWaiter
         DEF Inv, TypeOK, WordType, OwnerInv, QueueInv, Holding
    <2> QED BY <2>3, <2>4, <2>5, <2>6, <2>7, <2>8 DEF Inv
  <1>3. CASE piOwner # t
    <2>1. UNCHANGED <<word, queue, piOwner>>
      BY <1>3 DEF ExitPi
    <2>2. TypeOK'
      BY <1>1, <1>3, <2>1
         DEF Inv, TypeOK, WordType, Places, Alive, InLock, InUnlock
    <2>3. (StaysRecoverable /\ KilledInv)'
      BY <1>1, <1>3, <2>1
         DEF Inv, TypeOK, StaysRecoverable, KilledInv, Alive, InLock, InUnlock
    <2>4. OwnerInv'
      BY <1>1, <1>3, <2>1 DEF Inv, TypeOK, WordType, OwnerInv, Holding
    <2>5. ListInv'
      BY <1>1, <1>3, <2>1 DEF Inv, TypeOK, ListInv
    <2>6. MarkInv'
      BY <1>1, <1>3, <2>1 DEF Inv, TypeOK, WordType, OwnerInv, MarkInv, Holding
    <2>7. QueueInv'
      BY <1>1, <1>3, <2>1
         DEF Inv, TypeOK, WordType, OwnerInv, QueueInv, Holding
    <2> QED BY <2>2, <2>3, <2>4, <2>5, <2>6, <2>7 DEF Inv
  <1> QED BY <1>2, <1>3

LEMMA ProcessInv ==
  ASSUME Inv, NEW p \in Process, Kill(p) \/ Restart(p)
  PROVE  Inv'
  <1>1. CASE Kill(p)
    <2>1. /\ p \subseteq Thread /\ \A t \in p : pc[t] \in Alive
          /\ killed' = killed \union p
          /\ deaths < DeathStop /\ deaths' = deaths + 1
          /\ UNCHANGED <<word, queue, piOwner, listed, pending, pc, repairs,
                         signals>>
      BY <1>1 DEF Kill
    <2>2. TypeOK'
      BY <2>1 DEF Inv, TypeOK, WordType, Places, Alive, InLock, InUnlock
    <2>3. (StaysRecoverable /\ KilledInv)'
      BY <2>1
         DEF Inv, TypeOK, StaysRecoverable, KilledInv, Alive, InLock, InUnlock
    <2>4. OwnerInv'
      BY <2>1 DEF Inv, TypeOK, WordType, OwnerInv, Holding
    <2>5. ListInv'
      BY <2>1 DEF Inv, TypeOK, ListInv
    <2>6. MarkInv'
      BY <2>1 DEF Inv, TypeOK, WordType, OwnerInv, MarkInv, Holding
    <2>7. QueueInv'
      BY <2>1 DEF Inv, TypeOK, WordType, OwnerInv, QueueInv, Holding
    <2> QED BY <2>2, <2>3, <2>4, <2>5, <2>6, <2>7 DEF Inv
  <1>2. CASE Restart(p)
    <2>1. /\ p \subseteq Thread /\ \A t \in p : pc[t] = "dead"
          /\ pc' = [t \in Thread |-> IF t \in p THEN "idle" ELSE pc[t]]
          /\ listed' = [t \in Thread |-> t \notin p /\ listed[t]]
          /\ pending' = [t \in Thread |-> t \notin p /\ pending[t]]
          /\ repairs' = [t \in Thread |-> t \notin p /\ repairs[t]]
          /\ UNCHANGED <<word, queue, piOwner, killed, deaths, signals>>
      BY <1>2 DEF Restart
    <2>a. /\ word.tid \notin p /\ piOwner \notin p /\ killed \intersect p = {}
          /\ \A i \in 1..Len(queue) : queue[i] \notin p
      BY <2>1
         DEF Inv, TypeOK, WordType, OwnerInv, QueueInv, KilledInv, Holding,
             Alive, InLock, InUnlock
    <2>2. TypeOK'
      BY <2>1, <2>a DEF Inv, TypeOK, WordType, Places, Alive, InLock, InUnlock
    <2>3. (StaysRecoverable /\ KilledInv)'
      BY <2>1, <2>a
         DEF Inv, TypeOK, StaysRecoverable, KilledInv, Alive, InLock, InUnlock
    <2>4. OwnerInv'
      BY <2>1, <2>a DEF Inv, TypeOK, WordType, OwnerInv, Holding
    <2>5. ListInv'
      BY <2>1, <2>a DEF Inv, TypeOK, ListInv
    <2>6. MarkInv'
      BY <2>1, <2>a DEF Inv, TypeOK, WordType, OwnerInv, MarkInv, Holding
    <2>7. QueueInv'
      BY <2>1, <2>a DEF Inv, TypeOK, WordType, OwnerInv, QueueInv, Holding
    <2> QED BY <2>2, <2>3, <2>4, <2>5, <2>6, <2>7 DEF Inv
  <1> QED BY <1>1, <1>2

LEMMA StepInv ==
  ASSUME Inv, [Next]_vars
  PROVE  Inv'
  <1>1. ASSUME NEW t \in Thread, Call(t) \/ Work(t) \/ Interrupt(t)
        PROVE  Inv'
    BY <1>1, LocalInv, TryInv, LockFreeInv, LockOwnedInv, RepairInv,
       ReleaseInv, UnlockPiInv, ExitRobustInv, ExitPiInv, InterruptInv
       DEF Work, Locking, Unlocking
  <1>2. ASSUME NEW p \in Process, Kill(p) \/ Restart(p)
        PROVE  Inv'
    BY <1>2, ProcessInv
  <1>3. CASE UNCHANGED vars
    BY <1>3 DEF vars, Inv, TypeOK, WordType, StaysRecoverable, OwnerInv,
         ListInv, MarkInv, QueueInv, KilledInv, Holding, Places,
         Alive, InLock, InUnlock, Move, Word, Free
  <1> QED BY <1>1, <1>2, <1>3 DEF Next

(***************************************************************************)
(* Theorems.                                                               *)
(***************************************************************************)
LEMMA Invariant == Spec => []Inv
  BY InitInv, StepInv, PTL DEF Spec

\* Whoever dies wherever, the word, the kernel's queue and the robust lists
\* agree: the death is seen, the mutex stays usable, and no waiter is left.
THEOREM StaysUsable == Spec => []MutexInv
  <1>1. ASSUME Inv PROVE MutexInv
    <2>1. DeathsAreSeen
      BY <1>1 DEF Inv, TypeOK, OwnerInv, ListInv, Holding, DeathsAreSeen
    <2>2. WaitersHaveOwner
      BY <1>1 DEF Inv, QueueInv, WaitersHaveOwner
    <2> QED BY <1>1, <2>1, <2>2 DEF Inv, MutexInv
  <1> QED BY <1>1, Invariant, PTL

\* One thread at a time is between lock() and unlock().
THEOREM OneInside ==
  Spec => [](\A t, u \in Thread :
               pc[t] = "critical" /\ pc[u] = "critical" => t = u)
  <1>1. Inv => \A t, u \in Thread :
                 pc[t] = "critical" /\ pc[u] = "critical" => t = u
    BY DEF Inv, OwnerInv, Holding
  <1> QED BY <1>1, Invariant, PTL

-----------------------------------------------------------------------------
(***************************************************************************)
(* RobustMutex implements RobustLock.                                      *)
(***************************************************************************)
Inside == {t \in Thread : pc[t] = "critical"}

\* A step that RobustLock does not see.
Stutter == UNCHANGED <<Owner, Wanting, Inside>>

\* What a thread's move is to RobustLock: who is where, and the lock.
Wants(t) == pc[t] \in InLock \/ (repairs[t] /\ pc[t] \in InUnlock)

LEMMA MoveOf ==
  ASSUME Inv, NEW t \in Thread, pc' = [pc EXCEPT ![t] = pc'[t]],
         \A u \in Thread \ {t} : repairs'[u] = repairs[u]
  PROVE  /\ t \in Inside <=> pc[t] = "critical"
         /\ t \in Wanting <=> Wants(t)
         /\ pc'[t] = "critical" => Inside' = Inside \union {t}
         /\ pc'[t] # "critical" => Inside' = Inside \ {t}
         /\ Wants(t)' => Wanting' = Wanting \union {t}
         /\ ~Wants(t)' => Wanting' = Wanting \ {t}
         /\ (pc'[t] = "critical" <=> pc[t] = "critical") => Inside' = Inside
         /\ (Wants(t)' <=> Wants(t)) => Wanting' = Wanting
  <1>1. \A u \in Thread \ {t} : pc'[u] = pc[u]
    BY DEF Inv, TypeOK
  <1> QED BY <1>1 DEF Inside, Wanting, Wants

LEMMA LockOf ==
  ASSUME Inv, NEW t \in Thread, pc[t] \in Holding
  PROVE  Owner = IF word.died \/ repairs[t] THEN OwnerDied ELSE t
  BY DEF Inv, OwnerInv, Owner

\* Where the mover is after its move.
LEMMA Moved ==
  ASSUME Inv, NEW t \in Thread, NEW to, pc' = [pc EXCEPT ![t] = to]
  PROVE  pc'[t] = to /\ pc' = [pc EXCEPT ![t] = pc'[t]]
  <1>1. pc'[t] = to
    BY DEF Inv, TypeOK
  <1> QED BY <1>1

\* A move that changes neither who is inside nor who wants to be.
LEMMA MoveStutters ==
  ASSUME Inv, NEW t \in Thread, NEW to, pc' = [pc EXCEPT ![t] = to],
         pc[t] # "critical", to # "critical",
         \A u \in Thread \ {t} : repairs'[u] = repairs[u],
         Wants(t)' <=> Wants(t), Owner' = Owner
  PROVE  Stutter
  <1>1. pc'[t] = to /\ pc' = [pc EXCEPT ![t] = pc'[t]]
    BY Moved
  <1>2. Wanting' = Wanting /\ Inside' = Inside
    BY <1>1, MoveOf
  <1> QED BY <1>2 DEF Stutter

\* The moves that change nothing but the mover's place.
LEMMA QuietImplements ==
  ASSUME Inv, NEW t \in Thread,
         \/ Start(t) \/ LockOwned(t) \/ Wake(t) \/ Interrupt(t) \/ Check(t)
         \/ Add(t) \/ Repair(t) \/ Unlock(t) \/ Del(t) \/ Done(t)
  PROVE  Stutter
  <1>1. CASE Start(t) \/ Wake(t) \/ Interrupt(t) \/ Add(t)
    <2>1. /\ pc[t] \in InLock /\ repairs' = repairs /\ word' = word
          /\ \E to \in InLock : pc' = [pc EXCEPT ![t] = to]
      BY <1>1 DEF Start, Wake, Interrupt, Add, Move, InLock
    <2>2. PICK to \in InLock : pc' = [pc EXCEPT ![t] = to]
      BY <2>1
    <2>3. Owner' = Owner
      BY <2>1 DEF Owner
    <2>4. Wants(t) /\ Wants(t)'
      BY <2>1, <2>2, Moved DEF Wants
    <2>5. pc[t] # "critical" /\ to # "critical"
      BY <2>1, <2>2 DEF InLock
    <2> QED BY <2>1, <2>2, <2>3, <2>4, <2>5, MoveStutters
  <1>2. CASE LockOwned(t)
    <2>1. /\ pc[t] = "kernel" /\ repairs' = repairs
          /\ pc' = [pc EXCEPT ![t] = "blocked"]
          /\ word'.tid = word.tid /\ word'.died = word.died
      BY <1>2 DEF LockOwned, Move, Inv, TypeOK, WordType, StaysRecoverable,
           OwnerInv, Holding
    <2>2. Owner' = Owner
      BY <2>1 DEF Owner
    <2>3. Wants(t) /\ Wants(t)'
      BY <2>1, Moved DEF Wants, InLock
    <2> QED BY <2>1, <2>2, <2>3, MoveStutters
  <1>3. CASE Check(t)
    <2>1. /\ pc[t] = "check" /\ pc' = [pc EXCEPT ![t] = "add"]
          /\ repairs' = [repairs EXCEPT ![t] = word.died] /\ word' = word
      BY <1>3 DEF Check, Move
    <2>2. word.tid = t /\ ~repairs[t] /\ repairs'[t] = word.died
          /\ \A u \in Thread \ {t} : repairs'[u] = repairs[u]
      BY <2>1 DEF Inv, TypeOK, OwnerInv, MarkInv, Holding
    <2>3. Owner' = Owner
      BY <2>1, <2>2 DEF Owner
    <2>4. Wants(t) /\ Wants(t)'
      BY <2>1, Moved DEF Wants, InLock
    <2> QED BY <2>1, <2>2, <2>3, <2>4, MoveStutters
  <1>4. CASE Repair(t)
    <2>1. /\ pc[t] = "repair" /\ pc' = [pc EXCEPT ![t] = "unlock"]
          /\ repairs' = repairs /\ repairs[t]
          /\ word.tid = t /\ word'.tid = t
      BY <1>4 DEF Repair, Move, Inv, TypeOK, WordType, OwnerInv, MarkInv, Holding
    <2>2. Owner' = Owner
      BY <2>1 DEF Owner
    <2>3. Wants(t) /\ Wants(t)'
      BY <2>1, Moved DEF Wants, InLock, InUnlock
    <2> QED BY <2>1, <2>2, <2>3, MoveStutters
  <1>5. CASE Unlock(t) \/ Del(t)
    <2>1. /\ pc[t] \in InUnlock /\ repairs' = repairs /\ word' = word
          /\ \E to \in InUnlock : pc' = [pc EXCEPT ![t] = to]
      BY <1>5 DEF Unlock, Del, Move, InUnlock, Inv, OwnerInv, Holding
    <2>2. PICK to \in InUnlock : pc' = [pc EXCEPT ![t] = to]
      BY <2>1
    <2>3. Owner' = Owner
      BY <2>1 DEF Owner
    <2>4. Wants(t)' <=> Wants(t)
      <3>1. pc'[t] = to /\ pc[t] \notin InLock /\ to \notin InLock
        BY <2>1, <2>2, Moved DEF InLock, InUnlock
      <3> QED BY <2>1, <2>2, <3>1 DEF Wants
    <2>5. pc[t] # "critical" /\ to # "critical"
      BY <2>1, <2>2 DEF InUnlock
    <2> QED BY <2>1, <2>2, <2>3, <2>4, <2>5, MoveStutters
  <1>6. CASE Done(t)
    <2> DEFINE to == IF repairs[t] THEN "start" ELSE "idle"
    <2>1. /\ pc[t] = "done" /\ pc' = [pc EXCEPT ![t] = to]
          /\ repairs' = [repairs EXCEPT ![t] = FALSE] /\ word' = word
      BY <1>6 DEF Done, Move
    <2>2. word.tid # t /\ ~repairs'[t]
          /\ \A u \in Thread \ {t} : repairs'[u] = repairs[u]
      BY <2>1 DEF Inv, TypeOK, OwnerInv, Holding
    <2>3. Owner' = Owner
      BY <2>1, <2>2 DEF Owner
    <2>4. Wants(t)' <=> Wants(t)
      <3>1. pc'[t] = to
        BY <2>1, Moved
      <3> QED BY <2>1, <2>2, <3>1 DEF Wants, InLock, InUnlock
    <2> QED BY <2>1, <2>2, <2>3, <2>4, MoveStutters
  <1> QED BY <1>1, <1>2, <1>3, <1>4, <1>5, <1>6

\* The moves into the critical section and out of it.
LEMMA EnterImplements ==
  ASSUME Inv, NEW t \in Thread, Call(t) \/ End(t) \/ Leave(t)
  PROVE  Abstract!Call(t) \/ Abstract!Enter(t) \/ Abstract!Leave(t) \/ Stutter
  <1>0. repairs' = repairs /\ Owner' = Owner
    BY DEF Call, End, Leave, Owner
  <1>1. CASE Call(t)
    <2>1. pc[t] = "idle" /\ pc' = [pc EXCEPT ![t] = "start"]
      BY <1>1 DEF Call, Move
    <2>2. pc'[t] = "start" /\ pc' = [pc EXCEPT ![t] = pc'[t]]
      BY <2>1, Moved
    <2>3. ~Wants(t) /\ Wants(t)'
      BY <2>1, <2>2 DEF Wants, InLock, InUnlock
    <2>4. /\ t \notin Inside /\ t \notin Wanting
          /\ Wanting' = Wanting \union {t} /\ Inside' = Inside
      BY <1>0, <2>1, <2>2, <2>3, MoveOf
    <2> QED BY <1>0, <2>4 DEF Abstract!Call, Inside
  <1>2. CASE End(t)
    <2> DEFINE to == IF repairs[t] THEN "repair" ELSE "critical"
    <2>1. pc[t] = "end" /\ pc' = [pc EXCEPT ![t] = to]
      BY <1>2 DEF End, Move
    <2>2. pc'[t] = to /\ pc' = [pc EXCEPT ![t] = pc'[t]]
      BY <2>1, Moved
    <2>3. Wants(t)
      BY <2>1 DEF Wants, InLock
    <2>4. CASE repairs[t]
      <3>1. Wants(t)'
        BY <2>2, <2>4 DEF Wants, InLock
      <3> QED BY <1>0, <2>1, <2>3, <2>4, <3>1, MoveStutters
    <2>5. CASE ~repairs[t]
      <3>1. Owner = t
        BY <2>1, <2>5, LockOf DEF Inv, MarkInv, Holding
      <3>2. pc'[t] = "critical" /\ ~Wants(t)'
        BY <1>0, <2>2, <2>5 DEF Wants, InLock
      <3>3. /\ t \in Wanting /\ t \notin Inside
            /\ Wanting' = Wanting \ {t} /\ Inside' = Inside \union {t}
        BY <1>0, <2>1, <2>2, <2>3, <3>2, MoveOf
      <3> QED BY <1>0, <3>1, <3>3 DEF Abstract!Enter, Inside
    <2> QED BY <2>4, <2>5
  <1>3. CASE Leave(t)
    <2>1. /\ pc[t] = "critical" /\ pc' = [pc EXCEPT ![t] = "unlock"]
          /\ ~repairs[t]
      BY <1>3 DEF Leave, Move, Inv, MarkInv
    <2>2. pc'[t] = "unlock" /\ pc' = [pc EXCEPT ![t] = pc'[t]]
      BY <2>1, Moved
    <2>3. ~Wants(t) /\ ~Wants(t)'
      BY <1>0, <2>1, <2>2 DEF Wants, InLock, InUnlock
    <2>4. /\ t \in Inside /\ Inside' = Inside \ {t} /\ Wanting' = Wanting
      BY <1>0, <2>1, <2>2, <2>3, MoveOf
    <2> QED BY <1>0, <2>4 DEF Abstract!Leave, Inside
  <1> QED BY <1>1, <1>2, <1>3

\* The word is taken where it is free.
LEMMA TakeImplements ==
  ASSUME Inv, NEW t \in Thread, Try(t) \/ LockFree(t)
  PROVE  Abstract!Take(t) \/ Stutter
  <1>1. /\ pc[t] \in InLock /\ ~repairs[t] /\ repairs' = repairs
        /\ \E to \in InLock : pc' = [pc EXCEPT ![t] = to]
    BY DEF Try, LockFree, Move, Inv, StaysRecoverable, MarkInv, InLock
  <1>2. Wanting' = Wanting /\ Inside' = Inside /\ t \in Wanting
    <2>1. PICK to \in InLock : pc' = [pc EXCEPT ![t] = to]
      BY <1>1
    <2>2. pc'[t] = to /\ pc' = [pc EXCEPT ![t] = pc'[t]]
      BY <2>1, Moved
    <2>3. Wants(t) /\ Wants(t)'
      BY <1>1, <2>1, <2>2 DEF Wants
    <2>4. pc[t] # "critical" /\ to # "critical"
      BY <1>1, <2>1 DEF InLock
    <2> QED BY <1>1, <2>2, <2>3, <2>4, MoveOf
  <1>3. CASE word' = word
    BY <1>1, <1>2, <1>3 DEF Stutter, Owner
  <1>4. CASE word' # word
    <2>1. word.tid = Nobody /\ word' = Word(t, FALSE, word.died)
      <3>1. CASE Try(t)
        <4>1. word = Free /\ word' = Word(t, FALSE, FALSE)
          BY <1>4, <3>1 DEF Try
        <4> QED BY <4>1 DEF Free, Word
      <3>2. CASE LockFree(t)
        BY <3>2 DEF LockFree
      <3> QED BY <3>1, <3>2
    <2>2. word'.tid = t /\ word'.died = word.died
      BY <2>1 DEF Word
    <2>3. CASE word.died
      BY <1>2, <2>2, <2>3 DEF Stutter, Owner
    <2>4. CASE ~word.died
      BY <1>1, <1>2, <2>1, <2>2, <2>4 DEF Abstract!Take, Owner, Inside
    <2> QED BY <2>3, <2>4
  <1> QED BY <1>3, <1>4

\* The word is given up, or handed to the first waiter.
LEMMA GiveImplements ==
  ASSUME Inv, NEW t \in Thread, Release(t) \/ UnlockPi(t)
  PROVE  Abstract!Release(t) \/ Abstract!Recover \/ Stutter
  <1>1. /\ pc[t] \in {"release", "handover"} /\ repairs' = repairs
        /\ word.tid = t /\ ~word.died
        /\ pc' = [pc EXCEPT ![t] = pc'[t]] /\ pc'[t] \in {"done", "handover"}
    BY DEF Release, UnlockPi, Move, Inv, TypeOK, OwnerInv, MarkInv, Holding
  <1>2. /\ Wanting' = Wanting /\ Inside' = Inside /\ t \notin Inside
        /\ repairs[t] => t \in Wanting
        /\ ~repairs[t] => t \notin Wanting
    <2>1. /\ pc[t] \in InUnlock \ InLock /\ pc'[t] \in InUnlock \ InLock
          /\ pc[t] # "critical" /\ pc'[t] # "critical"
      BY <1>1 DEF InLock, InUnlock
    <2>2. (Wants(t) <=> repairs[t]) /\ (Wants(t)' <=> repairs[t])
      BY <1>1, <2>1 DEF Wants
    <2> QED BY <1>1, <2>1, <2>2, MoveOf
  <1>3. CASE word' = word
    BY <1>1, <1>2, <1>3 DEF Stutter, Owner
  <1>4. CASE word' # word
    <2>1. Owner' \in {Nobody} \union Wanting
      <3>1. CASE word' = Free
        BY <3>1 DEF Free, Word, Owner
      <3>2. CASE word' # Free
        <4>1. /\ queue # <<>> /\ word' = Word(Head(queue), TRUE, FALSE)
          BY <1>1, <1>4, <3>2 DEF Release, UnlockPi, NewValue, HandOver
        <4>2. /\ Head(queue) \in Thread /\ pc[Head(queue)] = "blocked"
              /\ ~repairs[Head(queue)]
          BY <4>1, FirstWaiter DEF Inv, MarkInv
        <4> QED BY <1>1, <4>1, <4>2 DEF Owner, Wanting, InLock, Word
      <3> QED BY <3>1, <3>2
    <2>2. Owner = IF repairs[t] THEN OwnerDied ELSE t
      BY <1>1 DEF Owner
    <2> QED BY <1>2, <2>1, <2>2 DEF Abstract!Release, Abstract!Recover, Inside
  <1> QED BY <1>3, <1>4

\* Deaths, wherever the thread is.
LEMMA DeathImplements ==
  ASSUME Inv, NEW t \in Thread, ExitRobust(t) \/ ExitPi(t)
  PROVE  Abstract!Die(t) \/ Stutter
  <1>1. CASE ExitRobust(t)
    <2>1. /\ pc' = [pc EXCEPT ![t] = "exiting"] /\ repairs' = repairs
          /\ word.tid # t => word' = word
          /\ word.tid = t => word'.died
      BY <1>1 DEF ExitRobust, Word, Inv, OwnerInv, ListInv, Holding
    <2>2. Wanting' = Wanting \ {t} /\ Inside' = Inside \ {t}
      <3>1. pc'[t] = "exiting" /\ pc' = [pc EXCEPT ![t] = pc'[t]]
        BY <2>1, Moved
      <3>2. ~Wants(t)'
        BY <3>1 DEF Wants, InLock, InUnlock
      <3> QED BY <2>1, <3>1, <3>2, MoveOf
    <2>3. Owner' = IF Owner = t THEN OwnerDied ELSE Owner
      BY <2>1, OwnerDiedIsNobody DEF Owner
    <2> QED BY <2>2, <2>3 DEF Abstract!Die, Inside
  <1>2. CASE ExitPi(t)
    <2>1. /\ pc[t] = "exiting" /\ pc' = [pc EXCEPT ![t] = "dead"]
          /\ repairs' = repairs
      BY <1>2 DEF ExitPi, Move
    <2>2. word' = word \/ (word.died /\ word'.died)
      BY <1>2, <2>1 DEF ExitPi, HandOver, Word, Inv, QueueInv, OwnerInv, Holding
    <2>3. Wanting' = Wanting /\ Inside' = Inside
      <3>1. pc'[t] = "dead" /\ pc' = [pc EXCEPT ![t] = pc'[t]]
        BY <2>1, Moved
      <3>2. ~Wants(t) /\ ~Wants(t)'
        BY <2>1, <3>1 DEF Wants, InLock, InUnlock
      <3> QED BY <2>1, <3>1, <3>2, MoveOf
    <2> QED BY <2>1, <2>2, <2>3 DEF Stutter, Owner
  <1> QED BY <1>1, <1>2

LEMMA ProcessImplements ==
  ASSUME Inv, NEW p \in Process, Kill(p) \/ Restart(p)
  PROVE  Stutter
  <1>1. CASE Kill(p)
    BY <1>1 DEF Kill, Stutter, Owner, Wanting, Inside
  <1>2. CASE Restart(p)
    <2>1. /\ \A t \in p : pc[t] = "dead" /\ t \in Thread
          /\ pc' = [t \in Thread |-> IF t \in p THEN "idle" ELSE pc[t]]
          /\ repairs' = [t \in Thread |-> t \notin p /\ repairs[t]]
          /\ word' = word
      BY <1>2 DEF Restart
    <2>2. word.tid \notin p
      BY <2>1 DEF Inv, OwnerInv, Holding
    <2>3. Owner' = Owner
      BY <2>1, <2>2 DEF Owner
    <2>4. Wanting' = Wanting /\ Inside' = Inside
      BY <2>1 DEF Wanting, Inside, Wants, InLock, InUnlock
    <2> QED BY <2>3, <2>4 DEF Stutter
  <1> QED BY <1>1, <1>2

\* The word, the kernel's queue and the robust lists together are one lock: it
\* has one owner, who is the only one inside, a death leaves a mark, and the
\* next to want the lock removes it, with any number of threads and deaths.
THEOREM IsRobustLock == Spec => ImplementsRobustLock
  <1>1. Init => Abstract!Init
    BY OwnerDiedIsNobody
       DEF Init, Free, Word, Abstract!Init, Owner, Wanting, InLock, InUnlock
  <1>2. Inv /\ [Next]_vars => [Abstract!Next]_(Abstract!vars)
    <2> SUFFICES ASSUME Inv, [Next]_vars
                 PROVE  Abstract!Next \/ Stutter
      BY DEF Stutter, Abstract!vars, Inside
    <2>1. ASSUME NEW t \in Thread, Call(t) \/ Work(t) \/ Interrupt(t)
          PROVE  Abstract!Next \/ Stutter
      <3>1. \/ Abstract!Call(t) \/ Abstract!Take(t) \/ Abstract!Enter(t)
            \/ Abstract!Leave(t) \/ Abstract!Release(t) \/ Abstract!Die(t)
            \/ Abstract!Recover \/ Stutter
        BY <2>1, QuietImplements, EnterImplements, TakeImplements,
           GiveImplements, DeathImplements DEF Work, Locking, Unlocking
      <3> QED BY <3>1 DEF Abstract!Next
    <2>2. ASSUME NEW p \in Process, Kill(p) \/ Restart(p)
          PROVE  Stutter
      BY <2>2, ProcessImplements
    <2>3. CASE UNCHANGED vars
      BY <2>3 DEF vars, Stutter, Owner, Wanting, Inside
    <2> QED BY <2>1, <2>2, <2>3 DEF Next
  <1> QED BY <1>1, <1>2, Invariant, PTL
          DEF Spec, ImplementsRobustLock, Abstract!Spec
=============================================================================
