----------------------------- MODULE TaskBytes -----------------------------
(***************************************************************************)
(* The bytes of a list of tasks: Task.cpp and Schedule's get_string and    *)
(* parse_string, Encryption's padding, and store_tasks, which writes the   *)
(* size, the bytes and the file one after another and may die at each.     *)
(* A cell stands for a field, or for a byte of a name; a block has         *)
(* BlockSize of them.                                                      *)
(***************************************************************************)
EXTENDS Integers, SequencesExt

CONSTANTS
  Header,     \* kStringHeader
  CellStop,   \* bound: the ids that are given, and the letter of names
  NameStop,   \* bound: the length of names that are given
  Cap,        \* kMaxSharedScheduleMemory
  BlockSize,  \* of the cipher
  DeathStop   \* bound: deaths in a call

VARIABLES
  size,    \* *shared_size
  data,    \* the cells at shared_data
  file,    \* the file, as plain cells and padding
  phase,   \* where the call that has the mutex is
  new,     \* the list it stores
  at,      \* cells it has copied
  list,    \* the list that the segment has to hold
  saved,   \* the list that the file has to hold
  torn,    \* was the call before this one cut short in the segment?
  whole,   \* has the file been written to its end?
  deaths

vars == <<size, data, file, phase, new, at, list, saved, torn, whole, deaths>>

ASSUME TaskBytesConstants ==
  /\ {CellStop, NameStop, Cap, BlockSize} \subseteq Nat \ {0}
  /\ DeathStop \in Nat
  /\ Header \in Nat /\ Header > CellStop /\ Header > BlockSize

Cell == 0..(Header - 1)

-----------------------------------------------------------------------------
(***************************************************************************)
(* A task is its id, one more field, and its name, which ends with a zero. *)
(***************************************************************************)
Fields == 2

\* Slip: the name is not terminated.
StrUnterminated(t) == <<t.id, t.time>> \o t.name

StrFromTask(t) == <<t.id, t.time>> \o t.name \o <<0>>

GetString(tasks) ==
  LET f[n \in 0..Len(tasks)] ==
        IF n = 0 THEN <<Header>> ELSE f[n - 1] \o StrFromTask(tasks[n])
  IN  f[Len(tasks)]

\* A name ends before the next zero, or with the string.
NameEnd(s, i) ==
  LET stops == {j \in i..Len(s) : s[j] = 0}
  IN  IF stops = {} THEN Len(s) + 1
      ELSE CHOOSE j \in stops : \A k \in stops : j <= k

TaskFromStr(s, i) ==
  [id |-> s[i], time |-> s[i + 1],
   name |-> SubSeq(s, i + Fields, NameEnd(s, i + Fields) - 1)]

\* The tasks from a place of a string on: none when nothing but fields is
\* left.
ParseString(s) ==
  LET f[i \in 2..(Len(s) + 2)] ==
        IF Len(s) + 1 - i <= Fields THEN <<>>
        ELSE <<TaskFromStr(s, i)>> \o f[NameEnd(s, i + Fields) + 1]
  IN  IF s = <<>> \/ s[1] # Header THEN <<>> ELSE f[2]

-----------------------------------------------------------------------------
(***************************************************************************)
(* Encryption: blocks come back as they were; what is modelled is their    *)
(* number and the padding.                                                 *)
(***************************************************************************)
Fill(n, v) == [i \in 1..n |-> v]

Padding(n) == BlockSize - (n % BlockSize)

Encrypt(raw) == raw \o Fill(Padding(Len(raw)), Padding(Len(raw)))

\* Slip: the padding is not dropped.
DecryptWhole(enc) == enc

\* A string of odd length comes back as zeros, one whose padding is wrong
\* without its last block; the last cell says how many are dropped.
Decrypt(enc) ==
  LET n == Len(enc)
      pad == enc[n]
      good == pad <= BlockSize /\ \A i \in 1..n : i > n - pad => enc[i] = pad
      raw == IF good THEN enc
             ELSE SubSeq(enc, 1, n - BlockSize) \o Fill(BlockSize, 0)
  IN  IF n = 0 \/ n % BlockSize # 0 THEN Fill(n, 0)
      ELSE SubSeq(raw, 1, n - pad)

Init ==
  /\ size = 0 /\ data = Fill(Cap, 0)
  /\ file = <<>> /\ phase = "idle" /\ new = <<>> /\ at = 0
  /\ list = <<>> /\ saved = <<>> /\ torn = FALSE /\ whole = TRUE
  /\ deaths = 0

-----------------------------------------------------------------------------
(***************************************************************************)
(* A call: it loads the list, changes it and stores it.                    *)
(***************************************************************************)
Loaded == ParseString(SubSeq(data, 1, size))

Name == UNION {[1..n -> {CellStop}] : n \in 0..NameStop}

\* The lists a call can make of one: with a task more, anywhere, as a torn
\* list is out of order; with one less; or with one changed.
Changes(tasks) ==
  {InsertAt(tasks, i, [id |-> id, time |-> 1, name |-> name]) :
     i \in 1..(Len(tasks) + 1),
     id \in {j \in 1..CellStop : \A n \in 1..Len(tasks) : tasks[n].id < j},
     name \in Name}
  \union {RemoveAt(tasks, i) : i \in 1..Len(tasks)}
  \union {[tasks EXCEPT ![i].name = name] : i \in 1..Len(tasks), name \in Name}

\* Slip: the size is written when the cells are.
CallSizeLast ==
  /\ phase = "idle" /\ phase' = "copy"
  /\ \E tasks \in Changes(Loaded) :
       /\ Len(GetString(tasks)) <= Cap
       /\ new' = tasks
  /\ at' = 0
  /\ UNCHANGED <<size, data, file, list, saved, torn, whole, deaths>>

\* kSHMSizeExceed leaves everything alone; otherwise the size comes first.
Call ==
  /\ phase = "idle" /\ phase' = "copy"
  /\ \E tasks \in Changes(Loaded) :
       /\ Len(GetString(tasks)) <= Cap
       /\ new' = tasks
       /\ size' = Len(GetString(tasks))
  /\ at' = 0
  /\ UNCHANGED <<data, file, list, saved, torn, whole, deaths>>

Copy ==
  /\ phase = "copy" /\ at < Len(GetString(new))
  /\ at' = at + 1
  /\ data' = [data EXCEPT ![at + 1] = GetString(new)[at + 1]]
  /\ UNCHANGED <<size, file, phase, new, list, saved, torn, whole, deaths>>

Copied ==
  /\ phase = "copy" /\ at = Len(GetString(new))
  /\ phase' = "open"
  /\ list' = new /\ torn' = FALSE
  /\ UNCHANGED <<size, data, file, new, at, saved, whole, deaths>>

Return == phase' = "idle" /\ new' = <<>> /\ at' = 0

\* ofstream empties the file; kFileIOError if it cannot be opened.
Open ==
  /\ phase = "open"
  /\ \/ phase' = "write" /\ file' = <<>> /\ whole' = FALSE /\ UNCHANGED <<new, at>>
     \/ Return /\ UNCHANGED <<file, whole>>
  /\ UNCHANGED <<size, data, list, saved, torn, deaths>>

Write ==
  /\ phase = "write" /\ Return
  /\ file' = Encrypt(GetString(new))
  /\ saved' = new /\ whole' = TRUE
  /\ UNCHANGED <<size, data, list, torn, deaths>>

\* The process dies; the next one repairs the mutex and takes the segment as
\* it is.  Of the file, the first cells may have been written.
Die ==
  /\ phase # "idle" /\ Return
  /\ deaths < DeathStop /\ deaths' = deaths + 1
  /\ list' = IF phase = "copy" THEN Loaded ELSE list
  /\ torn' = (torn \/ phase = "copy")
  /\ \/ UNCHANGED file
     \/ phase = "write" /\ \E n \in 1..Len(Encrypt(GetString(new))) :
                               file' = SubSeq(Encrypt(GetString(new)), 1, n)
  /\ UNCHANGED <<size, data, saved, whole>>

\* Everybody has given the segment back; the next process makes another of
\* the file.
Restart ==
  LET raw == IF file = <<>> THEN <<>> ELSE Decrypt(file)
      n == IF Len(raw) > Cap THEN Cap ELSE Len(raw)
  IN  /\ phase = "idle"
      /\ size' = n
      /\ data' = SubSeq(raw, 1, n) \o Fill(Cap - n, 0)
      /\ list' = ParseString(SubSeq(raw, 1, n))
      /\ saved' = list' /\ whole' = TRUE
      /\ torn' = (size' # Len(GetString(list')))
      /\ UNCHANGED <<file, phase, new, at, deaths>>

Next == Call \/ Copy \/ Copied \/ Open \/ Write \/ Die \/ Restart

Spec == Init /\ [][Next]_vars

-----------------------------------------------------------------------------
(***************************************************************************)
(* Properties.                                                             *)
(***************************************************************************)
TaskType == [id : Cell, time : Cell, name : Seq(Cell \ {0})]

TypeOK ==
  /\ size \in 0..Cap
  /\ data \in [1..Cap -> Cell \union {Header}]
  /\ file \in Seq(Cell \union {Header})
  /\ phase \in {"idle", "copy", "open", "write"}
  /\ {new, list, saved} \subseteq Seq(TaskType)
  /\ at \in 0..Cap
  /\ {torn, whole} \subseteq BOOLEAN
  /\ deaths \in 0..DeathStop

\* What is read is what was stored, whatever was in the segment before:
\* also a list that was torn, or that a file gave that was cut short.
SegmentHoldsList == phase # "copy" => Loaded = list

BytesInv == TypeOK /\ SegmentHoldsList

\* A file that has been written to its end gives the list that was saved,
\* whatever its length in blocks.
FileHoldsSaved ==
  whole /\ phase # "write" =>
    ParseString(IF file = <<>> THEN <<>> ELSE Decrypt(file)) = saved

\* Of a list that is torn, the tasks before the change and those that have
\* been copied are the first, as they were.  (A list that was torn before may
\* end with a name that has no end, which what follows then continues.)
TearSparesPrefix ==
  [][\A n \in 0..Len(new) :
       /\ Die /\ phase = "copy"
       /\ \/ IsPrefix(SubSeq(new, 1, n), list) /\ (torn => n < Len(list))
          \/ Len(GetString(SubSeq(new, 1, n))) <= at
       => IsPrefix(SubSeq(new, 1, n), list')]_vars
============================================================================
