# A TLA+ model of Schedulite

Schedulite is a personal schedule: every user has a list of tasks that any
number of processes (command line, shell, GTK windows) show and change at the
same time. There is no server. The processes share one list per user in a named
shared memory segment, guarded by a named mutex, and save it to a file after
every change. This directory holds TLA+ modules of that core, TLC
configurations that check them on small instances, and TLAPS proofs of what
holds for every instance.

    tlc -config MCScheduleCrash.cfg MCSchedule     # any of the configurations
    tlapm ScheduleProofs.tla                       # theorems of one part

## The system

| Component | State | Operations | Talks to |
|---|---|---|---|
| **Schedule** (`backend/src/Schedule.cpp`) | per process: mapping, file path, one cached list and version per thread; shared: segment (size, version, raw list) | `Acquire`, destructor, `GetTasks`, `TaskInsert`, `TaskErase`, `TaskToggleDone`, `TaskEdit` | shared memory, named mutex, schedule file, `Instance::MaintainDirs`, encryption |
| **Task list** (`Task.hpp`, `Task.cpp`, `Schedule::insert`) | none | `lower_bound` insertion, key comparison, patches, encoding | Schedule |
| **Shared memory** (`cpp-ipc`, `shm_posix.cpp`) | kernel object, its name, a reference count at its end | `acquire`, `get_mem`, `release` | Schedule, named mutex |
| **Named mutex** (`cpp-ipc`, `linux/mutex.h`, `a0/mtx.c`) | a robust priority-inheritance futex in shared memory, per-process handle table | `lock` (with repair after `EOWNERDEAD`), `unlock`, `open` | Schedule, User |
| **User** (`User.cpp`) | user file with the password's hash | `Register`, `Login`, `ValidateUsername` | named mutex, `Instance` |
| **Instance** (`Instance.cpp`) | three directories | `Create`, `MaintainDirs`, `FetchUsernames` | User, Schedule |
| **Encryption, Time, enum names** | none | conversions | Schedule, front ends |
| **CLI commands** (`cli/src/main.cpp`) | none | one command per process: login, one call, exit | User, Schedule |
| **Shell** (`cli/src/Shell.cpp`) | current schedule, reminder thread | prompt commands; the thread shows reminders once a minute | User, Schedule |
| **Window** (`gui-gtk/src/Window.cpp`) | current schedule, sync thread and remind thread with a queue and a dispatcher each, page shown | login, logout, edit; the sync thread polls `GetTasks` every 100 ms | User, Schedule, widgets |
| **TaskFlowBox, TaskDetailBox, ...** | one child per task, filters, the task on show | `set_tasks`, `update_from_tasks`, activation, filters | Window |

What is hard about it, and hardly reached by a test (the full list, line by
line, is under `hazards` in `PROJECT.json`):

* **Interleaving.** `~SyncObject` gives the segment back *without* the mutex, so
  it can fall between another process's `shm_open` and its mapping; the count
  and the unlinking are two steps of their own.
* **Crashes.** A process can die at every step: owning the mutex, between
  creating the segment and filling it, between the size and the last byte of a
  list, between truncating the file and writing it. It never gives its
  reference back.
* **Stale state.** `GetTasks` trusts a version number; a call reads the whole
  list, changes it and writes it back; the windows remember ids and queues
  across a change of account.
* **Failures half way.** The file cannot be written after the segment changed;
  `get_mem` fails and leaves its size uninitialized.
* **Boundaries.** `max_id + 1` and the version wrap; the list may not outgrow
  the segment.
* **Liveness.** A dead owner of the mutex must not stop the others; joins rely
  on notifications that can be lost.

What makes each component correct:

* *Schedule*: calls are atomic on one list per user; all tokens of a user share
  it; what is cached is current when it is served; the file is the list.
* *Task list*: keys strictly increase, ids are distinct, edits move the task.
* *Shared memory*: the count covers the mapped processes; only the last one
  unlinks.
* *Mutex*: one owner, repaired after a death, no waiter left for ever.
* *User*: one registration per name wins; only its password logs in, also after
  a crash. *Instance*: the directories exist when a call needs them.
* *Shell, Window*: every minute's reminders once, for the account that is logged
  in; what is shown converges to the list; threads end when joined.
* *TaskFlowBox*: children are the tasks, in their order.

## Modules

| Module | Models | Checked by |
|---|---|---|
| `TaskList` | the pure list code: ids, keys, `lower_bound`, patches; what a good list is | through `Schedule` |
| `Schedule` | all of `Schedule.cpp` with the shared memory and mutex calls it makes, deaths and failures | `MCSchedule`, `MCLists` |
| `AtomicSchedule`, `ScheduleImplements` | the promise (one set of tasks, every call at once) and the mapping from `Schedule` to it | `MCSchedule` |
| `TaskBytes` | the string of a list, its copy to the segment byte by byte, its padding and its file; torn and cut strings | `MCLists` |
| `RobustMutex` | the futex word, the robust list and the kernel's waiters under `lock` and `unlock` | `MCMutex` |
| `RobustLock`, `RobustMutexImplements` | the promise of a robust lock, and the mapping | `MCMutex` |
| `NamedMutex` | how processes come to share a mutex by its name: table, counts, memory | `MCMutex` |
| `Accounts` | directories, registration and login of one name | `MCMutex` |
| `ReaderWriterQueue` | the lock-free queue, one step per access to a shared variable | `MCGui` |
| `Fifo`, `ReaderWriterQueueImplements` | the promise of a queue, and the mapping | `MCGui` |
| `Pages` | the window's pages and buttons, each signal handler a function | through `Window` |
| `Window` | main loop, sync thread, queue and dispatcher, logins, other processes | `MCWindow` |
| `FlowBox` | `set_tasks`: children, positions, and the lists between two updates | `MCGui` |
| `Reminder` | the reminding threads of the shell and of the window | `MCReminder` |
| `LocalTime` | times and readings: zone, summer time, width, `localtime`'s buffer | `MCGui` |
| `ListLemmas` | insertion into a list and removal from it; induction and recursion up to a number; division; joined sequences | TLAPS |
| `ScheduleProofs`, `AccountsProofs`, `WindowProofs`, `ReminderProofs`, `TaskBytesProofs` | theorems of the module named | TLAPS |
| `MutexProofs` | theorems of `RobustMutex` and `NamedMutex` | TLAPS |
| `GuiProofs` | theorems of `ReaderWriterQueue`, `LocalTime` and `FlowBox` | TLAPS |

How they fit together. A module takes from the one below what that one shows:

* `Schedule` and `Accounts` take a lock with one owner, which a death leaves
  marked and a waiter gets. `RobustMutex` shows that the futex is such a lock
  (`ImplementsRobustLock`, `LockReturns`); that all who name it have the *same*
  one is what `NamedMutex` checks: it holds until an open has raced another open
  or the last close, and not after. `NamedMutex`'s own lock is again
  `RobustLock`'s.
* `Window`, `FlowBox` and `Reminder` take Schedule's calls as atomic, which is
  `ImplementsAtomic`, and the queue as first-in first-out, which is
  `ImplementsFifo`.
* `Schedule` copies task by task; `TaskBytes` looks below, at bytes, and says
  what a torn copy leaves.

`MCLists` (`TaskBytes`, `Schedule` without deaths), `MCMutex` (`RobustMutex`,
`NamedMutex`, `Accounts`) and `MCGui` explore modules that share no state in one
run. A variable `part`, chosen at the start, says which of them takes steps while
the others rest in an initial state: every state of each is reached, and none of
their products, which would tell nothing more.

### Schedule

State and code:

| Variable | Code |
|---|---|
| `lock` | the robust mutex: its owner, nobody, or "the owner died" |
| `name` | the object that the segment's name is linked to in `/dev/shm` |
| `segs` | the kernel's objects: `sized` (after `ftruncate`), `ref` (cpp-ipc's count), `version`, `size`, `header` and `data` (the raw bytes, task by task) |
| `file` | the list that the user's file decrypts and decodes to |
| `pc` | where each process is in `Acquire`, a call or the destructor |
| `handle` | the object each process has open or mapped (`shm_id`, `shared_*`) |
| `pend`, `chunk` | the raw list a process is copying and how far it is |
| `cache` | `m_local_tasks`: list and version |

A step is what another process can tell apart: taking or leaving the mutex,
each system call of `acquire`, `get_mem` and `release`, each store to the
segment, the truncation and the write of the file. The copy of a list is one
step for the header and one per task. Steps under the mutex are kept separate
because a release does not take it and a process can die between any two.

| Action | Code |
|---|---|
| `Acquire`, `Lock`, `OpenExisting`, `CreateNew`, `CreateFails` | `initialize_shm_locked` up to both `shm::acquire` |
| `Map`, `MapFails`, `SetSize`, `MapNew`, `NewFails` | `get_mem` for an existing and a new object; when it fails `size` is uninitialized, so both outcomes of the test on it are allowed |
| `ZeroHeader`, `LoadFile`, `CopyChunk` | size and version of a new segment, reading the file, copying it |
| `Call`, `Lock`, `GetTasks`, `TaskInsert`, `NotFound`, `TaskErase`, `TaskToggleDone`, `TaskEdit`, `Segfault` | the calls, up to the decision whether there is something to store |
| `WriteSize`, `BumpVersion`, `CopyChunk`, `OpenFile`, `OpenFileFails`, `WriteFile` | `store_tasks` |
| `Unlock`, `Recover` | end of the scoped lock; `EOWNERDEAD` |
| `Release`, `Unlink` | `~SyncObject` and `shm::release` |
| `Crash`, `Die` | the process is killed; the kernel marks the mutex and drops its mapping, nothing else |

Data is abstracted to what the properties tell apart. A task is its id, its key
(standing for begin time and name, which order the list) and its done flag; the
other properties are copied like the flag. Encryption and the byte encoding are
left out because decoding gives back what was encoded, but the copy, the
truncation and the zero bytes of a new segment are modelled, since a torn list
is made of them. `lower_bound` on a list that a crash left unsorted may return
any position a binary search can end at.

`Overlap` and `CrashAt` are not behaviour of the code but of its environment:
they say whether releases may overlap an attach, and where processes may die.
The runs use them to show under which circumstances each property holds, and
the violation runs that it does not hold without.

### AtomicSchedule and the refinement

The abstract state is one set of tasks and, for each process, what its
`GetTasks` is about to return. In `ScheduleImplements` the set is the list about
to be written while a process writes (the call takes effect with its first store), the file's while nobody
has the segment or its creator has not filled it, and the segment's otherwise;
the answer is the cached list (`Answer`) once `GetTasks` has decided whether to
load it, until it leaves the mutex (the place `got`). `ImplementsAtomic` then says
that no update is lost or half applied, that what `GetTasks` returns are the
schedule's tasks at a step of the call and never an older list, and that
detaching and attaching again through the file loses nothing. A `GetTasks` that
does not load what is new takes a step to `got` with another answer, which no
abstract step allows: that is its mutant.

### TaskBytes

A cell is a field of a task or a byte of its name; a task is two fields, the
name and a zero, where the code has 15 bytes. `ParseString` is the loop of
`parse_string` with its stopping rule (nothing but fields is left), a recursive
function over positions. `Encrypt` and `Decrypt` keep what matters of the
cipher: whole blocks, the padding, and that a string whose padding is wrong
loses its last block and as many bytes as its last byte says. Blocks have one
cell more than a task has fields, as 16 is one more than 15: with longer padding
`parse_string` would find a task in it. A call writes the size, then cell after
cell in the order of `std::copy`, then the file; `Die` can come at every point,
`Restart` is the next creation of the segment from the file.

### RobustMutex, RobustLock, NamedMutex

| Action of `RobustMutex` | Code |
|---|---|
| `Call`, `Start`, `Try`, `LockFree`, `LockOwned`, `Wake`, `Interrupt`, `Check`, `Add`, `End` | `a0_mtx_lock` with `robust_op_start`, the compare-and-swap, `FUTEX_LOCK_PI` (granted, waiting, woken, interrupted), the test for `EOWNERDEAD`, `robust_op_add`, `robust_op_end` |
| `Repair` | `robust_mutex::lock` on `EOWNERDEAD`: `a0_mtx_consistent`, unlock, lock again |
| `Leave`, `Unlock`, `Del`, `Release`, `UnlockPi`, `Done` | `a0_mtx_unlock`, in the kernel when somebody waits (`HandOver`) |
| `Kill`, `ExitRobust`, `ExitPi`, `Restart` | a process is killed at any access; the kernel walks each thread's robust list and `list_op_pending`, then hands on what it owned for waiters |

The kernel's part (waiters, owner of the PI state, exit) is external and modelled
from what the code relies on. `RobustLock` has an owner, who wants it and who is
inside; a hand-over is a release to one of those who want it.

`NamedMutex` counts in each process the mutex objects of a name, opens the memory
for the first (map, test for other references, clear), gives it back for the
last (count, remove the name) and locks in between. Opens and closes overlap as
they like, since they take no lock that processes share. `raced` is not of the
code: it becomes true, for good, when a process maps the memory while another is
about to clear it, and when one has opened the name but is not counted yet while
another counts itself out as the last and removes the name.

### Accounts

`dirs`, `file` and the mutex of each spelling of the path are shared; a process is
somewhere in `Instance::Create`, `MaintainDirs`, `Register` or `Login`. A step is one
system call on a directory or the file. Keys are hashes of passwords. Every system
call may fail: a file that is there may not open for reading, which `Register`
(`Probe`) takes for a name that is free and `Login` (`Read`) for a user who is not
there. Which password a call came with is chosen when it has the mutex, since it
makes no difference before. Three variables are not of the code: `pathOf`, with which spelling of the
directory each process was started; `keyLost`, whether a key never got into the
file that was created for it, as its write failed or its process died before; and
`misread`, whether `Register` could not open a file that was there. The properties
name them where they need them.

### ReaderWriterQueue

A ring of blocks, each a ring of slots with the front, the tail and each side's
copy of the other's index. The producer's `Enqueue`, `ReloadFront`,
`TestNextBlock`, `ReuseNext`, `Write`, `Publish`, `Allocate`, `Refuse`, `Link`,
`Advance` and the consumer's `Begin` to `ReturnFalse` follow `inner_enqueue` and
`try_dequeue`/`pop`/`peek` access by access. The fences of the code order a
thread's accesses, so that steps one after another are what another thread sees.

### Window and Pages

`Pages` holds the handlers of clicks as functions of a record (buttons down, active
task, task of the detail page, page, flap), *with* the handlers that they set
off in turn, in their order. `Window` is the sync thread (`Start` to `Wait`), the main
loop (`Dispatch`, `Click`, `Insert`, `EditDetail`, `Login`, `Joined`, `Close`), which stands still while it joins, and the changes of others. An emission and its list
are separate, as the dispatcher's pipe and the queue are. Each list carries, for
the properties only, the login and version it is of. `waits`, chosen at the start,
tells two users apart: one who clicks on whatever is shown, and one who selects
no task between a login and its first list.

### FlowBox

`Place` is one round of the loop of `set_tasks`; `Placed` the loop; `SetTasks` also
the removal of what is left. Position arguments are the code's, counted while
children that will be erased or moved are still there.

### Reminder

One module for both threads, `queued` telling them apart: they count minutes alike and differ in what they do
with one (`Visit` and `Answer` in the shell, `Post` and `Dispatch` in the window) and
in the logins they accept. `wait_until` is three steps, the predicate (`Check`),
falling asleep (`Sleep`) and the end of the wait (`Timeout`, `Wake`), so that a
notification between the first two is lost, as it can be in the code, which does
not take the waiting thread's mutex to notify.

### LocalTime

Units since the epoch and readings of day and unit; `LocalTm` is external and knows
the summer, `ToTimePoint` is the code's `mktime` with `tm_isdst = 0`. Each
conversion fills the shared buffer field by field under the library's lock and
copies it field by field without. `alone` remembers of each conversion whether
another thread's overlapped it, which only the shell has threads for.

## Runs

| Run | Instance | Checks |
|---|---|---|
| `schedule_crash` | 2 processes, 2 objects, 3 keys, 2 tasks, 2 stores after creation, all calls, deaths everywhere outside the two windows below | `StoredListsGood`, `CacheCoherent`, `ImplementsAtomic` |
| `lists` | bytes: lists of two tasks, one named, 7 cells, two deaths; tasks: 2 processes, 2 objects, 3 keys, 2 tasks, 3 stores after creation, all calls, no deaths | `BytesInv`, `FileHoldsSaved`, `TearSparesPrefix`; `FileHoldsList` |
| `schedule_attach` | 2 processes, 3 objects, failures, deaths anywhere, no release overlapping an attach; fairness | `TypeOK`, `LockHeld`, `RefCovers`, `SharedView`, `CallReturns` |
| `schedule_overlap` | 2 processes, no deaths, releases at any time | *violates* `SharedView` |
| `schedule_creator_dies` | 2 processes, the creator may die | *violates* `FileHoldsList` |
| `schedule_id_wrap` | an id type with two values | *violates* `IdsUnique` |
| `accounts_misread` | 2 processes, one spelling | *violates* `RegisteredOnce` |
| `mutex` | futex: 3 threads of 2 processes, 2 deaths, 2 signals; names: 3 processes that open and close at any time, 2 segments, a death, up to 2 objects each; accounts: 2 processes, one spelling or two, 2 passwords, failures and deaths anywhere; fairness | `MutexInv`, `ImplementsRobustLock`, `LockReturns`; `NamedInv`, `MutualExclusion`; `AccountsInv`, `TokenHasFileKey`, `ExistsMeansUsable`, `KeyKept`, `CallReturns` |
| `mutex_overlap` | 3 processes that open and close at any time, no deaths | *violates* `Exclusive` |
| `gui` | queue: 3 blocks of 2 to 4 slots, 6 elements, memory runs out; box: 3 ids, 4 keys, 2 calls between updates; times: 2 threads, 2 times, winter and summer | `QueueInv`, `NothingMissed`, `ImplementsFifo`; `BoxInv`, `OrderKept`; `ShownAsTyped`, `KeepChangesNothing` |
| `window` | 2 accounts, 2 ids, a change, 3 logins, every click, fairness | `WindowInv`, `PagesInv`, `DetailIsOwn`, `NeverBack`, `JoinReturns`, `Converges` |
| `reminder` | shell or window, 2 accounts, 4 minutes, an edit, 2 logins, fairness | `ReminderInv`, `EachMinuteOnce`, `OfAccount`, `JoinReturns`, `RemindsInTime` |

A property whose name ends in `Inv` is a conjunction: the type invariant of its
module and named parts, each with a comment of its own in the module.

| Invariant | Parts |
|---|---|
| `MutexInv` | `DeathsAreSeen` (a robust list or pending operation covers every owner), `StaysRecoverable` (never `ENOTRECOVERABLE`), `WaitersHaveOwner` (nobody waits for a lock that nobody hands over) |
| `NamedInv` | `OneMutex` (until a race all who have the name open have one segment), `HeldByInside` (no lock is left held by a process that has gone) |
| `AccountsInv` | `DirsThere` (a token finds its directories) |
| `QueueInv` | `LiveExactlyQueued` (every element constructed and destroyed once), `AssertionsHold` (the header's three assertions) |
| `BoxInv` | `BoxHoldsList` (the box holds the list's tasks, each once) |
| `WindowInv` | `EmissionPerList` (no list without its emission, no emission in vain) |
| `PagesInv` | buttons, flap and detail page agree, and its task is in the box |
| `ReminderInv` | `NeverEarly` |
| `BytesInv` | `SegmentHoldsList` (what is read is what was stored, whatever was there before) |

Some properties hold under a condition that the code does not see to. The
condition is part of the formula or of the instance, and what happens without
it is under Findings and limits below:

* `ExistsMeansUsable`: `Sound` (one spelling, no key lost). `TokenHasFileKey`:
  `Sound` and not `misread`. `KeyKept`: one spelling and not `misread`.
* `MutualExclusion`, `OneMutex`: not `raced`.
* `SharedView`: releases do not overlap an attach (`Overlap`). `FileHoldsList`,
  `ImplementsAtomic`: the file can be read and written (`IoFaults`), and deaths as
  below (`CrashAt`).
* `ShownAsTyped`, `KeepChangesNothing`: winter, and no overlapping conversion.
* `DetailIsOwn`: `waits`. `OfAccount`: the shell. `OrderKept`: `Simple`, or a new
  account.

The windows in which a death breaks the list by construction of the code are
the creation (between `shm_open` and the file's list in the segment) and a copy
(between the new size and the last task). `schedule_creator_dies` shows the
first; the second leaves a torn list. All properties that do not speak of the
list's contents are checked with deaths inside the windows too (`schedule_attach`), and
`TearSparesPrefix` says what a death in a copy leaves.

Bounds. `Key`, `Cap`, `IdStop` bound the tasks: two tasks with three keys
are enough for an insertion before and after, a duplicate key, an edit that moves
a task past another and a full segment (`Cap`: an insertion into a full list is
refused). `VersionStop` bounds
the stores on one segment and `RefStop` the references that deaths can
leak; neither is compared with anything but its neighbours' values, so a few
steps show every relation. `VersionMod` and `IdMod` stand for 2^32 and are out
of reach of the other bounds except in `schedule_id_wrap`. Two processes suffice
where pairs interact; for any number of them `LockHeld` and `RefCovers` are
theorems, also with releases that overlap an attach, and without these so is
`SharedView`. Processes and objects are
symmetric; runs with fairness use no symmetry. Deadlock is checked in every run
but `window`, where the window may close.

For the other modules: three threads behind one mutex are an owner, a waiter and
one who comes in between, two of them in one process and so dying together; three
processes open, close and use a name, as the races take two and a third who comes
after, with two segments, an old and a new one. Two processes are enough for `Accounts`: one that creates or misreads, and
one that sees what it did. Two slots per first block and four per next
make the ring wrap within a block, grow, reuse an emptied block and be refused.
Two accounts and three logins give every order of old and new lists in the queue,
also a return to the first account with its old list still in the box. In
`FlowBox` four keys for three tasks leave one free to move to. Four minutes give a
reminder before, at and after the one a thread is at, and the clock stands at the
last (`ClockStop`), where waits may still end. `TaskBytes` needs two tasks, so that
a tear falls before, in and after the one that changed; `RobustMutex` two deaths,
so that the repairing thread dies in turn.

Fairness (`FairSpec`). A running process is scheduled: weak fairness of `Work`,
all that a process does on its own once it called. `Lock` is strongly fair: the
mutex is a priority-inheritance futex, which the kernel hands to a waiter when
it is unlocked, so that processes that come and go do not pass a waiter for
ever. Making a call, releasing and dying are never required to happen. `Accounts` assumes
the same of the same mutex, and `MCMutex` assumes of each of its modules what the
module does, where it is explored. `RobustMutex`, where the claim about the kernel is made,
assumes only that every thread runs (`WF_vars(Work(t))`): the kernel's queue is in
order, and that signals do not interrupt one wait for ever is the bound
`SignalStop`. `Window` is weakly fair in the thread,
the dispatcher and the join: each is one running thread. `Reminder` adds the
clock, the user who answers a message box, and strong fairness of `Timeout`: the deadline
passes whatever wakes the thread before, and waking for no reason is never
required.

## Findings and limits

* **A release can split a user's schedule** (`schedule_overlap`). Process 1 takes
  the last reference off; process 2 has just opened the segment by name, maps
  and uses it; process 1 unlinks the name. A third process creates a second
  segment from the file. The two then overwrite each other's file.
* **A creator that dies loses the list** (`schedule_creator_dies`). The named
  segment exists without the file's content; the next process takes it for the
  list and saves the emptiness with its first store. A creator that dies before
  `ftruncate` leaves a segment that no process can open and nobody unlinks.
* **Ids wrap** (`schedule_id_wrap`). After the largest id every new task gets 0.
  It takes 2^32 insertions, or a file with that id.
* **A user can be registered twice** (`accounts_misread`). `Register` takes every
  failure to open the user's file for reading for a name that is free. It truncates
  the file and writes its own key over the first one; the first user's password, and
  the schedule encrypted with it, are of no use any more.
* **Two processes can be inside one named mutex** (`mutex_overlap`). `open()` clears
  the futex after a test for other references, under no lock, so that it can clear
  one that another has locked by then; and `release()` can remove the name of a
  segment that another has just opened, so that the next to open gets another one.

Further limits. These are conditions of properties: each was met as a
counterexample to the property without its condition.

* *`MaintainDirs` fails where nothing failed*: another process made the directory
  between the test and the creation (`MakeDirFails`); the caller sees
  `kFileIOError`, and a second try succeeds.
* *A name can be taken for good*: the file exists without a key after a death
  between the two steps of `Register`. *A failed write goes unnoticed*: the token
  is returned although the file holds no key (both are `keyLost`).
* *Two spellings of a path are two mutexes* (`OneSpelling`): two registrations of one
  name may both succeed, the second over the first one's key.
* *Summer time is read but not written* (`Summer`): a time typed in summer is kept,
  shown and reminded of an hour later. An untouched picker moves it by another
  hour.
* *`localtime`'s buffer is shared by threads* (`alone`): the shell's list and its
  reminders may overwrite each other's readings.

The window's pages, queues and threads hold what was asked of them, with two
conditions: between a login and the new account's first list the old tasks can still be clicked
(`DetailIsOwn` holds only if they are not), and a mixture of calls between two
updates can leave the flow box out of order (`Simple` in `FlowBox`).

## Proofs

`ScheduleProofs` proves, for every finite set of processes and every value of the
other constants that satisfies `ConstantsOK`:

* `TypeCorrect`: `Spec => []TypeOK`. `TypeOK` is inductive. The work is in the
  lists: an insertion adds one task (`InsertAtProps`), an erasure takes one away
  (`RemoveAtProps`), and only lists within `Cap` pass `Store`.
* `MutexHeld`: `Spec => []LockHeld`. Inductive together with `TypeOK`; the steps
  are grouped by what they do to the mutex (`NextCases`, `InsideStepFrame`).
* `RefsCover`: `Spec => []RefCovers`, with `HandlePlaces` (which places have an
  object open). A step either keeps an object's count and maps nobody new, or
  frees it (`UncountedSteps`), or is `Map`/`MapNew` (`MapCounts`) or `Release`
  (`ReleaseDiscounts`), where the set of mapped processes changes by one.
* `OneView`: assuming `~Overlap`, `Spec => []SharedView`. `SharedView` is not
  inductive: it needs `Alone` (nobody has anything open while an object is
  created or a name about to be unlinked) and `AttachInv`. The heart is
  `LastReleaseAlone`: by `RefCovers` a release that finds a count of one is the
  only mapped process, by `Alone` and the assumption nobody is on the way to a
  mapping. The assumption is the hypothesis of the theorem; `schedule_overlap`
  shows that it cannot be dropped.

and, of what the lists hold:

* `ListsStayGood`: `StoredListsGood`, if ids do not wrap and nobody dies while a
  list is copied (`NoTear`). `CopyInv` says what is in the segment in the middle
  of a copy: the size, and the tasks before the chunk that is next. That a call
  hands over a good list (`CallsGood`) rests on `InsertGood`, `RemoveGood`,
  `ReplaceGood` and `NewId`.
* `CachesFit`: `CacheCoherent`, if versions do not wrap and nobody dies between
  the size and the version. Besides `CacheOf` the invariant needs `FreshInv`
  (nobody else has a segment open before the file's list is in it) and
  `VersionInv`. Failures, overlaps and deaths elsewhere are included.
* `FileHasList`: `FileHoldsList`, assuming `~Overlap`, `~IoFaults` (the file can
  be read and written) and no death while the segment is created or a list is stored (`CrashSafe`). `SavedInv`
  relates segment, file and pending list at every place, `NameSaved` object and file
  between two stores; `FreedInv` says that an
  object without name and holder is empty. Of the lists it needs only what is
  copied (`CopyInv`), not that they are good, so ids may wrap.
  `schedule_creator_dies` shows that `CrashSafe` cannot be dropped.
* `ListSurvives`: with deaths while the file is written (`ListSafe`), the file may
  lack a change that is in the segment. `NameKept` says that the object is `Spared`
  then: the dead process's reference keeps its count above the number of processes
  that have it mapped, so that no release finds the last one and removes the name
  (`DeathSpares`, `SparedStays`).
* `CallsAreAtomic`: the refinement, `Spec => ImplementsAtomic`, under the conditions
  of `ListSurvives` and that ids and versions do not wrap (`Undisturbed`): the ones
  of `schedule_crash`. By `ListNow` the abstract tasks are the list that somebody
  stores; else the object's, while it has a name and nobody fills it; else the
  file's (`SavedList`). Only `WriteSize` changes them, by `ChangeInv` as one
  `Insert`, `Erase` or `Change`: a name is removed only where the file has the list
  (`CalmSavedList`), and who dies before that leaves it in the object
  (`DeathTasks`). `GetTasks` is `Read` because of `CacheInv`: a cache with the
  segment's version holds the segment's list. `Unlock` from `got`, or a death there,
  is `Return`.

The steps are grouped by what they do to the lists: those that write none
(`Calm`), the calls up to `store_tasks` (`Store`), and the writes (`InsideWrite`).

The other proof modules have the same shape: an inductive invariant, a lemma
per action (or per group of actions that do the same to the state), `StepInv`
and `Invariant`, and theorems that follow from them.

* `MutexProofs`, of `RobustMutex` for any threads and processes, deaths and
  signals: `StaysUsable` (`MutexInv`) and `OneInside` (nobody enters a futex that
  somebody is in). `OwnerInv` says at which places a thread owns the word,
  `ListInv` and `MarkInv` that its robust list or pending operation covers it
  there and that the word is marked where the owner died, `QueueInv` that the
  waiters bit and the kernel's queue fit, `KilledInv` where the threads of a dying
  process are. `MutexInv` alone is not inductive: that a death is seen needs the
  place at which the thread dies. `IsRobustLock` is the refinement: `LockOf` reads
  the abstract owner off `OwnerInv`, `MoveOf` says what a thread's move does to
  those inside and those who want in, and every action is then one abstract
  action or none. Its only assumption is that a thread is not called like the
  mark (`OwnerDiedIsNobody`).
* `MutexProofs`, of `NamedMutex` for any finite set of processes:
  `OneSegmentForAll` (`NamedInv`) and `NameExcludes` (`MutualExclusion`), the run's
  properties. Nothing is assumed of when they open and close: `HeldByInside` holds
  whatever races, `OneMutex` and exclusion until a race. `PlaceInv` relates a
  process's place with its count and segment; `OwnInv` says that who is inside owns
  the lock, `AloneInv` that what one clears or removes nobody else has, both until a
  race; and `CountInv` that the segment's count covers those who have it, so that
  who takes off the last reference is the last.
* `AccountsProofs`, of the instance `Users` in `MCMutex`, whose constants are
  parameters like any: `DirsAreThere`, `TokensFitTheFile`, `NobodySeesHalfAUser`,
  `KeysAreKept`, from `LockInv` (one process in the mutex of a spelling, with a password), `DirInv`
  (which directories a place has found), `FileInv` (what the file is while a
  process creates it) and `KeyInv` (which key a place has read or written). With
  two spellings, a lost key or a misread file the theorems say what is left: the
  directories in any case, `ExistsMeansUsable` also after a misread, `KeyKept` also
  after a lost key.
* `WindowProofs`: `EveryListEmitted`, `PagesAgree`, `EditsOwn`, `BoxAdvances`. A
  lemma per handler of `Pages` says that it keeps the pages (`UiInv`) and which
  task the detail page has after it. `ThreadInv` says which account and login the
  thread works for, `OrderInv` that box, queue and the thread's list are of
  ascending logins and versions, of logins that were, and of their account;
  `CountInv` that there are no more emissions than changes and logins, which
  bounds `pending`; `DetailInv` is the user who waits. `NeverBack` follows from
  `OrderInv`: what `Dispatch` takes is after what the box shows.
* `ReminderProofs`: `RemindsNotEarly`, `RemindsOnce`, `RemindsOfAccount`, from
  `LoginInv` (whose account the thread works for), `TimeInv` (its minute against
  the clock), `QueueInv` and `ShownInv` (the minutes that wait or were shown).

* `GuiProofs`, of `ReaderWriterQueue` for any number of blocks of any sizes that
  `QueueAssumption` allows (powers of two, finitely many): `QueueIsSound`
  (`QueueInv`) and `MissesNothing` (`NothingMissed`). A block is described by
  distances around its ring (`Gap`): a thread's copy of the other's index is never
  past it (`ShadowsOK`). Blocks are *busy* (from the front block to the tail
  block, found by following `next`), free, or *pending* while the producer links
  them. `BlocksOK` and `RingInv` say so of the blocks, `ProdInv` and `ConsInv` what
  each thread knows at each of its places, `LiveInv` that what was constructed and
  not destroyed is what the blocks hold. `QueueInv` needs them all: that a slot is
  destroyed once rests on who may move which index.
* `QueueIsFifo`, the refinement. The abstract queue is the busy blocks' elements
  joined; `IsPath` is the order of the busy blocks and `PathInv` that there is one.
  Steps that change no element of a busy block are `Quiet`; `Publish` and `Advance`
  put one in at the end, `Take` takes the first one out. `BesidesInv` is what this
  needs and `IInv` does not say: a block that is being linked holds one element,
  and what a consumer reads behind an empty front block is the next block's.
* `GuiProofs`, of `LocalTime`: `ShowsWhatWasTyped` and `OkKeepsTheTime`, for every
  zone and every time that fits (`TimesFit`: what is typed is between the epoch
  and the last `TimeInt`). `AloneInv` says what the buffer holds during a
  conversion that no other overlaps; the rest is division with remainder.
* `GuiProofs`, of `FlowBox`, for lists of any length: `BoxHoldsTheList` (`BoxInv`)
  and `OrderIsKept` (`OrderKept`), by induction over the rounds of `set_tasks`:
  which children the box has after the first *n* tasks were placed, and, if what
  comes is one insertion, erasure or edit, where each one stands.
* `TaskBytesProofs`, for lists, names and segments of any length and any size of
  blocks: `ParseGet` (`parse_string` gives back what `get_string` wrote) and
  `DecryptEncrypt`, by induction over the list and the string; on these rest
  `ReadsWhatWasStored` (`BytesInv`) and `FileGivesWhatWasSaved`
  (`FileHoldsSaved`), with `CallInv` for the middle of a copy. `TearsOnlyTheRest`
  is `TearSparesPrefix`: `StartInv` says that after any number of deaths the
  segment still begins with the string of the tasks before the tear.

Induction over data. The library's induction theorems cannot be cited here. The
library's `WFMin` (a set of numbers that is not empty has a least element) can,
and `ListLemmas` takes from it `InductionUpTo` (a set that holds 0 and with every
number the next) and `Recursion` (a function defined step by step exists), which
the proofs about lists and strings use with a set for the induction's statement.

Assumed are only the named assumptions on constants, which TLC evaluates in
every run. Every invariant and every safety property that a passing run
checks is a theorem, under the conditions named, which that run's instance meets.
Only model-checked is all liveness (`CallReturns` of `Schedule` and of `Accounts`, `LockReturns`,
`JoinReturns`, `Converges`, `RemindsInTime`), which needs fairness and `ENABLED`, out of TLAPS's
reach.

## Not modelled

* Formatting, tables, dialogs, widget layout, filters and icons, the parsing of
  commands and options: pure output or pure functions that no property speaks of.
  A one-shot command is one process that makes one call of `Accounts` and one of
  `Schedule`.
* The cipher, the hash and the UUID: taken to be injective and invertible.
* The file system's own crash behaviour and a restart of the machine; a file that is
  cut short by a death is in `TaskBytes`.
* The Windows variants of cpp-ipc; `try_lock` and timed locks, which nothing calls.
* A failure to map the mutex's memory, after which `lock()` returns false and
  `scoped_lock` goes on.
* Several threads of one process in `Schedule`: they lock the same mutex and have a
  cache each, so a thread behaves like one more process of the model that shares a
  mapping; the mapping's sharing itself is not modelled. (`RobustMutex` has threads.)
* Vendored libraries beyond the calls the code makes. They are nine tenths of the
  lines under `src/`: tinyfiledialogs, ghc::filesystem, cxxopts, tabulate, plusaes,
  stduuid and nowide are pure or wrap one system call each. What of them is shared
  by threads or processes, cpp-ipc's mutex and memory and the reader-writer queue,
  is modelled.

## Plan

1. *(done)* `TaskList`, `Schedule`, `AtomicSchedule`, the refinement, the mutex and
   count proofs.
2. *(done)* `RobustMutex` and `NamedMutex`; `Accounts`; `ReaderWriterQueue`; `Window`,
   `Pages`, `FlowBox`, `Reminder`; `LocalTime`, `TaskBytes`.
3. *(done)* Proofs about `RobustMutex`, `NamedMutex`, `Accounts`, `Window`, `Reminder`.
4. *(done)* Proofs about the lists, caches and file of `Schedule`, and its
   refinement.
5. *(done)* Proofs about `ReaderWriterQueue`, `LocalTime`, `FlowBox` and
   `TaskBytes`; the refinements `ImplementsRobustLock` and `ImplementsFifo`;
   `FileHasList` without the condition on ids; `ListSurvives`, and `CallsAreAtomic`
   with the deaths that `schedule_crash` allows.
