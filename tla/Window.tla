------------------------------ MODULE Window ------------------------------
(***************************************************************************)
(* The window (gui-gtk, Window.cpp): the main loop with its handlers, the  *)
(* thread that polls the schedule and sends its lists through a queue and  *)
(* a dispatcher, other processes that change the schedules, and changes of *)
(* account.  Schedule's calls are atomic here, as ScheduleImplements shows *)
(* them to be, and the queue is the one of Fifo.                           *)
(***************************************************************************)
EXTENDS Naturals, Sequences, Pages

CONSTANTS
  Account, NoAccount,
  IdStop,      \* bound: the ids of tasks; every account numbers its own
  EditStop,    \* bound: changes of the schedules
  LoginStop    \* bound: changes of account

VARIABLES
  waits,    \* does the user select no task before the account's list shows?
  lists,    \* of each account: the ids of its tasks, and the version
  account,  \* m_schedule_ptr
  main,     \* the main loop: "loop", "joining" or "closed"
  target,   \* the account to join for, NoAccount to close the window
  run,      \* the flag that keeps the thread running
  sync,     \* where the thread is
  mine,     \* the thread's copy of m_schedule_ptr, and of which login it is
  seen,     \* the version of its cached list
  batch,    \* the list it is about to send, with where and when it is from
  queue,    \* the lists on their way
  pending,  \* the emissions the main loop has yet to dispatch
  box,      \* the list in the flow box
  ui,       \* the pages
  edits, logins

threadVars == <<run, sync, mine, seen, batch>>
vars == <<waits, lists, account, main, target, threadVars, queue, pending, box, ui,
          edits, logins>>

ASSUME WindowConstants ==
  /\ NoAccount \notin Account
  /\ IdStop \in Nat /\ EditStop \in Nat /\ LoginStop \in Nat
  /\ None \notin 1..IdStop \union [of : Account, id : 1..IdStop]

Id == 1..IdStop

\* The list of the account a thread works for, as it is now.
List(m) ==
  [of |-> m.of, login |-> m.login, version |-> lists[m.of].version,
   tasks |-> {[of |-> m.of, id |-> i] : i \in lists[m.of].ids}]

NoList == [of |-> NoAccount, login |-> 0, version |-> 0, tasks |-> {}]

\* No schedule; the user button is pressed.
Init ==
  /\ waits \in BOOLEAN
  /\ lists \in [Account -> {[ids |-> S, version |-> 1] : S \in SUBSET Id}]
  /\ account = NoAccount
  /\ main = "loop" /\ target = NoAccount
  /\ run = FALSE /\ sync = "none" /\ mine = [of |-> NoAccount, login |-> 0] /\ seen = 0
  /\ batch = NoList /\ queue = <<>> /\ pending = 0
  /\ box = NoList
  /\ ui = ClickUser(Blank)
  /\ edits = 0 /\ logins = 0

\* A store raises the version.
Changed(a, ids) ==
  /\ edits < EditStop
  /\ edits' = edits + 1
  /\ lists' = [lists EXCEPT ![a] = [ids |-> ids, version |-> @.version + 1]]

\* Another process inserts, erases or edits.
ChangeElsewhere(a) ==
  /\ \E i \in Id : \E S \in {lists[a].ids \union {i}, lists[a].ids \ {i}} :
       Changed(a, S)
  /\ UNCHANGED <<waits, account, main, target, threadVars, queue, pending, box,
                 ui, logins>>

-----------------------------------------------------------------------------
(***************************************************************************)
(* sync_thread_func.                                                       *)
(***************************************************************************)
threadElse == <<waits, lists, account, main, target, box, ui, edits, logins>>

Start ==
  /\ sync = "start"
  /\ sync' = "test"
  /\ mine' = [of |-> account, login |-> logins]
  /\ UNCHANGED <<run, seen, batch, queue, pending, threadElse>>

Test ==
  /\ sync = "test"
  /\ sync' = IF run THEN "read" ELSE "off"
  /\ UNCHANGED <<run, mine, seen, batch, queue, pending, threadElse>>

\* GetTasks(&updated), in the thread's own cache.
Read ==
  /\ sync = "read"
  /\ \/ /\ lists[mine.of].version > seen
        /\ sync' = "enqueue"
        /\ seen' = lists[mine.of].version
        /\ batch' = List(mine)
     \/ /\ lists[mine.of].version <= seen
        /\ sync' = "wait"
        /\ UNCHANGED <<seen, batch>>
  /\ UNCHANGED <<run, mine, queue, pending, threadElse>>

\* Slip: the main loop is told before the list is there.
EmitFirst ==
  /\ sync = "enqueue"
  /\ sync' = "emit"
  /\ pending' = pending + 1
  /\ UNCHANGED <<run, mine, seen, batch, queue, threadElse>>

Enqueue ==
  /\ sync = "enqueue"
  /\ sync' = "emit"
  /\ queue' = Append(queue, batch)
  /\ UNCHANGED <<run, mine, seen, batch, pending, threadElse>>

Emit ==
  /\ sync = "emit"
  /\ sync' = "wait"
  /\ pending' = pending + 1
  /\ UNCHANGED <<run, mine, seen, batch, queue, threadElse>>

\* Slip: the thread waits for changes only, not also for the flag.
WaitForNotice ==
  /\ sync = "wait"
  /\ lists[mine.of].version > seen
  /\ sync' = "test"
  /\ UNCHANGED <<run, mine, seen, batch, queue, pending, threadElse>>

\* wait_for returns, notified or after 100 ms.
Wait ==
  /\ sync = "wait"
  /\ sync' = "test"
  /\ UNCHANGED <<run, mine, seen, batch, queue, pending, threadElse>>

Thread == Start \/ Test \/ Read \/ Enqueue \/ Emit \/ Wait

-----------------------------------------------------------------------------
(***************************************************************************)
(* Handlers of the main loop.                                              *)
(***************************************************************************)
\* Slip: the page that is open stays open.
SwitchKeepsPage(a) ==
  /\ account' = a
  /\ run' = TRUE /\ sync' = "start" /\ seen' = 0
  /\ main' = "loop"
  /\ UNCHANGED <<mine, batch, ui>>

\* The rest of set_schedule, and goto_list_page: a new Schedule object, whose
\* caches are empty, and a new thread.
Switch(a) ==
  /\ account' = a
  /\ run' = TRUE /\ sync' = "start" /\ seen' = 0
  /\ ui' = ListPage(ui)
  /\ main' = "loop"
  /\ UNCHANGED <<mine, batch>>

\* Slip: the thread is neither waited for nor started anew.
LoginAtOnce(a) ==
  /\ main = "loop" /\ a # account /\ logins < LoginStop
  /\ logins' = logins + 1
  /\ target' = a
  /\ \/ sync = "none" /\ Switch(a)
     \/ /\ sync # "none"
        /\ account' = a
        /\ ui' = ListPage(ui)
        /\ UNCHANGED <<main, threadVars>>
  /\ UNCHANGED <<waits, lists, queue, pending, box, edits>>

\* user_login or user_register got a schedule of another account.
Login(a) ==
  /\ main = "loop" /\ a # account /\ logins < LoginStop
  /\ logins' = logins + 1
  /\ target' = a
  /\ \/ sync = "none" /\ Switch(a)
     \/ /\ sync # "none"
        /\ main' = "joining" /\ run' = FALSE
        /\ UNCHANGED <<account, ui, sync, mine, seen, batch>>
  /\ UNCHANGED <<waits, lists, queue, pending, box, edits>>

\* ~Window
Close ==
  /\ main = "loop"
  /\ main' = "joining" /\ target' = NoAccount /\ run' = FALSE
  /\ UNCHANGED <<waits, lists, account, sync, mine, seen, batch, queue,
                 pending, box, ui, edits, logins>>

\* The thread has ended.
Joined ==
  /\ main = "joining" /\ sync \in {"off", "none"}
  /\ \/ target # NoAccount /\ Switch(target)
     \/ /\ target = NoAccount
        /\ main' = "closed"
        /\ UNCHANGED <<account, threadVars, ui>>
  /\ UNCHANGED <<waits, lists, target, queue, pending, box, edits, logins>>

\* Slip: the newest list first.
DispatchNewest ==
  /\ main = "loop" /\ pending > 0
  /\ pending' = pending - 1
  /\ queue # <<>>
  /\ queue' = SubSeq(queue, 1, Len(queue) - 1)
  /\ box' = queue[Len(queue)]
  /\ ui' = Show(ui, queue[Len(queue)].tasks)
  /\ UNCHANGED <<waits, lists, account, main, target, threadVars, edits,
                 logins>>

\* The sync dispatcher's handler.
Dispatch ==
  /\ main = "loop" /\ pending > 0
  /\ pending' = pending - 1
  /\ IF queue = <<>> THEN UNCHANGED <<queue, box, ui>>
     ELSE /\ queue' = Tail(queue)
          /\ box' = Head(queue)
          /\ ui' = Show(ui, Head(queue).tasks)
  /\ UNCHANGED <<waits, lists, account, main, target, threadVars, edits,
                 logins>>

\* The user clicks a header button (that for insertion needs a schedule),
\* beside the flap, a task, or Detail in a message about some id.
Click ==
  /\ main = "loop"
  /\ \/ ui' = ClickUser(ui)
     \/ account # NoAccount /\ ui' = ClickInsert(ui)
     \/ ui.reveal /\ ui' = ClickBeside(ui)
     \/ /\ waits => box.login = logins
        /\ \E t \in box.tasks : ui' \in {ClickTask(ui, t), Activate(ui, t)}
  /\ UNCHANGED <<waits, lists, account, main, target, threadVars, queue,
                 pending, box, edits, logins>>

\* The insert page's OK: the new task's id is one above the largest.
Insert ==
  /\ main = "loop" /\ account # NoAccount
  /\ \E i \in Id :
       /\ \A j \in lists[account].ids : j < i
       /\ i = 1 \/ i - 1 \in lists[account].ids
       /\ Changed(account, lists[account].ids \union {i})
  /\ ui' = ListPage(ui)
  /\ UNCHANGED <<waits, account, main, target, threadVars, queue, pending,
                 box, logins>>

\* The detail page's Erase and its edits, by the id alone.
EditDetail ==
  /\ main = "loop" /\ account # NoAccount /\ ui.detail # None
  /\ ui.detail.id \in lists[account].ids
  /\ \E S \in {lists[account].ids, lists[account].ids \ {ui.detail.id}} :
       Changed(account, S)
  /\ UNCHANGED <<waits, account, main, target, threadVars, queue, pending, box,
                 ui, logins>>

Next ==
  \/ Thread \/ Dispatch \/ Joined \/ Close \/ Click \/ Insert \/ EditDetail
  \/ \E a \in Account : Login(a) \/ ChangeElsewhere(a)

Spec == Init /\ [][Next]_vars

\* The thread is scheduled, and the main loop comes to its handlers.
FairSpec ==
  Spec /\ WF_vars(Thread) /\ WF_vars(Dispatch) /\ WF_vars(Joined)

-----------------------------------------------------------------------------
(***************************************************************************)
(* Properties.                                                             *)
(***************************************************************************)
TaskType == [of : Account, id : Id]
ListType ==
  [of : Account \union {NoAccount}, login : 0..LoginStop, version : Nat,
   tasks : SUBSET TaskType]

TypeOK ==
  /\ waits \in BOOLEAN
  /\ lists \in [Account -> [ids : SUBSET Id, version : 1..(EditStop + 1)]]
  /\ {account, target} \subseteq Account \union {NoAccount}
  /\ main \in {"loop", "joining", "closed"}
  /\ run \in BOOLEAN
  /\ sync \in {"none", "start", "test", "read", "enqueue", "emit", "wait",
              "off"}
  /\ mine \in [of : Account \union {NoAccount}, login : 0..LoginStop]
  /\ seen \in 0..(EditStop + 1)
  /\ {batch, box} \subseteq ListType
  /\ queue \in Seq(ListType)
  /\ pending \in 0..(EditStop + LoginStop)
  /\ ui \in [user : BOOLEAN, insert : BOOLEAN, pressed : SUBSET Id,
             active : Id \union {None}, detail : TaskType \union {None},
             page : {"user", "insert", "detail"}, reveal : BOOLEAN]
  /\ edits \in 0..EditStop /\ logins \in 0..LoginStop

\* Every list in the queue has its emission, made or about to be made: the
\* handler never comes in vain, and no list stays behind unseen.
EmissionPerList ==
  Len(queue) = pending + (IF sync = "emit" THEN 1 ELSE 0)

WindowInv == TypeOK /\ EmissionPerList

\* The pages, buttons and the flap agree, and the task of the detail page is
\* one of the tasks in the box, whatever is clicked, whatever list arrives
\* and whatever account is logged in.
PagesInv ==
  /\ ButtonsAgree(ui) /\ ClosedIsClean(ui) /\ DetailAgrees(ui)
  /\ ui.detail # None => ui.detail \in box.tasks

\* The task of the detail page is one of the account that an edit of it
\* would change, if the user waits for the account's list.
DetailIsOwn == waits /\ ui.detail # None => ui.detail.of = account

\* The box never goes back to an earlier list, nor to one of an account that
\* was left, once it shows a later one.
NeverBack ==
  [][box' # box =>
       \/ box'.login > box.login
       \/ box'.login = box.login /\ box'.version > box.version]_vars

\* A change of account, or closing the window, does not wait forever.
JoinReturns == main = "joining" ~> main # "joining"

\* When no more changes come, the box shows the account's list.
Converges ==
  <>[](main = "loop" /\ account # NoAccount =>
         box = List([of |-> account, login |-> logins]))
============================================================================
