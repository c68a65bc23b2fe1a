----------------------------- MODULE Reminder -----------------------------
(***************************************************************************)
(* The thread that reminds of tasks, minute by minute, from login to login: *)
(* Shell::reminder_thread_func (cli), which reads the schedule itself and  *)
(* waits in a message box, and Window::remind_thread_func (gui-gtk), which *)
(* sends the minute to the main loop.  One task per account stands for its *)
(* list.                                                                   *)
(***************************************************************************)
EXTENDS Naturals, Sequences

CONSTANTS
  Account, NoAccount,
  NoTime,      \* the reminder of a task that is done or erased
  ClockStop,   \* bound: the last minute; the clock goes on unseen
  EditStop,    \* bound: edits of reminders
  LoginStop    \* bound: logins

VARIABLES
  queued,    \* the window's thread, not the shell's
  now,       \* the minute of the system clock
  remind,    \* each account's reminder
  account,   \* m_schedule_ptr
  main,      \* the main thread: "idle", "notifying" or "joining"
  target,    \* the account it joins for
  run,       \* m_thread_run
  pc,        \* where the reminding thread is
  mine,      \* its copy of m_schedule_ptr
  time,      \* its time_int
  queue,     \* the minutes on their way to the main loop
  shown,     \* the reminders that have been shown, by login
  edits,
  logins     \* threads that have been launched

vars == <<queued, now, remind, account, main, target, run, pc, mine, time, queue,
          shown, edits, logins>>

ASSUME ReminderConstants ==
  /\ NoAccount \notin Account
  /\ ClockStop \in Nat /\ EditStop \in Nat /\ LoginStop \in Nat
  /\ NoTime \notin Nat

Minute == 0..ClockStop

Init ==
  /\ queued \in BOOLEAN
  /\ now = 0
  /\ remind \in [Account -> Minute \union {NoTime}]
  /\ account = NoAccount
  /\ main = "idle" /\ target = NoAccount
  /\ run = FALSE /\ pc = "none" /\ mine = [of |-> NoAccount, login |-> 0]
  /\ time = 0 /\ queue = <<>>
  /\ shown = {}
  /\ edits = 0 /\ logins = 0

Tick ==
  /\ now < ClockStop
  /\ now' = now + 1
  /\ UNCHANGED <<queued, remind, account, main, target, run, pc, mine, time,
                 queue, shown, edits, logins>>

\* Somebody edits, finishes or erases the task, or inserts another.
Edit(a) ==
  /\ edits < EditStop
  /\ edits' = edits + 1
  /\ \E m \in Minute \union {NoTime} : remind' = [remind EXCEPT ![a] = m]
  /\ UNCHANGED <<queued, now, account, main, target, run, pc, mine, time,
                 queue, shown, logins>>

-----------------------------------------------------------------------------
(***************************************************************************)
(* The thread.                                                             *)
(***************************************************************************)
threadElse == <<queued, now, remind, account, main, target, run, edits, logins>>

Move(from, to) == pc = from /\ pc' = to

\* ++time_int; the minutes after the last are not told apart.
Later(t) == IF t > ClockStop THEN t ELSE t + 1

Start ==
  /\ Move("start", "test")
  /\ mine' = [of |-> account, login |-> logins]
  /\ time' = now
  /\ UNCHANGED <<queue, shown, threadElse>>

Test ==
  /\ Move("test", IF run THEN "visit" ELSE "off")
  /\ UNCHANGED <<mine, time, queue, shown, threadElse>>

\* What the account's list has to remind of in a minute.
Reminders(m, t) ==
  IF remind[m.of] = t THEN {[of |-> m.of, login |-> m.login, at |-> t]} ELSE {}

\* Slip: the minute is the clock's, not the thread's.
VisitNow ==
  /\ ~queued /\ pc = "visit"
  /\ IF Reminders(mine, now) = {}
     THEN Move("visit", "check") /\ time' = Later(now)
     ELSE Move("visit", "box") /\ time' = now
  /\ shown' = shown \union Reminders(mine, now)
  /\ UNCHANGED <<mine, queue, threadElse>>

\* The shell's thread reads the schedule and, if it has to remind of
\* something, opens the message box.
Visit ==
  /\ ~queued /\ pc = "visit"
  /\ IF Reminders(mine, time) = {}
     THEN Move("visit", "check") /\ time' = Later(time)
     ELSE Move("visit", "box") /\ UNCHANGED time
  /\ shown' = shown \union Reminders(mine, time)
  /\ UNCHANGED <<mine, queue, threadElse>>

\* Slip: the minute is not counted on.
AnswerAgain ==
  /\ Move("box", "check")
  /\ UNCHANGED <<mine, time, queue, shown, threadElse>>

\* The user closes the box.
Answer ==
  /\ Move("box", "check")
  /\ time' = Later(time)
  /\ UNCHANGED <<mine, queue, shown, threadElse>>

\* The window's thread sends the schedule and the minute.
Post ==
  /\ queued
  /\ Move("visit", "check")
  /\ queue' = IF time > ClockStop THEN queue
              ELSE Append(queue, [m |-> mine, t |-> time])
  /\ time' = Later(time)
  /\ UNCHANGED <<mine, shown, threadElse>>

\* wait_until: the predicate, then the wait for a notification or for the
\* minute to begin.
Check ==
  /\ Move("check", IF run THEN "drowsy" ELSE "test")
  /\ UNCHANGED <<mine, time, queue, shown, threadElse>>

Sleep ==
  /\ Move("drowsy", "asleep")
  /\ UNCHANGED <<mine, time, queue, shown, threadElse>>

\* Slip: the wait has no deadline.
TimeoutNever ==
  /\ FALSE
  /\ UNCHANGED vars

Timeout ==
  /\ time <= now \/ now = ClockStop
  /\ Move("asleep", "test")
  /\ UNCHANGED <<mine, time, queue, shown, threadElse>>

\* Slip: the wait has no predicate.
WakeToWork ==
  /\ Move("asleep", "test")
  /\ UNCHANGED <<mine, time, queue, shown, threadElse>>

\* A wait may also end for no reason.
Wake ==
  /\ Move("asleep", "check")
  /\ UNCHANGED <<mine, time, queue, shown, threadElse>>

Thread == Start \/ Test \/ Visit \/ Post \/ Check \/ Sleep \/ Timeout

-----------------------------------------------------------------------------
(***************************************************************************)
(* The main thread.                                                        *)
(***************************************************************************)
Launch(a) ==
  /\ account' = a
  /\ main' = "idle"
  /\ run' = TRUE
  /\ pc' = "start"
  /\ logins' = logins + 1

\* A schedule was acquired: the flag is taken off the running thread.  The
\* window refuses the account that is logged in; the shell does not.
Login(a) ==
  /\ main = "idle" /\ logins < LoginStop
  /\ queued => a # account
  /\ target' = a
  /\ \/ pc = "none" /\ Launch(a)
     \/ /\ pc # "none"
        /\ run' = FALSE /\ main' = "notifying"
        /\ UNCHANGED <<account, pc, logins>>
  /\ UNCHANGED <<queued, now, remind, mine, time, queue, shown, edits>>

\* notify_all reaches a thread that is waiting, and no other.
Notify ==
  /\ main = "notifying"
  /\ main' = "joining"
  /\ pc' = IF pc = "asleep" THEN "check" ELSE pc
  /\ UNCHANGED <<queued, now, remind, account, target, run, mine, time, queue,
                 shown, edits, logins>>

\* Slip: the schedule is replaced without waiting for the thread.
JoinedEarly ==
  /\ main = "joining"
  /\ account' = target
  /\ main' = "idle"
  /\ run' = TRUE
  /\ pc' = IF pc = "off" THEN "start" ELSE pc
  /\ logins' = logins + 1
  /\ UNCHANGED <<queued, now, remind, target, mine, time, queue, shown, edits>>

Joined ==
  /\ main = "joining" /\ pc = "off"
  /\ Launch(target)
  /\ UNCHANGED <<queued, now, remind, target, mine, time, queue, shown, edits>>

\* The remind dispatcher's handler: it reads the schedule that was sent.
Dispatch ==
  /\ main = "idle" /\ queue # <<>>
  /\ queue' = Tail(queue)
  /\ shown' = shown \union Reminders(Head(queue).m, Head(queue).t)
  /\ UNCHANGED <<queued, now, remind, account, main, target, run, pc, mine,
                 time, edits, logins>>

Next ==
  \/ Tick \/ Thread \/ Answer \/ Wake \/ Notify \/ Joined \/ Dispatch
  \/ \E a \in Account : Edit(a) \/ Login(a)

Spec == Init /\ [][Next]_vars

\* Both threads are scheduled, the clock goes on, the user closes the box,
\* and a wait does not end for no reason again and again without end.
FairSpec ==
  /\ Spec
  /\ WF_vars(Thread) /\ SF_vars(Timeout) /\ WF_vars(Answer) /\ WF_vars(Tick)
  /\ WF_vars(Notify) /\ WF_vars(Joined) /\ WF_vars(Dispatch)

-----------------------------------------------------------------------------
(***************************************************************************)
(* Properties.                                                             *)
(***************************************************************************)
LoginOf == [of : Account \union {NoAccount}, login : 0..LoginStop]

\* The thread is at most one minute ahead of the clock.
TypeOK ==
  /\ queued \in BOOLEAN
  /\ now \in Minute
  /\ remind \in [Account -> Minute \union {NoTime}]
  /\ {account, target} \subseteq Account \union {NoAccount}
  /\ main \in {"idle", "notifying", "joining"}
  /\ run \in BOOLEAN
  /\ pc \in {"none", "start", "test", "visit", "box", "check", "drowsy",
            "asleep", "off"}
  /\ mine \in LoginOf
  /\ time \in 0..(now + 1)
  /\ queue \in Seq([m : LoginOf, t : Minute])
  /\ shown \subseteq [of : Account, login : 1..LoginStop, at : Minute]
  /\ edits \in 0..EditStop /\ logins \in 0..LoginStop

\* No reminder comes before its minute, however the wait ends.
NeverEarly == \A r \in shown : r.at <= now

ReminderInv == TypeOK /\ NeverEarly

\* No reminder comes twice in a login: the thread is past the minutes it has
\* reminded of, unless the box is still open.
EachMinuteOnce ==
  \A r \in shown : r.login = mine.login /\ pc # "start" =>
    r.at < time \/ (pc = "box" /\ r.at = time)

\* In the shell a reminder is one of the account that is logged in.  In the
\* window it need not be: minutes of the account that was left may still be
\* on their way.
OfAccount ==
  [][\A r \in shown' \ shown : r.of = account \/ queued]_vars

\* A change of account does not wait forever, also when the notification
\* falls between the thread's test of the flag and its wait, or the message
\* box is open.
JoinReturns == main # "idle" ~> main = "idle"

\* The thread's account has a reminder in the minute.
Due(m) == mine.of \in Account /\ remind[mine.of] = m

\* A reminder that stands when the thread has yet to come to its minute is
\* shown, however long a message box kept the thread from it, unless it is
\* edited or the account changes.
RemindsInTime ==
  \A s \in 1..LoginStop, m \in Minute :
    (mine.login = s /\ logins = s /\ Due(m) /\ time <= m)
    ~> (\/ \E r \in shown : r.login = s /\ r.at = m
        \/ logins # s \/ ~Due(m))
============================================================================
