--------------------------- MODULE ReminderProofs ---------------------------
(***************************************************************************)
(* What the reminding threads promise, for any accounts, any clock and any *)
(* number of edits and logins: proofs about Reminder.                      *)
(***************************************************************************)
EXTENDS Reminder, SequenceTheorems, TLAPS

Entry == [m : LoginOf, t : Minute]
Working == pc \notin {"none", "start"}

\* The thread is there from the first login on, and works for the account
\* that is logged in: a join that is under way has taken the flag.
LoginInv ==
  /\ pc # "none" => account \in Account /\ logins \in 1..LoginStop
  /\ main # "idle" => target \in Account /\ logins < LoginStop /\ ~run
  /\ Working => mine.of = account /\ mine.login = logins

\* It looks at a minute that has begun, or at none that a task can have.
TimeInv ==
  (pc \in {"visit", "box"} \/ (pc = "test" /\ run))
    => time <= now \/ time > ClockStop

\* The minutes on their way have begun too, are of a login that was, and, if
\* of this one, are behind the thread.
QueueInv ==
  /\ ~queued \/ pc = "none" => queue = <<>>
  /\ \A i \in 1..Len(queue) :
       /\ queue[i].m.of \in Account /\ queue[i].m.login \in 1..logins
       /\ queue[i].t <= now
       /\ pc = "start" => queue[i].m.login < logins
       /\ Working /\ queue[i].m.login = logins => queue[i].t < time

\* What was shown is of a login that was.
ShownInv ==
  /\ pc = "none" => shown = {}
  /\ \A r \in shown :
       /\ r.login <= logins
       /\ pc = "start" => r.login < logins
       /\ Working /\ r.login = logins =>
            r.at < time \/ (pc = "box" /\ r.at = time)

Inv == TypeOK /\ NeverEarly /\ LoginInv /\ TimeInv /\ QueueInv /\ ShownInv

USE ReminderConstants DEF ReminderConstants

\* The minutes on their way, as they are and after one was sent or taken.
LEMMA Entries ==
  ASSUME NEW S, NEW q \in Seq(S)
  PROVE  /\ Len(q) \in Nat
         /\ \A i \in 1..Len(q) : q[i] \in S
         /\ \A e \in S :
              /\ Append(q, e) \in Seq(S)
              /\ Len(Append(q, e)) = Len(q) + 1
              /\ \A i \in 1..(Len(q) + 1) :
                   Append(q, e)[i] = IF i <= Len(q) THEN q[i] ELSE e
         /\ q # <<>> =>
              /\ Head(q) = q[1] /\ Len(q) >= 1
              /\ Tail(q) \in Seq(S)
              /\ Len(Tail(q)) = Len(q) - 1
              /\ \A i \in 1..(Len(q) - 1) : Tail(q)[i] = q[i + 1]
  <1>1. Len(q) \in Nat /\ \A i \in 1..Len(q) : q[i] \in S
    BY ElementOfSeq, LenProperties
  <1>2. ASSUME NEW e \in S
        PROVE  /\ Append(q, e) \in Seq(S)
               /\ Len(Append(q, e)) = Len(q) + 1
               /\ \A i \in 1..(Len(q) + 1) :
                    Append(q, e)[i] = IF i <= Len(q) THEN q[i] ELSE e
    BY AppendProperties
  <1>3. ASSUME q # <<>>
        PROVE  /\ Head(q) = q[1] /\ Len(q) >= 1
               /\ Tail(q) \in Seq(S)
               /\ Len(Tail(q)) = Len(q) - 1
               /\ \A i \in 1..(Len(q) - 1) : Tail(q)[i] = q[i + 1]
    BY <1>1, <1>3, HeadTailProperties, EmptySeq
  <1> QED BY <1>1, <1>2, <1>3

LEMMA InitInv ==
  ASSUME Init
  PROVE  Inv
  <1>1. TypeOK
    <2>1. <<>> \in Seq([m : LoginOf, t : Minute])
      OBVIOUS
    <2>2. remind \in [Account -> Minute \union {NoTime}]
      BY DEF Init
    <2>3. mine \in LoginOf
      BY DEF Init, LoginOf
    <2>4. now \in Minute /\ time \in 0..(now + 1) /\ edits \in 0..EditStop
          /\ logins \in 0..LoginStop
      BY DEF Init, Minute
    <2>5. shown \subseteq [of : Account, login : 1..LoginStop, at : Minute]
      BY DEF Init
    <2>6. queued \in BOOLEAN /\ run \in BOOLEAN
      BY Zenon DEF Init
    <2> QED BY <2>1, <2>2, <2>3, <2>4, <2>5, <2>6 DEF Init, TypeOK
  <1>2. NeverEarly /\ LoginInv /\ TimeInv /\ QueueInv /\ ShownInv
    BY DEF Init, NeverEarly, LoginInv, TimeInv, QueueInv, ShownInv, Working
  <1> QED BY <1>1, <1>2 DEF Inv

(***************************************************************************)
(* A step of the thread keeps the invariant.                               *)
(***************************************************************************)
LEMMA ThreadInv ==
  ASSUME Inv, Thread \/ Answer \/ Wake
  PROVE  Inv'
  <1>q. queue \in Seq(Entry)
    BY DEF Inv, TypeOK, Entry
  <1>e. \A i \in 1..Len(queue) : queue[i] \in Entry
    BY <1>q, Entries
  <1> USE DEF Inv, TypeOK, NeverEarly, LoginInv, TimeInv, QueueInv, ShownInv,
              LoginOf, Working, Minute, Move, threadElse
  <1>s. \A r \in shown : r.at \in Minute /\ r.login \in Nat
    OBVIOUS
  <1>1. CASE Start
    BY <1>1 DEF Start
  <1>2. CASE Test
    BY <1>2 DEF Test
  <1>3. CASE Visit
    BY <1>3 DEF Visit, Reminders, Later
  <1>4. CASE Post
    <2>e. time <= ClockStop => [m |-> mine, t |-> time] \in Entry
      BY DEF Entry
    <2>q. queue' \in Seq(Entry)
      BY <1>4, <2>e, <1>q, Entries DEF Post
    <2>1. TypeOK'
      BY <1>4, <2>q DEF Post, Later, Entry
    <2>2. QueueInv'
      BY <1>4, <1>q, <1>e, <2>e, Entries DEF Post, Later, Entry
    <2>3. (NeverEarly /\ LoginInv /\ TimeInv /\ ShownInv)'
      BY <1>4, <1>s DEF Post, Later
    <2> QED BY <2>1, <2>2, <2>3
  <1>5. CASE Check
    BY <1>5 DEF Check
  <1>6. CASE Sleep
    BY <1>6 DEF Sleep
  <1>7. CASE Timeout
    BY <1>7 DEF Timeout
  <1>8. CASE Answer
    <2>1. \A r \in shown : r.at <= time => r.at < Later(time)
      BY <1>s DEF Later
    <2>2. ShownInv'
      BY <1>8, <1>s, <2>1 DEF Answer
    <2>3. QueueInv'
      BY <1>8, <1>e DEF Answer, Later, Entry
    <2>4. (TypeOK /\ NeverEarly /\ LoginInv /\ TimeInv)'
      BY <1>8 DEF Answer, Later
    <2> QED BY <2>2, <2>3, <2>4
  <1>9. CASE Wake
    BY <1>9 DEF Wake
  <1> QED
    BY <1>1, <1>2, <1>3, <1>4, <1>5, <1>6, <1>7, <1>8, <1>9 DEF Thread

LEMMA MainInv ==
  ASSUME Inv, Next, ~(Thread \/ Answer \/ Wake)
  PROVE  Inv'
  <1>q. queue \in Seq(Entry)
    BY DEF Inv, TypeOK, Entry
  <1>e. \A i \in 1..Len(queue) : queue[i] \in Entry
    BY <1>q, Entries
  <1> USE DEF Inv, TypeOK, NeverEarly, LoginInv, TimeInv, QueueInv, ShownInv,
              LoginOf, Working, Minute
  <1>s. \A r \in shown : r.at \in Minute /\ r.login \in Nat
    OBVIOUS
  <1>1. CASE Tick
    BY <1>1, <1>e, <1>s DEF Tick, Entry
  <1>2. CASE Notify
    BY <1>2 DEF Notify
  <1>3. CASE Joined
    BY <1>3 DEF Joined, Launch
  <1>4. CASE Dispatch
    <2>1. TypeOK'
      BY <1>4, <1>q, <1>e, Entries DEF Dispatch, Reminders, Entry
    <2>2. QueueInv'
      BY <1>4, <1>q, <1>e, Entries DEF Dispatch, Entry
    <2>3. (NeverEarly /\ ShownInv)'
      BY <1>4, <1>q, <1>e, <1>s, Entries DEF Dispatch, Reminders, Entry
    <2>4. (LoginInv /\ TimeInv)'
      BY <1>4 DEF Dispatch
    <2> QED BY <2>1, <2>2, <2>3, <2>4
  <1>5. ASSUME NEW a \in Account, Edit(a) PROVE Inv'
    BY <1>5 DEF Edit
  <1>6. ASSUME NEW a \in Account, Login(a) PROVE Inv'
    <2>1. CASE pc = "none" /\ Launch(a)
      BY <1>6, <2>1 DEF Login, Launch
    <2>2. CASE pc # "none" /\ run' = FALSE /\ main' = "notifying"
              /\ UNCHANGED <<account, pc, logins>>
      BY <1>6, <2>2 DEF Login
    <2> QED BY <1>6, <2>1, <2>2 DEF Login
  <1> QED
    BY <1>1, <1>2, <1>3, <1>4, <1>5, <1>6 DEF Next

LEMMA StepInv ==
  ASSUME Inv, [Next]_vars
  PROVE  Inv'
  <1>1. CASE Next
    BY <1>1, ThreadInv, MainInv
  <1>2. CASE UNCHANGED vars
    BY <1>2 DEF vars, Inv, TypeOK, NeverEarly, LoginInv, TimeInv, QueueInv,
                ShownInv, LoginOf, Working, Minute
  <1> QED BY <1>1, <1>2

(***************************************************************************)
(* Theorems.                                                               *)
(***************************************************************************)
LEMMA Invariant == Spec => []Inv
  BY InitInv, StepInv, PTL DEF Spec

\* No reminder is shown before its minute, in the shell or in the window,
\* however waits end and whatever is edited meanwhile.
THEOREM RemindsNotEarly == Spec => []ReminderInv
  <1>1. Inv => ReminderInv
    BY DEF Inv, ReminderInv
  <1> QED BY <1>1, Invariant, PTL

\* No minute's reminder is shown twice in a login.
THEOREM RemindsOnce == Spec => []EachMinuteOnce
  <1>1. Inv => EachMinuteOnce
    BY DEF Inv, TypeOK, ShownInv, LoginInv, EachMinuteOnce, Working
  <1> QED BY <1>1, Invariant, PTL

\* The shell never reminds of tasks of an account that was left.
THEOREM RemindsOfAccount == Spec => OfAccount
  <1>1. ASSUME Inv, [Next]_vars
        PROVE  [\A r \in shown' \ shown : r.of = account \/ queued]_vars
    <2> USE DEF Inv, LoginInv, QueueInv, Working
    <2>1. CASE Visit
      BY <1>1, <2>1 DEF Visit, Reminders
    <2>2. CASE Dispatch
      BY <1>1, <2>2 DEF Dispatch
    <2>3. CASE ~Visit /\ ~Dispatch
      <3>1. shown' = shown \/ UNCHANGED vars
        BY <1>1, <2>3 DEF Next, Thread, Tick, Start, Test, Post, Check, Sleep,
             Timeout, Answer, Wake, Notify, Joined, Edit, Login, threadElse
      <3> QED BY <3>1
    <2> QED BY <2>1, <2>2, <2>3
  <1> QED BY <1>1, Invariant, PTL DEF Spec, OfAccount
=============================================================================
