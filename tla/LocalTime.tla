----------------------------- MODULE LocalTime -----------------------------
(***************************************************************************)
(* Times as they are kept and as they are read and typed: Time.cpp and     *)
(* Time.hpp (backend), the shell's commands and its reminding thread, and  *)
(* the pickers of the detail page.  A time counts units since the epoch; a *)
(* reading of the local clock is a day and a unit of that day.             *)
(***************************************************************************)
EXTENDS Integers, FiniteSets

CONSTANTS
  Thread, Main,   \* the threads that show times, the main thread among them
  Which,          \* the times of the task
  Typed,          \* the readings that are typed or picked
  Zone,           \* units by which local time is ahead
  Summer,         \* the times at which it is ahead by one unit more
  DayLength,      \* units of a day
  TimeMod         \* TimeInt is a uint32_t: times are kept modulo this

VARIABLES
  window,   \* the window, which has pickers and converts in its main thread
            \* alone; otherwise the shell
  stored,   \* the times of the task, as they are kept
  typed,    \* the readings that were given for them
  pc,       \* each thread's place in ToTimeInfo
  arg,      \* which time it converts, what was typed for that, and (history)
            \* whether no other thread converts at the same time
  buf,      \* the static tm of std::localtime
  tm        \* each thread's copy of it

vars == <<window, stored, typed, pc, arg, buf, tm>>

\* What the constants have to be.
LocalTimeConstants ==
  /\ Main \in Thread
  /\ Zone \in Int /\ DayLength \in Nat \ {0} /\ TimeMod \in Nat \ {0}
  /\ Typed \subseteq [day : Nat, unit : 0..(DayLength - 1)]

-----------------------------------------------------------------------------
(***************************************************************************)
(* The conversions.                                                        *)
(***************************************************************************)
Reading(n) == [day |-> n \div DayLength, unit |-> n % DayLength]

\* What std::localtime says of a time.
LocalTm(t) == Reading(t + Zone + IF t \in Summer THEN 1 ELSE 0)

\* Slip: the reading is taken for one of the zone of Greenwich.
ToTimePointUtc(r) == r.day * DayLength + r.unit

\* std::mktime with tm_isdst = 0: the reading is one of a clock that is never
\* put forward.
ToTimePoint(r) == r.day * DayLength + r.unit - Zone

ToTimeInt(r) == ToTimePoint(r) % TimeMod

Init ==
  /\ window \in BOOLEAN
  /\ \E r \in [Which -> Typed] :
       /\ typed = r
       /\ stored = [w \in Which |-> ToTimeInt(r[w])]
  /\ pc = [p \in Thread |-> "idle"]
  /\ arg = [p \in Thread |-> [w \in {} |-> w]]
  /\ buf = Reading(0)
  /\ tm = [p \in Thread |-> Reading(0)]

-----------------------------------------------------------------------------
(***************************************************************************)
(* ToTimeInfo: std::localtime fills its buffer, under a lock of its own,   *)
(* and returns; then the caller copies the buffer.                         *)
(***************************************************************************)
Step(p, from, to) ==
  /\ pc[p] = from
  /\ pc' = [pc EXCEPT ![p] = to]
  /\ UNCHANGED <<window, stored, typed>>

Converting == {"fill", "fillUnit", "copy", "copyUnit"}

\* A time is to be shown.
Ask(p) ==
  /\ p = Main \/ ~window
  /\ Step(p, "idle", "fill")
  /\ \E w \in Which :
       arg' = [q \in Thread |->
                 IF q = p
                 THEN [which |-> w, of |-> stored[w], typed |-> typed[w],
                       alone |-> \A r \in Thread : pc[r] \notin Converting]
                 ELSE IF pc[q] \in Converting
                 THEN [arg[q] EXCEPT !.alone = FALSE]
                 ELSE arg[q]]
  /\ UNCHANGED <<buf, tm>>

FillDay(p) ==
  /\ \A q \in Thread : pc[q] # "fillUnit"
  /\ Step(p, "fill", "fillUnit")
  /\ buf' = [buf EXCEPT !.day = LocalTm(arg[p].of).day]
  /\ UNCHANGED <<arg, tm>>

FillUnit(p) ==
  /\ Step(p, "fillUnit", "copy")
  /\ buf' = [buf EXCEPT !.unit = LocalTm(arg[p].of).unit]
  /\ UNCHANGED <<arg, tm>>

CopyDay(p) ==
  /\ Step(p, "copy", "copyUnit")
  /\ tm' = [tm EXCEPT ![p].day = buf.day]
  /\ UNCHANGED <<arg, buf>>

CopyUnit(p) ==
  /\ Step(p, "copyUnit", "shown")
  /\ tm' = [tm EXCEPT ![p].unit = buf.unit]
  /\ UNCHANGED <<arg, buf>>

\* The thread's copy is a local variable; the buffer stays as it is.
Forget(p) ==
  /\ arg' = [arg EXCEPT ![p] = [w \in {} |-> w]]
  /\ tm' = [tm EXCEPT ![p] = Reading(0)]
  /\ UNCHANGED buf

Done(p) ==
  /\ Step(p, "shown", "idle")
  /\ Forget(p)

-----------------------------------------------------------------------------
(***************************************************************************)
(* The main thread, between two conversions.                               *)
(***************************************************************************)
Save(w, r) ==
  /\ stored' = [stored EXCEPT ![w] = ToTimeInt(r)]
  /\ typed' = [typed EXCEPT ![w] = r]
  /\ UNCHANGED window

\* The user types a time.
Type(w, r) ==
  /\ pc[Main] = "idle"
  /\ Save(w, r)
  /\ UNCHANGED <<pc, arg, buf, tm>>

\* The user opens the picker, which is set to the time that is shown, and
\* presses ok.
Keep ==
  /\ window /\ pc[Main] = "shown"
  /\ pc' = [pc EXCEPT ![Main] = "idle"]
  /\ Save(arg[Main].which, tm[Main])
  /\ Forget(Main)

Next ==
  \/ \E p \in Thread :
       \/ Ask(p) \/ FillDay(p) \/ FillUnit(p) \/ CopyDay(p) \/ CopyUnit(p)
       \/ Done(p)
  \/ Keep
  \/ \E w \in Which, r \in Typed : Type(w, r)

Spec == Init /\ [][Next]_vars

-----------------------------------------------------------------------------
(***************************************************************************)
(* Properties.                                                             *)
(***************************************************************************)
\* A time of the winter is shown as it was typed, through the zone, the width
\* of TimeInt and the buffer that all conversions share: if no two threads
\* convert at once.
ShownAsTyped ==
  \A p \in Thread :
    pc[p] = "shown" /\ arg[p].alone /\ arg[p].of \notin Summer =>
      tm[p] = arg[p].typed

\* Pressing ok in a picker that shows a time of the winter, and was not
\* touched, changes nothing.
KeepChangesNothing ==
  [][Keep /\ arg[Main].alone /\ arg[Main].of \notin Summer =>
       UNCHANGED stored]_vars
============================================================================
