------------------------------- MODULE MCGui -------------------------------
(***************************************************************************)
(* Instances of three parts that share no state: the queue between the     *)
(* window's threads and its main loop (ReaderWriterQueue), the order of    *)
(* the flow box (FlowBox), and the times as they are shown and picked      *)
(* (LocalTime).  Each is explored while the others rest.                   *)
(***************************************************************************)
EXTENDS ReaderWriterQueueImplements, Integers

CONSTANTS
  b1, b2, b3,
  IdStop, KeyStop, CallStop,
  Thread, Main, Which, Typed, Zone, Summer, DayLength, TimeMod

VARIABLES
  part,   \* the one that is explored
  list, box, calls,
  window, stored, typed, pc, arg, buf, tm

MCBlock == {b1, b2, b3}

\* Days of two units, a zone two units ahead, a summer of four units, and
\* readings before, in and after it.
MCSummer == 6..9
MCReadings == {[day |-> n \div 2, unit |-> n % 2] : n \in {5, 9, 14, 15}}

Box == INSTANCE FlowBox
Clock == INSTANCE LocalTime

boxVars == <<list, box, calls>>
clockVars == <<window, stored, typed, pc, arg, buf, tm>>

ASSUME BoxConstants == Box!FlowBoxConstants
ASSUME ClockConstants == Clock!LocalTimeConstants

\* One state of the times stands for them while they rest.
MCInit ==
  /\ part \in {"queue", "box", "clock"}
  /\ Init /\ Box!Init /\ Clock!Init
  /\ part # "clock" => window /\ typed = [w \in Which |-> CHOOSE r \in Typed : TRUE]

MCNext ==
  \/ part = "queue" /\ Next /\ UNCHANGED <<part, boxVars, clockVars>>
  \/ part = "box" /\ Box!Next /\ UNCHANGED <<part, vars, clockVars>>
  \/ part = "clock" /\ Clock!Next /\ UNCHANGED <<part, vars, boxVars>>

MCSpec == MCInit /\ [][MCNext]_<<part, vars, boxVars, clockVars>>

\* After every update the box holds exactly the list's tasks.
BoxInv == Box!BoxInv

\* Calls of one kind between two updates leave the box in order, and the tasks
\* of a new account come in order.
OrderKept == Box!OrderKept

\* A time of the winter is shown as it was typed, if no two threads convert
\* at once.
ShownAsTyped == Clock!ShownAsTyped

\* An untouched picker changes nothing.
KeepChangesNothing == Clock!KeepChangesNothing
============================================================================
