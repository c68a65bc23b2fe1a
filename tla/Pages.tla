------------------------------- MODULE Pages -------------------------------
(***************************************************************************)
(* The pages of the window (gui-gtk, Window.cpp) and the buttons that open *)
(* them: two toggle buttons in the header, one per task in the flow box,   *)
(* and a flap that shows the user, insert or detail page or is closed.     *)
(*                                                                         *)
(* Each operator is a signal handler as a function of the record ui.  A    *)
(* handler that sets a button or the flap runs the handlers of those       *)
(* signals before it goes on, and so do the operators.                     *)
(***************************************************************************)
CONSTANT None

\* What is shown before the user button is pressed at start.
Blank == [user |-> FALSE, insert |-> FALSE,   \* the header's toggle buttons
          pressed |-> {},     \* the tasks whose buttons are down
          active |-> None,    \* m_active_child, by the task's id
          detail |-> None,    \* m_task of the detail page
          page |-> "user", reveal |-> FALSE]

\* flap_switched to the closed flap.  Each button it releases calls
\* goto_list_page in its turn, which by now only forgets the detail's task.
Closed(u) ==
  IF u.user \/ u.insert \/ u.active # None
  THEN [u EXCEPT !.user = FALSE, !.insert = FALSE, !.detail = None,
                 !.pressed = @ \ {u.active}, !.active = None]
  ELSE u

\* The user clicks beside the flap.
ClickBeside(u) == Closed([u EXCEPT !.reveal = FALSE])

\* goto_list_page
ListPage(u) ==
  LET v == [u EXCEPT !.detail = None, !.reveal = FALSE]
  IN  IF u.reveal THEN Closed(v) ELSE v

\* The active task's button comes up: its handler, and signal_deactivate's.
Release(u) ==
  LET v == [u EXCEPT !.pressed = @ \ {u.active}, !.active = None]
  IN  IF u.active = None THEN u
      ELSE IF u.user \/ u.insert THEN v ELSE ListPage(v)

\* The user button is clicked: its handler after the toggle.
ClickUser(u) ==
  IF u.user THEN LET v == [u EXCEPT !.user = FALSE]
                 IN  IF u.insert THEN v ELSE ListPage(v)
  ELSE [Release([u EXCEPT !.user = TRUE, !.insert = FALSE])
          EXCEPT !.detail = None, !.page = "user", !.reveal = TRUE]

ClickInsert(u) ==
  IF u.insert THEN LET v == [u EXCEPT !.insert = FALSE]
                   IN  IF u.user THEN v ELSE ListPage(v)
  ELSE [Release([u EXCEPT !.insert = TRUE, !.user = FALSE])
          EXCEPT !.detail = None, !.page = "insert", !.reveal = TRUE]

\* A task's button goes down: the one that was active comes up first.
Press(u, t) ==
  [Release([u EXCEPT !.pressed = @ \union {t.id}])
     EXCEPT !.active = t.id, !.detail = t, !.page = "detail", !.reveal = TRUE]

\* The button of task t is clicked.
ClickTask(u, t) ==
  IF t.id \notin u.pressed THEN Press(u, t)
  ELSE IF u.active = t.id THEN Release(u)
  ELSE [u EXCEPT !.pressed = @ \ {t.id}]

\* activate_children, from the Detail button of a message.
Activate(u, t) == IF t.id \in u.pressed THEN u ELSE Press(u, t)

\* Slip: the detail page keeps a task that is there no more.
ShowInBoxOnly(u, tasks) ==
  LET ids == {t.id : t \in tasks}
  IN  [u EXCEPT !.pressed = @ \intersect ids,
                !.active = IF @ \in ids THEN @ ELSE None]

\* The handler of the sync dispatcher for a list: set_tasks, where erased
\* children take their buttons with them, and update_from_tasks.
Show(u, tasks) ==
  LET ids == {t.id : t \in tasks}
      v == [u EXCEPT !.pressed = @ \intersect ids,
                     !.active = IF @ \in ids THEN @ ELSE None]
  IN  IF u.detail = None THEN v
      ELSE IF u.detail.id \notin ids THEN ListPage(v)
      ELSE [v EXCEPT !.detail = CHOOSE t \in tasks : t.id = u.detail.id]

-----------------------------------------------------------------------------
\* At most one header button is down, and of the tasks' buttons exactly the
\* active task's.
ButtonsAgree(u) ==
  /\ ~(u.user /\ u.insert)
  /\ u.pressed = {u.active} \ {None}

\* With the flap closed no button is down and no task is in the detail page.
ClosedIsClean(u) ==
  ~u.reveal => ~u.user /\ ~u.insert /\ u.active = None /\ u.detail = None

\* The task of the detail page is the active one, unless a header button is
\* down as well, and it is the detail page that shows.
DetailAgrees(u) ==
  u.detail # None =>
    /\ u.reveal /\ u.page = "detail"
    /\ u.active = u.detail.id \/ u.user \/ u.insert
===========================================================================
