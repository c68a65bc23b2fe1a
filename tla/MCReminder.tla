---------------------------- MODULE MCReminder ----------------------------
(***************************************************************************)
(* An instance of Reminder, for the shell and for the window.              *)
(***************************************************************************)
EXTENDS Reminder
============================================================================
