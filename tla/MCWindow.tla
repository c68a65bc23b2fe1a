----------------------------- MODULE MCWindow -----------------------------
(***************************************************************************)
(* Instances of Window: two accounts with up to two tasks each.            *)
(***************************************************************************)
EXTENDS Window
============================================================================
