---------------------------- MODULE MCMainView ----------------------------
(* MainView for TLC: the assumptions on its constants are evaluated. *)
EXTENDS MainView
=============================================================================
