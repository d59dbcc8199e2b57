------------------------------- MODULE MCFreeTime -------------------------------
(* Instance of FreeTime: a grant of three seconds, rewards of one or two.     *)
EXTENDS FreeTime

MCRewards == {1, 2}
=============================================================================
