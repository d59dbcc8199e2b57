---------------------------- MODULE MCPurchase ----------------------------
(* Purchase for TLC: the assumptions on its constants are evaluated. *)
EXTENDS Purchase
=============================================================================
