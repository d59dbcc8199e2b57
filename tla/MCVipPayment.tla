---------------------------- MODULE MCVipPayment ----------------------------
(* VipPayment for TLC: the assumptions on its constants are evaluated. *)
EXTENDS VipPayment
=============================================================================
