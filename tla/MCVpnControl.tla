---------------------------- MODULE MCVpnControl ----------------------------
(* VpnControl for TLC: the assumptions on its constants are evaluated. *)
EXTENDS VpnControl
=============================================================================
