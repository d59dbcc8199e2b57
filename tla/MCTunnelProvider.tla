---------------------------- MODULE MCTunnelProvider ----------------------------
(* TunnelProvider for TLC: the assumptions on its constants are evaluated. *)
EXTENDS TunnelProvider
=============================================================================
