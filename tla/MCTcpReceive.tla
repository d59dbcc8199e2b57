---------------------------- MODULE MCTcpReceive ----------------------------
(* TcpReceive for TLC: the assumptions on its constants are evaluated. *)
EXTENDS TcpReceive
=============================================================================
