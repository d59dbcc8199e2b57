--------------------------- MODULE MCProxyTunnel ---------------------------
(* ProxyTunnel for TLC: the assumption on its constants is evaluated. *)
EXTENDS ProxyTunnel
=============================================================================
