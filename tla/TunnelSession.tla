---------------------------- MODULE TunnelSession ----------------------------
(***************************************************************************)
(* The life of one VPN session as the app sees it through                  *)
(* NEVPNConnection.status: what the operating system and the packet tunnel *)
(* extension together promise.  PacketTunnelProvider.swift implements it   *)
(* (module TunnelProvider refines this module); VpnManager.swift is written *)
(* against it (module VpnControl takes its session steps from here).       *)
(***************************************************************************)

VARIABLE session   \* NEVPNConnection.status of the TenonVPN profile

SessionStatus == {"disconnected", "connecting", "connected", "disconnecting"}

SessionInit == session = "disconnected"

\* startVPNTunnel (or the switch in the Settings app) is accepted.
SessionStart == session = "disconnected" /\ session' = "connecting"

\* The extension calls the start completion handler with no error.
SessionUp == session = "connecting" /\ session' = "connected"

\* The extension reports an error, or its process dies before it is up.
SessionFail == session = "connecting" /\ session' = "disconnected"

\* stopVPNTunnel (or the Settings app) asks a session to end.
SessionStop == session \in {"connecting", "connected"} /\ session' = "disconnecting"

\* The extension process is gone after a stop.
SessionDown == session = "disconnecting" /\ session' = "disconnected"

\* The extension process dies while the session is up.
SessionLost == session = "connected" /\ session' = "disconnected"

SessionNext ==
    \/ SessionStart \/ SessionUp \/ SessionFail
    \/ SessionStop \/ SessionDown \/ SessionLost

SessionSpec == SessionInit /\ [][SessionNext]_session

-----------------------------------------------------------------------------
\* Every start is answered and every stop is carried out: the session does
\* not stay in one of the two transitional states that the app shows as
\* "linking" (PacketTunnelProvider must call its completion handlers).
SessionSettles ==
    /\ (session = "connecting") ~> (session # "connecting")
    /\ (session = "disconnecting") ~> (session # "disconnecting")
=============================================================================
