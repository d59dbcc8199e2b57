------------------------- MODULE TunnelProviderProofs -------------------------
(***************************************************************************)
(* Proofs about TunnelProvider for every set of paths and every bound.     *)
(***************************************************************************)
EXTENDS TunnelProvider, TLAPS

\* What relates the flags of the process to one another: a process that is
\* not there has no start or stop in progress, up and started agree, and
\* before the first applied settings nothing observes the path.
FlagsAgree ==
    /\ proc = "none" => (~started /\ ~stopping /\ blocks = 0 /\ settings = 0 /\ starting = 0)
    /\ up = started
    /\ ~started => (lastPath = Nil /\ restarts = 0 /\ interface = "nil")

\* The inductive invariant.
ProviderInv == TypeOK /\ FlagsAgree /\ ServedWhileStarted /\ OnlyRememberedUnserved

\* Ending the process re-establishes the invariant from any typed state.
LEMMA EndProcessInv ==
    ASSUME TypeOK, NEW why \in ExitReasons, EndProcess(why)
    PROVE  ProviderInv'
<1>1. TypeOK'
    <2>1. (up \in BOOLEAN /\ stopping \in BOOLEAN /\ started \in BOOLEAN
           /\ tcpServed \in BOOLEAN)'
        BY DEF EndProcess
    <2>2. (proc \in {"none", "running"} /\ exit \in ExitReasons /\ live \in Nat
           /\ proxyServer \in {"nil", "listening"} /\ interface \in {"nil", "set"}
           /\ pc \in {"read", "route", "vpn"})'
        BY DEF EndProcess
    <2>3. (lastPath \in AnyPath /\ triedOn \in AnyPath /\ defaultPath \in AnyPath)'
        BY DEF EndProcess, AnyPath, TypeOK
    <2>4. (settings \in 0..MaxStarts /\ restarts \in 0..MaxRestarts /\ blocks \in 0..MaxStarts
           /\ starting \in 0..MaxConf
           /\ snap \in 0..MaxConf /\ route \in 0..MaxConf /\ vpn \in 0..MaxConf
           /\ conf \in 0..MaxConf)'
        BY ProviderAssumption DEF ProviderAssumption, EndProcess, TypeOK
    <2> QED BY <2>1, <2>2, <2>3, <2>4 DEF TypeOK
<1>2. FlagsAgree'
    BY DEF EndProcess, FlagsAgree
<1>3. ServedWhileStarted'
    BY DEF EndProcess, ServedWhileStarted
<1>4. OnlyRememberedUnserved'
    BY DEF EndProcess, OnlyRememberedUnserved
<1> QED BY <1>1, <1>2, <1>3, <1>4 DEF ProviderInv

\* The initial states satisfy the invariant.
LEMMA ProviderInitInv == Init => ProviderInv
<1> SUFFICES ASSUME Init PROVE ProviderInv
    OBVIOUS
<1>1. TypeOK
    <2>1. up \in BOOLEAN /\ stopping \in BOOLEAN /\ started \in BOOLEAN /\ tcpServed \in BOOLEAN
        BY DEF Init, FreshMemory
    <2>2. /\ proc \in {"none", "running"} /\ exit \in ExitReasons /\ live \in Nat
          /\ proxyServer \in {"nil", "listening"} /\ interface \in {"nil", "set"}
          /\ pc \in {"read", "route", "vpn"}
        BY DEF Init, FreshMemory, ExitReasons
    <2>3. lastPath \in AnyPath /\ triedOn \in AnyPath /\ defaultPath \in AnyPath
        BY DEF Init, FreshMemory, AnyPath
    <2>4. /\ settings \in 0..MaxStarts /\ restarts \in 0..MaxRestarts /\ blocks \in 0..MaxStarts
          /\ starting \in 0..MaxConf
          /\ snap \in 0..MaxConf /\ route \in 0..MaxConf /\ vpn \in 0..MaxConf
          /\ conf \in 0..MaxConf
        BY ProviderAssumption DEF ProviderAssumption, Init, FreshMemory
    <2> QED BY <2>1, <2>2, <2>3, <2>4 DEF TypeOK
<1>2. FlagsAgree
    BY DEF Init, FreshMemory, FlagsAgree
<1>3. ServedWhileStarted
    BY DEF Init, FreshMemory, ServedWhileStarted
<1>4. OnlyRememberedUnserved
    BY DEF Init, FreshMemory, OnlyRememberedUnserved
<1> QED BY <1>1, <1>2, <1>3, <1>4 DEF ProviderInv

\* Every step of the provider preserves the invariant.
LEMMA ProviderStepInv == ProviderInv /\ [Next]_vars => ProviderInv'
<1> SUFFICES ASSUME ProviderInv, [Next]_vars PROVE ProviderInv'
    OBVIOUS
<1> USE ProviderAssumption DEF ProviderAssumption, AnyPath
<1>1. CASE StartTunnel
    <2>1. CASE conf = 0
        <3>1. EndProcess("noconf")
            BY <1>1, <2>1 DEF StartTunnel
        <3> QED BY <3>1, EndProcessInv DEF ProviderInv, ExitReasons
    <2>2. CASE conf # 0
        BY <1>1, <2>2 DEF StartTunnel, StartTunnelBody, ProviderInv,
                          TypeOK, FlagsAgree, ServedWhileStarted, OnlyRememberedUnserved
    <2> QED BY <2>1, <2>2
<1>2. CASE RestartTunnel
    BY <1>2 DEF RestartTunnel, StartTunnelBody, ProviderInv, TypeOK, FlagsAgree,
                ServedWhileStarted, OnlyRememberedUnserved
<1>3. ASSUME NEW p \in AnyPath, PathChange(p) PROVE ProviderInv'
    <2>1. CASE started
        BY <1>3, <2>1 DEF PathChange, ObserveValue, ChangesNetwork, ProviderInv, TypeOK,
                          FlagsAgree, ServedWhileStarted, OnlyRememberedUnserved
    <2>2. CASE ~started
        BY <1>3, <2>2 DEF PathChange, ProviderInv, TypeOK, FlagsAgree,
                          ServedWhileStarted, OnlyRememberedUnserved
    <2> QED BY <2>1, <2>2
<1>4. CASE SettingsApplied
    <2>1. CASE started
        BY <1>4, <2>1 DEF SettingsApplied, LiveAfterStop, ProviderInv, TypeOK, FlagsAgree,
                          ServedWhileStarted, OnlyRememberedUnserved
    <2>2. CASE ~started
        <3>1. ~ChangesNetwork(defaultPath)
            BY <2>2 DEF ChangesNetwork, ProviderInv, FlagsAgree
        <3>2. lastPath' = defaultPath /\ restarts' = restarts
            BY <1>4, <2>2, <3>1 DEF SettingsApplied, ObserveValue
        <3> QED
            BY <1>4, <2>2, <3>2 DEF SettingsApplied, LiveAfterStop, ProviderInv, TypeOK,
                                    FlagsAgree, ServedWhileStarted, OnlyRememberedUnserved
    <2> QED BY <2>1, <2>2
<1>5. CASE RestartSettingsRefused
    <2>1. settings' \in 0..MaxStarts
        BY <1>5 DEF RestartSettingsRefused, ProviderInv, TypeOK
    <2>2. UNCHANGED <<proc, exit, up, stopping, started, proxyServer, interface, live,
                      tcpServed, lastPath, restarts, starting, blocks, pc, snap, route,
                      vpn, triedOn, defaultPath, conf>> /\ proc = "running"
        BY <1>5 DEF RestartSettingsRefused
    <2> QED BY <2>1, <2>2 DEF ProviderInv, TypeOK, FlagsAgree, ServedWhileStarted, OnlyRememberedUnserved
<1>6. CASE RequestStop
    BY <1>6 DEF RequestStop, ProviderInv, TypeOK, FlagsAgree,
                ServedWhileStarted, OnlyRememberedUnserved
<1>7. CASE FirstSettingsRefused \/ ProxyPortTaken \/ StopTunnel \/ Kill
    <2>1. PICK why \in ExitReasons : EndProcess(why)
        BY <1>7 DEF FirstSettingsRefused, ProxyPortTaken, StopTunnel, Kill, ExitReasons
    <2> QED BY <2>1, EndProcessInv DEF ProviderInv
<1>8. CASE Refresh
    BY <1>8 DEF Refresh, RefreshRead, RefreshRoute, RefreshVpn, RefreshUnchanged,
                ProviderInv, TypeOK, FlagsAgree, ServedWhileStarted, OnlyRememberedUnserved
<1>9. CASE PublishConf
    BY <1>9 DEF PublishConf, memory, ProviderInv, TypeOK, FlagsAgree,
                ServedWhileStarted, OnlyRememberedUnserved
<1>10. CASE UNCHANGED vars
    BY <1>10 DEF vars, memory, ProviderInv, TypeOK, FlagsAgree,
                 ServedWhileStarted, OnlyRememberedUnserved
<1>11. CASE StartTunnelRest
    <2>1. /\ starting' \in 0..MaxConf /\ vpn' \in 0..MaxConf
          /\ blocks' \in 0..MaxStarts /\ settings' \in 0..MaxStarts
        BY <1>11 DEF StartTunnelRest, ProviderInv, TypeOK
    <2>2. /\ starting # 0 /\ starting' = 0
          /\ UNCHANGED <<proc, exit, up, stopping, started, proxyServer, interface, live,
                         tcpServed, lastPath, restarts, pc, snap, route, triedOn,
                         defaultPath, conf>>
        BY <1>11 DEF StartTunnelRest
    <2> QED BY <2>1, <2>2 DEF ProviderInv, TypeOK, FlagsAgree, ServedWhileStarted,
                              OnlyRememberedUnserved
<1> QED
    BY <1>1, <1>2, <1>3, <1>4, <1>5, <1>6, <1>7, <1>8, <1>9, <1>10, <1>11 DEF Next

\* The invariant holds in every reachable state.
THEOREM ProviderInvariant == Spec => []ProviderInv
BY ProviderInitInv, ProviderStepInv, PTL DEF Spec

\* The provider's state is always typed.
THEOREM ProviderTypeOK == Spec => []TypeOK
<1>1. ProviderInv => TypeOK
    BY DEF ProviderInv
<1> QED BY <1>1, ProviderInvariant, PTL

\* One live interface, a listening proxy and a bound TCP stack whenever the
\* provider has started, for any number of restarts.
THEOREM ProviderServed == Spec => []ServedWhileStarted
<1>1. ProviderInv => ServedWhileStarted
    BY DEF ProviderInv
<1> QED BY <1>1, ProviderInvariant, PTL

\* The only network a started tunnel is not restarted on is the one that
\* observeValue remembers, for any set of paths and any number of restarts.
THEOREM ProviderUnserved == Spec => []OnlyRememberedUnserved
<1>1. ProviderInv => OnlyRememberedUnserved
    BY DEF ProviderInv
<1> QED BY <1>1, ProviderInvariant, PTL

-----------------------------------------------------------------------------

\* A step that keeps the process never ends it, and only stopTunnel on a nil
\* interface ends it with the trap.
LEMMA TrapStep ==
    ProviderInv /\ [Next]_vars
        => [(proc = "running" /\ proc' = "none" /\ exit' = "nilcrash") => ~started]_vars
<1> SUFFICES ASSUME ProviderInv, Next,
                    proc = "running", proc' = "none", exit' = "nilcrash"
             PROVE  ~started
    OBVIOUS
<1>1. StopTunnel
    BY DEF Next, StartTunnel, RestartTunnel, StartTunnelRest, PathChange, SettingsApplied,
           FirstSettingsRefused, RestartSettingsRefused, ProxyPortTaken, RequestStop,
           Kill, Refresh, RefreshRead, RefreshRoute, RefreshVpn, RefreshUnchanged,
           PublishConf, EndProcess
<1>2. interface = "nil"
    BY <1>1 DEF StopTunnel, EndProcess
<1> QED BY <1>2 DEF ProviderInv, ServedWhileStarted

\* Once started, a stop never traps.
THEOREM ProviderTrap == Spec => TrapOnlyBeforeStarted
BY ProviderInvariant, TrapStep, PTL DEF Spec, TrapOnlyBeforeStarted

-----------------------------------------------------------------------------

\* Ending the process is a legal step of the session, whatever its status.
LEMMA EndProcessSession ==
    ASSUME ProviderInv, proc = "running", NEW why, EndProcess(why)
    PROVE  Session!SessionNext
BY DEF EndProcess, SessionView, Session!SessionNext, Session!SessionFail,
       Session!SessionDown, Session!SessionLost, ProviderInv, TypeOK

\* Every step of the provider is a step of the session or leaves it alone.
LEMMA SessionStep == ProviderInv /\ [Next]_vars => [Session!SessionNext]_SessionView
<1> SUFFICES ASSUME ProviderInv, [Next]_vars
             PROVE  Session!SessionNext \/ SessionView' = SessionView
    OBVIOUS
<1>1. CASE StartTunnel
    <2>1. CASE conf = 0
        BY <1>1, <2>1 DEF StartTunnel, EndProcess, SessionView
    <2>2. CASE conf # 0
        BY <1>1, <2>2 DEF StartTunnel, SessionView, ProviderInv, FlagsAgree,
                          Session!SessionNext, Session!SessionStart
    <2> QED BY <2>1, <2>2
<1>2. CASE RestartTunnel \/ StartTunnelRest \/ (\E p \in AnyPath : PathChange(p)) \/ RestartSettingsRefused
           \/ Refresh \/ PublishConf \/ UNCHANGED vars
    BY <1>2 DEF RestartTunnel, StartTunnelRest, PathChange, RestartSettingsRefused, Refresh, RefreshRead,
                RefreshRoute, RefreshVpn, RefreshUnchanged, PublishConf, vars, memory,
                SessionView
<1>3. CASE SettingsApplied
    BY <1>3 DEF SettingsApplied, SessionView, Session!SessionNext, Session!SessionUp,
                ProviderInv, TypeOK
<1>4. CASE RequestStop
    BY <1>4 DEF RequestStop, SessionView, Session!SessionNext, Session!SessionStop,
                ProviderInv, TypeOK
<1>5. CASE FirstSettingsRefused \/ ProxyPortTaken \/ StopTunnel \/ Kill
    <2>1. PICK why \in ExitReasons : EndProcess(why)
        BY <1>5 DEF FirstSettingsRefused, ProxyPortTaken, StopTunnel, Kill, ExitReasons
    <2>2. proc = "running"
        BY <1>5 DEF FirstSettingsRefused, ProxyPortTaken, StopTunnel, Kill
    <2> QED BY <2>1, <2>2, EndProcessSession
<1> QED BY <1>1, <1>2, <1>3, <1>4, <1>5 DEF Next

\* The provider implements the session the app is written against.
THEOREM ProviderImplementsSession == Spec => ImplementsSession
<1>1. Init => Session!SessionInit
    BY DEF Init, SessionView, Session!SessionInit
<1> QED
    BY <1>1, SessionStep, ProviderInvariant, PTL
    DEF Spec, ImplementsSession, Session!SessionSpec
=============================================================================
