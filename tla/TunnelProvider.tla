---------------------------- MODULE TunnelProvider ----------------------------
(***************************************************************************)
(* PacketTunnel/PacketTunnelProvider.swift: the network extension process. *)
(*                                                                         *)
(* Three threads of control meet in the provider object:                   *)
(*  - NetworkExtension calls startTunnel and stopTunnel, answers           *)
(*    setTunnelNetworkSettings and changes defaultPath;                    *)
(*  - the main queue runs the restarts that observeValue delays by 1s;     *)
(*  - the serial queue "update_route_and_vpn_nodes1" runs one endless      *)
(*    refresh block per call of startTunnel, each behind the one before.   *)
(* A handler is one step, except that startTunnel and the refresh block    *)
(* are split at the writes of the two node tables they share.  The         *)
(* process's memory is lost when it ends.                                  *)
(***************************************************************************)
EXTENDS Naturals

CONSTANTS
    Paths,         \* the satisfied network paths (Wi-Fi, cellular, ...)
    Down,          \* a path that is not satisfied
    Nil,           \* no path at all: lastPath's first value
    MaxConf,       \* bound: configurations the app publishes
    MaxStarts,     \* bound: calls of startTunnel in one process
    MaxRestarts    \* bound: delayed restarts outstanding at a time

ASSUME ProviderAssumption ==
    /\ Down \notin Paths /\ Nil \notin Paths /\ Down # Nil
    /\ MaxConf \in Nat \ {0}
    /\ MaxStarts \in Nat \ {0}
    /\ MaxRestarts \in Nat \ {0}

VARIABLES
    proc,        \* "none" or "running": the extension process
    exit,        \* why the last process ended (history, read by no action)
    up,          \* the system's completionHandler(nil) has been called
    stopping,    \* the system has asked for a stop that is not yet handled
    started,     \* var started
    proxyServer, \* "nil" or "listening": var proxyServer
    interface,   \* "nil" or "set": var interface
    live,        \* TUNInterfaces started and not stopped
    tcpServed,   \* TCPStack has its delegate, proxy server and timer
    lastPath,    \* var lastPath
    settings,    \* setTunnelNetworkSettings requests not yet answered
    restarts,    \* startTunnel calls waiting in asyncAfter(1s)
    starting,    \* the conf of a startTunnel between its two tables, 0 if none
    blocks,      \* refresh blocks on the serial queue, the first one running
    pc, snap,    \* the running block: its next write, the conf it read
    route, vpn,  \* version merged last into ShadowsocksAdapter's two tables
    defaultPath, \* NEProvider.defaultPath, owned by the system
    triedOn,     \* the path of the last startTunnel (history)
    conf         \* providerConfiguration: its version, 0 if there is none

memory == <<up, stopping, started, proxyServer, interface, live, tcpServed,
            lastPath, settings, restarts, starting, blocks, pc, snap, route, vpn,
            triedOn>>

vars == <<proc, exit, memory, defaultPath, conf>>

AnyPath == Paths \cup {Down, Nil}

ExitReasons == {"none", "success", "noconf", "seterror", "nilcrash", "portcrash", "killed"}

TypeOK ==
    /\ proc \in {"none", "running"}
    /\ exit \in ExitReasons
    /\ up \in BOOLEAN /\ stopping \in BOOLEAN
    /\ started \in BOOLEAN /\ tcpServed \in BOOLEAN
    /\ proxyServer \in {"nil", "listening"}
    /\ interface \in {"nil", "set"}
    /\ live \in Nat
    /\ lastPath \in AnyPath /\ triedOn \in AnyPath /\ defaultPath \in AnyPath
    /\ settings \in 0..MaxStarts
    /\ restarts \in 0..MaxRestarts
    /\ blocks \in 0..MaxStarts
    /\ pc \in {"read", "route", "vpn"}
    /\ starting \in 0..MaxConf /\ snap \in 0..MaxConf /\ route \in 0..MaxConf
    /\ vpn \in 0..MaxConf /\ conf \in 0..MaxConf

-----------------------------------------------------------------------------
\* The memory of a new process (lines 15-31).
FreshMemory ==
    /\ up = FALSE /\ stopping = FALSE /\ started = FALSE
    /\ proxyServer = "nil" /\ interface = "nil" /\ live = 0 /\ tcpServed = FALSE
    /\ lastPath = Nil /\ settings = 0 /\ restarts = 0 /\ starting = 0 /\ blocks = 0
    /\ pc = "read" /\ snap = 0 /\ route = 0 /\ vpn = 0 /\ triedOn = Nil

Init ==
    /\ proc = "none" /\ exit = "none"
    /\ FreshMemory
    /\ defaultPath \in AnyPath
    /\ conf \in {0, 1}

\* The process ends, by exit(...) or by a trap, and its memory with it.
EndProcess(why) ==
    /\ proc' = "none" /\ exit' = why
    /\ up' = FALSE /\ stopping' = FALSE /\ started' = FALSE
    /\ proxyServer' = "nil" /\ interface' = "nil" /\ live' = 0 /\ tcpServed' = FALSE
    /\ lastPath' = Nil /\ settings' = 0 /\ restarts' = 0 /\ starting' = 0 /\ blocks' = 0
    /\ pc' = "read" /\ snap' = 0 /\ route' = 0 /\ vpn' = 0 /\ triedOn' = Nil
    /\ UNCHANGED <<defaultPath, conf>>

-----------------------------------------------------------------------------
(* startTunnel *)

\* The body that the system's call and the delayed restart both execute, up
\* to the first of the two node tables.  The configuration was read once, at
\* the top of startTunnel; the refresh thread of an earlier start may run in
\* between.  The keyword lists, the rules and the crypto settings built on the
\* way are the subject of module RuleRouting.
StartTunnelBody ==
    /\ starting = 0 /\ blocks < MaxStarts
    /\ starting' = conf
    /\ route' = conf
    /\ triedOn' = defaultPath

\* The system launches the extension and calls startTunnel.  Without a
\* providerConfiguration (or with an unknown cipher) the process ends.
StartTunnel ==
    /\ proc = "none"
    /\ \/ /\ conf # 0
          /\ proc' = "running" /\ exit' = exit
          /\ StartTunnelBody
          /\ UNCHANGED <<up, stopping, started, proxyServer, interface, live,
                         tcpServed, lastPath, settings, restarts, blocks, pc, snap,
                         vpn, defaultPath, conf>>
       \/ conf = 0 /\ EndProcess("noconf")

\* Mutant: a restart reports the session as reconnecting.
RestartTunnelReasserts ==
    /\ proc = "running" /\ restarts > 0
    /\ restarts' = restarts - 1
    /\ StartTunnelBody
    /\ up' = FALSE
    /\ UNCHANGED <<proc, exit, stopping, started, proxyServer, interface, live,
                   tcpServed, lastPath, settings, blocks, pc, snap, vpn,
                   defaultPath, conf>>

\* A restart delayed by observeValue is due.
RestartTunnel ==
    /\ proc = "running" /\ restarts > 0
    /\ restarts' = restarts - 1
    /\ StartTunnelBody
    /\ UNCHANGED <<proc, exit, up, stopping, started, proxyServer, interface, live,
                   tcpServed, lastPath, settings, blocks, pc, snap, vpn,
                   defaultPath, conf>>

\* The rest of startTunnel: the second table, one more refresh block, and the
\* request for the network settings, which is answered later.  The settings
\* of the TUN device, the HTTP proxy and DNS are the same in every call.
StartTunnelRest ==
    /\ starting # 0 /\ blocks < MaxStarts /\ settings < MaxStarts
    /\ vpn' = starting
    /\ starting' = 0
    /\ blocks' = blocks + 1
    /\ settings' = settings + 1
    /\ UNCHANGED <<proc, exit, up, stopping, started, proxyServer, interface, live,
                   tcpServed, lastPath, restarts, pc, snap, route, triedOn,
                   defaultPath, conf>>

-----------------------------------------------------------------------------
(* observeValue(forKeyPath: "defaultPath") *)

\* The branch that delays a restart.  It leaves lastPath as it was.
ChangesNetwork(p) == p \in Paths /\ p # lastPath /\ lastPath # Nil

\* Mutant: the change is noticed but no restart is scheduled.
ObserveValueNoRestart(p) ==
    restarts' = restarts /\ lastPath' = IF ChangesNetwork(p) THEN lastPath ELSE p

ObserveValue(p) ==
    IF ChangesNetwork(p)
    THEN restarts' = restarts + 1 /\ lastPath' = lastPath
    ELSE restarts' = restarts /\ lastPath' = p

\* The system sets defaultPath, to a new path or again to the same one.  The
\* observer is registered by the first successful start.
PathChange(p) ==
    /\ defaultPath' = p
    /\ IF started
       THEN /\ ChangesNetwork(p) => restarts < MaxRestarts
            /\ ObserveValue(p)
       ELSE UNCHANGED <<restarts, lastPath>>
    /\ UNCHANGED <<proc, exit, up, stopping, started, proxyServer, interface, live,
                   tcpServed, settings, starting, blocks, pc, snap, route, vpn,
                   triedOn, conf>>

-----------------------------------------------------------------------------
(* The completion of setTunnelNetworkSettings *)

\* interface.stop(): takes the TCP stack's delegate and proxy server away.
LiveAfterStop == IF started THEN live - 1 ELSE live

\* Mutant: the old interface is stopped after the new one took the TCP stack.
SettingsAppliedStopLate ==
    /\ proc = "running" /\ starting = 0 /\ settings > 0
    /\ settings' = settings - 1
    /\ proxyServer' = "listening" /\ up' = TRUE
    /\ live' = LiveAfterStop + 1
    /\ interface' = "set" /\ tcpServed' = ~started
    /\ started' = TRUE
    /\ IF started THEN UNCHANGED <<restarts, lastPath>> ELSE ObserveValue(defaultPath)
    /\ UNCHANGED <<proc, exit, stopping, starting, blocks, pc, snap, route, vpn,
                   triedOn, defaultPath, conf>>

\* Mutant: the interface is built but not kept in var interface.
SettingsAppliedNoInterface ==
    /\ proc = "running" /\ starting = 0 /\ settings > 0
    /\ settings' = settings - 1
    /\ proxyServer' = "listening" /\ up' = TRUE
    /\ live' = LiveAfterStop + 1
    /\ tcpServed' = TRUE /\ started' = TRUE
    /\ IF started THEN UNCHANGED <<restarts, lastPath>> ELSE ObserveValue(defaultPath)
    /\ UNCHANGED <<proc, exit, stopping, interface, starting, blocks, pc, snap, route,
                   vpn, triedOn, defaultPath, conf>>

\* Success.  The first time the proxy server is created and the path observer
\* registered with .initial, which calls observeValue at once; later the
\* proxy server is stopped and started.  Then the old interface is stopped, a
\* new one registered with the singleton TCP stack and started.
SettingsApplied ==
    /\ proc = "running" /\ starting = 0 /\ settings > 0
    /\ settings' = settings - 1
    /\ proxyServer' = "listening"
    /\ up' = TRUE
    /\ live' = LiveAfterStop + 1
    /\ interface' = "set" /\ tcpServed' = TRUE
    /\ started' = TRUE
    /\ IF started THEN UNCHANGED <<restarts, lastPath>> ELSE ObserveValue(defaultPath)
    /\ UNCHANGED <<proc, exit, stopping, starting, blocks, pc, snap, route, vpn,
                   triedOn, defaultPath, conf>>

\* Mutant: a refused first start is not reported to the system.
FirstSettingsDropped ==
    /\ proc = "running" /\ starting = 0 /\ settings > 0 /\ ~up
    /\ settings' = settings - 1
    /\ UNCHANGED <<proc, exit, up, stopping, started, proxyServer, interface, live,
                   tcpServed, lastPath, restarts, starting, blocks, pc, snap, route,
                   vpn, triedOn, defaultPath, conf>>

\* Failure of the system's own start: completionHandler(error), after which
\* the system ends the extension.
FirstSettingsRefused ==
    /\ proc = "running" /\ starting = 0 /\ settings > 0 /\ ~up
    /\ EndProcess("seterror")

\* Failure of a restart: its completion handler { _ in } drops the error.
RestartSettingsRefused ==
    /\ proc = "running" /\ starting = 0 /\ settings > 0 /\ up
    /\ settings' = settings - 1
    /\ UNCHANGED <<proc, exit, up, stopping, started, proxyServer, interface, live,
                   tcpServed, lastPath, restarts, starting, blocks, pc, snap, route,
                   vpn, triedOn, defaultPath, conf>>

\* try! proxyServer.start(): port 9090 of 127.0.0.1 cannot be bound.
ProxyPortTaken ==
    /\ proc = "running" /\ starting = 0 /\ settings > 0
    /\ EndProcess("portcrash")

-----------------------------------------------------------------------------
(* stopTunnel *)

\* The user, the app or the system asks for the session to end.
RequestStop ==
    /\ proc = "running" /\ ~stopping
    /\ stopping' = TRUE
    /\ UNCHANGED <<proc, exit, up, started, proxyServer, interface, live, tcpServed,
                   lastPath, settings, restarts, starting, blocks, pc, snap, route,
                   vpn, triedOn, defaultPath, conf>>

\* interface.stop() on the implicitly unwrapped var interface traps when no
\* settings have been applied yet.  stop_queue = true is visible to the
\* refresh block only until exit(EXIT_SUCCESS) ends the process.
StopTunnel ==
    /\ proc = "running" /\ starting = 0 /\ stopping
    /\ IF interface = "nil" THEN EndProcess("nilcrash") ELSE EndProcess("success")

\* The process ends without a stop: the system kills it (memory limit, reboot),
\* or its free-time timer finds no time left (module FreeTime).
Kill == proc = "running" /\ EndProcess("killed")

-----------------------------------------------------------------------------
(* The refresh block and the app's side of providerConfiguration *)

RefreshUnchanged ==
    UNCHANGED <<proc, exit, up, stopping, started, proxyServer, interface, live,
                tcpServed, lastPath, settings, restarts, starting, blocks, triedOn,
                defaultPath, conf>>

\* One iteration: read the configuration, merge the route nodes, merge the
\* VPN nodes (and set the country), sleep a second.
RefreshRead ==
    /\ proc = "running" /\ blocks > 0 /\ pc = "read"
    /\ snap' = conf /\ pc' = "route"
    /\ UNCHANGED <<route, vpn>> /\ RefreshUnchanged

RefreshRoute ==
    /\ proc = "running" /\ pc = "route"
    /\ route' = snap /\ pc' = "vpn"
    /\ UNCHANGED <<snap, vpn>> /\ RefreshUnchanged

\* Mutant: the refresh block forgets the VPN nodes.
RefreshVpnSkipped ==
    /\ proc = "running" /\ pc = "vpn"
    /\ pc' = "read"
    /\ UNCHANGED <<snap, route, vpn>> /\ RefreshUnchanged

RefreshVpn ==
    /\ proc = "running" /\ pc = "vpn"
    /\ vpn' = snap /\ pc' = "read"
    /\ UNCHANGED <<snap, route>> /\ RefreshUnchanged

Refresh == RefreshRead \/ RefreshRoute \/ RefreshVpn

\* The app saves a new providerConfiguration (module VpnControl).
PublishConf ==
    /\ conf < MaxConf
    /\ conf' = conf + 1
    /\ UNCHANGED <<proc, exit, memory, defaultPath>>

-----------------------------------------------------------------------------
Next ==
    \/ StartTunnel \/ RestartTunnel \/ StartTunnelRest
    \/ \E p \in AnyPath : PathChange(p)
    \/ SettingsApplied \/ FirstSettingsRefused \/ RestartSettingsRefused
    \/ ProxyPortTaken
    \/ RequestStop \/ StopTunnel \/ Kill
    \/ Refresh \/ PublishConf

\* An answer to setTunnelNetworkSettings.
SettingsAnswered ==
    SettingsApplied \/ FirstSettingsRefused \/ RestartSettingsRefused \/ ProxyPortTaken

\* The system answers setTunnelNetworkSettings and delivers stopTunnel, a
\* startTunnel that has begun goes on, the main queue runs the restarts that are due, the queue's thread its block.
\* Nothing obliges the user, the network or the app to do anything.
Fairness ==
    /\ WF_vars(SettingsAnswered) /\ WF_vars(StopTunnel)
    /\ WF_vars(RestartTunnel) /\ WF_vars(StartTunnelRest) /\ WF_vars(Refresh)

Spec == Init /\ [][Next]_vars

FairSpec == Spec /\ Fairness

-----------------------------------------------------------------------------
(* Properties *)

\* From the first applied settings on, exactly one TUN interface reads the
\* packet flow, the proxy server listens and the singleton TCP stack is bound
\* to it, however many restarts, refused settings and path changes there were
\* (the completion of setTunnelNetworkSettings stops the old interface, which
\* unbinds the TCP stack, before it builds the new one).
ServedWhileStarted ==
    IF started
    THEN live = 1 /\ tcpServed /\ interface = "set" /\ proxyServer = "listening"
    ELSE live = 0 /\ ~tcpServed

\* A started tunnel on a satisfied path that the last startTunnel did not see
\* has a restart due, unless that path is the one observeValue remembers.  The
\* branch that delays a restart leaves lastPath as it was, so changes that
\* come while one is due, or between it and the next, are served all the same.
\* The exception is real: when the network comes back to the remembered path
\* after a restart ran on another one, the code takes it for no change, and
\* the tunnel stays started on the network it has left.
OnlyRememberedUnserved ==
    (started /\ restarts = 0 /\ defaultPath \in Paths /\ triedOn # defaultPath)
        => lastPath = defaultPath

\* stopTunnel can trap on the nil interface only in a process that never
\* applied its settings; once started, a stop always ends in exit(EXIT_SUCCESS).
TrapOnlyBeforeStarted ==
    [][(proc = "running" /\ proc' = "none" /\ exit' = "nilcrash") => ~started]_vars

\* A configuration that stays is in the end in both node tables and stays
\* there: neither the refresh block's stale snapshot nor a restart that
\* overtakes it leaves an older or a torn pair behind for good.
RefreshConverges ==
    \A v \in 1..MaxConf :
        <>[](proc = "running" /\ conf = v) => <>[](route = v /\ vpn = v)

\* A network that a started tunnel moves to, and that is not the one
\* observeValue remembers, gets its startTunnel, unless the network moves on,
\* the process ends or the bound is reached.  A return to the remembered
\* network is not promised one: see OnlyRememberedUnserved.
NewNetworkServed ==
    \A p \in Paths :
        (started /\ defaultPath = p)
            ~> (triedOn = p \/ lastPath = p \/ defaultPath # p
                \/ proc = "none" \/ blocks = MaxStarts)

-----------------------------------------------------------------------------
(* The provider implements the session the app is written against. *)

SessionView ==
    IF proc = "none" THEN "disconnected"
    ELSE IF stopping THEN "disconnecting"
    ELSE IF up THEN "connected" ELSE "connecting"

Session == INSTANCE TunnelSession WITH session <- SessionView

\* Every step of the provider is a step of TunnelSession or leaves it alone:
\* a restart, a refused restart or a refresh never shows in the app's status.
ImplementsSession == Session!SessionSpec

\* The completion handler of startTunnel is always called, or the process
\* ends, and a requested stop is always carried out.
ProviderSettles == Session!SessionSettles
=============================================================================
