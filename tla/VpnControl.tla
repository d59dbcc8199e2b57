------------------------------ MODULE VpnControl ------------------------------
(***************************************************************************)
(* The app's side of the tunnel: VpnManager.swift and the connect and      *)
(* disconnect handlers of ViewController.swift, against the session that   *)
(* NetworkExtension keeps (module TunnelSession).                          *)
(*                                                                         *)
(* Every request to NetworkExtension answers through a completion handler  *)
(* on the main queue.  The handlers outstanding are the contents of slots; *)
(* they run one at a time, in an order nothing in the code fixes, and      *)
(* between any two of them the session, the refresh block of the queue     *)
(* "update_route_and_vpn_nodes" and the user may take steps.               *)
(***************************************************************************)
EXTENDS Naturals

CONSTANTS
    Slots,         \* bound: completion handlers outstanding at a time
    MaxObservers,  \* bound: registered NEVPNStatusDidChange observers
    MaxNotes,      \* bound: status notifications on the main operation queue
    MaxBlocks,     \* bound: refresh blocks on the serial queue
    CanFail,       \* whether preference requests may fail
    CanDelete      \* whether the user may delete the profile in the Settings app

ASSUME ControlAssumption ==
    /\ MaxObservers \in Nat \ {0}
    /\ MaxNotes \in Nat \ {0}
    /\ MaxBlocks \in Nat \ {0}
    /\ CanFail \in BOOLEAN /\ CanDelete \in BOOLEAN

VARIABLES
    vpnStatus,      \* VpnManager.vpnStatus
    vpn_connected,  \* VpnManager.vpn_connected, read as user_started_vpn
    stop_queue,     \* VpnManager.stop_queue
    observerAdded,  \* VpnManager.observerAdded, never set back
    observers,      \* NEVPNStatusDidChange blocks on managers[0]'s connection
    pending,        \* what each slot waits for
    blocks,         \* refresh blocks on the serial queue, the first one running
    checked,        \* the running block has seen stop_queue FALSE, status on
    notes,          \* notifications of that connection, not yet delivered
    goneNotes,      \* ... of the connections of profiles that were removed
    profiles,       \* saved profiles: 0, 1, or 2 for several
    session,        \* NEVPNConnection.status of managers[0]
    missed,         \* the session changed with no observer on it since
                    \* vpnStatus was last computed from it (history)
    undone          \* since the last stop took effect the tunnel was started
                    \* with no stop due, or a stop found no manager (history)

INSTANCE TunnelSession

shown == <<vpnStatus, vpn_connected>>
observing == <<observerAdded, observers>>
refresh == <<blocks, checked>>

vars == <<shown, stop_queue, observing, pending, refresh, notes, goneNotes,
          profiles, session, missed, undone>>

Kinds ==
    {"free",
     "clickConnect", "clickDisconnect",  \* getNotificationSettings
     "initStatus",                       \* vpn_init's loadProviderManager
     "addObserver",                      \* addVPNStatusObserver's
     "stop",                             \* disconnect's
     "create",                           \* connect's loadAllFromPreferences
     "saveNew", "save",                  \* saveToPreferences, new or known profile
     "load"}                             \* loadFromPreferences

TypeOK ==
    /\ vpnStatus \in {"off", "connecting", "on", "disconnecting"}
    /\ vpn_connected \in BOOLEAN /\ stop_queue \in BOOLEAN
    /\ observerAdded \in BOOLEAN /\ checked \in BOOLEAN
    /\ missed \in BOOLEAN /\ undone \in BOOLEAN
    /\ observers \in 0..MaxObservers
    /\ pending \in [Slots -> Kinds]
    /\ blocks \in 0..MaxBlocks
    /\ notes \in 0..MaxNotes /\ goneNotes \in 0..MaxNotes
    /\ profiles \in 0..2
    /\ session \in SessionStatus

\* The status updateVPNStatus derives from the session's.
StatusOf(s) ==
    CASE s = "connected" -> "on"
      [] s = "connecting" -> "connecting"
      [] s = "disconnecting" -> "disconnecting"
      [] s = "disconnected" -> "off"

-----------------------------------------------------------------------------
\* The app is launched and calls vpn_init: one load that computes the status
\* and one that registers the observer.  The tunnel may be up from before.
Init ==
    /\ vpnStatus = "off" /\ vpn_connected = FALSE /\ stop_queue = FALSE
    /\ observerAdded = FALSE /\ observers = 0
    /\ blocks = 0 /\ checked = FALSE /\ notes = 0 /\ goneNotes = 0
    /\ \E s, t \in Slots :
          /\ s # t
          /\ pending = [x \in Slots |-> IF x = s THEN "initStatus"
                                        ELSE IF x = t THEN "addObserver" ELSE "free"]
    /\ profiles \in 0..2
    /\ session \in IF profiles = 0 THEN {"disconnected"} ELSE SessionStatus
    /\ missed = (session # "disconnected") /\ undone = FALSE

Becomes(s, kind) == pending' = [pending EXCEPT ![s] = kind]

NoSessionStep == UNCHANGED <<session, notes, goneNotes, missed, undone>>

\* NetworkExtension changes the session's status and posts
\* NEVPNStatusDidChange with the connection as its object: each observer
\* registered for this connection queues a block.
Announce ==
    /\ notes + goneNotes + observers <= MaxNotes
    /\ notes' = notes + observers
    /\ missed' = (missed \/ observers = 0)
    /\ UNCHANGED goneNotes

\* The profile in use is removed: its session ends, its observers hear of
\* that and of nothing afterwards.  What takes its place (a profile saved
\* again is a new one) has a connection of its own.
ProfileGone ==
    /\ session' = "disconnected"
    /\ notes + goneNotes + observers <= MaxNotes
    /\ goneNotes' = goneNotes + notes + observers
    /\ notes' = 0 /\ observers' = 0
    /\ missed' = (missed \/ (observers = 0 /\ session # "disconnected"))

StopInFlight == \E s \in Slots : pending[s] = "stop"

\* startVPNTunnel, or the switch in the Settings app, is accepted.
StartSession ==
    /\ SessionStart /\ Announce
    /\ undone' = (undone \/ ~StopInFlight)

-----------------------------------------------------------------------------
(* VpnManager.disconnect and connect, up to the requests they send *)

Disconnect(s) == stop_queue' = TRUE /\ Becomes(s, "stop")

\* ViewController.ConnectVpn: with a route node and a VPN node at hand it
\* calls disconnect() and connect() in one turn of the main queue, so
\* stop_queue is TRUE for an instant the refresh block need not see.
ConnectVpn(s) ==
    \/ Becomes(s, "free") /\ UNCHANGED stop_queue
    \/ \E t \in Slots \ {s} :
          /\ pending[t] = "free"
          /\ pending' = [pending EXCEPT ![s] = "stop", ![t] = "create"]
          /\ stop_queue' = FALSE

\* DoClickConnect and clickConnect / DoClickDisconnect, up to the request for
\* the notification settings whose answer carries on.
ClickConnect(s) ==
    /\ pending[s] = "free"
    /\ vpn_connected' = FALSE
    /\ Becomes(s, "clickConnect")
    /\ UNCHANGED <<vpnStatus, stop_queue, observing, refresh, profiles>> /\ NoSessionStep

ClickDisconnect(s) ==
    /\ pending[s] = "free"
    /\ vpn_connected' = FALSE
    /\ Becomes(s, "clickDisconnect")
    /\ UNCHANGED <<vpnStatus, stop_queue, observing, refresh, profiles>> /\ NoSessionStep

\* The rest of DoClickConnect: connect, or disconnect if not off.
ClickConnectDone(s) ==
    /\ pending[s] = "clickConnect"
    /\ \/ vpnStatus = "off" /\ ConnectVpn(s)
       \/ vpnStatus # "off" /\ Disconnect(s)
    /\ UNCHANGED <<shown, observing, refresh, profiles>> /\ NoSessionStep

\* The rest of DoClickDisconnect.
ClickDisconnectDone(s) ==
    /\ pending[s] = "clickDisconnect"
    /\ \/ vpnStatus # "off" /\ Disconnect(s)
       \/ vpnStatus = "off" /\ Becomes(s, "free") /\ UNCHANGED stop_queue
    /\ UNCHANGED <<shown, observing, refresh, profiles>> /\ NoSessionStep

\* disconnect() called directly: onSetingVPNStatusChanged, requestData when
\* the server reports "bwo", "cni" or "oul", ResetPrivateKey.
AppDisconnect(s) ==
    /\ pending[s] = "free"
    /\ Disconnect(s)
    /\ UNCHANGED <<shown, observing, refresh, profiles>> /\ NoSessionStep

-----------------------------------------------------------------------------
(* Completion handlers *)

\* loadProviderManager hands a manager to its callback.
ManagerLoaded == profiles > 0

\* ... or nil: there is no profile, or the preferences cannot be read.
ManagerNil == profiles = 0 \/ CanFail

\* Mutant: the case .disconnecting is missing.
UpdateWithoutDisconnecting ==
    /\ vpnStatus' = IF session = "disconnecting" THEN vpnStatus ELSE StatusOf(session)
    /\ vpn_connected' = (session = "connected")
    /\ missed' = FALSE

\* updateVPNStatus.  The didSet observer of vpnStatus notifies the views while
\* vpn_connected is still FALSE.
UpdateVPNStatus ==
    /\ vpnStatus' = StatusOf(session)
    /\ vpn_connected' = (session = "connected")
    /\ missed' = FALSE

InitStatusDone(s) ==
    /\ pending[s] = "initStatus"
    /\ Becomes(s, "free")
    /\ \/ ManagerLoaded /\ UpdateVPNStatus
       \/ ManagerNil /\ UNCHANGED <<shown, missed>>
    /\ UNCHANGED <<stop_queue, observing, refresh, notes, goneNotes, profiles, session,
                   undone>>

\* Registers an observer on the loaded profile's connection, without looking
\* at observerAdded again.
AddObserverDone(s) ==
    /\ pending[s] = "addObserver"
    /\ Becomes(s, "free")
    /\ \/ /\ ManagerLoaded /\ observers < MaxObservers
          /\ observers' = observers + 1 /\ observerAdded' = TRUE
       \/ ManagerNil /\ UNCHANGED observing
    /\ UNCHANGED <<shown, stop_queue, refresh, profiles>> /\ NoSessionStep

\* $0?.connection.stopVPNTunnel()
StopDone(s) ==
    /\ pending[s] = "stop"
    /\ Becomes(s, "free")
    /\ \/ ManagerLoaded /\ SessionStop /\ Announce /\ undone' = FALSE
       \/ /\ ManagerLoaded /\ session \in {"disconnecting", "disconnected"}
          /\ undone' = FALSE /\ UNCHANGED <<session, notes, goneNotes, missed>>
       \/ /\ ManagerNil
          /\ undone' = (session \notin {"disconnecting", "disconnected"})
          /\ UNCHANGED <<session, notes, goneNotes, missed>>
    /\ UNCHANGED <<shown, stop_queue, observing, refresh, profiles>>

\* delDupConfig: with several profiles all of them are removed, the one in
\* use too; observerAdded stays as it is.
DelDupConfig ==
    IF profiles = 2
    THEN profiles' = 0 /\ ProfileGone /\ UNCHANGED undone
    ELSE UNCHANGED <<profiles, observers>> /\ NoSessionStep

\* connect's loadAllFromPreferences: pick or create the manager, send the
\* save, and put one more refresh block on the queue.
CreateDone(s) ==
    /\ pending[s] = "create"
    /\ \/ /\ blocks < MaxBlocks
          /\ blocks' = blocks + 1
          /\ Becomes(s, IF profiles = 0 THEN "saveNew" ELSE "save")
          /\ DelDupConfig
       \/ /\ CanFail
          /\ Becomes(s, "free")
          /\ UNCHANGED <<blocks, profiles, observers>> /\ NoSessionStep
    /\ UNCHANGED <<shown, stop_queue, observerAdded, checked>>

\* saveToPreferences: an error is ignored and the load sent all the same.
SaveDone(s) ==
    /\ pending[s] \in {"saveNew", "save"}
    /\ Becomes(s, "load")
    /\ \/ profiles' = IF pending[s] = "saveNew" /\ profiles > 0 THEN 2
                      ELSE IF profiles = 0 THEN 1 ELSE profiles
       \/ CanFail /\ UNCHANGED profiles
    /\ UNCHANGED <<shown, stop_queue, observing, refresh>> /\ NoSessionStep

\* loadFromPreferences: addVPNStatusObserver, then startVPNTunnel, which has
\* no effect unless the session is down.  stop_queue is not looked at.
LoadDone(s) ==
    /\ pending[s] = "load"
    /\ \/ /\ profiles > 0
          /\ Becomes(s, IF observerAdded THEN "free" ELSE "addObserver")
          /\ \/ StartSession
             \/ session # "disconnected" /\ NoSessionStep
       \/ ManagerNil /\ Becomes(s, "free") /\ NoSessionStep
    /\ UNCHANGED <<shown, stop_queue, observing, refresh, profiles>>

HandlerDone(s) ==
    \/ ClickConnectDone(s) \/ ClickDisconnectDone(s)
    \/ InitStatusDone(s) \/ AddObserverDone(s) \/ StopDone(s)
    \/ CreateDone(s) \/ SaveDone(s) \/ LoadDone(s)

\* A status notification is delivered: updateVPNStatus reads the session's
\* status now, not the one that was announced.
NoteDone ==
    /\ notes > 0 /\ goneNotes = 0
    /\ notes' = notes - 1
    /\ UpdateVPNStatus
    /\ UNCHANGED <<stop_queue, observing, pending, refresh, goneNotes, profiles, session,
                   undone>>

\* One of a removed profile, which was posted before those: updateVPNStatus
\* reads the connection its observer was registered with, which is invalid.
GoneNoteDone ==
    /\ goneNotes > 0
    /\ goneNotes' = goneNotes - 1
    /\ vpnStatus' = "off" /\ vpn_connected' = FALSE
    /\ missed' = (missed \/ session # "disconnected")
    /\ UNCHANGED <<stop_queue, observing, pending, refresh, notes, profiles, session,
                   undone>>

Delivered == NoteDone \/ GoneNoteDone

-----------------------------------------------------------------------------
(* The refresh block, on the queue's own thread: while (!stop_queue) *)

\* An iteration that finds the tunnel on builds a new configuration ...
RefreshCheck ==
    /\ blocks > 0 /\ ~checked /\ ~stop_queue /\ vpnStatus = "on"
    /\ checked' = TRUE
    /\ UNCHANGED <<shown, stop_queue, observing, pending, blocks, profiles>>
    /\ NoSessionStep

\* ... and saves it, whatever stop_queue and the status have become; the
\* completion of that save goes on to the load and to startVPNTunnel again.
RefreshSave(s) ==
    /\ checked /\ pending[s] = "free"
    /\ checked' = FALSE
    /\ Becomes(s, "save")
    /\ UNCHANGED <<shown, stop_queue, observing, blocks, profiles>>
    /\ NoSessionStep

\* Mutant: the loop ends only once the tunnel is no longer on.
RefreshEndWhenOff ==
    /\ blocks > 0 /\ ~checked /\ stop_queue /\ vpnStatus # "on"
    /\ blocks' = blocks - 1
    /\ UNCHANGED <<shown, stop_queue, observing, pending, checked, profiles>>
    /\ NoSessionStep

\* The loop ends and the queue goes on to the next block.
RefreshEnd ==
    /\ blocks > 0 /\ ~checked /\ stop_queue
    /\ blocks' = blocks - 1
    /\ UNCHANGED <<shown, stop_queue, observing, pending, checked, profiles>>
    /\ NoSessionStep

RefreshStep == RefreshCheck \/ RefreshEnd

-----------------------------------------------------------------------------
\* The extension, the system and the Settings app move the session.
SystemStep ==
    /\ \/ /\ SessionUp \/ SessionFail \/ SessionDown \/ SessionLost \/ SessionStop
          /\ Announce /\ UNCHANGED undone
       \/ profiles > 0 /\ StartSession
    /\ UNCHANGED <<shown, stop_queue, observing, pending, refresh, profiles>>

\* The user deletes the profile in use in the Settings app.
DeleteProfile ==
    /\ CanDelete /\ profiles > 0
    /\ profiles' = profiles - 1
    /\ ProfileGone
    /\ UNCHANGED <<shown, stop_queue, observerAdded, pending, refresh, undone>>

Next ==
    \/ \E s \in Slots :
          \/ ClickConnect(s) \/ ClickDisconnect(s) \/ AppDisconnect(s)
          \/ HandlerDone(s) \/ RefreshSave(s)
    \/ Delivered \/ RefreshStep \/ SystemStep \/ DeleteProfile

\* Completion handlers and notifications are delivered, the queue's thread
\* runs.  Neither the user nor the session is obliged to do anything.  An
\* outstanding handler is enabled except where one of the model's bounds
\* (a second free slot, MaxNotes, MaxObservers, MaxBlocks) is exhausted;
\* strong fairness keeps the bounds from holding it up for ever.  The same
\* goes for the save of a refresh block that has passed its check.
Fairness ==
    /\ \A s \in Slots : SF_vars(HandlerDone(s))
    /\ SF_vars(\E s \in Slots : RefreshSave(s))
    /\ WF_vars(Delivered) /\ WF_vars(RefreshEnd)

Spec == Init /\ [][Next]_vars

FairSpec == Spec /\ Fairness

-----------------------------------------------------------------------------
(* Properties *)

\* The status the app shows is out of date only while a notification is on
\* its way, or if the session changed with no observer on its connection.
\* There is none before addVPNStatusObserver's callback, which connect asks for
\* only when startVPNTunnel may have taken effect, and none any more once the
\* profile it was registered for has been removed: observerAdded stays TRUE,
\* so the changes of the profile saved in its place reach nobody.
NoLostStatusChange ==
    (~missed /\ notes = 0 /\ goneNotes = 0) => vpnStatus = StatusOf(session)

\* user_started_vpn is true only under the status "on": a view that sees it
\* never acts on a flag left over from an earlier session.
ConnectedFlagSound == vpn_connected => vpnStatus = "on"

\* Requests that end in startVPNTunnel.
StartInFlight == \E s \in Slots : pending[s] \in {"create", "saveNew", "save", "load"}

\* A disconnect() gets its way: as long as no connect follows, the stop it
\* sent is still due or the session is down, but for what undone records.
DisconnectHolds ==
    stop_queue => (StopInFlight \/ undone \/ session \in {"disconnecting", "disconnected"})

\* After the last disconnect() the refresh blocks, of which ConnectVpn may have
\* piled up several, all end, the saves they sent run out, and the session is
\* down, unless its stop found no manager or a start came after it.  That
\* start may be the app's own: a save in flight at the disconnect ends in
\* startVPNTunnel, which asks neither stop_queue nor anything else.
LastDisconnectHolds ==
    <>[]stop_queue => <>[](blocks = 0 /\ ~StartInFlight /\ DisconnectHolds)

\* When the session stays as it is and an observer on its connection heard of
\* its last change, the app's status follows it.
StatusConverges ==
    \A x \in SessionStatus :
        <>[](session = x /\ ~missed) => <>[](vpnStatus = StatusOf(x))
=============================================================================
