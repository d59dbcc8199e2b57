---------------------------- MODULE MainViewProofs ----------------------------
(***************************************************************************)
(* Proofs about VpnControl, for every set of slots and every bound, and    *)
(* about MainView, which extends it, for every length of the countdown and *)
(* every number of connects whose blocks are outstanding.                  *)
(***************************************************************************)
EXTENDS MainView, TLAPS

-----------------------------------------------------------------------------
(* VpnManager *)

\* The inductive invariant: the three safety properties are inductive together
\* with the types.
ControlInv == TypeOK /\ NoLostStatusChange /\ ConnectedFlagSound /\ DisconnectHolds

\* The initial states satisfy the invariant.
LEMMA ControlInitInv == Init => ControlInv
<1> SUFFICES ASSUME Init PROVE ControlInv
    OBVIOUS
<1>1. pending \in [Slots -> Kinds]
    BY DEF Init, Kinds
<1>2. session \in SessionStatus /\ profiles \in 0..2
    BY DEF Init, SessionStatus
<1>3. /\ missed \in BOOLEAN /\ undone \in BOOLEAN /\ checked \in BOOLEAN
      /\ vpn_connected \in BOOLEAN /\ stop_queue \in BOOLEAN /\ observerAdded \in BOOLEAN
    BY DEF Init
<1>4. /\ observers \in 0..MaxObservers /\ blocks \in 0..MaxBlocks
      /\ notes \in 0..MaxNotes /\ goneNotes \in 0..MaxNotes
    BY ControlAssumption DEF ControlAssumption, Init
<1>5. vpnStatus \in {"off", "connecting", "on", "disconnecting"}
    BY DEF Init
<1>6. NoLostStatusChange
    BY DEF Init, NoLostStatusChange, StatusOf
<1>7. ConnectedFlagSound /\ DisconnectHolds
    BY DEF Init, ConnectedFlagSound, DisconnectHolds
<1> QED BY <1>1, <1>2, <1>3, <1>4, <1>5, <1>6, <1>7 DEF ControlInv, TypeOK

-----------------------------------------------------------------------------
(* Types *)

\* Session steps stay within the four statuses.
LEMMA SessionTyped ==
    (SessionStart \/ SessionUp \/ SessionFail \/ SessionStop \/ SessionDown \/ SessionLost)
        => session' \in SessionStatus
BY DEF SessionStart, SessionUp, SessionFail, SessionStop, SessionDown, SessionLost,
       SessionStatus

\* A slot takes one of the known kinds.
LEMMA BecomesTyped ==
    ASSUME TypeOK, NEW s \in Slots, NEW kind \in Kinds, Becomes(s, kind)
    PROVE  pending' \in [Slots -> Kinds]
BY DEF TypeOK, Becomes

\* The variables of a session step, typed as in TypeOK.
SessionVarsOK ==
    /\ session \in SessionStatus
    /\ notes \in 0..MaxNotes /\ goneNotes \in 0..MaxNotes
    /\ missed \in BOOLEAN /\ undone \in BOOLEAN

LEMMA QuietTyped == TypeOK /\ NoSessionStep => SessionVarsOK'
BY DEF TypeOK, NoSessionStep, SessionVarsOK

LEMMA AnnounceTyped ==
    ASSUME TypeOK, Announce
    PROVE  notes' \in 0..MaxNotes /\ goneNotes' \in 0..MaxNotes /\ missed' \in BOOLEAN
BY ControlAssumption DEF ControlAssumption, TypeOK, Announce

LEMMA StartTyped == TypeOK /\ StartSession => SessionVarsOK'
<1> SUFFICES ASSUME TypeOK, StartSession PROVE SessionVarsOK'
    OBVIOUS
<1>1. session' \in SessionStatus
    BY SessionTyped DEF StartSession
<1>2. undone' \in BOOLEAN
    BY DEF TypeOK, StartSession
<1> QED BY <1>1, <1>2, AnnounceTyped DEF StartSession, SessionVarsOK

LEMMA GoneTyped ==
    ASSUME TypeOK, ProfileGone, UNCHANGED undone
    PROVE  SessionVarsOK' /\ observers' \in 0..MaxObservers
<1>1. goneNotes' \in 0..MaxNotes
    BY ControlAssumption DEF ControlAssumption, TypeOK, ProfileGone
<1>2. notes' \in 0..MaxNotes /\ observers' \in 0..MaxObservers
    BY ControlAssumption DEF ControlAssumption, ProfileGone
<1>3. session' \in SessionStatus /\ missed' \in BOOLEAN
    BY DEF TypeOK, ProfileGone, SessionStatus
<1> QED BY <1>1, <1>2, <1>3 DEF TypeOK, SessionVarsOK

LEMMA UpdateTyped ==
    ASSUME TypeOK, UpdateVPNStatus
    PROVE  /\ vpnStatus' \in {"off", "connecting", "on", "disconnecting"}
           /\ vpn_connected' \in BOOLEAN /\ missed' \in BOOLEAN
BY DEF TypeOK, UpdateVPNStatus, StatusOf, SessionStatus

\* Every step keeps the types.
LEMMA ControlTyped == TypeOK /\ [Next]_vars => TypeOK'
<1> SUFFICES ASSUME TypeOK, [Next]_vars PROVE TypeOK'
    OBVIOUS
<1> USE ControlAssumption DEF ControlAssumption
<1>1. ASSUME NEW s \in Slots, ClickConnect(s) \/ ClickDisconnect(s) \/ AppDisconnect(s)
      PROVE  TypeOK'
    <2>1. pending' \in [Slots -> Kinds]
        BY <1>1 DEF TypeOK, ClickConnect, ClickDisconnect, AppDisconnect, Disconnect,
                    Becomes, Kinds
    <2>2. stop_queue' \in BOOLEAN /\ vpn_connected' \in BOOLEAN
        BY <1>1 DEF TypeOK, ClickConnect, ClickDisconnect, AppDisconnect, Disconnect, shown
    <2>3. NoSessionStep /\ UNCHANGED <<vpnStatus, observing, refresh, profiles>>
        BY <1>1 DEF ClickConnect, ClickDisconnect, AppDisconnect, shown
    <2> QED BY <2>1, <2>2, <2>3, QuietTyped DEF TypeOK, SessionVarsOK, observing, refresh
<1>2. ASSUME NEW s \in Slots, ClickConnectDone(s) \/ ClickDisconnectDone(s)
      PROVE  TypeOK'
    <2>1. pending' \in [Slots -> Kinds]
        BY <1>2 DEF TypeOK, ClickConnectDone, ClickDisconnectDone, ConnectVpn, Disconnect,
                    Becomes, Kinds
    <2>2. stop_queue' \in BOOLEAN
        BY <1>2 DEF TypeOK, ClickConnectDone, ClickDisconnectDone, ConnectVpn, Disconnect
    <2>3. NoSessionStep /\ UNCHANGED <<shown, observing, refresh, profiles>>
        BY <1>2 DEF ClickConnectDone, ClickDisconnectDone
    <2> QED BY <2>1, <2>2, <2>3, QuietTyped DEF TypeOK, SessionVarsOK, shown, observing, refresh
<1>3. ASSUME NEW s \in Slots, InitStatusDone(s) PROVE TypeOK'
    <2>1. pending' \in [Slots -> Kinds]
        BY <1>3, BecomesTyped DEF InitStatusDone, Kinds
    <2>2. /\ vpnStatus' \in {"off", "connecting", "on", "disconnecting"}
          /\ vpn_connected' \in BOOLEAN /\ missed' \in BOOLEAN
        <3>1. CASE UpdateVPNStatus
            BY <3>1, UpdateTyped
        <3>2. CASE UNCHANGED <<shown, missed>>
            BY <3>2 DEF TypeOK, shown
        <3> QED BY <1>3, <3>1, <3>2 DEF InitStatusDone
    <2> QED BY <1>3, <2>1, <2>2 DEF TypeOK, InitStatusDone, observing, refresh
<1>4. ASSUME NEW s \in Slots, AddObserverDone(s) PROVE TypeOK'
    <2>1. pending' \in [Slots -> Kinds]
        BY <1>4, BecomesTyped DEF AddObserverDone, Kinds
    <2>2. observers' \in 0..MaxObservers
        BY <1>4 DEF TypeOK, AddObserverDone, observing
    <2>3. observerAdded' \in BOOLEAN
        BY <1>4 DEF TypeOK, AddObserverDone, observing
    <2>4. NoSessionStep /\ UNCHANGED <<shown, stop_queue, refresh, profiles>>
        BY <1>4 DEF AddObserverDone
    <2> QED BY <2>1, <2>2, <2>3, <2>4, QuietTyped DEF TypeOK, SessionVarsOK, shown, refresh
<1>5. ASSUME NEW s \in Slots, StopDone(s) PROVE TypeOK'
    <2>1. pending' \in [Slots -> Kinds]
        BY <1>5, BecomesTyped DEF StopDone, Kinds
    <2>2. SessionVarsOK'
        <3>1. CASE SessionStop /\ Announce /\ undone' = FALSE
            BY <3>1, SessionTyped, AnnounceTyped DEF SessionVarsOK
        <3>2. CASE /\ UNCHANGED <<session, notes, goneNotes, missed>>
                   /\ \/ undone' = FALSE
                      \/ undone' = (session \notin {"disconnecting", "disconnected"})
            BY <3>2 DEF TypeOK, SessionVarsOK
        <3> QED BY <1>5, <3>1, <3>2 DEF StopDone
    <2> QED BY <1>5, <2>1, <2>2 DEF StopDone, TypeOK, SessionVarsOK, shown, observing, refresh
<1>6. ASSUME NEW s \in Slots, CreateDone(s) PROVE TypeOK'
    <2>1. pending' \in [Slots -> Kinds]
        BY <1>6 DEF TypeOK, CreateDone, Becomes, Kinds
    <2>2. blocks' \in 0..MaxBlocks
        BY <1>6 DEF TypeOK, CreateDone
    <2>3. profiles' \in 0..2
        BY <1>6 DEF TypeOK, CreateDone, DelDupConfig
    <2>4. SessionVarsOK' /\ observers' \in 0..MaxObservers
        <3>1. CASE ProfileGone /\ UNCHANGED undone
            BY <3>1, GoneTyped
        <3>2. CASE NoSessionStep /\ UNCHANGED observers
            BY <3>2, QuietTyped DEF TypeOK
        <3> QED BY <1>6, <3>1, <3>2 DEF CreateDone, DelDupConfig
    <2>5. UNCHANGED <<shown, stop_queue, observerAdded, checked>>
        BY <1>6 DEF CreateDone
    <2> QED BY <2>1, <2>2, <2>3, <2>4, <2>5 DEF TypeOK, SessionVarsOK, shown
<1>7. ASSUME NEW s \in Slots, SaveDone(s) PROVE TypeOK'
    <2>1. pending' \in [Slots -> Kinds]
        BY <1>7, BecomesTyped DEF SaveDone, Kinds
    <2>2. profiles' \in 0..2
        BY <1>7 DEF TypeOK, SaveDone
    <2>3. NoSessionStep /\ UNCHANGED <<shown, stop_queue, observing, refresh>>
        BY <1>7 DEF SaveDone
    <2> QED BY <2>1, <2>2, <2>3, QuietTyped DEF TypeOK, SessionVarsOK, shown, observing, refresh
<1>8. ASSUME NEW s \in Slots, LoadDone(s) PROVE TypeOK'
    <2>1. pending' \in [Slots -> Kinds]
        BY <1>8 DEF TypeOK, LoadDone, Becomes, Kinds
    <2>2. SessionVarsOK'
        BY <1>8, StartTyped, QuietTyped DEF LoadDone
    <2>3. UNCHANGED <<shown, stop_queue, observing, refresh, profiles>>
        BY <1>8 DEF LoadDone
    <2> QED BY <2>1, <2>2, <2>3 DEF TypeOK, SessionVarsOK, shown, observing, refresh
<1>9. CASE NoteDone
    <2>1. notes' \in 0..MaxNotes
        BY <1>9 DEF TypeOK, NoteDone
    <2> QED BY <1>9, <2>1, UpdateTyped DEF TypeOK, NoteDone, observing, refresh
<1>10. CASE GoneNoteDone
    <2>1. goneNotes' \in 0..MaxNotes
        BY <1>10 DEF TypeOK, GoneNoteDone
    <2>2. missed' \in BOOLEAN
        BY <1>10 DEF TypeOK, GoneNoteDone
    <2> QED BY <1>10, <2>1, <2>2 DEF TypeOK, GoneNoteDone, observing, refresh
<1>11. ASSUME NEW s \in Slots, RefreshSave(s) PROVE TypeOK'
    <2>1. pending' \in [Slots -> Kinds]
        BY <1>11, BecomesTyped DEF RefreshSave, Kinds
    <2>2. /\ NoSessionStep /\ checked' = FALSE
          /\ UNCHANGED <<shown, stop_queue, observing, blocks, profiles>>
        BY <1>11 DEF RefreshSave
    <2> QED BY <2>1, <2>2, QuietTyped DEF TypeOK, SessionVarsOK, shown, observing
<1>12. CASE RefreshStep
    <2>1. blocks' \in 0..MaxBlocks
        BY <1>12 DEF TypeOK, RefreshStep, RefreshCheck, RefreshEnd
    <2>2. checked' \in BOOLEAN
        BY <1>12 DEF TypeOK, RefreshStep, RefreshCheck, RefreshEnd
    <2>3. NoSessionStep /\ UNCHANGED <<shown, stop_queue, observing, pending, profiles>>
        BY <1>12 DEF RefreshStep, RefreshCheck, RefreshEnd
    <2> QED BY <2>1, <2>2, <2>3, QuietTyped DEF TypeOK, SessionVarsOK, shown, observing
<1>13. CASE SystemStep
    <2>1. SessionVarsOK'
        <3>1. CASE StartSession
            BY <3>1, StartTyped
        <3>2. CASE /\ SessionUp \/ SessionFail \/ SessionDown \/ SessionLost \/ SessionStop
                   /\ Announce /\ UNCHANGED undone
            BY <3>2, SessionTyped, AnnounceTyped DEF TypeOK, SessionVarsOK
        <3> QED BY <1>13, <3>1, <3>2 DEF SystemStep
    <2> QED BY <1>13, <2>1 DEF SystemStep, TypeOK, SessionVarsOK, shown, observing, refresh
<1>14. CASE DeleteProfile
    <2>1. profiles' \in 0..2
        BY <1>14 DEF TypeOK, DeleteProfile
    <2>2. SessionVarsOK' /\ observers' \in 0..MaxObservers
        BY <1>14, GoneTyped DEF DeleteProfile
    <2>3. UNCHANGED <<shown, stop_queue, observerAdded, pending, refresh>>
        BY <1>14 DEF DeleteProfile
    <2> QED BY <2>1, <2>2, <2>3 DEF TypeOK, SessionVarsOK, shown, refresh
<1>15. CASE UNCHANGED vars
    BY <1>15 DEF vars, TypeOK, shown, observing, refresh
<1> QED
    BY <1>1, <1>2, <1>3, <1>4, <1>5, <1>6, <1>7, <1>8, <1>9, <1>10, <1>11, <1>12, <1>13,
       <1>14, <1>15
    DEF Next, HandlerDone, Delivered

-----------------------------------------------------------------------------
(* The status and the session *)

\* A step that changes the session tells the observers there are, or counts
\* as missed.
LEMMA AnnounceKeepsStatus ==
    ASSUME TypeOK, Announce
    PROVE  NoLostStatusChange'
<1>1. observers = 0 => missed'
    BY DEF Announce
<1>2. observers # 0 => notes' # 0
    BY DEF TypeOK, Announce
<1> QED BY <1>1, <1>2 DEF NoLostStatusChange

\* Removing the profile ends its session: with observers on it they are told.
LEMMA GoneKeepsStatus ==
    ASSUME TypeOK, NoLostStatusChange, ProfileGone, UNCHANGED vpnStatus
    PROVE  NoLostStatusChange'
<1>1. CASE notes + goneNotes + observers = 0
    <2>1. notes = 0 /\ goneNotes = 0 /\ observers = 0
        BY <1>1 DEF TypeOK
    <2>2. ~missed' => (~missed /\ session = "disconnected")
        BY <2>1 DEF ProfileGone
    <2>3. session' = "disconnected"
        BY DEF ProfileGone
    <2>4. ~missed' => vpnStatus = StatusOf(session)
        BY <2>1, <2>2 DEF NoLostStatusChange
    <2> QED BY <2>2, <2>3, <2>4 DEF NoLostStatusChange, StatusOf
<1>2. CASE notes + goneNotes + observers # 0
    <2>1. goneNotes' # 0
        BY <1>2 DEF TypeOK, ProfileGone
    <2> QED BY <2>1 DEF NoLostStatusChange
<1> QED BY <1>1, <1>2

LEMMA UpdateAccurate ==
    ASSUME UpdateVPNStatus, UNCHANGED session
    PROVE  NoLostStatusChange' /\ ConnectedFlagSound'
<1>1. vpnStatus' = StatusOf(session) /\ StatusOf(session)' = StatusOf(session)
    BY DEF UpdateVPNStatus, StatusOf
<1>2. vpn_connected' => vpnStatus' = "on"
    BY <1>1 DEF UpdateVPNStatus, StatusOf
<1> QED BY <1>1, <1>2 DEF NoLostStatusChange, ConnectedFlagSound

\* A note of a removed profile's connection makes the status off; that is
\* accurate, or missed says that it is not.
LEMMA GoneNoteAccurate == GoneNoteDone => NoLostStatusChange' /\ ConnectedFlagSound'
<1> SUFFICES ASSUME GoneNoteDone PROVE NoLostStatusChange' /\ ConnectedFlagSound'
    OBVIOUS
<1>1. vpnStatus' = "off" /\ vpn_connected' = FALSE /\ session' = session
    BY DEF GoneNoteDone
<1>2. ~missed' => session = "disconnected"
    BY DEF GoneNoteDone
<1> QED BY <1>1, <1>2 DEF NoLostStatusChange, ConnectedFlagSound, StatusOf

\* A step that leaves the session, its notifications and the status alone.
LEMMA QuietKeepsStatus ==
    ASSUME NoLostStatusChange, UNCHANGED <<vpnStatus, session, notes, goneNotes, missed>>
    PROVE  NoLostStatusChange'
BY DEF NoLostStatusChange, StatusOf

\* Handlers that send requests or answer the user.
QuietHandler(s) ==
    \/ ClickConnect(s) \/ ClickDisconnect(s) \/ AppDisconnect(s)
    \/ ClickConnectDone(s) \/ ClickDisconnectDone(s) \/ AddObserverDone(s)
    \/ SaveDone(s) \/ RefreshSave(s)

LEMMA QuietHandlerQuiet ==
    ASSUME NEW s \in Slots, QuietHandler(s)
    PROVE  NoSessionStep /\ UNCHANGED vpnStatus /\ (vpn_connected' => vpn_connected)
BY DEF QuietHandler, ClickConnect, ClickDisconnect, AppDisconnect, ClickConnectDone,
       ClickDisconnectDone, AddObserverDone, SaveDone, RefreshSave, shown

\* Every step keeps the status accurate and the flag in accord with it.
LEMMA ControlAccurate ==
    TypeOK /\ NoLostStatusChange /\ ConnectedFlagSound /\ [Next]_vars
        => NoLostStatusChange' /\ ConnectedFlagSound'
<1> SUFFICES ASSUME TypeOK, NoLostStatusChange, ConnectedFlagSound, [Next]_vars
             PROVE  NoLostStatusChange' /\ ConnectedFlagSound'
    OBVIOUS
<1>1. ASSUME NEW s \in Slots, QuietHandler(s) PROVE NoLostStatusChange' /\ ConnectedFlagSound'
    BY <1>1, QuietHandlerQuiet, QuietKeepsStatus DEF NoSessionStep, ConnectedFlagSound
<1>2. ASSUME NEW s \in Slots, InitStatusDone(s)
      PROVE  NoLostStatusChange' /\ ConnectedFlagSound'
    <2>1. CASE UpdateVPNStatus
        BY <1>2, <2>1, UpdateAccurate DEF InitStatusDone
    <2>2. CASE UNCHANGED <<shown, missed>>
        BY <1>2, <2>2, QuietKeepsStatus DEF InitStatusDone, shown, ConnectedFlagSound
    <2> QED BY <1>2, <2>1, <2>2 DEF InitStatusDone
<1>3. ASSUME NEW s \in Slots, StopDone(s) \/ LoadDone(s)
      PROVE  NoLostStatusChange' /\ ConnectedFlagSound'
    <2>1. UNCHANGED shown
        BY <1>3 DEF StopDone, LoadDone
    <2>2. Announce \/ UNCHANGED <<session, notes, goneNotes, missed>>
        BY <1>3 DEF StopDone, LoadDone, StartSession, NoSessionStep
    <2> QED BY <2>1, <2>2, AnnounceKeepsStatus, QuietKeepsStatus DEF shown, ConnectedFlagSound
<1>4. ASSUME NEW s \in Slots, CreateDone(s)
      PROVE  NoLostStatusChange' /\ ConnectedFlagSound'
    <2>1. UNCHANGED shown
        BY <1>4 DEF CreateDone
    <2>2. ProfileGone \/ UNCHANGED <<session, notes, goneNotes, missed>>
        BY <1>4 DEF CreateDone, DelDupConfig, NoSessionStep
    <2> QED BY <2>1, <2>2, GoneKeepsStatus, QuietKeepsStatus DEF shown, ConnectedFlagSound
<1>5. CASE NoteDone
    BY <1>5, UpdateAccurate DEF NoteDone
<1>6. CASE GoneNoteDone
    BY <1>6, GoneNoteAccurate
<1>7. CASE RefreshStep
    BY <1>7, QuietKeepsStatus
    DEF RefreshStep, RefreshCheck, RefreshEnd, NoSessionStep, shown, ConnectedFlagSound
<1>8. CASE SystemStep
    BY <1>8, AnnounceKeepsStatus DEF SystemStep, StartSession, shown, ConnectedFlagSound
<1>9. CASE DeleteProfile
    BY <1>9, GoneKeepsStatus DEF DeleteProfile, shown, ConnectedFlagSound
<1>10. CASE UNCHANGED vars
    BY <1>10, QuietKeepsStatus DEF vars, shown, ConnectedFlagSound
<1> QED
    BY <1>1, <1>2, <1>3, <1>4, <1>5, <1>6, <1>7, <1>8, <1>9, <1>10
    DEF Next, HandlerDone, QuietHandler, Delivered

-----------------------------------------------------------------------------
(* Disconnects *)

\* Only the handler of a stop takes it off the slots.
LEMMA StopKept ==
    ASSUME TypeOK, NEW s \in Slots, NEW kind \in Kinds, Becomes(s, kind),
           pending[s] # "stop", StopInFlight
    PROVE  StopInFlight'
<1>1. PICK t \in Slots : pending[t] = "stop"
    BY DEF StopInFlight
<1>2. pending'[t] = "stop"
    BY <1>1 DEF TypeOK, Becomes
<1> QED BY <1>2 DEF StopInFlight

\* A stop that is sent is in flight.
LEMMA StopSent ==
    ASSUME TypeOK, NEW s \in Slots, Becomes(s, "stop")
    PROVE  StopInFlight'
<1>1. pending'[s] = "stop"
    BY DEF TypeOK, Becomes
<1> QED BY <1>1 DEF StopInFlight

\* What most steps do to a disconnect: nothing, or the session ends.
LEMMA HoldsKept ==
    ASSUME DisconnectHolds, stop_queue' => stop_queue, StopInFlight => StopInFlight',
           undone => undone',
           session' = session \/ session' \in {"disconnecting", "disconnected"}
    PROVE  DisconnectHolds'
BY DEF DisconnectHolds

\* A start leaves the stop in flight, or is written down.
LEMMA StartHolds ==
    ASSUME StartSession, StopInFlight => StopInFlight'
    PROVE  DisconnectHolds'
BY DEF StartSession, DisconnectHolds

\* Every step keeps a disconnect, or writes down what undoes it.
LEMMA ControlHolds == TypeOK /\ DisconnectHolds /\ [Next]_vars => DisconnectHolds'
<1> SUFFICES ASSUME TypeOK, DisconnectHolds, [Next]_vars PROVE DisconnectHolds'
    OBVIOUS
<1>1. ASSUME NEW s \in Slots, Disconnect(s) PROVE DisconnectHolds'
    BY <1>1, StopSent DEF Disconnect, DisconnectHolds
<1>2. ASSUME NEW s \in Slots, NEW kind \in Kinds, Becomes(s, kind), pending[s] # "stop",
             stop_queue' = stop_queue, undone => undone',
             session' = session \/ session' \in {"disconnecting", "disconnected"}
      PROVE  DisconnectHolds'
    BY <1>2, StopKept, HoldsKept
<1>3. ASSUME NEW s \in Slots, ClickConnect(s) \/ ClickDisconnect(s) \/ AddObserverDone(s)
                              \/ SaveDone(s) \/ RefreshSave(s) \/ InitStatusDone(s)
      PROVE  DisconnectHolds'
    <2>1. /\ pending[s] # "stop" /\ stop_queue' = stop_queue
          /\ undone' = undone /\ session' = session
        BY <1>3 DEF ClickConnect, ClickDisconnect, AddObserverDone, SaveDone, RefreshSave,
                    InitStatusDone, NoSessionStep
    <2>2. \E kind \in Kinds : Becomes(s, kind)
        BY <1>3 DEF ClickConnect, ClickDisconnect, AddObserverDone, SaveDone, RefreshSave,
                    InitStatusDone, Kinds
    <2> QED BY <1>2, <2>1, <2>2
<1>4. ASSUME NEW s \in Slots, AppDisconnect(s) PROVE DisconnectHolds'
    BY <1>1, <1>4 DEF AppDisconnect
<1>5. ASSUME NEW s \in Slots, ClickConnectDone(s) \/ ClickDisconnectDone(s)
      PROVE  DisconnectHolds'
    <2>1. CASE Disconnect(s)
        BY <1>1, <2>1
    <2>2. CASE stop_queue' = FALSE
        BY <2>2 DEF DisconnectHolds
    <2>3. CASE Becomes(s, "free") /\ UNCHANGED stop_queue
        <3>1. pending[s] # "stop" /\ undone' = undone /\ session' = session
            BY <1>5 DEF ClickConnectDone, ClickDisconnectDone, NoSessionStep
        <3> QED BY <1>2, <2>3, <3>1 DEF Kinds
    <2> QED BY <1>5, <2>1, <2>2, <2>3 DEF ClickConnectDone, ClickDisconnectDone, ConnectVpn
<1>6. ASSUME NEW s \in Slots, StopDone(s) PROVE DisconnectHolds'
    <2>1. CASE SessionStop
        BY <2>1 DEF SessionStop, DisconnectHolds
    <2>2. CASE UNCHANGED session /\ session \in {"disconnecting", "disconnected"}
        BY <2>2 DEF DisconnectHolds
    <2>3. CASE UNCHANGED session /\ undone' = (session \notin {"disconnecting", "disconnected"})
        BY <2>3 DEF DisconnectHolds
    <2> QED BY <1>6, <2>1, <2>2, <2>3 DEF StopDone
<1>7. ASSUME NEW s \in Slots, CreateDone(s) PROVE DisconnectHolds'
    <2>1. \E kind \in Kinds : Becomes(s, kind)
        BY <1>7 DEF CreateDone, Kinds
    <2>2. pending[s] # "stop" /\ stop_queue' = stop_queue
        BY <1>7 DEF CreateDone
    <2>3. undone' = undone /\ (session' = session \/ session' = "disconnected")
        BY <1>7 DEF CreateDone, DelDupConfig, ProfileGone, NoSessionStep
    <2> QED BY <1>2, <2>1, <2>2, <2>3
<1>8. ASSUME NEW s \in Slots, LoadDone(s) PROVE DisconnectHolds'
    <2>1. PICK kind \in Kinds : Becomes(s, kind)
        BY <1>8 DEF LoadDone, Kinds
    <2>2. pending[s] # "stop" /\ stop_queue' = stop_queue
        BY <1>8 DEF LoadDone
    <2>3. CASE StartSession
        BY <2>1, <2>2, <2>3, StopKept, StartHolds
    <2>4. CASE NoSessionStep
        BY <1>2, <2>1, <2>2, <2>4 DEF NoSessionStep
    <2> QED BY <1>8, <2>3, <2>4 DEF LoadDone
<1>9. CASE Delivered \/ RefreshStep
    <2>1. UNCHANGED <<stop_queue, pending, undone, session>>
        BY <1>9 DEF Delivered, NoteDone, GoneNoteDone, RefreshStep, RefreshCheck, RefreshEnd,
                    NoSessionStep
    <2> QED BY <2>1, HoldsKept DEF StopInFlight
<1>10. CASE SystemStep
    <2>1. UNCHANGED <<stop_queue, pending>>
        BY <1>10 DEF SystemStep
    <2>2. CASE StartSession
        BY <2>1, <2>2, StartHolds DEF StopInFlight
    <2>3. CASE SessionUp /\ UNCHANGED undone
        BY <2>1, <2>3 DEF SessionUp, DisconnectHolds, StopInFlight
    <2>4. CASE (SessionFail \/ SessionDown \/ SessionLost \/ SessionStop) /\ UNCHANGED undone
        BY <2>1, <2>4 DEF SessionFail, SessionDown, SessionLost, SessionStop, DisconnectHolds
    <2> QED BY <1>10, <2>2, <2>3, <2>4 DEF SystemStep
<1>11. CASE DeleteProfile
    BY <1>11 DEF DeleteProfile, ProfileGone, DisconnectHolds
<1>12. CASE UNCHANGED vars
    BY <1>12, HoldsKept DEF vars, StopInFlight
<1> QED
    BY <1>3, <1>4, <1>5, <1>6, <1>7, <1>8, <1>9, <1>10, <1>11, <1>12
    DEF Next, HandlerDone

-----------------------------------------------------------------------------
(* The theorems about VpnManager *)

LEMMA ControlStepInv == ControlInv /\ [Next]_vars => ControlInv'
BY ControlTyped, ControlAccurate, ControlHolds DEF ControlInv

\* The invariant holds in every reachable state.
THEOREM ControlInvariant == Spec => []ControlInv
BY ControlInitInv, ControlStepInv, PTL DEF Spec

\* The app's state is always typed.
THEOREM ControlTypeOK == Spec => []TypeOK
<1>1. ControlInv => TypeOK
    BY DEF ControlInv
<1> QED BY <1>1, ControlInvariant, PTL

\* The status shown is stale only while a notification is due or a change
\* came with no observer on the connection that changed.
THEOREM ControlNoLostStatusChange == Spec => []NoLostStatusChange
<1>1. ControlInv => NoLostStatusChange
    BY DEF ControlInv
<1> QED BY <1>1, ControlInvariant, PTL

\* user_started_vpn implies the status "on".
THEOREM ControlFlagSound == Spec => []ConnectedFlagSound
<1>1. ControlInv => ConnectedFlagSound
    BY DEF ControlInv
<1> QED BY <1>1, ControlInvariant, PTL

\* After disconnect() a stop is due or the session is down, unless a start
\* came after the stop or the stop found no manager.
THEOREM ControlDisconnectHolds == Spec => []DisconnectHolds
<1>1. ControlInv => DisconnectHolds
    BY DEF ControlInv
<1> QED BY <1>1, ControlInvariant, PTL

-----------------------------------------------------------------------------
(* VpnManager: what the view sees of it *)

StatusKept == UNCHANGED <<vpnStatus, vpn_connected>>

\* The click handlers take the flag back and leave the status alone.
LEMMA ClickTakesFlagBack ==
    ASSUME NEW s \in Slots, ClickConnect(s) \/ ClickDisconnect(s)
    PROVE  vpn_connected' = FALSE /\ vpnStatus' = vpnStatus
BY DEF ClickConnect, ClickDisconnect

\* updateVPNStatus computes both from the session.
LEMMA UpdateSound == UpdateVPNStatus => ConnectedFlagSound'
BY DEF UpdateVPNStatus, StatusOf, ConnectedFlagSound

LEMMA StatusStepSound == StatusStep => ConnectedFlagSound'
BY UpdateSound, GoneNoteAccurate DEF StatusStep, Delivered, NoteDone

\* No other step of VpnManager assigns either.
LEMMA OtherHandlerKeeps == \A s \in Slots : OtherHandler(s) => StatusKept
<1> SUFFICES ASSUME NEW s \in Slots, OtherHandler(s) PROVE StatusKept
    OBVIOUS
<1>1. CASE ClickConnectDone(s) \/ ClickDisconnectDone(s)
    BY <1>1 DEF ClickConnectDone, ClickDisconnectDone, StatusKept, shown
<1>2. CASE /\ ManagerNil /\ InitStatusDone(s)
           /\ UNCHANGED <<shown, missed>>
    BY <1>2 DEF StatusKept, shown
<1>3. CASE AddObserverDone(s) \/ StopDone(s)
    BY <1>3 DEF AddObserverDone, StopDone, StatusKept, shown
<1>4. CASE CreateDone(s)
    BY <1>4 DEF CreateDone, StatusKept, shown
<1>5. CASE SaveDone(s) \/ LoadDone(s)
    BY <1>5 DEF SaveDone, LoadDone, StatusKept, shown
<1> QED
    BY <1>1, <1>2, <1>3, <1>4, <1>5 DEF OtherHandler

LEMMA ManagerStepKeeps == ManagerStep => StatusKept
BY OtherHandlerKeeps
   DEF ManagerStep, AppDisconnect, RefreshSave, RefreshStep, RefreshCheck, RefreshEnd,
       SystemStep, DeleteProfile, StatusKept, shown

-----------------------------------------------------------------------------
(* The view *)

\* The three facts a step of the view may disturb.
ViewSound == LinkShownHasTunnel /\ LoadingIsTimed /\ DisabledButtonReturns

\* The inductive invariant.  Without ConnectedFlagSound a late block could show a link
\* over a tunnel that has ended.
ViewInv == ViewTypeOK /\ ConnectedFlagSound /\ ViewSound

\* refreshLinkView brings an enabled button; what it shows has to be sound.
LEMMA ShowLinkSound ==
    ASSUME NEW link \in BOOLEAN, ShowLink(link), link => IsConnected'
    PROVE  /\ isLink' \in BOOLEAN /\ btnEnabled' \in BOOLEAN
           /\ LinkShownHasTunnel' /\ DisabledButtonReturns'
BY DEF ShowLink, LinkShownHasTunnel, DisabledButtonReturns

\* A second of the countdown keeps the timer as long as there are seconds.
LEMMA CountDownSound ==
    ASSUME ViewTypeOK, LoadingIsTimed, CountDown
    PROVE  /\ loadingTime' \in 0..LoadingTime /\ LoadingIsTimed'
           /\ codeTimer' \in {"none", "getCodeTime", "incFreeGetCodeTime"}
BY ViewAssumption DEF ViewAssumption, ViewTypeOK, LoadingIsTimed, CountDown

\* A block is sent or runs: their number stays within the bound.
LEMMA BlocksBounded ==
    /\ 0 \in 0..MaxPairs /\ 0 \in 0..LoadingTime /\ LoadingTime \in 0..LoadingTime
    /\ \A n \in 0..MaxPairs : n < MaxPairs => n + 1 \in 0..MaxPairs /\ n + 1 > 0
    /\ \A n \in 0..MaxPairs : n > 0 => n - 1 \in 0..MaxPairs
    /\ \A n, k \in 0..MaxPairs : n > k => n - 1 \in 0..MaxPairs
BY ViewAssumption DEF ViewAssumption

LEMMA ViewInitInv == ViewInit => ViewInv
<1> SUFFICES ASSUME ViewInit PROVE ViewInv
    OBVIOUS
<1>1. vpn_connected = FALSE /\ isLink = FALSE /\ btnEnabled = TRUE
    BY DEF ViewInit, Init
<1>2. loadingTime = 0 /\ codeTimer = "none" /\ enableBlocks = 0 /\ showBlocks = 0
    BY DEF ViewInit
<1>3. ~(0 > 0)
    OBVIOUS
<1>4. ViewTypeOK
    BY <1>1, <1>2, BlocksBounded DEF ViewTypeOK
<1>5. ConnectedFlagSound /\ LinkShownHasTunnel /\ DisabledButtonReturns
    BY <1>1 DEF ConnectedFlagSound, LinkShownHasTunnel, DisabledButtonReturns
<1>6. LoadingIsTimed
    BY <1>2, <1>3 DEF LoadingIsTimed
<1> QED
    BY <1>4, <1>5, <1>6 DEF ViewInv, ViewSound

LEMMA ConnectSound ==
    ASSUME ViewInv, NEW s \in Slots, connectVpn(s)
    PROVE  ViewInv'
<1>1. vpn_connected' = FALSE /\ vpnStatus' = vpnStatus
    BY ClickTakesFlagBack DEF connectVpn
<1>2. ConnectedFlagSound' /\ LinkShownHasTunnel'
    BY <1>1 DEF ViewInv, ViewSound, ConnectedFlagSound, LinkShownHasTunnel, IsConnected, connectVpn
<1>3. enableBlocks' \in 0..MaxPairs /\ enableBlocks' > 0 /\ showBlocks' \in 0..MaxPairs
    BY BlocksBounded DEF connectVpn, ViewInv, ViewTypeOK
<1>4. loadingTime' \in 0..LoadingTime /\ codeTimer' = "getCodeTime"
    BY BlocksBounded DEF connectVpn, StartLoading
<1>5. btnEnabled' = FALSE /\ isLink' = isLink
    BY DEF connectVpn
<1>6. ViewTypeOK'
    BY <1>3, <1>4, <1>5 DEF ViewInv, ViewTypeOK
<1>7. LoadingIsTimed' /\ DisabledButtonReturns'
    BY <1>3, <1>4 DEF LoadingIsTimed, DisabledButtonReturns
<1> QED
    BY <1>2, <1>6, <1>7 DEF ViewInv, ViewSound

\* disconnectVpn, and the picker, which does the same whatever is shown.
LEMMA TakenBackSound ==
    ASSUME ViewInv, ShowLink(FALSE), vpn_connected' => vpnStatus' = "on",
           UNCHANGED <<loadingTime, codeTimer, enableBlocks, showBlocks>>
    PROVE  ViewInv'
<1>1. /\ isLink' \in BOOLEAN /\ btnEnabled' \in BOOLEAN
      /\ LinkShownHasTunnel' /\ DisabledButtonReturns'
    BY ShowLinkSound
<1>2. ViewTypeOK' /\ LoadingIsTimed'
    BY <1>1 DEF ViewInv, ViewSound, ViewTypeOK, LoadingIsTimed
<1> QED
    BY <1>1, <1>2 DEF ViewInv, ViewSound, ConnectedFlagSound

LEMMA DisconnectSound ==
    ASSUME ViewInv, NEW s \in Slots, disconnectVpn(s) \/ PickCountry(s)
    PROVE  ViewInv'
BY ClickTakesFlagBack, TakenBackSound DEF disconnectVpn, PickCountry

\* Every step of the view and of VpnManager keeps the invariant.
LEMMA ViewStepInv == ViewInv /\ [ViewNext]_appVars => ViewInv'
<1> SUFFICES ASSUME ViewInv, [ViewNext]_appVars PROVE ViewInv'
    OBVIOUS
<1>1. CASE \E s \in Slots : LinkBtnClicked(s) \/ PickCountry(s)
    BY <1>1, ConnectSound, DisconnectSound DEF LinkBtnClicked
<1>2. CASE ClickIncreaseFreeTime
    BY <1>2, ViewAssumption
       DEF ViewAssumption, ClickIncreaseFreeTime, managerVars, vars, shown, StartLoading, ViewInv, ViewTypeOK,
           ConnectedFlagSound, ViewSound, LinkShownHasTunnel, IsConnected, LoadingIsTimed,
           DisabledButtonReturns
<1>3. CASE ReloadLanguage
    <2>1. vpnStatus' = vpnStatus /\ vpn_connected' = vpn_connected
        BY <1>3 DEF ReloadLanguage, managerVars, vars, shown
    <2>2. (isLink \/ IsConnected) \in BOOLEAN /\ ShowLink(isLink \/ IsConnected)
        BY <1>3 DEF ReloadLanguage, ViewInv, ViewTypeOK, IsConnected
    <2>3. (isLink \/ IsConnected) => IsConnected'
        BY <2>1 DEF ViewInv, ViewSound, LinkShownHasTunnel, IsConnected
    <2>4. /\ isLink' \in BOOLEAN /\ btnEnabled' \in BOOLEAN
          /\ LinkShownHasTunnel' /\ DisabledButtonReturns'
        BY <2>2, <2>3, ShowLinkSound
    <2>5. ViewTypeOK' /\ LoadingIsTimed' /\ ConnectedFlagSound'
        BY <1>3, <2>1, <2>4 DEF ReloadLanguage, ViewInv, ViewSound, ViewTypeOK, LoadingIsTimed, ConnectedFlagSound
    <2> QED BY <2>4, <2>5 DEF ViewInv, ViewSound
<1>4. CASE LinkedByCodeTime
    <2>1. vpnStatus' = vpnStatus /\ vpn_connected' = vpn_connected
        BY <1>4 DEF LinkedByCodeTime, managerVars, vars, shown
    <2>2. IsConnected'
        BY <1>4, <2>1 DEF LinkedByCodeTime, ViewInv, ConnectedFlagSound, IsConnected
    <2>3. /\ isLink' \in BOOLEAN /\ btnEnabled' \in BOOLEAN
          /\ LinkShownHasTunnel' /\ DisabledButtonReturns'
        BY <1>4, <2>2, ShowLinkSound DEF LinkedByCodeTime
    <2>4. ViewTypeOK' /\ LoadingIsTimed' /\ ConnectedFlagSound'
        BY <1>4, <2>1, <2>3, ViewAssumption
           DEF ViewAssumption, LinkedByCodeTime, StopLoading, ViewInv, ViewSound, ViewTypeOK,
               LoadingIsTimed, ConnectedFlagSound
    <2> QED BY <2>3, <2>4 DEF ViewInv, ViewSound
<1>5. CASE CountDownCodeTime
    <2>1. vpnStatus' = vpnStatus /\ vpn_connected' = vpn_connected
        BY <1>5 DEF CountDownCodeTime, managerVars, vars, shown
    <2>2. /\ loadingTime' \in 0..LoadingTime /\ LoadingIsTimed'
          /\ codeTimer' \in {"none", "getCodeTime", "incFreeGetCodeTime"}
        BY <1>5, CountDownSound DEF CountDownCodeTime, ViewInv, ViewSound
    <2>3. /\ isLink' \in BOOLEAN /\ btnEnabled' \in BOOLEAN
          /\ LinkShownHasTunnel' /\ DisabledButtonReturns'
        <3>1. CASE ShowLink(FALSE)
            BY <3>1, ShowLinkSound
        <3>2. CASE UNCHANGED <<isLink, btnEnabled>>
            BY <1>5, <2>1, <3>2
               DEF CountDownCodeTime, ViewInv, ViewSound, ViewTypeOK, LinkShownHasTunnel,
                   IsConnected, DisabledButtonReturns
        <3> QED BY <1>5, <3>1, <3>2 DEF CountDownCodeTime
    <2> QED
        BY <1>5, <2>1, <2>2, <2>3
           DEF CountDownCodeTime, ViewInv, ViewSound, ViewTypeOK, ConnectedFlagSound
<1>6. CASE AdShown
    BY <1>6, ViewAssumption
       DEF ViewAssumption, AdShown, managerVars, vars, shown, StopLoading, ViewInv, ViewTypeOK, ConnectedFlagSound,
           ViewSound, LinkShownHasTunnel, IsConnected, LoadingIsTimed, DisabledButtonReturns
<1>7. CASE CountDownIncFree
    <2>1. /\ loadingTime' \in 0..LoadingTime /\ LoadingIsTimed'
          /\ codeTimer' \in {"none", "getCodeTime", "incFreeGetCodeTime"}
        BY <1>7, CountDownSound DEF CountDownIncFree, ViewInv, ViewSound
    <2> QED
        BY <1>7, <2>1
           DEF CountDownIncFree, managerVars, vars, shown, ViewInv, ViewTypeOK, ConnectedFlagSound, ViewSound,
               LinkShownHasTunnel, IsConnected, DisabledButtonReturns
<1>8. CASE EnableBlock
    <2>1. enableBlocks' \in 0..MaxPairs
        BY <1>8, BlocksBounded DEF EnableBlock, ViewInv, ViewTypeOK
    <2>2. btnEnabled' = TRUE /\ UNCHANGED <<managerVars, isLink, loadingTime, codeTimer, showBlocks>>
        BY <1>8 DEF EnableBlock
    <2>3. ViewTypeOK'
        BY <2>1, <2>2 DEF ViewInv, ViewTypeOK
    <2> QED
        BY <2>2, <2>3
           DEF managerVars, vars, shown, ViewInv, ConnectedFlagSound, ViewSound, LinkShownHasTunnel, IsConnected,
               LoadingIsTimed, DisabledButtonReturns
<1>9. CASE ShowBlock
    <2>1. vpnStatus' = vpnStatus /\ vpn_connected' = vpn_connected
        BY <1>9 DEF ShowBlock, managerVars, vars, shown
    <2>2. /\ isLink' \in BOOLEAN /\ btnEnabled' \in BOOLEAN
          /\ LinkShownHasTunnel' /\ DisabledButtonReturns'
        <3>1. CASE vpn_connected /\ ShowLink(TRUE)
            BY <2>1, <3>1, ShowLinkSound DEF ViewInv, ConnectedFlagSound, IsConnected
        <3>2. CASE UNCHANGED <<isLink, btnEnabled>>
            BY <1>9, <2>1, <3>2
               DEF ShowBlock, ViewInv, ViewSound, ViewTypeOK, LinkShownHasTunnel,
                   IsConnected, DisabledButtonReturns
        <3> QED BY <1>9, <3>1, <3>2 DEF ShowBlock
    <2>3. showBlocks' \in 0..MaxPairs
        BY <1>9, BlocksBounded DEF ShowBlock, ViewInv, ViewTypeOK
    <2>4. UNCHANGED <<loadingTime, codeTimer, enableBlocks>>
        BY <1>9 DEF ShowBlock
    <2>5. ViewTypeOK'
        BY <2>2, <2>3, <2>4 DEF ViewInv, ViewTypeOK
    <2>6. LoadingIsTimed' /\ ConnectedFlagSound'
        BY <2>1, <2>4 DEF ViewInv, ViewSound, LoadingIsTimed, ConnectedFlagSound
    <2> QED
        BY <2>2, <2>5, <2>6 DEF ViewInv, ViewSound
<1>10. CASE OutOfTime
    <2>1. CASE \E s \in Slots : disconnectVpn(s)
        BY <2>1, DisconnectSound
    <2>2. CASE ShowLink(FALSE) /\ UNCHANGED <<managerVars, loadingTime, codeTimer, enableBlocks, showBlocks>>
        BY <2>2, TakenBackSound DEF managerVars, vars, shown, ViewInv, ConnectedFlagSound
    <2> QED BY <1>10, <2>1, <2>2 DEF OutOfTime
<1>11. CASE StatusStep
    <2>1. ConnectedFlagSound'
        BY <1>11, StatusStepSound
    <2> QED BY <1>11, <2>1, TakenBackSound DEF StatusStep, ReloadVPNStatus, ConnectedFlagSound
<1>12. CASE ManagerStep
    BY <1>12, ManagerStepKeeps
       DEF ManagerStep, StatusKept, viewVars, ViewInv, ViewTypeOK, ConnectedFlagSound, ViewSound,
           LinkShownHasTunnel, IsConnected, LoadingIsTimed, DisabledButtonReturns
<1>13. CASE UNCHANGED appVars
    BY <1>13
       DEF appVars, managerVars, vars, shown, viewVars, ViewInv, ViewTypeOK, ConnectedFlagSound, ViewSound,
           LinkShownHasTunnel, IsConnected, LoadingIsTimed, DisabledButtonReturns
<1> QED
    BY <1>1, <1>2, <1>3, <1>4, <1>5, <1>6, <1>7, <1>8, <1>9, <1>10, <1>11, <1>12, <1>13
       DEF ViewNext, CodeTimerFires

\* The inductive invariant holds of every behaviour.
THEOREM ViewInvariant == ViewSpec => []ViewInv
BY ViewInitInv, ViewStepInv, PTL DEF ViewSpec

\* The view's fields are typed: the countdown stays within its seconds and
\* no more blocks are outstanding than connects.
THEOREM ViewTyped == ViewSpec => []ViewTypeOK
<1>1. ViewInv => ViewTypeOK
    BY DEF ViewInv
<1> QED BY <1>1, ViewInvariant, PTL

\* A shown link has a tunnel that is on or connecting, whichever of the six
\* parties wrote the flag last (MainViewController.m).
THEOREM ViewLink == ViewSpec => []LinkShownHasTunnel
<1>1. ViewInv => LinkShownHasTunnel
    BY DEF ViewInv, ViewSound
<1> QED BY <1>1, ViewInvariant, PTL

\* The loading view always has the timer that ends it.
THEOREM ViewLoading == ViewSpec => []LoadingIsTimed
<1>1. ViewInv => LoadingIsTimed
    BY DEF ViewInv, ViewSound
<1> QED BY <1>1, ViewInvariant, PTL

\* A disabled button has a block on its way that enables it.
THEOREM ViewButton == ViewSpec => []DisabledButtonReturns
<1>1. ViewInv => DisabledButtonReturns
    BY DEF ViewInv, ViewSound
<1> QED BY <1>1, ViewInvariant, PTL

-----------------------------------------------------------------------------
(* The composition *)

\* Under the view VpnManager takes its own steps only: a view that reads and
\* writes around it adds no behaviour to it.
LEMMA ViewStepManages == [ViewNext]_appVars => [Next]_vars
<1> SUFFICES ASSUME [ViewNext]_appVars PROVE [Next]_vars
    OBVIOUS
<1>1. ASSUME NEW s \in Slots, ClickConnect(s) \/ ClickDisconnect(s) PROVE Next
    BY <1>1 DEF Next
<1>2. CASE \E s \in Slots : LinkBtnClicked(s) \/ PickCountry(s)
    BY <1>1, <1>2 DEF LinkBtnClicked, PickCountry, connectVpn, disconnectVpn
<1>3. CASE ClickIncreaseFreeTime \/ ReloadLanguage
    BY <1>3 DEF ClickIncreaseFreeTime, ReloadLanguage, managerVars
<1>4. CASE CodeTimerFires \/ EnableBlock \/ ShowBlock
    BY <1>4 DEF CodeTimerFires, LinkedByCodeTime, CountDownCodeTime, AdShown, CountDownIncFree,
                EnableBlock, ShowBlock, managerVars
<1>5. CASE OutOfTime
    BY <1>1, <1>5 DEF OutOfTime, disconnectVpn, managerVars
<1>6. CASE StatusStep
    BY <1>6 DEF StatusStep, Next, HandlerDone
<1>7. CASE ManagerStep
    BY <1>7 DEF ManagerStep, OtherHandler, Next, HandlerDone
<1>8. CASE UNCHANGED appVars
    BY <1>8 DEF appVars, managerVars
<1> QED BY <1>2, <1>3, <1>4, <1>5, <1>6, <1>7, <1>8 DEF ViewNext

\* MainView implements VpnControl: every behaviour of the view is one of
\* VpnManager, whatever the view's timers and blocks do.
THEOREM ViewImplementsControl == ViewSpec => Spec
BY ViewStepManages, PTL DEF ViewSpec, ViewInit, Spec

\* So what holds of VpnManager holds under the view: it too sees a status
\* that is stale only while a notification is due or a change came with no
\* observer on the connection that changed.
THEOREM ViewNoLostStatusChange == ViewSpec => []NoLostStatusChange
BY ViewImplementsControl, ControlNoLostStatusChange, PTL
=============================================================================
