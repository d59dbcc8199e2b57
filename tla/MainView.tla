-------------------------------- MODULE MainView --------------------------------
(***************************************************************************)
(* The main view (MainViewController.m) over the app's tunnel control      *)
(* (module VpnControl).  The view keeps a flag of its own, isLink, for     *)
(* what its round button shows, and decides from it what a click does.     *)
(* The flag is written by six parties: the click handlers, the one-second  *)
(* countdown of a connect, a block five seconds after it, the one-second   *)
(* balance timer, the country picker, and the status notification that     *)
(* VpnManager posts from the didSet observer of vpnStatus.                 *)
(*                                                                         *)
(* All of them run on the main queue.  Seconds are not counted against     *)
(* each other: a timer or a delayed block runs at any time after it was    *)
(* scheduled.                                                              *)
(***************************************************************************)
EXTENDS VpnControl

CONSTANTS
    LoadingTime,   \* seconds a connect shows the loading view (7 in the code)
    MaxPairs       \* bound: connects whose five-second blocks are outstanding

ASSUME ViewAssumption ==
    /\ LoadingTime \in Nat \ {0}
    /\ MaxPairs \in Nat \ {0}

VARIABLES
    isLink,        \* the link is shown as connected
    loadingTime,   \* _loadingTime, 0 standing for -1 too
    codeTimer,     \* what codeTimer, if any, calls each second
    btnEnabled,    \* linkBtn.enabled
    enableBlocks,  \* outstanding blocks that enable linkBtn
    showBlocks     \* outstanding blocks that show the link

\* The names of VpnControl keep their meaning: vars are VpnManager's.
managerVars == vars
viewVars == <<isLink, loadingTime, codeTimer, btnEnabled, enableBlocks, showBlocks>>
appVars == <<managerVars, viewVars>>

\* The view's part; VpnControl types its own variables.
ViewTypeOK ==
    /\ isLink \in BOOLEAN /\ btnEnabled \in BOOLEAN
    /\ loadingTime \in 0..LoadingTime
    /\ codeTimer \in {"none", "getCodeTime", "incFreeGetCodeTime"}
    /\ enableBlocks \in 0..MaxPairs
    /\ showBlocks \in 0..MaxPairs

\* viewDidLoad finds the status as vpn_init's load, still outstanding, left it.
ViewInit ==
    /\ Init
    /\ isLink = FALSE /\ btnEnabled = TRUE
    /\ loadingTime = 0 /\ codeTimer = "none"
    /\ enableBlocks = 0 /\ showBlocks = 0

-----------------------------------------------------------------------------
(* Pieces of the handlers *)

\* isLink is assigned and refreshLinkView called: it builds a new linkBtn,
\* which is enabled whatever the old one was.
ShowLink(link) == isLink' = link /\ btnEnabled' = TRUE

\* IsConnected
IsConnected == vpnStatus \in {"connecting", "on"}

\* addtagBtnClicked, clickIncreaseFreeTime: the countdown starts, in place of
\* one that may be running (the old MSWeakTimer is invalidated when the
\* property lets go of it).
StartLoading(selector) == loadingTime' = LoadingTime /\ codeTimer' = selector

StopLoading == loadingTime' = 0 /\ codeTimer' = "none"

\* A second of the countdown; the last one invalidates the timer.
CountDown ==
    /\ loadingTime' = IF loadingTime > 0 THEN loadingTime - 1 ELSE 0
    /\ codeTimer' = IF loadingTime' > 0 THEN codeTimer ELSE "none"

\* Mutant: the block that enables the button is not sent when one is on its
\* way, without waiting for it to run.
connectVpnOneBlock(s) ==
    /\ loadingTime = 0
    /\ showBlocks < MaxPairs
    /\ ClickConnect(s)
    /\ StartLoading("getCodeTime")
    /\ btnEnabled' = FALSE
    /\ enableBlocks' = IF showBlocks > 0 THEN enableBlocks ELSE 1
    /\ showBlocks' = showBlocks + 1
    /\ UNCHANGED isLink

\* connectVpn: DoClickConnect, the loading view, and the two blocks.
connectVpn(s) ==
    /\ loadingTime = 0
    /\ enableBlocks < MaxPairs /\ showBlocks < MaxPairs
    /\ ClickConnect(s)
    /\ StartLoading("getCodeTime")
    /\ btnEnabled' = FALSE
    /\ enableBlocks' = enableBlocks + 1 /\ showBlocks' = showBlocks + 1
    /\ UNCHANGED isLink

\* disconnectVpn: nothing while the loading view is up.
disconnectVpn(s) ==
    /\ loadingTime = 0 /\ isLink
    /\ ClickDisconnect(s)
    /\ ShowLink(FALSE)
    /\ UNCHANGED <<loadingTime, codeTimer, enableBlocks, showBlocks>>

-----------------------------------------------------------------------------
(* The user.  A click while the loading view is up, or with no free time    *)
(* left, changes nothing here (the latter shows an alert, which offers      *)
(* ClickIncreaseFreeTime).                                                  *)

LinkBtnClicked(s) ==
    /\ btnEnabled
    /\ IF isLink THEN disconnectVpn(s) ELSE connectVpn(s)

\* Another country is picked: disconnects whatever is shown or loading.
PickCountry(s) ==
    /\ ClickDisconnect(s)
    /\ ShowLink(FALSE)
    /\ UNCHANGED <<loadingTime, codeTimer, enableBlocks, showBlocks>>

ClickIncreaseFreeTime ==
    /\ StartLoading("incFreeGetCodeTime")
    /\ UNCHANGED <<managerVars, isLink, btnEnabled, enableBlocks, showBlocks>>

\* Another language is picked: reloadLanguage runs viewDidLoad again.
ReloadLanguage ==
    /\ ShowLink(isLink \/ IsConnected)
    /\ UNCHANGED <<managerVars, loadingTime, codeTimer, enableBlocks, showBlocks>>

-----------------------------------------------------------------------------
(* Timers and delayed blocks *)

\* getCodeTime: once the tunnel is up the link is shown, at once for a VIP or
\* around an advertisement (shown now or less than 30 s ago); otherwise the
\* countdown goes on, and a tunnel that is not up at its end is given up.
LinkedByCodeTime ==
    /\ codeTimer = "getCodeTime" /\ vpn_connected
    /\ ShowLink(TRUE)
    /\ StopLoading
    /\ UNCHANGED <<managerVars, enableBlocks, showBlocks>>

CountDownCodeTime ==
    /\ codeTimer = "getCodeTime"
    /\ CountDown
    /\ IF loadingTime' = 0 /\ ~vpn_connected
       THEN ShowLink(FALSE) ELSE UNCHANGED <<isLink, btnEnabled>>
    /\ UNCHANGED <<managerVars, enableBlocks, showBlocks>>

\* Mutant: the timer is invalidated, _loadingTime not reset.
AdShownKeepsTime ==
    /\ codeTimer = "incFreeGetCodeTime"
    /\ codeTimer' = "none"
    /\ UNCHANGED <<managerVars, isLink, btnEnabled, loadingTime, enableBlocks, showBlocks>>

\* incFreeGetCodeTime: an advertisement is ready, or the user is a VIP whose
\* tunnel is up.
AdShown ==
    /\ codeTimer = "incFreeGetCodeTime"
    /\ StopLoading
    /\ UNCHANGED <<managerVars, isLink, btnEnabled, enableBlocks, showBlocks>>

CountDownIncFree ==
    /\ codeTimer = "incFreeGetCodeTime"
    /\ CountDown
    /\ UNCHANGED <<managerVars, isLink, btnEnabled, enableBlocks, showBlocks>>

CodeTimerFires == LinkedByCodeTime \/ CountDownCodeTime \/ AdShown \/ CountDownIncFree

\* The two blocks five seconds after a connect, in the order they were sent.
\* They do not know which connect they belong to.
EnableBlock ==
    /\ enableBlocks > 0
    /\ enableBlocks' = enableBlocks - 1
    /\ btnEnabled' = TRUE
    /\ UNCHANGED <<managerVars, isLink, loadingTime, codeTimer, showBlocks>>

\* Mutant: the block asks whether a connect was made, not whether the tunnel
\* is up.
ShowBlockUnconditional ==
    /\ showBlocks > enableBlocks
    /\ showBlocks' = showBlocks - 1
    /\ IF ~isLink THEN ShowLink(TRUE) ELSE UNCHANGED <<isLink, btnEnabled>>
    /\ UNCHANGED <<managerVars, loadingTime, codeTimer, enableBlocks>>

\* Mutant: the block leaves the link alone while a loading view is up.
ShowBlockUnlessLoading ==
    /\ showBlocks > enableBlocks
    /\ showBlocks' = showBlocks - 1
    /\ IF ~isLink /\ vpn_connected /\ loadingTime = 0
       THEN ShowLink(TRUE) ELSE UNCHANGED <<isLink, btnEnabled>>
    /\ UNCHANGED <<managerVars, loadingTime, codeTimer, enableBlocks>>

ShowBlock ==
    /\ showBlocks > enableBlocks
    /\ showBlocks' = showBlocks - 1
    /\ IF ~isLink /\ vpn_connected THEN ShowLink(TRUE) ELSE UNCHANGED <<isLink, btnEnabled>>
    /\ UNCHANGED <<managerVars, loadingTime, codeTimer, enableBlocks>>

\* reloadBalance with the free time used up: disconnectVpn, which may return
\* early, and then the link is taken back all the same.
OutOfTime ==
    /\ \/ \E s \in Slots : disconnectVpn(s)
       \/ /\ loadingTime > 0 \/ ~isLink
          /\ ShowLink(FALSE)
          /\ UNCHANGED <<managerVars, loadingTime, codeTimer, enableBlocks, showBlocks>>

-----------------------------------------------------------------------------
(* VpnManager *)

\* reloadVPNStatus, called by vpnStatus' didSet.  updateVPNStatus has set
\* vpn_connected to FALSE by then and sets it to TRUE only afterwards, so the
\* branch that shows the link is never taken.
ReloadVPNStatus ==
    /\ ShowLink(FALSE)
    /\ UNCHANGED <<loadingTime, codeTimer, enableBlocks, showBlocks>>

\* The steps of VpnManager that assign vpnStatus: the notifications and
\* vpn_init's load.
StatusStep ==
    /\ \/ Delivered
       \/ /\ ManagerLoaded
          /\ UpdateVPNStatus
          /\ \E s \in Slots : InitStatusDone(s)
    /\ ReloadVPNStatus

OtherHandler(s) ==
    \/ ClickConnectDone(s) \/ ClickDisconnectDone(s)
    \/ /\ ManagerNil /\ InitStatusDone(s)
       /\ UNCHANGED <<shown, missed>>
    \/ AddObserverDone(s) \/ StopDone(s)
    \/ CreateDone(s) \/ SaveDone(s) \/ LoadDone(s)

ManagerStep ==
    /\ \/ \E s \in Slots : OtherHandler(s) \/ AppDisconnect(s)
                           \/ RefreshSave(s)
       \/ RefreshStep \/ SystemStep \/ DeleteProfile
    /\ UNCHANGED viewVars

ViewNext ==
    \/ \E s \in Slots : LinkBtnClicked(s) \/ PickCountry(s)
    \/ ClickIncreaseFreeTime \/ ReloadLanguage
    \/ CodeTimerFires \/ EnableBlock \/ ShowBlock \/ OutOfTime
    \/ StatusStep \/ ManagerStep

\* The main queue's timers and delayed blocks run.
ViewFairness ==
    /\ WF_appVars(CodeTimerFires)
    /\ WF_appVars(EnableBlock) /\ WF_appVars(ShowBlock)

ViewSpec == ViewInit /\ [][ViewNext]_appVars

ViewFairSpec == ViewSpec /\ ViewFairness

-----------------------------------------------------------------------------
(* Properties *)

\* The view shows a link only while VpnManager's status is on or connecting:
\* no late block, countdown or balance tick shows a tunnel that has ended
\* since, though each of them reads vpn_connected at its own time.
LinkShownHasTunnel == isLink => IsConnected

\* While _loadingTime is positive a timer counts it down.  connectVpn and
\* disconnectVpn both return while it is positive, so a countdown that lost
\* its timer would leave a button that does nothing for good.
LoadingIsTimed == loadingTime > 0 => codeTimer # "none"

\* A button that is disabled has a block on its way that enables it, also
\* when clicks, countries and status changes have replaced it in between.
DisabledButtonReturns == ~btnEnabled => enableBlocks > 0

\* The loading view does not stay: its countdown ends, unless the user asks
\* for more free time over and over.
LoadingEnds == []<>(loadingTime = 0) \/ []<><<ClickIncreaseFreeTime>>_appVars

\* A tunnel that is known to be up while a connect's last block is outstanding
\* is shown, or known to be gone, in the end.  This is the only path for a
\* tunnel that takes longer than the countdown of another party lets it, since
\* reloadVPNStatus never shows a link; a tunnel that comes up after the last
\* block is not shown at all.
ConnectedLinkIsShown == (showBlocks > 0 /\ vpn_connected) ~> (isLink \/ ~vpn_connected)
=============================================================================
