-------------------------------- MODULE FreeTime --------------------------------
(***************************************************************************)
(* The free-time counter that the app and the extension keep together.     *)
(*                                                                         *)
(* mLeftFreeUseTimeMilli and mTodayFreeDayTm live in the defaults of the   *)
(* app group.  The extension counts down once a second and ends itself     *)
(* when nothing is left (StartFreeTimeTimer in the vendored NEKit); the    *)
(* app counts down too while it shows no link, refills the counter of a    *)
(* VIP, adds the rewards of ads (MainViewController) and grants the day's  *)
(* hour when it starts (InitP2pNetwork).  Every one of them reads, computes*)
(* and writes with no lock between the two processes, and either process   *)
(* may end between its read and its write.                                 *)
(*                                                                         *)
(* The counter is always a multiple of 1000 ms: it is counted in seconds.  *)
(***************************************************************************)
EXTENDS Integers

CONSTANTS
    DayGrant,    \* the seconds of a day's grant and of a VIP's refill (3600)
    Rewards,     \* the seconds an ad may earn (1200, 1500, 1800)
    MaxEarned,   \* bound: seconds earned by ads in a behaviour
    MaxDay       \* bound: days in a behaviour

ASSUME FreeTimeAssumption ==
    /\ DayGrant \in Nat /\ Rewards \subseteq Nat
    /\ MaxEarned \in Nat /\ MaxDay \in Nat \ {0}

VARIABLES
    left,      \* mLeftFreeUseTimeMilli, in seconds
    stamp,     \* mTodayFreeDayTm
    today,     \* the day of the clock
    ext,       \* where the extension's timer handler is; "none": no process
    extLocal,  \* the local variable it computes with
    app,       \* where the app's handler is; "dead": no process
    appLocal,
    awake,     \* the app is not suspended
    vip,       \* IsVip
    isLink,    \* the main view shows a link
    earned     \* history: seconds earned by ads

vars == <<left, stamp, today, ext, extLocal, app, appLocal, awake, vip, isLink, earned>>

extVars == <<ext, extLocal>>
appVars == <<app, appLocal, awake, vip, isLink, earned>>

Init ==
    /\ today = 1 /\ stamp \in {0, 1}
    /\ left \in 0..DayGrant
    /\ ext = "none" /\ extLocal = 0
    /\ app = "dead" /\ appLocal = 0 /\ awake = TRUE
    /\ vip \in BOOLEAN /\ isLink = FALSE /\ earned = 0

-----------------------------------------------------------------------------
(* The extension *)

\* ProxyServer.start, once per process: the timer's first tick is due at once.
ExtStart ==
    /\ ext = "none"
    /\ ext' = "idle"
    /\ UNCHANGED <<left, stamp, today, extLocal, appVars>>

\* stopTunnel's exit, or the system ends the process, wherever the tick is.
ExtEnd ==
    /\ ext # "none"
    /\ ext' = "none"
    /\ UNCHANGED <<left, stamp, today, extLocal, appVars>>

TickRead ==
    /\ ext = "idle"
    /\ ext' = "count" /\ extLocal' = left
    /\ UNCHANGED <<left, stamp, today, appVars>>

\* Mutant: the counter is not compared before it is counted down.
TickCountUnguarded ==
    /\ ext = "count"
    /\ left' = extLocal - 1
    /\ ext' = "day"
    /\ UNCHANGED <<stamp, today, extLocal, appVars>>

TickCount ==
    /\ ext = "count" /\ extLocal >= 1
    /\ left' = extLocal - 1
    /\ ext' = "day"
    /\ UNCHANGED <<stamp, today, extLocal, appVars>>

\* Mutant: nothing left is no reason to end.
TickOutStays ==
    /\ ext = "count" /\ extLocal < 1
    /\ ext' = "day"
    /\ UNCHANGED <<left, stamp, today, extLocal, appVars>>

\* exit(0)
TickOut ==
    /\ ext = "count" /\ extLocal < 1
    /\ ext' = "none"
    /\ UNCHANGED <<left, stamp, today, extLocal, appVars>>

TickDay ==
    /\ ext = "day"
    /\ IF stamp = today THEN ext' = "idle" /\ UNCHANGED extLocal
       ELSE ext' = "stamp" /\ extLocal' = today
    /\ UNCHANGED <<left, stamp, today, appVars>>

TickStamp ==
    /\ ext = "stamp"
    /\ stamp' = extLocal
    /\ ext' = "grant"
    /\ UNCHANGED <<left, today, extLocal, appVars>>

\* Mutant: the day's grant is added to what is left.
TickGrantAdds ==
    /\ ext = "grant"
    /\ left' = left + DayGrant
    /\ ext' = "idle"
    /\ UNCHANGED <<stamp, today, extLocal, appVars>>

TickGrant ==
    /\ ext = "grant"
    /\ left' = DayGrant
    /\ ext' = "idle"
    /\ UNCHANGED <<stamp, today, extLocal, appVars>>

Tick == TickRead \/ TickCount \/ TickOut \/ TickDay \/ TickStamp \/ TickGrant

-----------------------------------------------------------------------------
(* The app.  Its handlers all run on the main thread, one after the other. *)

Runs(pc) == app = pc /\ awake

\* The app starts; InitP2pNetwork, unless the peer-to-peer library does not
\* start, reads the day of the last grant.
AppStart ==
    /\ app = "dead"
    /\ awake' = TRUE /\ isLink' = FALSE
    /\ \/ app' = "idle" /\ UNCHANGED appLocal
       \/ stamp # today /\ app' = "stamp" /\ appLocal' = today
    /\ UNCHANGED <<left, stamp, today, extVars, vip, earned>>

InitStamp ==
    /\ Runs("stamp")
    /\ stamp' = appLocal
    /\ app' = "grant"
    /\ UNCHANGED <<left, today, extVars, appLocal, awake, vip, isLink, earned>>

InitGrant ==
    /\ Runs("grant")
    /\ left' = DayGrant
    /\ app' = "idle"
    /\ UNCHANGED <<stamp, today, extVars, appLocal, awake, vip, isLink, earned>>

\* reloadBalance, each second and on each change of the balance.
RefreshRead ==
    /\ Runs("idle")
    /\ app' = "refresh" /\ appLocal' = left
    /\ UNCHANGED <<left, stamp, today, extVars, awake, vip, isLink, earned>>

RefreshVip ==
    /\ Runs("refresh") /\ vip
    /\ left' = IF appLocal < 2 THEN DayGrant ELSE left
    /\ app' = "idle"
    /\ UNCHANGED <<stamp, today, extVars, appLocal, awake, vip, isLink, earned>>

\* Without a link the app counts down itself.
CountedDown == IF ~isLink /\ appLocal >= 1 THEN appLocal - 1 ELSE appLocal

\* Mutant: the link is not taken back when the time is over.
RefreshFreeKeepsLink ==
    /\ Runs("refresh") /\ ~vip
    /\ left' = IF CountedDown # appLocal THEN CountedDown ELSE left
    /\ app' = "idle"
    /\ UNCHANGED <<stamp, today, extVars, appLocal, awake, vip, isLink, earned>>

\* When the time is over disconnectVpn asks the tunnel to stop, which ends the
\* extension later (ExtEnd), and the link is taken back at once.
RefreshFree ==
    /\ Runs("refresh") /\ ~vip
    /\ left' = IF CountedDown # appLocal THEN CountedDown ELSE left
    /\ isLink' = (isLink /\ CountedDown > 1)
    /\ app' = "idle"
    /\ UNCHANGED <<stamp, today, extVars, appLocal, awake, vip, earned>>

\* ChangeFreeUseTimeMilli, when an ad has earned its reward.
RewardRead ==
    /\ Runs("idle") /\ \E r \in Rewards : earned + r <= MaxEarned
    /\ app' = "reward" /\ appLocal' = left
    /\ UNCHANGED <<left, stamp, today, extVars, awake, vip, isLink, earned>>

RewardWrite(r) ==
    /\ Runs("reward") /\ earned + r <= MaxEarned
    /\ left' = appLocal + r
    /\ earned' = earned + r
    /\ app' = "idle"
    /\ UNCHANGED <<stamp, today, extVars, appLocal, awake, vip, isLink>>

\* The other handlers of the view set isLink: the button, the progress timer,
\* the block five seconds after a connect, a change of the tunnel's status.
ViewLinks(l) ==
    /\ Runs("idle") /\ isLink # l
    /\ isLink' = l
    /\ UNCHANGED <<left, stamp, today, extVars, app, appLocal, awake, vip, earned>>

\* CheckVip and getLeftDays find another number of days.
VipChanges ==
    /\ Runs("idle")
    /\ vip' = ~vip
    /\ UNCHANGED <<left, stamp, today, extVars, app, appLocal, awake, isLink, earned>>

\* The system suspends the app, wherever it is, and lets it run again.
Suspend ==
    /\ app # "dead"
    /\ awake' = ~awake
    /\ UNCHANGED <<left, stamp, today, extVars, app, appLocal, vip, isLink, earned>>

AppEnd ==
    /\ app # "dead"
    /\ app' = "dead"
    /\ UNCHANGED <<left, stamp, today, extVars, appLocal, awake, vip, isLink, earned>>

DayChange ==
    /\ today < MaxDay
    /\ today' = today + 1
    /\ UNCHANGED <<left, stamp, extVars, appVars>>

AppHandlers ==
    \/ InitStamp \/ InitGrant
    \/ RefreshVip \/ RefreshFree
    \/ \E r \in Rewards : RewardWrite(r)

Next ==
    \/ ExtStart \/ ExtEnd \/ Tick
    \/ AppStart \/ AppHandlers
    \/ RefreshRead \/ RewardRead
    \/ \E l \in BOOLEAN : ViewLinks(l)
    \/ VipChanges \/ Suspend \/ AppEnd \/ DayChange

Spec == Init /\ [][Next]_vars

\* The extension's timer keeps firing while the process lives; a handler that
\* the main thread has begun goes on, and the app's timer fires, while the app
\* is not suspended.
Fairness ==
    /\ WF_vars(Tick)
    /\ WF_vars(AppHandlers)
    /\ WF_vars(RefreshRead)

LiveSpec == Spec /\ Fairness

-----------------------------------------------------------------------------
(* Properties *)

TypeOK ==
    /\ left \in Nat
    /\ stamp \in 0..MaxDay /\ today \in 1..MaxDay
    /\ ext \in {"none", "idle", "count", "day", "stamp", "grant"}
    /\ app \in {"dead", "idle", "refresh", "reward", "stamp", "grant"}
    /\ extLocal \in Nat /\ appLocal \in Nat
    /\ awake \in BOOLEAN /\ vip \in BOOLEAN /\ isLink \in BOOLEAN
    /\ earned \in 0..MaxEarned

\* Grants replace what is left, they do not add to it: whatever the days, the
\* refills and the stale writes, the counter never shows more than one grant
\* and the rewards of ads.
GrantsDoNotPileUp == left <= DayGrant + earned

\* Who is no VIP for good is cut off again and again: the lost updates between
\* the two processes cannot keep a session alive for ever.
FreeSessionsEnd == (<>[]~vip) => []<>(ext = "none")

\* A link that is shown with no time left is taken back, unless the app is
\* suspended or ended, time is added or the user becomes a VIP meanwhile.
OutOfTimeUnlinks ==
    (app # "dead" /\ awake /\ ~vip /\ isLink /\ left <= 1)
        ~> (~isLink \/ left > 1 \/ vip \/ ~awake \/ app = "dead")

\* Free time is for those who are no VIP: the extension does not end a VIP's
\* session because free time is over.
VipNotCutOff == [][TickOut => ~vip]_vars
=============================================================================
