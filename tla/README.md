# TLA+ models of TenonVPN for iOS

This directory holds the formal models of the control logic of the TenonVPN
iOS client: the packet tunnel extension, the code of the app that starts and
stops it and what the app's main view shows of it, the routing of connections
inside the extension, one proxied connection from lwIP's receive path to the
remote socket, the free-time counter both processes share, the in-app purchase,
and VIP by balance. TLC checks the models on small instances; TLAPS proves the
safety and refinement properties for every value of the constants.

Contents

1. [The system](#1-the-system)
2. [Modules](#2-modules)
3. [Runs](#3-runs)
4. [Fairness](#4-fairness)
5. [Proofs](#5-proofs)
6. [What the checks found](#6-what-the-checks-found)
7. [Not modelled](#7-not-modelled)
8. [Plan](#8-plan)

## 1. The system

Two processes, one profile, one set of shared defaults:

```
   app process                                 extension process
   MainViewController.m   (view, link)         PacketTunnelProvider.swift
   ViewController.swift   (connect handlers)     startTunnel / stopTunnel / observeValue
   VpnManager.swift       (profile, session)     refresh block, rule list
   TenonP2pLib.swift      (balance, VIP, keys)   vendored NEKit: RuleManager, Tunnel,
   RechargeViewController.m (purchase, keychain)  TCPStack, ProxyServer, free-time timer
        |        |                               tun2socks: TSIPStack, TSTCPSocket, lwIP
        |        +--- app group defaults: mLeftFreeUseTimeMilli, mTodayFreeDayTm ---+
        +--- NetworkExtension: the profile's providerConfiguration, the session's status
```

| Component | State | Operations | Interacts with |
|---|---|---|---|
| Packet tunnel provider (`PacketTunnelProvider.swift`) | `started`, `interface`, `proxyServer`, `lastPath`, the refresh queue, the two node tables, the keyword lists | `startTunnel`, the completion of `setTunnelNetworkSettings`, `observeValue` and its delayed restart, `stopTunnel`, the refresh block | NetworkExtension (calls, completion handlers), the profile's configuration, the singleton TCP stack |
| VPN manager (`VpnManager.swift`) | `vpnStatus`, `vpn_connected`, `stop_queue`, `observerAdded`, node strings | `vpn_init`, `connect`, `disconnect`, `updateVPNStatus`, `addVPNStatusObserver`, `delDupConfig`, its own refresh block | NetworkExtension (asynchronous preferences), the views (notification) |
| Connect handlers (`ViewController.swift`) | chosen country and nodes | `DoClickConnect`, `clickConnect`, `DoClickDisconnect`, `ConnectVpn`, `requestData` | VPN manager, the notification settings' callback |
| Routing rules (`PacketTunnelProvider.swift` 40-380, NEKit `Rule/*`, `Tunnel.swift`) | keyword lists, `RuleManager.currentManager`, each connection's session | building the list, `match`, `didReceive`, `openAdapter` | the resolver (callback), restarts |
| Free time (`Utils.swift`, `TenonP2pLib.swift`, `MainViewController.m`) | counter and day stamp in the app group, `isLink`, VIP state | the extension's timer, `reloadBalance`, `ChangeFreeUseTimeMilli`, `InitP2pNetwork` | both processes, no lock |
| Main view (`MainViewController.m`) | `isLink`, `_loadingTime` and its timer, `linkBtn.enabled`, the delayed blocks of each connect | `connectVpn`, `disconnectVpn`, `getCodeTime`, `incFreeGetCodeTime`, `reloadVPNStatus`, `reloadBalance`, the country and language pickers | connect handlers, `vpnStatus` and `vpn_connected`, status notifications |
| VIP payment and balance (`TenonP2pLib.swift`) | `payfor_gid`, `payfor_timestamp`, `payfor_amount`, `vip_left_days`, `now_balance`, the saved status | `requestData`, `PayforVpn`, `PayforVipTrans`, `CheckVip`, `getLeftDays`, `InitP2pNetwork` | peer-to-peer library, defaults |
| In-app purchase (`RechargeViewController.m`, `KeychainManager.m`) | StoreKit's queue, the page and its timer, the keychain item in memory and on disk | ordering, `updatedTransactions`, `completeTransaction`, verifying, storing, posting, the two resending loops, `GetBalance`, `GetPrivateKey`, `SavePrivateKey` | StoreKit, Apple's and the vendor's server, the chain |
| Account keys (`TenonP2pLib.swift`) | key list in defaults and keychain | `SavePrivateKey`, `ResetPrivateKey`, `GetPrivateKey` | keychain, which a purchase shares |
| Node tables (`ShadowsocksAdapter.swift`, `BaseViewContrller.swift`) | `route_map`, `vpn_map` | merging, choosing | provider, connections |
| Proxy data path (NEKit `Tunnel.swift`, `TUNTCPSocket.swift`, `GCDTCPSocket.swift`, tun2socks `TSTCPSocket.swift`) | status of both sides, pending read and data, `remainWriteLength`, blocks of the queue | `didRead`, `didWrite`, `checkReadData`, `disconnect`, `forceClose`, `checkStatus` | lwIP's callbacks, CocoaAsyncSocket, the server's tunnel list |
| lwIP TCP receive path (`tcp_in.c`, `tcp.c`, `tcp_out.c`) | `rcv_nxt`, the windows and their right edge, `ooseq`, acknowledgement flags | `tcp_input`, `tcp_receive`, `tcp_recved`, `tcp_update_rcv_ann_wnd`, `tcp_output` | the device's TCP, TSTCPSocket |
| Ad splash (`ADViewController.m`) | countdown, `bIsShowAd` | jump, dismissal, location | main view, VPN manager |

What makes it hard:

* **Callbacks in no fixed order.** `connect` is a chain of four requests to
  NetworkExtension; `disconnect`, the status observer and the refresh block
  send their own, and `ConnectVpn` starts a stop and a start in one turn.
* **Restarts inside a process.** `observeValue` calls `startTunnel` again a
  second later, over fields, a singleton TCP stack and keyword lists that the
  first call already used.
* **Two writers.** A restart and the refresh block write the node tables; the
  app and the extension write the free-time counter, each from a copy.
* **Three parties to one item.** The purchase page, the main view's resending
  loop and the balance tick write the keychain item, each a field at a time.
* **One queue, many callbacks.** A proxied connection is a chain of blocks on
  one queue; closing either side starts another chain behind those waiting.
* **No timer below.** lwIP's timer is never scheduled, so what TCP promises has
  to come from traffic.
* **Ends at any point.** `exit` on a stop, on an empty counter, on a missing
  configuration; traps on `try!` and on an unwrapped nil; the system's kill.

What makes each component correct, and the property that says so:

| Component | Correct if | Property |
|---|---|---|
| provider | while started one interface is live and served | `ServedWhileStarted` |
| | a change to any network but the one first remembered gets its restart | `OnlyRememberedUnserved`, `NewNetworkServed` |
| | a stable configuration reaches both tables for good | `RefreshConverges` |
| | its steps are those of the session the app is written against, and it always completes them | `ImplementsSession`, `ProviderSettles` |
| | a stop can trap only before it is started | `TrapOnlyBeforeStarted` |
| VPN manager | the shown status is stale only while news is on its way, or if no observer is on the session's connection | `NoLostStatusChange`, `StatusConverges` |
| | the connected flag is never left over | `ConnectedFlagSound` (proved) |
| | after the last disconnect the session is down, unless its stop found no manager or a start came after it | `LastDisconnectHolds` (its safety part proved) |
| routing | a rule always matches; global mode tunnels everything | `AlwaysMatched`, `GlobalTunnelsAll` |
| | restarts change no route without reason | `RestartKeepsRoutes`, `LeftoversBounded` |
| free time | lost updates neither give time away nor keep a session for ever | `GrantsDoNotPileUp`, `FreeSessionsEnd`, `OutOfTimeUnlinks` |
| main view | a shown link has a tunnel, and a tunnel that is up while a connect's block is outstanding is shown | `LinkShownHasTunnel`, `ConnectedLinkIsShown` |
| | neither the loading view nor a disabled button stays | `LoadingEnds`, `DisabledButtonReturns` |
| purchase | a stored receipt has its own record, but for a kill between the two; it is forgotten only when the chain shows the purchase, or by a launch after a change or loss of the account | `StoredWhole`, `ForgottenOnlyConfirmed` |
| | a stored purchase is credited, and its receipt goes | `StoredPurchaseCredited`, `ReceiptGoes` |
| VIP | a known payment is lost only on the library's word or with the account; each confirmed one becomes known once there are no days left without it | `KnownPaymentKept`, `PaymentBecomesKnown` |
| lwIP receive | the application gets the peer's stream, each byte once and in order, and its end | `Intact`, `OoseqOrdered`, `ImplementsStream`, `StreamAcked` |
| | the window is given back and never taken back | `WindowRestored`, `EdgeNeverShrinks` |
| connection | exactly one right to read each side; no byte of the device lost or doubled | `OneTurnEach`, `UploadIntact`, `UploadForwarded` |
| | both sides end, elegantly, and a forgotten tunnel holds nothing | `TunnelEnds`, `ElegantClose`, `ClosedReleased` |

## 2. Modules

| Module | Models | Instance | Proofs |
|---|---|---|---|
| `TunnelSession` | the abstract session: what `NEVPNConnection.status` may do | - | - |
| `TunnelProvider` | `PacketTunnelProvider.swift`; implements `TunnelSession` | `MCTunnelProvider` | `TunnelProviderProofs` |
| `VpnControl` | `VpnManager.swift` and the handlers of `ViewController.swift`; takes the session's steps from `TunnelSession` | `MCVpnControl` | `MainViewProofs` |
| `RuleRouting` | the rule list, its evaluation and `Tunnel.didReceive` | `MCRuleRouting` | `RuleRoutingProofs` |
| `FreeTime` | the counter shared by app and extension | `MCFreeTime` | `FreeTimeProofs` |
| `MainView` | `MainViewController.m`, over `VpnControl` | `MCMainView` | `MainViewProofs` |
| `Purchase` | StoreKit, the recharge page, the keychain item, resending, confirmation | `MCPurchase` | `PurchaseProofs` |
| `VipPayment` | the balance tick, payments for VIP, the saved status, against the chain | `MCVipPayment` | `VipPaymentProofs` |
| `ByteStream` | the abstract stream a TCP connection promises its reader | - | - |
| `TcpReceive` | lwIP's receive path; implements `ByteStream` | `MCTcpReceive` | `TcpReceiveProofs` |
| `ProxyTunnel` | one proxied connection between lwIP and the remote socket | `MCProxyTunnel` | `ProxyTunnelProofs` |

`TunnelSession` is the interface between the two processes: `TunnelProvider`
is shown to implement it (`ImplementsSession` for safety, `ProviderSettles`
for its liveness), and `VpnControl` is checked against any session that
behaves like it, so neither side needs the other's state. `MainView` extends
`VpnControl` by the view's variables: every step is one of the view's, one of
`VpnManager`'s, or, where the code calls across, both. That the view adds
nothing to what `VpnControl` lets its caller do is proved
(`ViewImplementsControl`).

Operators whose comment begins with "Mutant:" are faulty variants of the
definition that follows them; nothing in the specifications uses them. Each
one, put in the place of that definition, breaks the property it was written
for, which shows that the property can fail.

### TunnelProvider

One step is one handler. The variables carry the names of the fields;
`up`, `exit` and `triedOn` are history (what the system has been told, why the
last process ended, the path of the last start). `starting` is a start between its
two node tables: `StartTunnelBody` writes the first, `StartTunnelRest` the
second, and the refresh thread of an earlier start may run in between. The serial queue is the
number of its blocks, `blocks`, of which the first one runs forever, split at
each of its writes (`RefreshRead`, `RefreshRoute`, `RefreshVpn`); `snap` is
the configuration it read. A configuration is its version number, because
only its age matters here; what it contains is the matter of `RuleRouting`.
A `providerConfiguration` saved by the app is visible to the extension at
once. `StartTunnel` and `RestartTunnel` share `StartTunnelBody`, as the code
does. `SettingsApplied` is the completion's whole body: it stops the old
interface, which takes the TCP stack away, and then builds the new one. A
process that ends loses its memory (`EndProcess`).

### VpnControl

A completion handler that has been asked for and not yet delivered occupies a
slot with its kind; `pending` is the set of them with no order among them,
since NetworkExtension and `getNotificationSettings` promise none. `notes`
counts status notifications queued and not delivered. The handlers read the
session's status when they run, not when it changed. `missed` is history:
the session changed while no observer was on its connection; so is `undone`: the
last stop that was answered found no manager, or a start came after it with no
stop due. `profiles` distinguishes
none, one and several saved profiles (`delDupConfig` removes all of several,
`DeleteProfile` is the user's hand in the Settings app).
The status observer is bound to one connection (`object: manager.connection`,
`VpnManager.swift:110`): `observers` and `notes` are those of the connection of
`managers[0]`, and when that profile is removed (`ProfileGone`) its observers
hear of the end, once, and of nothing that the profile saved in its place does;
`goneNotes` are such notifications. `observerAdded` stays true. A step of the
refresh block is split between its check (`RefreshCheck`) and its save
(`RefreshSave`), since a disconnect may come between.
Preference requests fail at will if `CanFail`. `ConnectVpn` may also find no
node and do nothing; which node it finds is not modelled.

### RuleRouting

A rule is the set of sessions it matches and the adapter it gives; a session is
a host and an address. Hosts, addresses and countries are sets; what the
code decides by comparing strings is given by constants: which hosts contain
one of the words (`KeyHosts`, `ChatHosts`) or a country's code (`CodeIn`),
where an address is (`CountryOf`), what the lists of the configuration name.
The one string that matters, the entry `s,apple.com`, is a sequence, so that
`TypeStr` can take the two characters the code takes. Fields that survive a
restart (`domainNotKeyWords`, as `codes`) are variables. A connection keeps
the session and the adapter it got, and the mode of the start whose list was
asked.

### FreeTime

Each handler is split at its read and its writes, because the other process
may write in between and either may die there. The counter is counted in
seconds: every value the code writes is a multiple of 1000 ms. `isLink` and
the VIP state are set by code that is not part of this module and change
whenever the app's main thread is free; `disconnectVpn` reaches the extension
later, as `ExtEnd`, if at all. The app may be suspended anywhere.

### MainView

The view's flag `isLink` is written by the click handlers, the countdown of a
connect, the block five seconds after it, the balance timer, the country
picker and the status notification. All of them run on the main queue, in any
order: seconds are not counted against each other. `vpnStatus`' didSet calls
`reloadVPNStatus` before `updateVPNStatus` has set `vpn_connected`, so
`StatusStep` always takes the branch that removes the link. `ShowLink` also
enables the button, because `refreshLinkView` builds a new one. The two delayed
blocks of a connect do not know which connect they belong to; they are two
counters. Whether free time is left is open at each tick (`OutOfTime`); what it is
is the matter of `FreeTime`.

### Purchase

A transaction goes through StoreKit's queue, the handler's stages
(`VerifyReceipt`, the three writes of `StorePurchase`, `PostFirst`), the server
and the chain; `batches` are blocks of `updatedTransactions` dispatched and not
run. `stage` is what the main thread does in its present turn, `clearing` how far
`GetBalance`, which three handlers call, is in emptying the item: each write is
a step of its own, and `Relaunch`, a kill and a launch, may come between any
two. The handler finishes the transaction first, so a kill loses what it has
not stored yet. `KeychainItemWrapper` keeps a copy of the item in memory and
writes the whole of it at each change of a field: `memory` and `disk`.
`clearKeyChain` deletes the item on disk only. A launch that finds no
`all_private_key` in the defaults empties the purchase (`GetPrivateKey`) and
saves a key (`SavePrivateKey`), which deletes the item and empties the defaults
before the new key is in them; `keyed` says whether it is. `torn` is history: a
kill hit the storing of a purchase between receipt and record. Of a purchase's
fields the receipt and the record's transaction are kept; type, amount and key are
written (`SetOther`) and left out. A receipt that Apple would refuse is stored
like any other (`accepted`). Requests are answered, answered with an error or
lost. A change of language, which runs the main view's `viewDidLoad` once more and
so sends a stored receipt once more, is left out.

### VipPayment

Amounts are days (66 Tenon each), times are days. The library has no source
here; what it may say is `Answers`: at any time the last payment the chain has
confirmed, that there is none, a text that is no date, for which the code takes
`Int64.max` (`NoTime`), or nothing of two fields. `CheckVip` takes over whatever
differs from what it knows, as the code does, so an answer can take a known
payment back; `denied` (history) says that the last one was no payment.
`CheckVip`, `GetLeftDays` and `PayforVipTrans` are the functions of these names; a
payment is a new one if `payfor_gid` is empty and otherwise the same one again.
A payment's `gid` is kept next to its date, which the code goes by, so that two
payments of one day differ: the code's dates are in milliseconds.
`ResetPrivateKey` empties the defaults, the saved status in them too, and keeps
the status in memory (`wiped`, history); if the library refuses the key the next
launch takes it (`other`). No purchase is stored meanwhile (`GetLocalAmount` is
zero): stored purchases are the matter of `Purchase`.

### TcpReceive and ByteStream

`pcb` holds the receiving fields of `struct tcp_pcb`. A segment is its
sequence number, the length its header says (`len`) and the bytes its pbuf
holds (`data`): both, because `pbuf_realloc` can only shrink. `TcpInput` is
`tcp_input` as a whole: trimming, `tcp_receive` with the queue of out-of-order
segments, the calls of the application, which reports every byte as taken, and
the acknowledgement. The peer sends any part of its stream that the announced
window allows, at any time, as often as it likes: this is loss, repetition,
reordering and retransmission in new pieces. Sequence numbers are taken
modulo `Modulus`, and compared the way the code does, through the macros or
plainly. `SendsData` stands for data of the application that carries an
acknowledgement. `arrived` flips at each segment, so that the arrival of one
that changes nothing is a step, which fairness can speak of.

### ProxyTunnel

Everything runs on `QueueFactory`'s serial queue; `queue` is its blocks in
order, with the callbacks of lwIP and CocoaAsyncSocket between them. `sock` is
`TUNTCPSocket` with its `TSTCPSocket` (`valid`: it has a pcb), `conn` the
`GCDAsyncSocket` below the adapter. Bytes going up are numbered, so that loss,
doubling and order are visible; bytes coming down are counted.
`unanswered` is history: an empty write, or one of at least `WriteLimit`
(65 535) bytes, that no sent event will follow.

## 3. Runs

| Run | Checks | Distinct states | Result |
|---|---|---|---|
| `provider` | `ServedWhileStarted`, `OnlyRememberedUnserved`, `TrapOnlyBeforeStarted`, `ImplementsSession`, `RefreshConverges`, `NewNetworkServed`, `ProviderSettles` | 258 280 | hold |
| `control` | `NoLostStatusChange`, `LastDisconnectHolds`, `StatusConverges` | 184 667 | hold |
| `routing` | `AlwaysMatched`, `GlobalTunnelsAll`, `LeftoversBounded`, `RestartKeepsRoutes` | 8 840 | hold |
| `routing_listed` | `ListedDomainDirect` | - | violated |
| `free_time` | `TypeOK`, `GrantsDoNotPileUp`, `FreeSessionsEnd`, `OutOfTimeUnlinks` | 289 204 | hold |
| `free_time_vip` | `VipNotCutOff` | - | violated |
| `view` | `LinkShownHasTunnel`, `DisabledButtonReturns`, `LoadingEnds`, `ConnectedLinkIsShown` | 973 545 | hold |
| `purchase` | `StoredWhole`, `ForgottenOnlyConfirmed`, `StoredPurchaseCredited`, `ReceiptGoes` | 66 906 | hold |
| `vip` | `KnownPaymentKept`, `PaymentBecomesKnown` | 102 628 | hold |
| `tcp_receive` | `Intact`, `OoseqOrdered`, `WindowRestored`, `EdgeNeverShrinks`, `ImplementsStream`, `StreamAcked` | 6 356 | hold |
| `tcp_wrap` | `Intact` | - | violated |
| `proxy_tunnel` | `OneTurnEach`, `UploadIntact`, `ClosedReleased`, `ElegantClose`, `UploadForwarded`, `TunnelEnds` | 107 668 | hold |

Typing is proved where a module has proofs, and then not checked again by its
run. Safety and liveness of a component share a run, under the
specification with fairness, whose steps are the same. Only `proxy_tunnel`
turns the deadlock check off: a connection that is closed on both sides, with
an empty queue, has nothing more to do.

Bounds, and why they suffice:

* `provider`: two satisfied paths besides an unsatisfied one and none, so a
  path can change, return and vanish; three starts in a process, so that a
  restart of a restart happens and two settings requests are outstanding at a
  time; two delayed restarts; two configurations to be published, so that a
  snapshot can be older than the table.
* `control`: two slots, so that the stop and the start of one `ConnectVpn` are
  outstanding together, and then a save of the refresh block next to a later
  stop; two observers, for the duplicate registration; three notifications; two
  refresh blocks; failing preference requests; profiles that are duplicated and
  removed.
* `routing`: one host or address of each kind that some rule tells apart
  (among them a host that holds both a keyword and a country's code), two
  countries, both modes, three starts. One connection, because connections
  share nothing but the rule list; it is received and resolved on either side
  of a restart.
* `free_time`: a grant of three seconds and rewards of one or two, so that
  the counter reaches its end, its threshold of one second and a value above
  the grant; two days; three seconds of rewards in total.
* `view`: the countdown has one second, its last: an earlier one changes only
  the number, and any step of the others may come before it; two connects'
  blocks may be outstanding, so that those of an old connect run during or
  after a later one. `VpnControl` has two slots and one of everything else,
  because the view sees it only through the status and the flag; requests that
  fail and profiles deleted by the user are left to `control`.
* `purchase`: two transactions: one purchase overtakes
  another at every stage and writes half of the item. Kills, relaunches and
  account changes are not counted.
* `vip`: a month of two days and four days, so that a payment is valid, ends
  and is followed by another; funds for three days, more than a month, so that
  a balance is left beside a payment; two payments, so that a second one is
  covered by the first, follows it, or is dropped. Account changes are not
  counted.
* `tcp_receive`: nine bytes and a window of six: the window moves on and is
  smaller than the stream; three disjoint segments and a FIN can wait in the
  queue, overlap and cover each other. `Mss` and the update
  threshold are smaller than the window, as in the code, so that an update is
  sometimes announced and sometimes not. The modulus is large enough that nothing
  wraps; `tcp_wrap` has one where it does.
* `proxy_tunnel`: two bytes up, in one segment or two, three down, a piece of
  three bytes being one that is too long for a write; an unbounded queue.

## 4. Fairness

Safety is checked and proved without fairness. The liveness runs assume, weakly
unless noted:

* `TunnelProvider`: NetworkExtension answers `setTunnelNetworkSettings` and
  delivers a stop; the main queue runs restarts that are due; the queue's
  thread runs its block. The user, the network and the app owe nothing: no
  fairness on starts, stops, path changes, publishing or kills.
* `VpnControl`: completion handlers are delivered. They are enabled except
  where a bound of the model is used up for the moment, so strong fairness per
  slot is what the plain promise of delivery becomes under the bounds.
  Notifications are delivered and the refresh block's thread runs; its save, which
  needs a free slot, is strongly fair for the same reason.
* `FreeTime`: the extension's timer fires while its process lives; a handler
  the app's main thread has begun goes on, and its one-second timer fires,
  while the app is neither suspended nor ended. The actions are disabled
  otherwise, so nothing is promised for a suspended app.

* `MainView`: the main queue's timers and delayed blocks run. Nothing is
  assumed of `VpnManager`, the user or the session.
* `Purchase`: the main thread ends its turns and is not killed in every one of
  them (`[]<>Free`); its timers run, those that a kill may stop strongly so; a
  request is answered in the
  end, and of the requests sent again and again with one receipt one is
  processed (strong fairness, since each may be lost); the chain follows the
  server; the balance tick runs. The user owes nothing: `StoredPurchaseCredited`
  names what it needs of the user.
* `VipPayment`: the tick runs; when the app asks time and again and the chain has a
  payment, an answer reports it (strong fairness: most answers may be a denial
  or nothing).
* `TcpReceive`: an acknowledgement arrives; the peer retransmits while it has
  something unacknowledged. The latter is weak fairness of `Retransmit`, with its
  enabling condition written out, which spares TLC evaluating it. No timer of
  lwIP is assumed, since `TSIPStack` runs none.
* `ProxyTunnel`: the queue runs its blocks, delays end, the resolver answers,
  a connection attempt ends, CocoaAsyncSocket writes what it is given and
  disconnects after it, the device acknowledges what it is sent. The remote side
  owes nothing, nor does the device owe an end.

`NewNetworkServed` allows for `blocks = MaxStarts`: there the bound, not the
code, forbids another start.

## 5. Proofs

Each proof module extends its component's module. The theorems hold for all
values of the constants that satisfy the named assumptions
(`ProviderAssumption`, `ControlAssumption`, `RoutingAssumption`,
`FreeTimeAssumption`, `ViewAssumption`, `PurchaseAssumption`, `VipAssumption`,
`TunnelAssumption`, `ReceiveAssumption`). These say that model values differ,
that bounds are positive naturals, that the sets of hosts and addresses are what
their names say, that grants, rewards and lengths are naturals, and of TCP that
a stream and a window fit into half of the sequence numbers. The theorems of
`TcpReceiveProofs` state one hypothesis more, `NoWrap`, on which see there.

* **TunnelProviderProofs.** `ProviderInv` is `TypeOK`, `ServedWhileStarted`,
  `OnlyRememberedUnserved` and `FlagsAgree`, which makes them inductive: without a
  process nothing is started, stopping or requested; `up` and `started` agree;
  before the first applied settings there is no interface, no remembered path
  and no restart due. Without the last part `OnlyRememberedUnserved` is not preserved by
  the first `observeValue`, and without the second a refused request could
  not be told to be a restart's. `ProviderTrap` follows because a started
  process has an interface. `ProviderImplementsSession` maps the process,
  `stopping` and `up` to the session's status; each action is a session step
  or a stutter.
* **MainViewProofs, on `VpnControl`.** `ControlInv` is the typing,
  `NoLostStatusChange`, `ConnectedFlagSound` and `DisconnectHolds`.
  `NoLostStatusChange` is inductive because each change of the session posts a
  note per observer on its connection, or sets `missed` if there is none, and the
  end of a removed profile posts its own. `DisconnectHolds` is the safety part
  of `LastDisconnectHolds`: as long as no connect follows a disconnect, its stop is
  due, or the session is down, or `undone` says why not. The lemmas for the
  session's own steps are shared by the handlers that cause them.
* **RuleRoutingProofs.** `RoutingInv` is `TypeOK`, the two invariants on open
  connections and `RulesBuilt`, which says what `rules` is while a process runs: the
  list of the last start's configuration and of the codes collected, the
  country of that configuration among them. The lemmas are about first-match
  evaluation: the least matching index exists (well-founded induction on the
  naturals, for one given set), a list that ends in an `AllRule` answers, and
  with the tunnel's adapter as direct adapter every answer is the tunnel.
  `RoutingRestart` holds because a restart with the same configuration adds no
  code; `RoutingLeftovers` because two lists for the same configuration differ
  in their sixth rule only, which gives the direct adapter.
* **FreeTimeProofs.** `FreeTimeInv` bounds, next to the counter, the copies
  the two processes hold: a stale write can bring back an old value but none
  above the bound, since a copy was within it when read and the rewards only
  grow.

* **MainViewProofs, on `MainView`.** `ViewInv` joins the typing, the link, the countdown and
  the button with `ConnectedFlagSound`: `vpn_connected` only under the status on. Without
  it a late block could show the link of a tunnel that has ended. What the
  view needs to know of `VpnControl` is one lemma per group of its handlers:
  only `updateVPNStatus` and the click handlers assign what the view reads.
  `ViewImplementsControl` shows each step of the view a step of `VpnControl` or
  a stutter, so that `ViewNoLostStatusChange` carries over what was proved there.
* **PurchaseProofs.** `PurchaseInv` is the typing and `Kept`: the item on disk
  is missing or the one in memory (`Coherent`), what a turn of the main thread has
  written so far and what is being cleared is on the chain (`Turning`), and
  receipt and record are of one purchase except where they are being written
  or a kill tore them (`Whole`). `StoredWhole` is `Whole` between two turns.
  `ForgottenOnlyConfirmed` goes over the steps that can empty the receipt:
  `ClearPurchase`, where `Turning` and `Whole` say that the record cleared is that of
  this receipt; the launch without a key; and `Relaunch`, where `Coherent` says that an
  item which is on disk is the one in memory.
* **VipPaymentProofs.** `VipInv` says that the status the app holds is none, no
  date, or a payment of the past, that the defaults hold the same unless they were
  emptied since, and that amounts stay within a month and the funds.
  `KnownPaymentKept` follows because `CheckVip` takes over nothing from silence,
  and a launch that hears nothing, or of no payment, reads the defaults. Nothing
  is assumed of what the library answers.
* **ProxyTunnelProofs.** `TunnelInv` is the typing, the truth of both sides'
  status about pcb and socket (`Sides`), `Released`, and `QueueSound`: a block
  that reports an end is sent after the end, one that opens the adapter
  finds no connection, and there is at most one of these. Without it a late answer
  of the resolver could open an adapter for a tunnel already forgotten. The
  lemmas on the queue say how a block that leaves, and blocks that arrive,
  preserve it while pcb and socket move in one direction only.

  `TurnsInv` is about who may read next. `UploadTurns` and `DownloadTurns`
  count over the queue with folds; lemmas on functions that agree with them step by
  step (`Sums`) say what `Append` and `Tail` do to such counts, which is all the
  handlers do to the queue. `OneTurnEach` is not inductive: it speaks of the time
  while the tunnel forwards. `StageSound` adds that the connection is reported
  once, before that; `UploadSound` that there is no turn yet then, and that while
  nothing is kept in `pending`, no block that hands data on is due to run with
  a read waiting; `DownloadSound` that there is at most one turn also after
  the remote side has closed.
  `ElegantClose` follows from the sum in `DownloadSound`: `checkStatus` closes
  at `remainWriteLength = 0`, and then nothing is in flight.

  `BytesInv` says where a byte of the device may be: the bytes forwarded, being
  written, kept in `pending` and carried by the queue's blocks, put together in
  this order, are the bytes sent so far. It needs `TurnsInv` where data is handed on:
  a read that waits means that the tunnel forwards, so that there is a connection
  to write to and nothing is dropped. After a close only its first conjunct is left:
  what was written is a beginning of what was sent.
* **TcpReceiveProofs.** `ReceiveInv` joins the types, `WindowRestored`,
  `EdgeSound` (what was announced is there, and the edge is not beyond it),
  `Chain` (the queue is pieces of the stream, in order, without overlap, above
  `rcv_nxt` and below the window's end), `Progress` (what was handed up is the
  stream up to `rcv_nxt`, and the connection is half closed exactly when the
  FIN is behind it) and `AcksBehind`. `Intact` is not inductive without `Chain`, since
  the next segment in sequence takes the queue's along, nor `Chain` without
  the bytes of its pieces, since pieces are cut and merged; and the right edge can only be
  kept from shrinking because what is announced never exceeds what there is.

  The lemmas follow the code: what `Cut`, `Behind`, `Absorb`, `CutLast` and
  `CutToWindow` make of pieces, that `Enqueue` keeps a chain whatever place the
  segment gets, that `InSequence` hands up the bytes between the old and the
  new `rcv_nxt` (the concatenation is followed by a function over the run of segments), what
  each of `UpdateRcvAnnWnd`, `SendAck`, `Recved` and `EndEvent` does to window and edge.
  `ReceiveIs`, `EventsIs` and `HandledIs` put them together to `tcp_input` as a
  whole. `EdgeNeverShrinks` comes out of the same step; `ReceiveImplementsStream`
  takes the length of what is handed up as the witness of `ByteStream`'s step. `ReceiveAcked`
  adds that nothing is acknowledged to the peer that the application has not been given.

  All are proved under `NoWrap`: the stream, its FIN and a window after it
  lie below `Modulus`, so that the connection's sequence numbers do not pass
  2^32. This is not for the provers' convenience: without it the theorems are
  false, as `tcp_wrap` shows, because `CutToWindow` compares plain numbers
  (see 6). The run `tcp_receive` satisfies it. The conversion between sequence
  numbers and plain numbers is in `NumAdd`, `NumDistance`, `NumGeq` and `NumGt`; nothing else
  in the proofs speaks of `Modulus`. That `CutToWindow` has nothing to cut is `WindowFits`.

Only model-checked: the liveness properties (`RefreshConverges`,
`NewNetworkServed`, `ProviderSettles`, `LastDisconnectHolds`,
`StatusConverges`, `FreeSessionsEnd`, `OutOfTimeUnlinks`, `LoadingEnds`,
`ConnectedLinkIsShown`, `StoredPurchaseCredited`, `ReceiptGoes`,
`PaymentBecomesKnown`, `StreamAcked`, `UploadForwarded`, `TunnelEnds`), which
rest on fairness and so are out of the prover's reach here. Every invariant
and every action property of a passing run, and each refinement of an abstract
specification's safety part, is proved.

## 6. What the checks found

* **The domain lists of NEKitRule.conf are ignored** (`routing_listed`).
  `PacketTunnelProvider.swift:323` slices the type letter together with the
  comma after it, and compares the two characters with single letters; no
  criterion is ever added. `NEKitRule.conf:4-6` lists `s,apple.com` under
  `adapter: direct`, but outside global mode a connection to it goes where the
  later rules send it.
* **A VIP's session ends when the free-time counter is empty**
  (`free_time_vip`). The extension's timer (`Utils.swift:23`) knows only the
  counter; the app refills a VIP's counter only while it runs
  (`MainViewController.m:250-254`). The text shown to the user
  (`en.lproj/Localizable.strings:130`) presents VIP as the way out of the limit.

* **lwIP's test for an overrun of the window is not made on sequence numbers**
  (`tcp_wrap`). `tcp_in.c:1472` compares two sums as plain 32-bit numbers. With the
  right edge past 2^32 and the segment's end before it, a segment inside the
  window loses its FIN and gets a length longer than its data, and `rcv_nxt`
  later passes over bytes that never arrived.

Seen while modelling, and kept by the models without a property that would
contradict the code:

* Whether the stop or the start of one `ConnectVpn` takes effect last is open
  (`VpnManager.swift:283`); `reloadVPNStatus` always reads the connected flag
  before it is set (`VpnManager.swift:122`), so a link is shown only by the
  countdown and by the delayed block.
* A return to the network first remembered is not restarted: after wifi, a restart
  on cell, and back to wifi, `observeValue` (`PacketTunnelProvider.swift:490`)
  compares with the remembered wifi and schedules nothing. The tunnel stays
  started on the network it has left. `OnlyRememberedUnserved` and
  `NewNetworkServed` say that this is the only change not served.
* The status observer stays with the connection of a removed profile
  (`VpnManager.swift:110`, `:251-260`): from then on no change of the session
  reaches the app, since `observerAdded` is never set back.
* A save in flight at a disconnect ends in `startVPNTunnel`, which looks at
  nothing (`VpnManager.swift:214`, `:272`): the tunnel comes up again after the last
  disconnect and stays. So does one whose stop found no manager (`:283`).
  `LastDisconnectHolds` names both.
* `disconnectVpn` does nothing while a countdown runs, but its caller takes the
  link back (`MainViewController.m:268-276`): a tunnel stays up with no link
  shown. A tunnel that comes up after the last block of its connect is not shown
  either, since `reloadVPNStatus` never shows a link. `refreshLinkView` enables the
  button whatever it was before (`:872`).
* An answer of the resolver with no IPv4 address ends the extension
  (`Tunnel.swift:158`, `ResolvedEmpty` in `RuleRouting`).
* A reward can be lost to a tick in flight (`TenonP2pLib.swift:339`,
  `Utils.swift:22`); a process killed between the day's stamp and its grant loses
  the grant (`Utils.swift:31`).
* A purchase is lost if the app is killed, or `verifyReceipt` is not answered,
  between `finishTransaction` and the store of the receipt
  (`RechargeViewController.m:698`, `:755`). The status in the answer of
  `verifyReceipt` is not looked at (`:762`), so a refused receipt is stored and sent
  for ever; the amount stored is that of the page's present selection (`:769`).
* A kill between the writes of receipt and record (`RechargeViewController.m:782-784`)
  leaves the receipt with no record, which then blocks the page for ever, or with an
  older record, on whose confirmation the receipt is cleared unconfirmed.
* A launch that finds no `all_private_key` empties a stored purchase, confirmed or
  not (`TenonP2pLib.swift:348-351`): after a reinstall, or a kill while a key is saved
  (`:394-395`). A change of account deletes the item on disk, so that the purchase is
  lost with the next launch if nothing is written before it (`:393`).
* Any answer of two fields replaces the known VIP payment (`TenonP2pLib.swift:287-294`),
  one that says there is none as well as one that is no number. If the library refuses
  a new key (`:402-405`) the app goes on with the old account, whose saved status
  is gone, and takes the new one with the next launch.
* `PayforVpn` can pay several times for one month, a payment per tick, until
  `CheckVip` has been asked once after the first confirmation
  (`TenonP2pLib.swift:268`).
* lwIP's timer is scheduled for the distant future (`TSIPStack.swift:97`), while its
  comment at line 29 says that it runs. The receiving side lives without it
  (`StreamAcked`); what lwIP would have to retransmit of its own data does not.
* A write of 65 535 bytes or more is dropped without an answer, an empty one is
  not answered either (`TSTCPSocket.swift:198`): the connection then never reads
  the remote side again, and closes only from a reset or a forced close.
  `OneTurnEach` and `TunnelEnds` name the case.
* Data of the device that arrives with its FIN, or just before it, is not
  forwarded if the local side is closed first (`TUNTCPSocket.swift:201-203`);
  `UploadIntact` speaks of the time until then. In a release build
  `assert(tcp_close(...))` is not evaluated (`TSTCPSocket.swift:223`), so the pcb is
  released to nobody and no FIN is sent.
* `forceClose` of a tunnel that is already closing does nothing.

Hazards of smaller weight that no module covers: the ad splash may be left
twice (`ADViewController.m:248`) and its location callback races the country of
`InitP2p` (`:102`); `delDupConfig` removes the profile in use
(`VpnManager.swift:252`, in `VpnControl`); `getLeftDays` adds
the amount of a stored purchase to a balance that includes it already
(`TenonP2pLib.swift:260`); a failed `ResetPrivateKey`
after `SavePrivateKey` leaves the extension connected (`ViewController.swift:52-60`).

## 7. Not modelled

* The peer-to-peer library is a binary behind a bridge; its answers (node
  lists, balance, VIP) appear as free choices.
* Node tables and node choice: parsing of strings and a random pick, on data no
  property tells apart. That both tables follow the configuration is
  `RefreshConverges`.
* The list of account keys. What keys do to other state, deleting the keychain item
  of a purchase and emptying the defaults, is in `Purchase` and `VipPayment`.
* The ad splash: an interstitial of a binary SDK before the main view, sharing
  nothing with the tunnel but the country.
* Views, toasts, settings, withdrawal, the HTTP client and the widget keep no
  state a property is about.
* Of the proxy data path: UDP and DNS; the HTTP proxy server, which serves
  connections that do not come through the TUN; the ciphers and the protocol of Shadowsocks, which change the bytes and not
  the turns (the IV that arrives before the first data is a read without
  data). An `openSocketWith` that throws (`DirectAdapter.swift:22-24`,
  `ShadowsocksAdapter.swift:266-269`), which CocoaAsyncSocket does only for an empty
  host, and an answer of the resolver without an address, which ends the process and
  is in `RuleRouting`.
* Of lwIP: sending and retransmission, the handshake, closing and the states
  after it, and the pools. The modelled part is `tcp_receive`, the calls of
  the application, the window and the acknowledgements.
* The rest of the C code, nearly all the lines of C in the tree: modules of lwIP
  that the build contains and nothing here calls (PPP, SNMP, DHCP, the sockets
  and netconn layers, IPv6, AutoIP, IGMP), the reader of MaxMind's database,
  and headers of SDKs. A model of them would say nothing of this program.
* Wording, formatting, cryptography and the contents of packets.

## 8. Plan

Done, in this order: `TunnelSession`, `TunnelProvider`, `VpnControl`,
`RuleRouting`, `FreeTime`; then `MainView`, `Purchase`, `VipPayment`,
`ByteStream`, `TcpReceive`, `ProxyTunnel`; proofs for all components.

Left, should the project go on:

| Module | Subject | Properties intended |
|---|---|---|
| `TcpSend` | `tcp_write`, `tcp_output` and `tcp_sent` without retransmission | a write is acknowledged in whole or the pcb ends; what the missing timer costs |
| `VpnSystem` | composition of `TunnelProvider` and `VpnControl` on one session and one configuration | a saved configuration reaches the running extension |
| `Keys` | key list in defaults and keychain | the list stays in step in both stores |
| `NodeTables` | merging and choosing of nodes | a fallback order that terminates |

Theorems left: that `TcpReceive` has its properties also for sequence numbers that
pass 2^32 as long as no segment reaches `CutToWindow` across the end, which
takes the chain on unbounded numbers with the modulus as a refinement; and
that a connection as a whole, `TcpReceive` below `ProxyTunnel`, forwards a beginning of the
stream of the device.
