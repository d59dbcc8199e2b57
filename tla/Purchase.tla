-------------------------------- MODULE Purchase --------------------------------
(***************************************************************************)
(* Buying Tenon: the recharge page (RechargeViewController.m), the         *)
(* keychain item that remembers a purchase until the chain shows it        *)
(* (KeychainManager.m, KeychainItemWrapper.m), its resending by the main   *)
(* view, its removal by TenonP2pLib.GetBalance, and the change of account. *)
(*                                                                         *)
(* A purchase passes through StoreKit's queue of unfinished transactions,  *)
(* the handler that finishes, verifies, stores and posts it in one turn of *)
(* the main thread, the keychain item, the server, and the chain.  The app *)
(* may be killed between any two writes.  The wrapper keeps a copy of the  *)
(* item in memory and writes all of it whenever a field changes.  The      *)
(* fields kept are the receipt and the transaction of the record; type,    *)
(* amount and key are only known to be written.                            *)
(***************************************************************************)
EXTENDS Naturals, FiniteSets

CONSTANTS
    Txs,        \* transactions, each with the receipt that contains it
    None        \* an empty receipt or record

ASSUME PurchaseAssumption == None \notin Txs

VARIABLES
    \* StoreKit and the server
    ordered,    \* payments added to the queue and not decided by Apple yet
    queue,      \* purchased, unfinished transactions
    batches,    \* updatedTransactions blocks dispatched to the main queue
    bought,     \* the transactions that were ever ordered
    accepted,   \* transactions whose receipt Apple's verifyReceipt accepts
    posts,      \* appleIAPAuth requests under way: who sent which receipt
    credited,   \* transactions the server has accepted
    confirmed,  \* transactions whose id LibP2P.getTransactions reports
    \* the recharge page
    page,       \* the page is shown
    observing,  \* it is the queue's transaction observer
    hud,        \* the progress view of an order covers it
    rcLoop,     \* its rechargeTimer: idle, a timer, or a request under way
    \* the main view
    mvLoop,     \* its rechargeTimer; "unloaded" until the view is loaded
    \* the main thread: what it does in this turn and for which transaction,
    \* and how far GetBalance, called from there, is in clearing the item
    stage, clearing,
    \* the keychain item, in memory (KeychainItemWrapper) and on disk
    memory, disk,
    keyed,      \* the defaults hold all_private_key
    torn        \* history: a kill hit the storing of a purchase, after its
                \* receipt, and no purchase was stored since

storeVars == <<ordered, queue, batches, bought, accepted>>
serverVars == <<posts, credited, confirmed>>
pageVars == <<page, observing, hud, rcLoop>>
turnVars == <<stage, clearing>>
itemVars == <<memory, disk>>
keptVars == <<memory, disk, keyed, torn>>
vars == <<storeVars, serverVars, pageVars, mvLoop, turnVars, keptVars>>

\* The two fields of the item this module tells apart: kSecAttrAccount, the
\* receipt, and kSecAttrLabel, the record of the transaction.
Item == [receipt : Txs \cup {None}, record : Txs \cup {None}]
EmptyItem == [receipt |-> None, record |-> None]

\* The turns of the main thread that write: a purchase is completed, a stored
\* receipt sent, a launch without a key forgets, a key is saved, a view loads.
Completing == {"verify", "receipt", "type", "record", "post"}
Stages == Completing \cup {"idle", "send", "absentRecord", "absentType", "absentReceipt",
                           "key", "delete", "forget", "keep", "view"}
Idle == [at |-> "idle", tx |-> None]
At(s) == stage.at = s /\ clearing = "no"
Goto(s) == stage' = [stage EXCEPT !.at = s]
Free == stage = Idle /\ clearing = "no"

TypeOK ==
    /\ ordered \subseteq Txs /\ queue \subseteq Txs /\ accepted \subseteq Txs
    /\ bought \subseteq Txs
    /\ credited \subseteq Txs /\ confirmed \subseteq credited
    /\ batches \subseteq ((SUBSET Txs) \ {{}})
    /\ posts \subseteq [by : {"first", "rc", "mv"}, tx : Txs \cup {None}]
    /\ page \in BOOLEAN /\ observing \in BOOLEAN /\ hud \in BOOLEAN
    /\ rcLoop \in {"idle", "timer", "post"}
    /\ mvLoop \in {"unloaded", "idle", "timer", "post"}
    /\ stage \in [at : Stages, tx : Txs \cup {None}]
    /\ stage.at \in Completing <=> stage.tx \in Txs
    /\ clearing \in {"no", "type", "receipt", "record", "delete"}
    /\ memory \in Item /\ disk \in Item \cup {None}
    /\ keyed \in BOOLEAN /\ torn \in BOOLEAN

\* The app is installed and launched.
Init ==
    /\ ordered = {} /\ queue = {} /\ batches = {} /\ accepted = {} /\ bought = {}
    /\ posts = {} /\ credited = {} /\ confirmed = {}
    /\ page = FALSE /\ observing = FALSE /\ hud = FALSE /\ rcLoop = "idle"
    /\ mvLoop = "unloaded" /\ memory = EmptyItem /\ disk = None
    /\ keyed = FALSE /\ torn = FALSE
    /\ stage = [Idle EXCEPT !.at = "absentRecord"] /\ clearing = "no"

-----------------------------------------------------------------------------
(* The keychain item *)

\* KeychainItemWrapper.setObject: equal values are not written; otherwise the
\* whole item is updated on disk, or added if it was deleted.
SetItem(item) ==
    /\ memory' = item
    /\ disk' = IF item = memory THEN disk ELSE item

\* A field this module leaves out is set, to its old value or another.
SetOther == memory' = memory /\ disk' \in {disk, memory}

\* clearKeyChain deletes the item on disk, not the wrapper's copy.
ClearKeyChain == memory' = memory /\ disk' = None

-----------------------------------------------------------------------------
(* GetBalance: the item is emptied and deleted, one write after the other, *)
(* once the chain reports the record's id.                                 *)

Confirmed == memory.record \in confirmed

\* Mutant: the record goes before the receipt.
ClearRecordFirst ==
    /\ \/ clearing = "type" /\ clearing' = "record" /\ SetOther
       \/ clearing = "record" /\ clearing' = "receipt" /\ SetItem([memory EXCEPT !.record = None])
       \/ clearing = "receipt" /\ clearing' = "delete" /\ SetItem([memory EXCEPT !.receipt = None])
       \/ clearing = "delete" /\ clearing' = "no" /\ ClearKeyChain
    /\ UNCHANGED <<storeVars, serverVars, pageVars, mvLoop, stage, keyed, torn>>

\* Mutant: the receipt is left.
ClearRecordOnly ==
    /\ \/ clearing = "type" /\ clearing' = "record" /\ SetOther
       \/ clearing = "record" /\ clearing' = "delete" /\ SetItem([memory EXCEPT !.record = None])
       \/ clearing = "delete" /\ clearing' = "no" /\ ClearKeyChain
    /\ UNCHANGED <<storeVars, serverVars, pageVars, mvLoop, stage, keyed, torn>>

ClearPurchase ==
    /\ \/ clearing = "type" /\ clearing' = "receipt" /\ SetOther
       \/ clearing = "receipt" /\ clearing' = "record" /\ SetItem([memory EXCEPT !.receipt = None])
       \/ clearing = "record" /\ clearing' = "delete" /\ SetItem([memory EXCEPT !.record = None])
       \/ clearing = "delete" /\ clearing' = "no" /\ ClearKeyChain
    /\ UNCHANGED <<storeVars, serverVars, pageVars, mvLoop, stage, keyed, torn>>

\* The balance is read in the middle of another turn.
ReadBalance == clearing' = IF Confirmed THEN "type" ELSE "no"

\* Mutant: the purchase is cleared as soon as there is a record.
GetBalanceEager ==
    /\ At("idle") \/ At("view")
    /\ memory.record # None /\ clearing' = "type"
    /\ UNCHANGED <<storeVars, serverVars, pageVars, mvLoop, stage, keptVars>>

\* Each second, and by a launch before its view is there.
GetBalance ==
    /\ At("idle") \/ At("view")
    /\ Confirmed /\ clearing' = "type"
    /\ UNCHANGED <<storeVars, serverVars, pageVars, mvLoop, stage, keptVars>>

-----------------------------------------------------------------------------
(* StoreKit.  A transaction observer is called with the transactions that  *)
(* change while it is there, and with all unfinished ones when it is added. *)

AddTransactionObserver ==
    /\ observing' = TRUE
    /\ batches' = IF queue = {} THEN batches ELSE batches \cup {queue}

Charge(t) ==
    /\ t \in ordered
    /\ ordered' = ordered \ {t}
    /\ queue' = queue \cup {t}
    /\ batches' = IF observing THEN batches \cup {{t}} ELSE batches
    /\ \E genuine \in BOOLEAN :
          accepted' = IF genuine THEN accepted \cup {t} ELSE accepted
    /\ UNCHANGED <<bought, serverVars, pageVars, mvLoop, turnVars, keptVars>>

Refuse(t) ==
    /\ t \in ordered
    /\ ordered' = ordered \ {t}
    /\ hud' = FALSE
    /\ UNCHANGED <<queue, batches, bought, accepted, serverVars, page, observing,
                   rcLoop, mvLoop, turnVars, keptVars>>

-----------------------------------------------------------------------------
(* The recharge page *)

\* Mutant: a page opened with a stored receipt waits for it.
OpenPageNoResend ==
    /\ Free /\ ~page /\ batches = {}
    /\ page' = TRUE /\ hud' = FALSE
    /\ \/ memory.receipt = None /\ AddTransactionObserver
       \/ memory.receipt # None /\ UNCHANGED <<observing, batches>>
    /\ UNCHANGED <<ordered, queue, bought, accepted, serverVars, rcLoop, mvLoop, turnVars,
                   keptVars>>

\* viewDidLoad of a new page; blocks dispatched for the old one have run.  One
\* set of variables stands for the old page's timer and the new one's.
OpenPage ==
    /\ Free /\ ~page /\ batches = {}
    /\ page' = TRUE /\ hud' = FALSE
    /\ \/ /\ memory.receipt = None
          /\ AddTransactionObserver
          /\ UNCHANGED rcLoop
       \/ /\ memory.receipt # None
          /\ rcLoop' = IF rcLoop = "idle" THEN "timer" ELSE rcLoop
          /\ UNCHANGED <<observing, batches>>
    /\ UNCHANGED <<ordered, queue, bought, accepted, serverVars, mvLoop, turnVars, keptVars>>

\* viewDidDisappear; rechargeTimer goes on.
ClosePage ==
    /\ Free /\ page
    /\ page' = FALSE /\ observing' = FALSE /\ hud' = FALSE
    /\ UNCHANGED <<storeVars, serverVars, rcLoop, mvLoop, turnVars, keptVars>>

\* A product is chosen: orderToApplePay, up to addPayment.
OrderToApplePay(t) ==
    /\ Free /\ page /\ ~hud
    /\ t \notin bought
    /\ memory.receipt = None
    /\ hud' = TRUE
    /\ ordered' = ordered \cup {t}
    /\ bought' = bought \cup {t}
    /\ UNCHANGED <<queue, batches, accepted, serverVars, page, observing, rcLoop, mvLoop,
                   turnVars, keptVars>>

\* updatedTransactions with one purchased transaction: it is finished first.
CompleteTransaction(t) ==
    /\ Free /\ {t} \in batches
    /\ batches' = batches \ {{t}}
    /\ queue' = queue \ {t}
    /\ hud' = FALSE
    /\ stage' = [at |-> "verify", tx |-> t]
    /\ UNCHANGED <<ordered, bought, accepted, serverVars, page, observing, rcLoop, mvLoop,
                   clearing, keptVars>>

\* ... with several at a time: the page is left and nothing is done for them.
IgnoreBatch(b) ==
    /\ Free /\ b \in batches /\ Cardinality(b) # 1
    /\ batches' = batches \ {b}
    /\ hud' = FALSE /\ page' = FALSE /\ observing' = FALSE
    /\ UNCHANGED <<ordered, queue, bought, accepted, serverVars, rcLoop, mvLoop, turnVars,
                   keptVars>>

\* verifyReceipt is asked synchronously.  Any answer that parses is taken, its
\* status is not looked at, and the balance is read for the record; without an
\* answer the transaction is dropped, with one that does not parse the page is
\* left too.
VerifyReceipt ==
    /\ At("verify")
    /\ \/ Goto("receipt") /\ ReadBalance /\ UNCHANGED <<page, observing>>
       \/ stage' = Idle /\ UNCHANGED <<page, observing, clearing>>
       \/ stage' = Idle /\ page' = FALSE /\ observing' = FALSE /\ UNCHANGED clearing
    /\ UNCHANGED <<storeVars, serverVars, hud, rcLoop, mvLoop, keptVars>>

\* The receipt, the type and the record are stored, three writes of the item.
StorePurchase ==
    /\ \/ /\ At("receipt") /\ Goto("type")
          /\ SetItem([memory EXCEPT !.receipt = stage.tx])
          /\ UNCHANGED torn
       \/ /\ At("type") /\ Goto("record")
          /\ SetOther
          /\ UNCHANGED torn
       \/ /\ At("record") /\ Goto("post")
          /\ SetItem([memory EXCEPT !.record = stage.tx])
          /\ torn' = FALSE
    /\ UNCHANGED <<storeVars, serverVars, pageVars, mvLoop, clearing, keyed>>

\* The purchase is posted to the server, once, under a progress view.
PostFirst ==
    /\ At("post")
    /\ posts' = posts \cup {[by |-> "first", tx |-> stage.tx]}
    /\ stage' = Idle
    /\ hud' = page
    /\ UNCHANGED <<storeVars, credited, confirmed, page, observing, rcLoop, mvLoop,
                   clearing, keptVars>>

\* requestRechargeInterface of the page, five seconds after it was opened or
\* after the answer before.
RcTimer ==
    /\ Free /\ rcLoop = "timer"
    /\ \/ /\ memory.receipt = None
          /\ rcLoop' = "idle"
          /\ AddTransactionObserver
          /\ UNCHANGED posts
       \/ /\ memory.receipt # None
          /\ rcLoop' = "post"
          /\ posts' = posts \cup {[by |-> "rc", tx |-> memory.receipt]}
          /\ UNCHANGED <<observing, batches>>
    /\ UNCHANGED <<ordered, queue, bought, accepted, credited, confirmed, page, hud,
                   mvLoop, turnVars, keptVars>>

\* requestRechargeInterface of the main view, when it is loaded and five seconds
\* after each answer: it reads the balance between the test of the receipt and
\* the request, which may post an empty one.
MvRecharge ==
    /\ At("view") \/ (Free /\ mvLoop = "timer")
    /\ \/ /\ memory.receipt = None
          /\ mvLoop' = "idle"
          /\ stage' = Idle
          /\ UNCHANGED clearing
       \/ /\ memory.receipt # None
          /\ Goto("send")
          /\ ReadBalance
          /\ UNCHANGED mvLoop
    /\ UNCHANGED <<storeVars, serverVars, pageVars, keptVars>>

MvSend ==
    /\ At("send")
    /\ stage' = Idle
    /\ mvLoop' = "post"
    /\ posts' = posts \cup {[by |-> "mv", tx |-> memory.receipt]}
    /\ UNCHANGED <<storeVars, credited, confirmed, pageVars, clearing, keptVars>>

\* A request ends, processed by the server or not, and its answer may be lost.
\* The first request's callback ends the progress view, and leaves the page on
\* a success; that of the loops does not look at the answer and sends again
\* five seconds later.
Answered(m, processed) ==
    /\ Free /\ m \in posts
    /\ posts' = posts \ {m}
    /\ credited' = IF processed /\ m.tx \in accepted THEN credited \cup {m.tx} ELSE credited
    /\ rcLoop' = IF m.by = "rc" THEN "timer" ELSE rcLoop
    /\ mvLoop' = IF m.by = "mv" THEN "timer" ELSE mvLoop
    /\ hud' = (hud /\ m.by # "first")
    /\ \/ UNCHANGED <<page, observing>>
       \/ /\ m.by = "first" /\ processed /\ m.tx \in accepted
          /\ page' = FALSE /\ observing' = FALSE
    /\ UNCHANGED <<storeVars, confirmed, turnVars, keptVars>>

Confirm(t) ==
    /\ t \in credited \ confirmed
    /\ confirmed' = confirmed \cup {t}
    /\ UNCHANGED <<storeVars, posts, credited, pageVars, mvLoop, turnVars, keptVars>>

-----------------------------------------------------------------------------
(* The account *)

\* A launch that finds no all_private_key forgets the purchase.
GetPrivateKey ==
    /\ \/ At("absentRecord") /\ Goto("absentType") /\ SetItem([memory EXCEPT !.record = None])
       \/ At("absentType") /\ Goto("absentReceipt") /\ SetOther
       \/ At("absentReceipt") /\ Goto("key") /\ SetItem([memory EXCEPT !.receipt = None])
    /\ UNCHANGED <<storeVars, serverVars, pageVars, mvLoop, clearing, keyed, torn>>

\* The key becomes a field of the item; unless it is refused the item is
\* deleted on disk and the defaults are emptied before they get the key.  A
\* launch, which has no view yet, goes on to load it.
SavePrivateKey ==
    LET after == IF mvLoop = "unloaded" THEN "view" ELSE "idle" IN
    /\ \/ At("key") /\ SetOther /\ (Goto("delete") \/ Goto(after)) /\ UNCHANGED keyed
       \/ At("delete") /\ ClearKeyChain /\ Goto("forget") /\ UNCHANGED keyed
       \/ At("forget") /\ keyed' = FALSE /\ Goto("keep") /\ UNCHANGED itemVars
       \/ At("keep") /\ keyed' = TRUE /\ Goto(after) /\ UNCHANGED itemVars
    /\ UNCHANGED <<storeVars, serverVars, pageVars, mvLoop, clearing, torn>>

\* The user gives another key.
ResetPrivateKey ==
    /\ Free
    /\ Goto("key")
    /\ UNCHANGED <<storeVars, serverVars, pageVars, mvLoop, clearing, keptVars>>

\* The app is killed, perhaps reinstalled, and launched: the wrapper loads the
\* item, StoreKit keeps its queue, requests under way may still reach the
\* server.  A launch whose library does not start ends the app before its view.
Relaunch ==
    /\ memory' = IF disk = None THEN EmptyItem ELSE disk
    /\ keyed' \in {keyed, FALSE}
    /\ torn' = (torn \/ stage.at \in {"type", "record"})
    /\ stage' = [Idle EXCEPT !.at = IF keyed' THEN "view" ELSE "absentRecord"]
    /\ clearing' = "no" /\ mvLoop' = "unloaded"
    /\ page' = FALSE /\ observing' = FALSE /\ hud' = FALSE
    /\ rcLoop' = "idle" /\ batches' = {} /\ posts' = {}
    /\ credited' \in {credited} \cup {credited \cup {m.tx} : m \in {n \in posts : n.tx \in accepted}}
    /\ UNCHANGED <<disk, ordered, queue, bought, accepted, confirmed>>

Next ==
    \/ \E t \in Txs : Charge(t) \/ Refuse(t) \/ OrderToApplePay(t) \/ CompleteTransaction(t)
                      \/ Confirm(t)
    \/ \E b \in batches : IgnoreBatch(b)
    \/ \E m \in posts, processed \in BOOLEAN : Answered(m, processed)
    \/ OpenPage \/ ClosePage \/ RcTimer
    \/ VerifyReceipt \/ StorePurchase \/ PostFirst
    \/ MvRecharge \/ MvSend \/ GetBalance \/ ClearPurchase
    \/ GetPrivateKey \/ SavePrivateKey \/ ResetPrivateKey \/ Relaunch

\* The main thread ends its turns and is not killed in every one of them, its
\* timers run, a request that is sent again and again is answered by the server
\* in the end, and the chain follows the server.  Nothing is assumed of the user.
Fairness ==
    /\ []<>Free
    /\ SF_vars(RcTimer) /\ SF_vars(GetBalance) /\ WF_vars(MvRecharge)
    /\ WF_vars(\E m \in posts : Answered(m, FALSE) \/ Answered(m, TRUE))
    /\ \A t \in Txs : /\ SF_vars(\E m \in posts : m.tx = t /\ Answered(m, TRUE))
                      /\ WF_vars(Confirm(t))

Spec == Init /\ [][Next]_vars

FairSpec == Spec /\ Fairness

-----------------------------------------------------------------------------
(* Properties *)

\* Between two turns of the main thread a stored receipt has its own record,
\* which is what lets GetBalance recognise it on the chain: whatever kill,
\* clearing, launch without a key and change of account came before, unless a
\* kill hit the storing of the purchase between the two.
StoredWhole ==
    Free /\ ~torn /\ memory.receipt # None => memory.record = memory.receipt

\* A stored purchase is forgotten only when the chain shows it, through every
\* kill, clearing, relaunch and balance tick; or by a launch, if its account
\* was changed (the item is not on disk) or is gone (there is no key); or if a
\* kill tore the purchase apart.
ForgottenOnlyConfirmed ==
    [][memory.receipt # None /\ memory'.receipt = None
         => \/ memory.receipt \in confirmed
            \/ mvLoop' = "unloaded" /\ (disk = None \/ ~keyed)
            \/ torn]_vars

\* A genuine purchase that is stored is credited in the end, however many of
\* its requests are lost and whenever the app is killed, if the user comes
\* back to the page or launches the app time and again: unless the receipt is
\* forgotten, as above, or overwritten by that of another purchase.
StoredPurchaseCredited ==
    []<><<OpenPage \/ Relaunch>>_vars =>
        \A t \in Txs : (memory.receipt = t /\ t \in accepted) ~>
                           (t \in credited \/ memory.receipt # t)

\* A credited purchase does not block the page for ever: its receipt goes (or
\* another takes its place), if it has its record.
ReceiptGoes ==
    \A t \in Txs :
        (memory.receipt = t /\ memory.record = t /\ t \in credited) ~> memory.receipt # t
=============================================================================
