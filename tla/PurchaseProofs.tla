---------------------------- MODULE PurchaseProofs ----------------------------
(***************************************************************************)
(* Proofs about Purchase for any transactions.                             *)
(***************************************************************************)
EXTENDS Purchase, TLAPS

-----------------------------------------------------------------------------
(* The state is typed *)

SwitchesTyped ==
    page \in BOOLEAN /\ observing \in BOOLEAN /\ hud \in BOOLEAN /\ keyed \in BOOLEAN
    /\ torn \in BOOLEAN

SetsTyped ==
    /\ ordered \subseteq Txs /\ queue \subseteq Txs /\ accepted \subseteq Txs
    /\ bought \subseteq Txs
    /\ credited \subseteq Txs /\ confirmed \subseteq credited
    /\ batches \subseteq ((SUBSET Txs) \ {{}})

TurnTyped ==
    /\ stage \in [at : Stages, tx : Txs \cup {None}]
    /\ stage.at \in Completing <=> stage.tx \in Txs
    /\ clearing \in {"no", "type", "receipt", "record", "delete"}

ItemTyped == memory \in Item /\ disk \in Item \cup {None}

LoopsTyped ==
    /\ rcLoop \in {"idle", "timer", "post"}
    /\ mvLoop \in {"unloaded", "idle", "timer", "post"}
    /\ posts \subseteq [by : {"first", "rc", "mv"}, tx : Txs \cup {None}]

Typed == SwitchesTyped /\ SetsTyped /\ TurnTyped /\ ItemTyped /\ LoopsTyped

LEMMA TypedInit == Init => Typed
<1> SUFFICES ASSUME Init PROVE Typed
    OBVIOUS
<1>1. SwitchesTyped
    BY Zenon DEF Init, SwitchesTyped
<1>2. SetsTyped /\ LoopsTyped
    BY DEF Init, SetsTyped, LoopsTyped
<1>3. TurnTyped
    BY PurchaseAssumption DEF PurchaseAssumption, Init, TurnTyped, Idle, Stages, Completing
<1>4. ItemTyped
    BY DEF Init, ItemTyped, Item, EmptyItem
<1> QED
    BY <1>1, <1>2, <1>3, <1>4 DEF Typed

LEMMA SwitchesStep == SwitchesTyped /\ [Next]_vars => SwitchesTyped'
<1> SUFFICES ASSUME SwitchesTyped, [Next]_vars PROVE SwitchesTyped'
    OBVIOUS
<1> USE DEF SwitchesTyped, pageVars, keptVars
<1>1. ASSUME NEW t \in Txs, Charge(t) PROVE SwitchesTyped'
    BY <1>1, Zenon DEF Charge
<1>2. ASSUME NEW t \in Txs, Refuse(t) PROVE SwitchesTyped'
    BY <1>2, Zenon DEF Refuse
<1>3. ASSUME NEW t \in Txs, OrderToApplePay(t) PROVE SwitchesTyped'
    BY <1>3, Zenon DEF OrderToApplePay
<1>4. ASSUME NEW t \in Txs, CompleteTransaction(t) PROVE SwitchesTyped'
    BY <1>4, Zenon DEF CompleteTransaction
<1>5. ASSUME NEW t \in Txs, Confirm(t) PROVE SwitchesTyped'
    BY <1>5, Zenon DEF Confirm
<1>6. ASSUME NEW b \in batches, IgnoreBatch(b) PROVE SwitchesTyped'
    BY <1>6, Zenon DEF IgnoreBatch
<1>7. ASSUME NEW m \in posts, NEW processed \in BOOLEAN, Answered(m, processed) PROVE SwitchesTyped'
    BY <1>7, Zenon DEF Answered
<1>8. CASE OpenPage
    BY <1>8, Zenon DEF OpenPage, AddTransactionObserver
<1>9. CASE ClosePage
    BY <1>9, Zenon DEF ClosePage
<1>10. CASE RcTimer
    BY <1>10, Zenon DEF RcTimer, AddTransactionObserver
<1>11. CASE VerifyReceipt
    BY <1>11, Zenon DEF VerifyReceipt
<1>12. CASE StorePurchase
    BY <1>12, Zenon DEF StorePurchase
<1>13. CASE PostFirst
    BY <1>13, Zenon DEF PostFirst
<1>14. CASE MvRecharge
    BY <1>14, Zenon DEF MvRecharge
<1>15. CASE MvSend
    BY <1>15, Zenon DEF MvSend
<1>16. CASE GetBalance
    BY <1>16, Zenon DEF GetBalance
<1>17. CASE ClearPurchase
    BY <1>17, Zenon DEF ClearPurchase
<1>18. CASE GetPrivateKey
    BY <1>18, Zenon DEF GetPrivateKey
<1>19. CASE SavePrivateKey
    BY <1>19, Zenon DEF SavePrivateKey
<1>20. CASE ResetPrivateKey
    BY <1>20, Zenon DEF ResetPrivateKey
<1>21. CASE Relaunch
    BY <1>21, Zenon DEF Relaunch
<1>22. CASE UNCHANGED vars
    BY <1>22, Zenon DEF vars
<1> QED
    BY <1>1, <1>2, <1>3, <1>4, <1>5, <1>6, <1>7, <1>8, <1>9, <1>10, <1>11, <1>12,
       <1>13, <1>14, <1>15, <1>16, <1>17, <1>18, <1>19, <1>20, <1>21, <1>22
    DEF Next

LEMMA SetsStep == SetsTyped /\ LoopsTyped /\ [Next]_vars => SetsTyped'
<1> SUFFICES ASSUME SetsTyped, LoopsTyped, [Next]_vars PROVE SetsTyped'
    OBVIOUS
<1> USE DEF SetsTyped, LoopsTyped, storeVars, serverVars
<1>1. ASSUME NEW t \in Txs, Charge(t) PROVE SetsTyped'
    BY <1>1 DEF Charge
<1>2. ASSUME NEW t \in Txs, Refuse(t) PROVE SetsTyped'
    BY <1>2 DEF Refuse
<1>3. ASSUME NEW t \in Txs, OrderToApplePay(t) PROVE SetsTyped'
    BY <1>3 DEF OrderToApplePay
<1>4. ASSUME NEW t \in Txs, CompleteTransaction(t) PROVE SetsTyped'
    BY <1>4 DEF CompleteTransaction
<1>5. ASSUME NEW t \in Txs, Confirm(t) PROVE SetsTyped'
    BY <1>5 DEF Confirm
<1>6. ASSUME NEW b \in batches, IgnoreBatch(b) PROVE SetsTyped'
    BY <1>6 DEF IgnoreBatch
<1>7. ASSUME NEW m \in posts, NEW processed \in BOOLEAN, Answered(m, processed) PROVE SetsTyped'
    BY <1>7 DEF Answered
<1>8. CASE OpenPage
    BY <1>8 DEF OpenPage, AddTransactionObserver
<1>9. CASE ClosePage
    BY <1>9 DEF ClosePage
<1>10. CASE RcTimer
    BY <1>10 DEF RcTimer, AddTransactionObserver
<1>11. CASE VerifyReceipt
    BY <1>11 DEF VerifyReceipt
<1>12. CASE StorePurchase
    BY <1>12 DEF StorePurchase
<1>13. CASE PostFirst
    BY <1>13 DEF PostFirst
<1>14. CASE MvRecharge
    BY <1>14 DEF MvRecharge
<1>15. CASE MvSend
    BY <1>15 DEF MvSend
<1>16. CASE GetBalance
    BY <1>16 DEF GetBalance
<1>17. CASE ClearPurchase
    BY <1>17 DEF ClearPurchase
<1>18. CASE GetPrivateKey
    BY <1>18 DEF GetPrivateKey
<1>19. CASE SavePrivateKey
    BY <1>19 DEF SavePrivateKey
<1>20. CASE ResetPrivateKey
    BY <1>20 DEF ResetPrivateKey
<1>21. CASE Relaunch
    BY <1>21 DEF Relaunch
<1>22. CASE UNCHANGED vars
    BY <1>22 DEF vars
<1> QED
    BY <1>1, <1>2, <1>3, <1>4, <1>5, <1>6, <1>7, <1>8, <1>9, <1>10, <1>11, <1>12,
       <1>13, <1>14, <1>15, <1>16, <1>17, <1>18, <1>19, <1>20, <1>21, <1>22
    DEF Next

\* The turn goes to a stage that is about a transaction exactly as the one before.
LEMMA GotoTyped ==
    ASSUME TurnTyped, NEW s \in Stages, Goto(s),
           s \in Completing <=> stage.at \in Completing
    PROVE  /\ stage' \in [at : Stages, tx : Txs \cup {None}]
           /\ stage'.at \in Completing <=> stage'.tx \in Txs
BY DEF TurnTyped, Goto

LEMMA IdleTyped ==
    ASSUME NEW s \in Stages \ Completing, stage' = [Idle EXCEPT !.at = s]
    PROVE  /\ stage' \in [at : Stages, tx : Txs \cup {None}]
           /\ stage'.at \in Completing <=> stage'.tx \in Txs
BY PurchaseAssumption DEF PurchaseAssumption, Idle

LEMMA IdleIdle == Idle = [Idle EXCEPT !.at = "idle"]
BY DEF Idle

LEMMA TurnStep == TurnTyped /\ [Next]_vars => TurnTyped'
<1> SUFFICES ASSUME TurnTyped, [Next]_vars PROVE TurnTyped'
    OBVIOUS
<1> USE DEF turnVars
<1>1. ASSUME NEW t \in Txs, Charge(t) PROVE TurnTyped'
    BY <1>1 DEF Charge, TurnTyped
<1>2. ASSUME NEW t \in Txs, Refuse(t) PROVE TurnTyped'
    BY <1>2 DEF Refuse, TurnTyped
<1>3. ASSUME NEW t \in Txs, OrderToApplePay(t) PROVE TurnTyped'
    BY <1>3 DEF OrderToApplePay, TurnTyped
<1>4. ASSUME NEW t \in Txs, CompleteTransaction(t) PROVE TurnTyped'
    BY <1>4 DEF CompleteTransaction, TurnTyped, Stages, Completing, Free
<1>5. ASSUME NEW t \in Txs, Confirm(t) PROVE TurnTyped'
    BY <1>5 DEF Confirm, TurnTyped
<1>6. ASSUME NEW b \in batches, IgnoreBatch(b) PROVE TurnTyped'
    BY <1>6 DEF IgnoreBatch, TurnTyped
<1>7. ASSUME NEW m \in posts, NEW processed \in BOOLEAN, Answered(m, processed) PROVE TurnTyped'
    BY <1>7 DEF Answered, TurnTyped
<1>8. CASE OpenPage
    BY <1>8 DEF OpenPage, TurnTyped, AddTransactionObserver
<1>9. CASE ClosePage
    BY <1>9 DEF ClosePage, TurnTyped
<1>10. CASE RcTimer
    BY <1>10 DEF RcTimer, TurnTyped, AddTransactionObserver
<1>11. CASE VerifyReceipt
    <2>1. clearing' \in {"no", "type"} \/ clearing' = clearing
        BY <1>11 DEF VerifyReceipt, ReadBalance
    <2>2. CASE Goto("receipt")
        BY <1>11, <2>1, <2>2, GotoTyped DEF VerifyReceipt, TurnTyped, At, Stages, Completing
    <2>3. CASE stage' = Idle
        BY <2>1, <2>3, IdleIdle, IdleTyped DEF TurnTyped, Stages, Completing
    <2> QED
        BY <1>11, <2>2, <2>3 DEF VerifyReceipt
<1>12. CASE StorePurchase
    BY <1>12, GotoTyped DEF StorePurchase, TurnTyped, At, Free, Idle, Stages, Completing
<1>13. CASE PostFirst
    <2>1. "idle" \in Stages \ Completing /\ clearing' = clearing
        BY <1>13 DEF PostFirst, Stages, Completing
    <2>2. /\ stage' \in [at : Stages, tx : Txs \cup {None}]
          /\ stage'.at \in Completing <=> stage'.tx \in Txs
        BY <1>13, <2>1, IdleIdle, IdleTyped DEF PostFirst
    <2> QED
        BY <2>1, <2>2 DEF TurnTyped
<1>14. CASE MvRecharge
    <2>1. clearing' \in {"no", "type"} \/ clearing' = clearing
        BY <1>14 DEF MvRecharge, ReadBalance
    <2>2. CASE Goto("send")
        BY <1>14, <2>1, <2>2, GotoTyped DEF MvRecharge, TurnTyped, At, Free, Idle, Stages, Completing
    <2>3. CASE stage' = Idle
        BY <2>1, <2>3, IdleIdle, IdleTyped DEF TurnTyped, Stages, Completing
    <2> QED
        BY <1>14, <2>2, <2>3 DEF MvRecharge
<1>15. CASE MvSend
    <2>1. "idle" \in Stages \ Completing /\ clearing' = clearing
        BY <1>15 DEF MvSend, Stages, Completing
    <2>2. /\ stage' \in [at : Stages, tx : Txs \cup {None}]
          /\ stage'.at \in Completing <=> stage'.tx \in Txs
        BY <1>15, <2>1, IdleIdle, IdleTyped DEF MvSend
    <2> QED
        BY <2>1, <2>2 DEF TurnTyped
<1>16. CASE GetBalance
    BY <1>16 DEF GetBalance, TurnTyped
<1>17. CASE ClearPurchase
    BY <1>17 DEF ClearPurchase, TurnTyped
<1>18. CASE GetPrivateKey
    BY <1>18, GotoTyped DEF GetPrivateKey, TurnTyped, At, Free, Idle, Stages, Completing
<1>19. CASE SavePrivateKey
    BY <1>19, GotoTyped DEF SavePrivateKey, TurnTyped, At, Free, Idle, Stages, Completing
<1>20. CASE ResetPrivateKey
    BY <1>20, GotoTyped DEF ResetPrivateKey, TurnTyped, At, Free, Idle, Stages, Completing
<1>21. CASE Relaunch
    <2>1. PICK s \in {"view", "absentRecord"} : stage' = [Idle EXCEPT !.at = s]
        BY <1>21, Zenon DEF Relaunch
    <2> QED
        BY <1>21, <2>1, IdleTyped DEF Relaunch, TurnTyped, Stages, Completing
<1>22. CASE UNCHANGED vars
    BY <1>22 DEF vars, TurnTyped
<1> QED
    BY <1>1, <1>2, <1>3, <1>4, <1>5, <1>6, <1>7, <1>8, <1>9, <1>10, <1>11, <1>12,
       <1>13, <1>14, <1>15, <1>16, <1>17, <1>18, <1>19, <1>20, <1>21, <1>22
    DEF Next

\* The items that are written.
LEMMA ItemsWritten ==
    /\ EmptyItem \in Item
    /\ \A m \in Item, t \in Txs \cup {None} :
          [m EXCEPT !.receipt = t] \in Item /\ [m EXCEPT !.record = t] \in Item
BY DEF EmptyItem, Item

LEMMA SetItemTyped ==
    ASSUME ItemTyped, NEW item \in Item, SetItem(item)
    PROVE  ItemTyped'
BY DEF SetItem, ItemTyped

LEMMA OtherTyped ==
    ASSUME ItemTyped, SetOther \/ ClearKeyChain \/ UNCHANGED itemVars
    PROVE  ItemTyped'
BY DEF SetOther, ClearKeyChain, itemVars, ItemTyped

LEMMA ItemStep == ItemTyped /\ TurnTyped /\ [Next]_vars => ItemTyped'
<1> SUFFICES ASSUME ItemTyped, TurnTyped, [Next]_vars PROVE ItemTyped'
    OBVIOUS
<1> USE DEF keptVars, ItemTyped
<1>1. ASSUME NEW t \in Txs, Charge(t) PROVE ItemTyped'
    BY <1>1 DEF Charge
<1>2. ASSUME NEW t \in Txs, Refuse(t) PROVE ItemTyped'
    BY <1>2 DEF Refuse
<1>3. ASSUME NEW t \in Txs, OrderToApplePay(t) PROVE ItemTyped'
    BY <1>3 DEF OrderToApplePay
<1>4. ASSUME NEW t \in Txs, CompleteTransaction(t) PROVE ItemTyped'
    BY <1>4 DEF CompleteTransaction
<1>5. ASSUME NEW t \in Txs, Confirm(t) PROVE ItemTyped'
    BY <1>5 DEF Confirm
<1>6. ASSUME NEW b \in batches, IgnoreBatch(b) PROVE ItemTyped'
    BY <1>6 DEF IgnoreBatch
<1>7. ASSUME NEW m \in posts, NEW processed \in BOOLEAN, Answered(m, processed) PROVE ItemTyped'
    BY <1>7 DEF Answered
<1>8. CASE OpenPage
    BY <1>8 DEF OpenPage, AddTransactionObserver
<1>9. CASE ClosePage
    BY <1>9 DEF ClosePage
<1>10. CASE RcTimer
    BY <1>10 DEF RcTimer, AddTransactionObserver
<1>11. CASE VerifyReceipt
    BY <1>11 DEF VerifyReceipt
<1>12. CASE StorePurchase
    <2>1. stage.tx \in Txs
        BY <1>12 DEF StorePurchase, TurnTyped, At, Completing
    <2> QED
        BY <1>12, <2>1, ItemsWritten, SetItemTyped, OtherTyped DEF StorePurchase
<1>13. CASE PostFirst
    BY <1>13 DEF PostFirst
<1>14. CASE MvRecharge
    BY <1>14 DEF MvRecharge
<1>15. CASE MvSend
    BY <1>15 DEF MvSend
<1>16. CASE GetBalance
    BY <1>16 DEF GetBalance
<1>17. CASE ClearPurchase
    BY <1>17, ItemsWritten, SetItemTyped, OtherTyped DEF ClearPurchase
<1>18. CASE GetPrivateKey
    BY <1>18, ItemsWritten, SetItemTyped, OtherTyped DEF GetPrivateKey
<1>19. CASE SavePrivateKey
    BY <1>19, OtherTyped DEF SavePrivateKey, itemVars
<1>20. CASE ResetPrivateKey
    BY <1>20 DEF ResetPrivateKey
<1>21. CASE Relaunch
    BY <1>21, ItemsWritten DEF Relaunch
<1>22. CASE UNCHANGED vars
    BY <1>22 DEF vars
<1> QED
    BY <1>1, <1>2, <1>3, <1>4, <1>5, <1>6, <1>7, <1>8, <1>9, <1>10, <1>11, <1>12,
       <1>13, <1>14, <1>15, <1>16, <1>17, <1>18, <1>19, <1>20, <1>21, <1>22
    DEF Next

LEMMA LoopsStep == Typed /\ [Next]_vars => LoopsTyped'
<1> SUFFICES ASSUME Typed, [Next]_vars PROVE LoopsTyped'
    OBVIOUS
<1>a. LoopsTyped /\ memory.receipt \in Txs \cup {None} /\ stage.tx \in Txs \cup {None}
    BY DEF Typed, ItemTyped, TurnTyped, Item
<1> USE <1>a DEF LoopsTyped, pageVars, serverVars
<1>1. ASSUME NEW t \in Txs, Charge(t) PROVE LoopsTyped'
    BY <1>1 DEF Charge
<1>2. ASSUME NEW t \in Txs, Refuse(t) PROVE LoopsTyped'
    BY <1>2 DEF Refuse
<1>3. ASSUME NEW t \in Txs, OrderToApplePay(t) PROVE LoopsTyped'
    BY <1>3 DEF OrderToApplePay
<1>4. ASSUME NEW t \in Txs, CompleteTransaction(t) PROVE LoopsTyped'
    BY <1>4 DEF CompleteTransaction
<1>5. ASSUME NEW t \in Txs, Confirm(t) PROVE LoopsTyped'
    BY <1>5 DEF Confirm
<1>6. ASSUME NEW b \in batches, IgnoreBatch(b) PROVE LoopsTyped'
    BY <1>6 DEF IgnoreBatch
<1>7. ASSUME NEW m \in posts, NEW processed \in BOOLEAN, Answered(m, processed) PROVE LoopsTyped'
    BY <1>7 DEF Answered
<1>8. CASE OpenPage
    BY <1>8 DEF OpenPage, AddTransactionObserver
<1>9. CASE ClosePage
    BY <1>9 DEF ClosePage
<1>10. CASE RcTimer
    BY <1>10 DEF RcTimer, AddTransactionObserver
<1>11. CASE VerifyReceipt
    BY <1>11 DEF VerifyReceipt
<1>12. CASE StorePurchase
    BY <1>12 DEF StorePurchase
<1>13. CASE PostFirst
    BY <1>13 DEF PostFirst
<1>14. CASE MvRecharge
    BY <1>14 DEF MvRecharge
<1>15. CASE MvSend
    BY <1>15 DEF MvSend
<1>16. CASE GetBalance
    BY <1>16 DEF GetBalance
<1>17. CASE ClearPurchase
    BY <1>17 DEF ClearPurchase
<1>18. CASE GetPrivateKey
    BY <1>18 DEF GetPrivateKey
<1>19. CASE SavePrivateKey
    BY <1>19 DEF SavePrivateKey
<1>20. CASE ResetPrivateKey
    BY <1>20 DEF ResetPrivateKey
<1>21. CASE Relaunch
    BY <1>21 DEF Relaunch
<1>22. CASE UNCHANGED vars
    BY <1>22 DEF vars
<1> QED
    BY <1>1, <1>2, <1>3, <1>4, <1>5, <1>6, <1>7, <1>8, <1>9, <1>10, <1>11, <1>12,
       <1>13, <1>14, <1>15, <1>16, <1>17, <1>18, <1>19, <1>20, <1>21, <1>22
    DEF Next

LEMMA TypedStep == Typed /\ [Next]_vars => Typed'
BY SwitchesStep, SetsStep, TurnStep, ItemStep, LoopsStep DEF Typed

-----------------------------------------------------------------------------
(* What is kept of a purchase *)

Absent == {"absentRecord", "absentType", "absentReceipt"}

\* The item on disk, if there is one, is the one in memory.
Coherent == disk # None => disk = memory

\* A launch that forgets has no key and no view; the item is cleared in a turn
\* that is not storing, and for a record the chain shows.
Turning ==
    /\ stage.at \in Absent => ~keyed /\ mvLoop = "unloaded"
    /\ clearing # "no" => stage.at \in {"idle", "view", "receipt", "send"}
    /\ clearing \in {"type", "receipt"} => memory.record \in confirmed
    /\ clearing = "record" => memory.receipt = None
    /\ stage.at \in {"type", "record"} => memory.receipt = stage.tx

\* Receipt and record agree except while they are written.
Whole ==
    ~torn /\ stage.at \notin {"type", "record"} \cup Absent /\ memory.receipt # None
        => memory.record = memory.receipt

Kept == Coherent /\ Turning /\ Whole

LEMMA KeptInit == Init => Kept
BY DEF Init, Kept, Coherent, Turning, Whole, Absent, Idle, EmptyItem

\* What the writes of an item do, given that it is typed.
LEMMA SetRecord ==
    ASSUME ItemTyped, NEW t \in Txs \cup {None}, SetItem([memory EXCEPT !.record = t])
    PROVE  memory'.record = t /\ memory'.receipt = memory.receipt
BY DEF SetItem, ItemTyped, Item

LEMMA SetReceipt ==
    ASSUME ItemTyped, NEW t \in Txs \cup {None}, SetItem([memory EXCEPT !.receipt = t])
    PROVE  memory'.receipt = t /\ memory'.record = memory.record
BY DEF SetItem, ItemTyped, Item

LEMMA WritesCoherent ==
    ASSUME Coherent,
           (\E item : SetItem(item)) \/ SetOther \/ ClearKeyChain \/ UNCHANGED itemVars
    PROVE  Coherent'
BY DEF Coherent, SetItem, SetOther, ClearKeyChain, itemVars

\* Steps of the others: neither the turn nor the item.
LEMMA OthersKeep ==
    ASSUME Kept, UNCHANGED <<turnVars, keptVars>>, confirmed \subseteq confirmed',
           mvLoop' = mvLoop \/ stage.at \notin Absent
    PROVE  Kept'
BY DEF Kept, Coherent, Turning, Whole, turnVars, keptVars

\* Steps of the turn that leave the item alone.
LEMMA TurnKeeps ==
    ASSUME Kept, UNCHANGED <<keptVars, confirmed>>, stage'.at \notin {"type", "record"} \cup Absent,
           stage.at \notin {"type", "record"} \cup Absent,
           clearing' # "no" => stage'.at \in {"idle", "view", "receipt", "send"},
           clearing' = "no" \/ (clearing' = "type" /\ Confirmed)
    PROVE  Kept'
BY DEF Kept, Coherent, Turning, Whole, keptVars, Confirmed

\* A turn goes to the stage it names.
LEMMA GotoAt ==
    ASSUME TurnTyped, NEW s, Goto(s) PROVE stage'.at = s /\ stage'.tx = stage.tx
BY DEF TurnTyped, Goto

LEMMA KeptStep == Typed /\ Kept /\ [Next]_vars => Kept'
<1> SUFFICES ASSUME Typed, Kept, [Next]_vars PROVE Kept'
    OBVIOUS
<1>t. TurnTyped /\ ItemTyped /\ confirmed \subseteq Txs
    BY DEF Typed, SetsTyped
<1>1. ASSUME NEW t \in Txs, Charge(t) \/ Refuse(t) \/ OrderToApplePay(t) \/ Confirm(t)
      PROVE  Kept'
    BY <1>1, OthersKeep DEF Charge, Refuse, OrderToApplePay, Confirm, serverVars
<1>2. ASSUME NEW t \in Txs, CompleteTransaction(t) PROVE Kept'
    BY <1>2, TurnKeeps DEF CompleteTransaction, Free, Idle, Absent, serverVars
<1>3. ASSUME NEW b \in batches, IgnoreBatch(b) PROVE Kept'
    BY <1>3, OthersKeep DEF IgnoreBatch, serverVars
<1>4. ASSUME NEW m \in posts, NEW processed \in BOOLEAN, Answered(m, processed)
      PROVE  Kept'
    BY <1>4, OthersKeep DEF Answered, Free, Idle, Absent
<1>5. CASE OpenPage \/ ClosePage \/ RcTimer
    BY <1>5, OthersKeep DEF OpenPage, ClosePage, RcTimer, serverVars
<1>6. CASE VerifyReceipt
    <2>1. stage'.at \in {"receipt", "idle"} /\ stage.at = "verify" /\ clearing = "no"
        BY <1>6, <1>t, GotoAt DEF VerifyReceipt, At, Idle
    <2>2. clearing' = "no" \/ (clearing' = "type" /\ stage'.at = "receipt" /\ Confirmed)
        BY <1>6, <1>t, GotoAt DEF VerifyReceipt, At, ReadBalance
    <2> QED
        BY <1>6, <2>1, <2>2, TurnKeeps DEF VerifyReceipt, Absent, serverVars
<1>7. CASE StorePurchase
    <2>1. stage.tx \in Txs /\ clearing = "no" /\ clearing' = "no"
        BY <1>7, <1>t DEF StorePurchase, At, TurnTyped, Completing
    <2>2. Coherent'
        BY <1>7, WritesCoherent DEF StorePurchase, Kept
    <2>3. CASE At("receipt")
        <3>1. stage'.at = "type" /\ stage'.tx = stage.tx
            BY <1>7, <2>3, <1>t, GotoAt DEF StorePurchase, At
        <3>2. memory'.receipt = stage.tx
            BY <1>7, <2>3, <2>1, <1>t, SetReceipt DEF StorePurchase, At
        <3> QED
            BY <2>1, <2>2, <3>1, <3>2 DEF Kept, Turning, Whole, Absent
    <2>4. CASE At("type")
        <3>1. stage'.at = "record" /\ stage'.tx = stage.tx
            BY <1>7, <2>4, <1>t, GotoAt DEF StorePurchase, At
        <3>2. memory'.receipt = stage.tx
            BY <1>7, <2>4 DEF StorePurchase, At, SetOther, Kept, Turning
        <3> QED
            BY <2>1, <2>2, <3>1, <3>2 DEF Kept, Turning, Whole, Absent
    <2>5. CASE At("record")
        <3>1. stage'.at = "post"
            BY <1>7, <2>5, <1>t, GotoAt DEF StorePurchase, At
        <3>2. memory'.receipt = memory.receipt /\ memory'.record = stage.tx
            BY <1>7, <2>5, <2>1, <1>t, SetRecord DEF StorePurchase, At
        <3> QED
            BY <2>1, <2>2, <2>5, <3>1, <3>2 DEF Kept, Turning, Whole, Absent, At
    <2> QED
        BY <1>7, <2>3, <2>4, <2>5 DEF StorePurchase
<1>8. CASE PostFirst \/ MvSend
    <2>1. stage'.at = "idle" /\ stage.at \in {"post", "send"} /\ clearing = "no" /\ clearing' = "no"
        BY <1>8 DEF PostFirst, MvSend, At, Idle
    <2> QED
        BY <1>8, <2>1, TurnKeeps DEF PostFirst, MvSend, Absent
<1>9. CASE MvRecharge
    <2>1. stage'.at \in {"send", "idle"} /\ stage.at \in {"view", "idle"} /\ clearing = "no"
        BY <1>9, <1>t, GotoAt DEF MvRecharge, At, Free, Idle
    <2>2. clearing' = "no" \/ (clearing' = "type" /\ stage'.at = "send" /\ Confirmed)
        BY <1>9, <2>1, <1>t, GotoAt DEF MvRecharge, ReadBalance
    <2> QED
        BY <1>9, <2>1, <2>2, TurnKeeps DEF MvRecharge, Absent, serverVars
<1>10. CASE GetBalance
    BY <1>10, TurnKeeps DEF GetBalance, At, Absent, serverVars
<1>11. CASE ClearPurchase
    <2>1. Coherent'
        BY <1>11, WritesCoherent DEF ClearPurchase, Kept
    <2>2. clearing # "no" /\ stage' = stage /\ confirmed' = confirmed /\ keyed' = keyed /\ torn' = torn
          /\ mvLoop' = mvLoop
        BY <1>11 DEF ClearPurchase, serverVars
    <2>3. stage.at \in {"idle", "view", "receipt", "send"}
        BY <2>2 DEF Kept, Turning
    <2>4. CASE clearing = "type"
        BY <1>11, <2>1, <2>2, <2>3, <2>4 DEF ClearPurchase, SetOther, Kept, Turning, Whole, Absent
    <2>5. CASE clearing = "receipt"
        <3>1. memory'.receipt = None /\ clearing' = "record"
            BY <1>11, <2>5, <1>t, SetReceipt DEF ClearPurchase
        <3> QED
            BY <2>1, <2>2, <2>3, <3>1 DEF Kept, Turning, Whole, Absent
    <2>6. CASE clearing = "record"
        <3>1. memory.receipt = None => memory'.receipt = None
            BY <1>11, <2>6, <1>t, SetRecord DEF ClearPurchase
        <3>2. clearing' = "delete"
            BY <1>11, <2>6 DEF ClearPurchase
        <3> QED
            BY <2>1, <2>2, <2>3, <2>6, <3>1, <3>2 DEF Kept, Turning, Whole, Absent
    <2>7. CASE clearing = "delete"
        BY <1>11, <2>1, <2>2, <2>3, <2>7 DEF ClearPurchase, ClearKeyChain, Kept, Turning, Whole, Absent
    <2> QED
        BY <1>11, <2>4, <2>5, <2>6, <2>7 DEF ClearPurchase
<1>12. CASE GetPrivateKey
    <2>1. Coherent'
        BY <1>12, WritesCoherent DEF GetPrivateKey, Kept
    <2>2. clearing = "no" /\ clearing' = "no" /\ keyed' = keyed /\ mvLoop' = mvLoop
        BY <1>12 DEF GetPrivateKey, At
    <2>3. stage.at \in Absent
        BY <1>12 DEF GetPrivateKey, At, Absent
    <2>4. CASE stage'.at \in Absent
        BY <2>1, <2>2, <2>3, <2>4 DEF Kept, Turning, Whole, Absent
    <2>5. CASE stage'.at = "key" /\ memory'.receipt = None
        BY <2>1, <2>2, <2>3, <2>5 DEF Kept, Turning, Whole, Absent
    <2> QED
        BY <1>12, <2>4, <2>5, <1>t, GotoAt, SetReceipt DEF GetPrivateKey, Absent
<1>13. CASE SavePrivateKey
    <2>1. Coherent'
        BY <1>13, WritesCoherent DEF SavePrivateKey, Kept
    <2>2. clearing = "no" /\ clearing' = "no" /\ memory' = memory /\ torn' = torn
        BY <1>13 DEF SavePrivateKey, At, SetOther, ClearKeyChain, itemVars
    <2>3. stage.at \in {"key", "delete", "forget", "keep"}
        BY <1>13 DEF SavePrivateKey, At
    <2>4. stage'.at \in {"delete", "forget", "keep", "view", "idle"}
        BY <1>13, <1>t, GotoAt DEF SavePrivateKey
    <2> QED
        BY <2>1, <2>2, <2>3, <2>4 DEF Kept, Turning, Whole, Absent
<1>14. CASE ResetPrivateKey
    <2>1. stage'.at = "key" /\ stage.at = "idle" /\ clearing = "no" /\ clearing' = "no"
        BY <1>14, <1>t, GotoAt DEF ResetPrivateKey, Free, Idle
    <2> QED
        BY <1>14, <2>1, TurnKeeps DEF ResetPrivateKey, Absent, serverVars
<1>15. CASE Relaunch
    <2>1. Coherent' /\ clearing' = "no" /\ mvLoop' = "unloaded"
        BY <1>15 DEF Relaunch, Kept, Coherent
    <2>2. stage'.at = IF keyed' THEN "view" ELSE "absentRecord"
        BY <1>15 DEF Relaunch, Idle
    <2>3. keyed' \in BOOLEAN
        BY <1>15 DEF Relaunch, Typed, SwitchesTyped
    <2>4. Turning'
        BY <2>1, <2>2, <2>3 DEF Turning, Absent
    <2>5. Whole'
        <3> SUFFICES ASSUME ~torn', stage'.at \notin {"type", "record"} \cup Absent, memory'.receipt # None
                     PROVE  memory'.record = memory'.receipt
            BY DEF Whole
        <3>1. keyed' = TRUE /\ keyed = TRUE
            BY <1>15, <2>2, <2>3 DEF Absent, Relaunch, Typed, SwitchesTyped
        <3>2. ~torn /\ stage.at \notin {"type", "record"} \cup Absent
            BY <1>15, <3>1 DEF Relaunch, Kept, Turning
        <3>3. memory' = memory
            BY <1>15 DEF Relaunch, EmptyItem, Kept, Coherent
        <3> QED
            BY <3>2, <3>3 DEF Kept, Whole
    <2> QED
        BY <2>1, <2>4, <2>5 DEF Kept
<1>16. CASE UNCHANGED vars
    BY <1>16, OthersKeep DEF vars, serverVars
<1> QED
    BY <1>1, <1>2, <1>3, <1>4, <1>5, <1>6, <1>7, <1>8, <1>9, <1>10, <1>11, <1>12, <1>13,
       <1>14, <1>15, <1>16
    DEF Next

PurchaseInv == Typed /\ Kept

\* The inductive invariant: through every order of writes, clears, kills and
\* reloads the item on disk is missing or the one in memory, receipt and record
\* are those of one purchase except where they are being written, and what is
\* being cleared is on the chain.
THEOREM PurchaseInvariant == Spec => []PurchaseInv
<1>1. Init => PurchaseInv
    BY TypedInit, KeptInit DEF PurchaseInv
<1>2. PurchaseInv /\ [Next]_vars => PurchaseInv'
    BY TypedStep, KeptStep DEF PurchaseInv
<1> QED
    BY <1>1, <1>2, PTL DEF Spec

\* The page, the loops, the turn, the item and the sets of transactions are typed.
THEOREM PurchaseTypeOK == Spec => []TypeOK
<1>1. PurchaseInv => TypeOK
    BY DEF PurchaseInv, Typed, SwitchesTyped, SetsTyped, TurnTyped, ItemTyped, LoopsTyped, TypeOK
<1> QED
    BY <1>1, PurchaseInvariant, PTL

\* Between two turns a stored receipt has its own record, whatever kills,
\* clearings, launches and changes of account came before, unless a kill hit
\* the storing itself.
THEOREM PurchaseStoredWhole == Spec => []StoredWhole
<1>1. PurchaseInv => StoredWhole
    BY DEF PurchaseInv, Kept, Whole, StoredWhole, Free, Idle, Absent
<1> QED
    BY <1>1, PurchaseInvariant, PTL

-----------------------------------------------------------------------------
(* A stored purchase is not forgotten *)

Remembered ==
    memory.receipt # None /\ memory'.receipt = None
        => \/ memory.receipt \in confirmed
           \/ mvLoop' = "unloaded" /\ (disk = None \/ ~keyed)
           \/ torn

\* Only three steps empty a receipt: clearing, a launch without key, a reload.
LEMMA StepRemembers == PurchaseInv /\ [Next]_vars => Remembered
<1> SUFFICES ASSUME PurchaseInv, [Next]_vars PROVE Remembered
    OBVIOUS
<1>t. TurnTyped /\ ItemTyped
    BY DEF PurchaseInv, Typed
<1>u. ASSUME memory'.receipt = memory.receipt PROVE Remembered
    BY <1>u DEF Remembered
<1>1. ASSUME NEW t \in Txs, Charge(t) \/ Refuse(t) \/ OrderToApplePay(t)
                            \/ CompleteTransaction(t) \/ Confirm(t)
      PROVE  Remembered
    BY <1>1, <1>u DEF Charge, Refuse, OrderToApplePay, CompleteTransaction, Confirm, keptVars
<1>2. ASSUME NEW b \in batches, IgnoreBatch(b) PROVE Remembered
    BY <1>2, <1>u DEF IgnoreBatch, keptVars
<1>3. ASSUME NEW m \in posts, NEW processed \in BOOLEAN, Answered(m, processed)
      PROVE  Remembered
    BY <1>3, <1>u DEF Answered, keptVars
<1>4. CASE \/ OpenPage \/ ClosePage \/ RcTimer \/ VerifyReceipt \/ PostFirst \/ MvRecharge
           \/ MvSend \/ GetBalance \/ ResetPrivateKey
    BY <1>4, <1>u DEF OpenPage, ClosePage, RcTimer, VerifyReceipt, PostFirst, MvRecharge,
       MvSend, GetBalance, ResetPrivateKey, keptVars
<1>5. CASE StorePurchase
    <2>1. stage.tx \in Txs
        BY <1>5, <1>t DEF StorePurchase, At, TurnTyped, Completing
    <2>2. memory'.receipt = memory.receipt \/ memory'.receipt = stage.tx
        BY <1>5, <2>1, <1>t, SetReceipt, SetRecord DEF StorePurchase, SetOther
    <2> QED
        BY <2>1, <2>2, PurchaseAssumption DEF PurchaseAssumption, Remembered
<1>6. CASE ClearPurchase
    <2>1. CASE clearing = "receipt"
        <3>1. stage.at \in {"idle", "view", "receipt", "send"} /\ memory.record \in confirmed
            BY <2>1 DEF PurchaseInv, Kept, Turning
        <3> QED
            BY <3>1 DEF PurchaseInv, Kept, Whole, Absent, Remembered
    <2>2. CASE clearing # "receipt"
        BY <1>6, <2>2, <1>t, <1>u, SetRecord DEF ClearPurchase, SetOther, ClearKeyChain
    <2> QED
        BY <2>1, <2>2
<1>7. CASE GetPrivateKey
    <2>1. stage.at \in Absent /\ mvLoop' = mvLoop
        BY <1>7 DEF GetPrivateKey, At, Absent
    <2> QED
        BY <2>1 DEF PurchaseInv, Kept, Turning, Remembered
<1>8. CASE SavePrivateKey
    BY <1>8, <1>u DEF SavePrivateKey, SetOther, ClearKeyChain, itemVars
<1>9. CASE Relaunch
    BY <1>9 DEF Relaunch, Remembered, PurchaseInv, Kept, Coherent
<1>10. CASE UNCHANGED vars
    BY <1>10, <1>u DEF vars, keptVars
<1> QED
    BY <1>1, <1>2, <1>3, <1>4, <1>5, <1>6, <1>7, <1>8, <1>9, <1>10 DEF Next

\* Through every kill, clearing, relaunch, balance tick and second purchase, a
\* stored purchase is forgotten only when the chain shows it, or by a launch
\* after its account was changed or lost its key, or if a kill tore it apart.
THEOREM PurchaseForgotten == Spec => ForgottenOnlyConfirmed
<1>1. PurchaseInv /\ [Next]_vars => [Remembered]_vars
    BY StepRemembers
<1>2. ForgottenOnlyConfirmed <=> [][Remembered]_vars
    BY PTL DEF ForgottenOnlyConfirmed, Remembered
<1> QED
    BY <1>1, <1>2, PurchaseInvariant, PTL DEF Spec
=============================================================================
