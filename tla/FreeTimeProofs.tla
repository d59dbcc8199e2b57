---------------------------- MODULE FreeTimeProofs ----------------------------
(***************************************************************************)
(* Proofs about FreeTime for every grant, every set of rewards and every   *)
(* bound.                                                                  *)
(***************************************************************************)
EXTENDS FreeTime, TLAPS

\* What a handler has read and will write is no more than the counter may
\* show, and no day of the future is stamped.
LocalsSound ==
    /\ ext = "count" => extLocal <= DayGrant + earned
    /\ app \in {"refresh", "reward"} => appLocal <= DayGrant + earned
    /\ ext = "stamp" => extLocal \in 0..MaxDay
    /\ app = "stamp" => appLocal \in 0..MaxDay

FreeTimeInv == TypeOK /\ GrantsDoNotPileUp /\ LocalsSound

LEMMA FreeTimeInit == Init => FreeTimeInv
<1> SUFFICES ASSUME Init PROVE FreeTimeInv
    OBVIOUS
<1>1. awake \in BOOLEAN /\ vip \in BOOLEAN /\ isLink \in BOOLEAN
    BY Zenon DEF Init
<1>2. /\ left \in Nat /\ left <= DayGrant + earned
      /\ stamp \in 0..MaxDay /\ today \in 1..MaxDay
      /\ extLocal \in Nat /\ appLocal \in Nat /\ earned \in 0..MaxEarned
    BY FreeTimeAssumption DEF FreeTimeAssumption, Init
<1>3. ext = "none" /\ app = "dead"
    BY DEF Init
<1> QED
    BY <1>1, <1>2, <1>3 DEF FreeTimeInv, TypeOK, GrantsDoNotPileUp, LocalsSound

LEMMA FreeTimeStep == FreeTimeInv /\ [Next]_vars => FreeTimeInv'
<1> SUFFICES ASSUME FreeTimeInv, [Next]_vars PROVE FreeTimeInv'
    OBVIOUS
<1> USE FreeTimeAssumption
    DEF FreeTimeAssumption, FreeTimeInv, TypeOK, GrantsDoNotPileUp, LocalsSound,
        extVars, appVars
<1>1. CASE ExtStart \/ ExtEnd
    BY <1>1 DEF ExtStart, ExtEnd
<1>2. CASE TickRead
    BY <1>2 DEF TickRead
<1>3. CASE TickCount
    BY <1>3 DEF TickCount
<1>4. CASE TickOut
    BY <1>4 DEF TickOut
<1>5. CASE TickDay
    BY <1>5 DEF TickDay
<1>6. CASE TickStamp
    BY <1>6 DEF TickStamp
<1>7. CASE TickGrant
    BY <1>7 DEF TickGrant
<1>8. CASE AppStart
    <2>1. awake' \in BOOLEAN /\ vip' \in BOOLEAN /\ isLink' \in BOOLEAN
        BY <1>8, Zenon DEF AppStart
    <2>2. /\ app' \in {"idle", "stamp"} /\ appLocal' \in Nat
          /\ app' = "stamp" => appLocal' \in 0..MaxDay
        BY <1>8 DEF AppStart
    <2>3. UNCHANGED <<left, stamp, today, ext, extLocal, earned>>
        BY <1>8 DEF AppStart
    <2> QED BY <2>1, <2>2, <2>3
<1>9. CASE InitStamp
    BY <1>9 DEF InitStamp, Runs
<1>10. CASE InitGrant
    BY <1>10 DEF InitGrant, Runs
<1>11. CASE RefreshRead
    BY <1>11 DEF RefreshRead, Runs
<1>12. CASE RefreshVip
    BY <1>12 DEF RefreshVip, Runs
<1>13. CASE RefreshFree
    <2>1. CountedDown \in Nat /\ CountedDown <= appLocal
        BY DEF CountedDown
    <2>2. isLink' \in BOOLEAN
        BY <1>13 DEF RefreshFree
    <2> QED BY <1>13, <2>1, <2>2 DEF RefreshFree, Runs
<1>14. CASE RewardRead
    BY <1>14 DEF RewardRead, Runs
<1>15. ASSUME NEW r \in Rewards, RewardWrite(r) PROVE FreeTimeInv'
    BY <1>15 DEF RewardWrite, Runs
<1>16. ASSUME NEW l \in BOOLEAN, ViewLinks(l) PROVE FreeTimeInv'
    BY <1>16 DEF ViewLinks, Runs
<1>17. CASE VipChanges
    BY <1>17 DEF VipChanges, Runs
<1>18. CASE Suspend \/ AppEnd
    BY <1>18 DEF Suspend, AppEnd
<1>19. CASE DayChange
    BY <1>19 DEF DayChange
<1>20. CASE UNCHANGED vars
    BY <1>20 DEF vars
<1> QED
    BY <1>1, <1>2, <1>3, <1>4, <1>5, <1>6, <1>7, <1>8, <1>9, <1>10, <1>11, <1>12, <1>13,
       <1>14, <1>15, <1>16, <1>17, <1>18, <1>19, <1>20
    DEF Next, Tick, AppHandlers

THEOREM FreeTimeInvariant == Spec => []FreeTimeInv
BY FreeTimeInit, FreeTimeStep, PTL DEF Spec

\* The counter never falls below zero, whatever is read and written in which
\* order.
THEOREM FreeTimeTypeOK == Spec => []TypeOK
BY FreeTimeInvariant, PTL DEF FreeTimeInv

\* No order of days, refills, rewards and stale writes makes the counter show
\* more than one grant and the rewards.
THEOREM FreeTimeNoPile == Spec => []GrantsDoNotPileUp
BY FreeTimeInvariant, PTL DEF FreeTimeInv
=============================================================================
