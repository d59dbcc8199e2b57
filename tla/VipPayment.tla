------------------------------- MODULE VipPayment -------------------------------
(***************************************************************************)
(* VIP by balance and by payment (TenonP2pLib.swift): the tick that reads  *)
(* the balance and pays for VIP, the answers of the peer-to-peer library,  *)
(* the status kept in the defaults, and the launch that reads it back.     *)
(*                                                                         *)
(* Amounts are counted in days (min_payfor_vpn_tenon, 66 Tenon, each) and  *)
(* times in days from 1 on; 0 is the value of a field that was never set.  *)
(* The library, without source here, is modelled from how the code calls   *)
(* it: checkVip reports the last payment the chain has confirmed, none, or *)
(* a time that is no number, or does not answer, whatever it said before;  *)
(* payforVpn with an empty id is a new payment, with the id of an earlier  *)
(* one the same payment again.                                             *)
(* The account may be changed while the app runs, which empties the        *)
(* defaults.  No purchase is stored meanwhile: GetLocalAmount is 0 (see    *)
(* Purchase).                                                              *)
(***************************************************************************)
EXTENDS Integers, FiniteSets

CONSTANTS
    Month,      \* the most a payment buys (30 days in the code)
    MaxDay,     \* bound on the days modelled
    MaxFunds,   \* bound on what is ever credited to the account, in days
    MaxPays     \* bound on the payments sent

ASSUME VipAssumption ==
    /\ Month \in Nat \ {0} /\ MaxDay \in Nat \ {0}
    /\ MaxFunds \in Nat /\ MaxPays \in Nat \ {0}

VARIABLES
    \* the chain
    day,         \* the date
    balance,     \* the account's balance
    funds,       \* what has been credited to the account so far
    pending,     \* payments sent and not decided
    sent,        \* number of payments sent
    vip,         \* the last confirmed payment
    \* the app
    nowBalance,  \* now_balance
    status,      \* payfor_timestamp and payfor_amount
    payGid,      \* payfor_gid (0: empty)
    leftDays,    \* vip_left_days
    saved,       \* vip_status_payfor_tm and vip_status_payfor_amount
    other,       \* all_private_key is the key of another account
    \* history
    denied,      \* the last answer of checkVip with two fields was no payment
    wiped        \* the defaults were emptied since the status was taken over

chainVars == <<day, balance, funds, vip>>
payVars == <<pending, sent>>
keptVars == <<saved, other, wiped>>
statusVars == <<status, payGid, leftDays, denied, keptVars>>
vars == <<chainVars, payVars, nowBalance, statusVars>>

\* Int64.max, which CheckVip puts in place of a time it cannot parse.
NoTime == MaxDay + 1

\* A payment as checkVip reports it; gid tells apart those of one day.
Payment == [time : 0..NoTime, amount : 0..Month, gid : 0..MaxPays]
NoPayment == [time |-> 0, amount |-> 0, gid |-> 0]
Unparsed == [time |-> NoTime, amount |-> 0, gid |-> 0]

\* An answer that has not two fields, or no answer.
Silence == [time |-> -1, amount |-> 0, gid |-> 0]

\* The payment is one the chain has confirmed.
Paid(payment) == payment.time \in 1..MaxDay

TypeOK ==
    /\ day \in 1..MaxDay /\ balance \in 0..MaxFunds /\ funds \in 0..MaxFunds
    /\ sent \in 0..MaxPays
    /\ pending \subseteq [gid : 1..MaxPays, amount : 1..Month]
    /\ vip \in Payment
    /\ nowBalance \in -1..MaxFunds
    /\ status \in Payment /\ saved \in Payment
    /\ payGid \in 0..MaxPays /\ leftDays \in -1..(MaxFunds + Month)
    /\ other \in BOOLEAN /\ denied \in BOOLEAN /\ wiped \in BOOLEAN

Init ==
    /\ day = 1 /\ balance \in 0..MaxFunds /\ funds = balance
    /\ pending = {} /\ sent = 0 /\ vip = NoPayment
    /\ nowBalance = -1 /\ status = NoPayment /\ payGid = 0
    /\ leftDays = -1 /\ saved = NoPayment
    /\ other = FALSE /\ denied = FALSE /\ wiped = FALSE

-----------------------------------------------------------------------------
(* The chain *)

Credit(amount) ==
    /\ funds + amount <= MaxFunds
    /\ balance' = balance + amount
    /\ funds' = funds + amount
    /\ UNCHANGED <<day, vip, payVars, nowBalance, statusVars>>

\* A payment is confirmed if the balance covers it, and dropped otherwise.
Decide(p) ==
    /\ p \in pending
    /\ pending' = pending \ {p}
    /\ IF p.amount <= balance
       THEN /\ balance' = balance - p.amount
            /\ vip' = [time |-> day, amount |-> p.amount, gid |-> p.gid]
       ELSE UNCHANGED <<balance, vip>>
    /\ UNCHANGED <<day, funds, sent, nowBalance, statusVars>>

NextDay ==
    /\ day < MaxDay
    /\ day' = day + 1
    /\ UNCHANGED <<balance, funds, vip, payVars, nowBalance, statusVars>>

-----------------------------------------------------------------------------
(* The app *)

\* What checkVip may answer.
Answers(payment) == {Silence, Unparsed, NoPayment, payment}

\* CheckVip takes over any two fields whose time is not the known one.
CheckVip(known, answer) == IF answer = Silence THEN known ELSE answer

\* SaveVipStatus, by a CheckVip that took something over.
SaveVipStatus(checked, final) ==
    IF checked = status /\ final = checked
    THEN UNCHANGED <<saved, wiped>>
    ELSE saved' = final /\ wiped' = FALSE

\* History: the answers of one call, in order.
Heard(first, last) ==
    denied' = IF last # Silence THEN ~Paid(last)
              ELSE IF first # Silence THEN ~Paid(first) ELSE denied

\* getLeftDays: the days of the payment and the balance, or the balance alone.
\* A balance that was never read is -1 and counts as none.
GetLeftDays(known, now, read) ==
    IF known.time # NoTime /\ known.time + known.amount > day
    THEN known.time + known.amount - day + (IF now < 0 THEN 0 ELSE now)
    ELSE read

\* PayforVipTrans sends a payment of at most a month: a new one if payfor_gid
\* is empty.  Beyond MaxPays payments get lost.
PayforVipTrans(now) ==
    IF payGid = 0 /\ sent < MaxPays
    THEN /\ pending' = pending \cup
                {[gid |-> sent + 1, amount |-> IF now < Month THEN now ELSE Month]}
         /\ sent' = sent + 1
    ELSE UNCHANGED payVars

\* Mutant: no CheckVip at the end of a call that finds no days left.
PayforVpnUnchecked(now) ==
    LET pays == now >= 1 /\ status.time \in {0, NoTime} IN
    \E first \in IF pays THEN Answers(vip) ELSE {Silence} :
        LET checked == CheckVip(status, first)
            left == GetLeftDays(checked, now, balance)
        IN \E last \in {Silence} :
            /\ IF pays THEN PayforVipTrans(now) ELSE UNCHANGED payVars
            /\ leftDays' = left
            /\ payGid' = IF left > 0 THEN 0 ELSE IF pays /\ payGid = 0 THEN sent' ELSE payGid
            /\ status' = CheckVip(checked, last)
            /\ SaveVipStatus(checked, status')
            /\ Heard(first, last)
            /\ UNCHANGED other

\* PayforVpn: with a balance and no payment known it asks for one, and pays
\* whatever the answer; the id goes when there are days left, else it asks.
PayforVpn(now) ==
    LET pays == now >= 1 /\ status.time \in {0, NoTime} IN
    \E first \in IF pays THEN Answers(vip) ELSE {Silence} :
        LET checked == CheckVip(status, first)
            left == GetLeftDays(checked, now, balance)
        IN \E last \in IF left > 0 THEN {Silence} ELSE Answers(vip) :
            /\ IF pays THEN PayforVipTrans(now) ELSE UNCHANGED payVars
            /\ leftDays' = left
            /\ payGid' = IF left > 0 THEN 0 ELSE IF pays /\ payGid = 0 THEN sent' ELSE payGid
            /\ status' = CheckVip(checked, last)
            /\ SaveVipStatus(checked, status')
            /\ Heard(first, last)
            /\ UNCHANGED other

\* requestData, each second.
RequestData ==
    /\ nowBalance' = balance
    /\ PayforVpn(balance)
    /\ UNCHANGED chainVars

\* The main view pays again when it lays out the free view.
MainViewPays ==
    /\ leftDays >= 0
    /\ PayforVpn(nowBalance)
    /\ UNCHANGED <<chainVars, nowBalance>>

\* reloadBalance asks for the days of a VIP.
ReloadBalance ==
    /\ leftDays > 0
    /\ leftDays' = GetLeftDays(status, nowBalance, balance)
    /\ payGid' = IF status.time # NoTime /\ status.time + status.amount > day THEN 0 ELSE payGid
    /\ UNCHANGED <<chainVars, payVars, nowBalance, status, denied, keptVars>>

\* The account of another key, with nothing on it.
NewAccount ==
    /\ vip' = NoPayment /\ balance' = 0 /\ pending' = {}
    /\ UNCHANGED <<day, funds, sent>>

\* The user gives a key: the defaults are emptied, the status in memory is not.
\* If the library refuses the key, the next launch takes it.
ResetPrivateKey ==
    /\ saved' = NoPayment /\ wiped' = TRUE
    /\ \/ NewAccount /\ other' = FALSE
       \/ other' = TRUE /\ UNCHANGED <<chainVars, payVars>>
    /\ UNCHANGED <<nowBalance, status, payGid, leftDays, denied>>

\* Mutant: the launch asks the library and leaves the defaults alone.
InitUnread(answer) == CheckVip(NoPayment, answer)

\* The app is launched anew: CheckVip, then GetVipStatus over its result, which
\* CheckVip has saved, then PayforVpn with a balance never read.
InitStatus(answer) == IF answer \in {Silence, NoPayment} THEN saved ELSE answer

InitP2pNetwork ==
    /\ IF other THEN NewAccount ELSE UNCHANGED <<chainVars, payVars>>
    /\ \E answer \in Answers(vip') :
          LET known == InitStatus(answer)
              left == GetLeftDays(known, -1, balance')
          IN \E last \in IF left > 0 THEN {Silence} ELSE Answers(vip') :
              /\ leftDays' = left
              /\ status' = CheckVip(known, last)
              /\ saved' = status'
              /\ Heard(answer, last)
    /\ nowBalance' = -1 /\ payGid' = 0
    /\ other' = FALSE /\ wiped' = FALSE

Next ==
    \/ \E amount \in 1..MaxFunds : Credit(amount)
    \/ \E p \in pending : Decide(p)
    \/ NextDay
    \/ RequestData \/ MainViewPays \/ ReloadBalance
    \/ ResetPrivateKey \/ InitP2pNetwork

Spec == Init /\ [][Next]_vars

\* The tick runs, and if the chain has a payment the library reports it time
\* and again when it is asked.
FairSpec ==
    /\ Spec
    /\ WF_vars(RequestData)
    /\ SF_vars(RequestData /\ Paid(vip) /\ status' = vip)

-----------------------------------------------------------------------------
(* Properties *)

\* A VIP payment the app knows of is lost only on the library's word: neither
\* its silence nor a launch, whose CheckVip starts from nothing, takes it back.
\* The exception is a launch after the account was changed.
KnownPaymentKept == [][Paid(status) /\ ~Paid(status') => denied' \/ wiped]_vars

\* Each payment the chain has confirmed becomes known to the app once it has no
\* days left without it, although it asks only when it pays or has no days
\* left, the library may deny or not answer, and the app may be ended in
\* between; unless another payment or another account comes first.
PaymentBecomesKnown ==
    \A g \in 1..MaxPays :
        (Paid(vip) /\ vip.gid = g) ~> (status.gid = g \/ vip.gid # g \/ leftDays > 0)
=============================================================================
