--------------------------- MODULE VipPaymentProofs ---------------------------
(***************************************************************************)
(* Proofs about VipPayment for any month, any number of days and payments  *)
(* and any credits.                                                        *)
(***************************************************************************)
EXTENDS VipPayment, TLAPS

-----------------------------------------------------------------------------
(* What the app may know of payments *)

\* A status the app may hold on some day: none, an answer that was no date, or
\* a payment that was made by then.
Known(s) ==
    /\ s \in Payment
    /\ s = NoPayment \/ s = Unparsed \/ (Paid(s) /\ s.time <= day)

\* The chain's payment is none or a real one, and what the app knows is what
\* the defaults hold, unless they were emptied since.
StatusSound ==
    /\ day \in 1..MaxDay
    /\ Known(vip) /\ vip # Unparsed
    /\ Known(status) /\ Known(saved)
    /\ wiped \in BOOLEAN /\ denied \in BOOLEAN /\ other \in BOOLEAN
    /\ ~wiped => saved = status

LEMMA NotPaid == ~Paid(NoPayment) /\ ~Paid(Unparsed) /\ ~Paid(Silence)
BY VipAssumption DEF VipAssumption, Paid, NoPayment, Unparsed, Silence, NoTime

\* What is not known because it was not even an answer.
LEMMA SilenceUnknown == Silence \notin Payment
BY DEF Silence, Payment

LEMMA NoneKnown == day \in 1..MaxDay => Known(NoPayment) /\ Known(Unparsed)
BY VipAssumption DEF VipAssumption, Known, Payment, NoPayment, Unparsed, NoTime

\* CheckVip goes from something known to something known; a payment is taken
\* back only by an answer that was one, of something else.
LEMMA CheckVipKnown ==
    ASSUME day \in 1..MaxDay, NEW payment, Known(payment), NEW known, Known(known),
           NEW answer \in Answers(payment) \cup {Silence}
    PROVE  /\ Known(CheckVip(known, answer))
           /\ Paid(known) /\ ~Paid(CheckVip(known, answer)) => answer # Silence /\ ~Paid(answer)
           /\ answer = Silence \/ CheckVip(known, answer) = answer
BY NoneKnown DEF CheckVip, Answers

\* What the app holds after a call of PayforVpn.
LEMMA PayforVpnKnown ==
    ASSUME StatusSound, NEW now, PayforVpn(now)
    PROVE  /\ Known(status') /\ Known(saved') /\ (~wiped' => saved' = status')
           /\ wiped' \in BOOLEAN /\ denied' \in BOOLEAN /\ other' \in BOOLEAN
           /\ Paid(status) /\ ~Paid(status') => denied'
<1> DEFINE pays == now >= 1 /\ status.time \in {0, NoTime}
<1>1. PICK first \in Answers(vip) \cup {Silence}, last \in Answers(vip) \cup {Silence} :
        /\ status' = CheckVip(CheckVip(status, first), last)
        /\ SaveVipStatus(CheckVip(status, first), status')
        /\ Heard(first, last)
        /\ UNCHANGED other
    <2>1. PICK first \in IF pays THEN Answers(vip) ELSE {Silence} :
            LET checked == CheckVip(status, first)
                left == GetLeftDays(checked, now, balance)
            IN \E last \in IF left > 0 THEN {Silence} ELSE Answers(vip) :
                  /\ status' = CheckVip(checked, last)
                  /\ SaveVipStatus(checked, status')
                  /\ Heard(first, last)
                  /\ UNCHANGED other
        BY DEF PayforVpn
    <2> DEFINE checked == CheckVip(status, first)
               left == GetLeftDays(checked, now, balance)
    <2>2. PICK last \in IF left > 0 THEN {Silence} ELSE Answers(vip) :
              /\ status' = CheckVip(checked, last)
              /\ SaveVipStatus(checked, status')
              /\ Heard(first, last)
              /\ UNCHANGED other
        BY <2>1
    <2>3. first \in Answers(vip) \cup {Silence} /\ last \in Answers(vip) \cup {Silence}
        BY <2>1, <2>2
    <2> QED
        BY <2>2, <2>3
<1> DEFINE checked == CheckVip(status, first)
<1>2. /\ Known(checked)
      /\ Paid(status) /\ ~Paid(checked) => first # Silence /\ ~Paid(first)
      /\ first = Silence \/ checked = first
    BY CheckVipKnown DEF StatusSound
<1>3. /\ Known(status')
      /\ Paid(checked) /\ ~Paid(status') => last # Silence /\ ~Paid(last)
      /\ last = Silence \/ status' = last
    <2>1. status' = CheckVip(checked, last)
        BY <1>1
    <2> HIDE DEF checked
    <2> QED BY <1>2, <2>1, CheckVipKnown DEF StatusSound
<1>4. Known(saved') /\ (~wiped' => saved' = status') /\ wiped' \in BOOLEAN
    BY <1>1, <1>3 DEF SaveVipStatus, StatusSound
<1>5. denied' \in BOOLEAN /\ other' \in BOOLEAN
    BY <1>1 DEF Heard, StatusSound
<1>6. Paid(status) /\ ~Paid(status') => denied'
    <2>1. denied' = IF last # Silence THEN ~Paid(last)
                    ELSE IF first # Silence THEN ~Paid(first) ELSE denied
        BY <1>1 DEF Heard
    <2> HIDE DEF checked
    <2>2. last = Silence => status' = checked
        BY <1>1 DEF CheckVip, checked
    <2> QED
        BY <1>2, <1>3, <2>1, <2>2
<1> QED
    BY <1>3, <1>4, <1>5, <1>6

LEMMA NewAccountKnown ==
    ASSUME StatusSound, NewAccount \/ UNCHANGED <<chainVars, payVars>>
    PROVE  day' = day /\ Known(vip') /\ vip' # Unparsed
BY NoneKnown, VipAssumption
   DEF VipAssumption, StatusSound, NewAccount, chainVars, NoPayment, Unparsed, NoTime

\* The same of a launch.
LEMMA InitKnown ==
    ASSUME StatusSound, InitP2pNetwork
    PROVE  /\ Known(status') /\ saved' = status' /\ wiped' = FALSE
           /\ denied' \in BOOLEAN /\ other' \in BOOLEAN
           /\ Paid(status) /\ ~Paid(status') => denied' \/ wiped
<1>1. day' = day /\ Known(vip')
    BY NewAccountKnown DEF InitP2pNetwork
<1>2. PICK answer \in Answers(vip'), last \in Answers(vip') \cup {Silence} :
        /\ status' = CheckVip(InitStatus(answer), last)
        /\ saved' = status'
        /\ Heard(answer, last)
        /\ other' = FALSE /\ wiped' = FALSE
    <2>1. PICK answer \in Answers(vip') :
            LET known == InitStatus(answer)
                left == GetLeftDays(known, -1, balance')
            IN \E last \in IF left > 0 THEN {Silence} ELSE Answers(vip') :
                  /\ status' = CheckVip(known, last)
                  /\ saved' = status'
                  /\ Heard(answer, last)
        BY DEF InitP2pNetwork
    <2> DEFINE left == GetLeftDays(InitStatus(answer), -1, balance')
    <2>2. PICK last \in IF left > 0 THEN {Silence} ELSE Answers(vip') :
              /\ status' = CheckVip(InitStatus(answer), last)
              /\ saved' = status'
              /\ Heard(answer, last)
        BY <2>1
    <2>3. other' = FALSE /\ wiped' = FALSE
        BY DEF InitP2pNetwork
    <2>4. last \in Answers(vip') \cup {Silence}
        BY <2>2
    <2> QED
        BY <2>2, <2>3, <2>4
<1> DEFINE known == InitStatus(answer)
<1>3. /\ Known(known)
      /\ Paid(saved) /\ ~Paid(known) => answer # Silence /\ ~Paid(answer)
      /\ answer = Silence => known = saved
    BY <1>1, NoneKnown, NotPaid DEF InitStatus, Answers, StatusSound
<1>4. /\ Known(status')
      /\ Paid(known) /\ ~Paid(status') => last # Silence /\ ~Paid(last)
      /\ IF last = Silence THEN status' = known ELSE status' = last
    <2>1. status' = CheckVip(known, last)
        BY <1>2
    <2> HIDE DEF known
    <2> QED BY <1>1, <1>3, <2>1, CheckVipKnown DEF StatusSound, CheckVip
<1>5. denied' = IF last # Silence THEN ~Paid(last)
                ELSE IF answer # Silence THEN ~Paid(answer) ELSE denied
    BY <1>2 DEF Heard
<1>6. Paid(status) /\ ~Paid(status') => denied' \/ wiped
    <2> HIDE DEF known
    <2> SUFFICES ASSUME Paid(status), ~Paid(status'), ~wiped PROVE denied'
        OBVIOUS
    <2>1. Paid(saved)
        BY DEF StatusSound
    <2>2. CASE last # Silence
        BY <1>4, <1>5, <2>2
    <2>3. CASE last = Silence
        BY <1>3, <1>4, <1>5, <2>1, <2>3
    <2> QED
        BY <2>2, <2>3
<1>7. denied' \in BOOLEAN
    BY <1>5 DEF StatusSound
<1> QED
    BY <1>2, <1>4, <1>6, <1>7

-----------------------------------------------------------------------------
(* Payments and balances *)

\* The balance never exceeds what was credited, nor a payment a month.
FundsSound ==
    /\ balance \in Nat /\ funds \in Nat /\ balance <= funds /\ funds <= MaxFunds
    /\ nowBalance \in -1..MaxFunds
    /\ sent \in 0..MaxPays /\ payGid \in 0..MaxPays
    /\ pending \subseteq [gid : 1..MaxPays, amount : 1..Month]
    /\ leftDays \in -1..(MaxFunds + Month)

\* The days left are at most a month's and the balance.
LEMMA DaysBounded ==
    ASSUME StatusSound, FundsSound, NEW known, Known(known), NEW now \in -1..MaxFunds,
           NEW read \in 0..MaxFunds
    PROVE  GetLeftDays(known, now, read) \in -1..(MaxFunds + Month)
<1>1. CASE known = NoPayment \/ known = Unparsed
    BY <1>1, VipAssumption DEF VipAssumption, StatusSound, FundsSound, GetLeftDays,
       NoPayment, Unparsed, NoTime
<1>2. CASE Paid(known) /\ known.time <= day
    <2>1. known.time \in Nat /\ known.amount \in 0..Month
        BY VipAssumption DEF VipAssumption, Known, Payment, NoTime
    <2> QED
        BY <1>2, <2>1, VipAssumption
        DEF VipAssumption, StatusSound, FundsSound, GetLeftDays, NoTime
<1> QED
    BY <1>1, <1>2 DEF Known

LEMMA TransBounded ==
    ASSUME FundsSound, NEW now \in 1..MaxFunds, PayforVipTrans(now)
    PROVE  /\ sent' \in 0..MaxPays
           /\ pending' \subseteq [gid : 1..MaxPays, amount : 1..Month]
BY VipAssumption DEF VipAssumption, FundsSound, PayforVipTrans, payVars

LEMMA PayforVpnBounded ==
    ASSUME StatusSound, FundsSound, NEW now \in -1..MaxFunds, PayforVpn(now)
    PROVE  /\ sent' \in 0..MaxPays /\ payGid' \in 0..MaxPays
           /\ pending' \subseteq [gid : 1..MaxPays, amount : 1..Month]
           /\ leftDays' \in -1..(MaxFunds + Month)
<1> DEFINE pays == now >= 1 /\ status.time \in {0, NoTime}
<1>1. PICK first \in IF pays THEN Answers(vip) ELSE {Silence} :
        LET checked == CheckVip(status, first)
            left == GetLeftDays(checked, now, balance)
        IN /\ IF pays THEN PayforVipTrans(now) ELSE UNCHANGED payVars
           /\ leftDays' = left
           /\ payGid' = IF left > 0 THEN 0 ELSE IF pays /\ payGid = 0 THEN sent' ELSE payGid
    BY DEF PayforVpn
<1> DEFINE checked == CheckVip(status, first)
<1>2. Known(checked)
    <2>1. first \in Answers(vip) \cup {Silence}
        BY <1>1
    <2> QED BY <2>1, CheckVipKnown DEF StatusSound
<1>3. leftDays' \in -1..(MaxFunds + Month)
    <2>1. leftDays' = GetLeftDays(checked, now, balance)
        BY <1>1
    <2>2. balance \in 0..MaxFunds
        BY VipAssumption DEF VipAssumption, FundsSound
    <2> HIDE DEF checked
    <2> QED BY <1>2, <2>1, <2>2, DaysBounded
<1>4. sent' \in 0..MaxPays /\ pending' \subseteq [gid : 1..MaxPays, amount : 1..Month]
    <2>1. CASE pays
        BY <1>1, <2>1, TransBounded, VipAssumption DEF VipAssumption
    <2>2. CASE ~pays
        BY <1>1, <2>2 DEF FundsSound, payVars
    <2> QED BY <2>1, <2>2
<1>5. payGid' \in 0..MaxPays
    BY <1>1, <1>4, VipAssumption DEF VipAssumption, FundsSound
<1> QED
    BY <1>3, <1>4, <1>5

-----------------------------------------------------------------------------
VipInv == StatusSound /\ FundsSound

LEMMA VipInit == Init => VipInv
<1> SUFFICES ASSUME Init PROVE VipInv
    OBVIOUS
<1>1. day \in 1..MaxDay /\ NoPayment # Unparsed
    BY VipAssumption DEF VipAssumption, Init, NoPayment, Unparsed, NoTime
<1>2. wiped \in BOOLEAN /\ denied \in BOOLEAN /\ other \in BOOLEAN
    BY Zenon DEF Init
<1>3. StatusSound
    BY <1>1, <1>2, NoneKnown DEF Init, StatusSound
<1>4. FundsSound
    BY VipAssumption DEF VipAssumption, Init, FundsSound
<1> QED
    BY <1>3, <1>4 DEF VipInv

\* A payment is known for another day, or beside another payment.
LEMMA KnownLater ==
    ASSUME day \in 1..MaxDay, day' \in Nat, day <= day', NEW s, Known(s) PROVE Known(s)'
BY DEF Known, Paid, NoPayment, Unparsed, Payment

\* Steps that leave what the app knows alone.
LEMMA KnownStays ==
    ASSUME StatusSound, day' \in 1..MaxDay, day <= day', UNCHANGED <<status, denied, keptVars>>,
           Known(vip)', vip' # Unparsed
    PROVE  StatusSound'
<1>1. UNCHANGED <<status, saved, wiped, denied, other>>
    BY DEF keptVars
<1>2. Known(status)' /\ Known(saved)'
    BY <1>1, KnownLater, VipAssumption DEF VipAssumption, StatusSound
<1> QED
    BY <1>1, <1>2, NotPaid DEF StatusSound, Unparsed, NoTime

Kept == Paid(status) /\ ~Paid(status') => denied' \/ wiped

\* What is known on the same day.
LEMMA KnownSameDay == ASSUME day' = day, NEW s, Known(s) PROVE Known(s)'
BY DEF Known, Paid, Payment, NoTime, NoPayment, Unparsed

LEMMA VipStep == VipInv /\ [Next]_vars => VipInv' /\ Kept
<1> SUFFICES ASSUME VipInv, [Next]_vars PROVE VipInv' /\ Kept
    OBVIOUS
<1> USE VipAssumption DEF VipAssumption, VipInv
<1>k. ASSUME status' = status PROVE Kept
    BY <1>k DEF Kept
<1>d. day \in 1..MaxDay /\ Known(vip) /\ vip # Unparsed
    BY DEF StatusSound
<1>1. ASSUME NEW amount \in 1..MaxFunds, Credit(amount) PROVE VipInv' /\ Kept
    <2>1. FundsSound'
        BY <1>1 DEF Credit, payVars, statusVars, FundsSound
    <2>2. UNCHANGED <<day, vip, status, denied, keptVars>>
        BY <1>1 DEF Credit, statusVars
    <2>3. StatusSound'
        BY <1>d, <2>2, KnownStays, KnownSameDay
    <2> QED BY <2>1, <2>2, <2>3, <1>k
<1>2. ASSUME NEW p \in pending, Decide(p) PROVE VipInv' /\ Kept
    <2>1. p \in [gid : 1..MaxPays, amount : 1..Month]
        BY DEF FundsSound
    <2>2. FundsSound'
        BY <1>2, <2>1 DEF Decide, FundsSound, statusVars
    <2>3. UNCHANGED <<day, status, denied, keptVars>>
        BY <1>2 DEF Decide, statusVars
    <2>4. Known(vip)' /\ vip' # Unparsed
        <3>1. CASE UNCHANGED vip
            BY <1>d, <2>3, <3>1, KnownSameDay
        <3>2. CASE vip' = [time |-> day, amount |-> p.amount, gid |-> p.gid]
            <4>1. vip'.time = day /\ vip' \in Payment
                BY <1>d, <2>1, <3>2 DEF Payment, NoTime
            <4>2. Paid(vip') /\ vip' # Unparsed
                BY <1>d, <4>1, NotPaid DEF Paid
            <4> QED
                BY <1>d, <2>3, <4>1, <4>2 DEF Known, Payment, Paid, NoTime
        <3> QED BY <1>2, <3>1, <3>2 DEF Decide
    <2>5. StatusSound'
        BY <1>d, <2>3, <2>4, KnownStays
    <2> QED BY <2>2, <2>3, <2>5, <1>k
<1>3. CASE NextDay
    <2>1. FundsSound'
        BY <1>3 DEF NextDay, FundsSound, payVars, statusVars
    <2>2. day' \in 1..MaxDay /\ day <= day' /\ UNCHANGED <<vip, status, denied, keptVars>>
        BY <1>3, <1>d DEF NextDay, statusVars
    <2>3. Known(vip)'
        BY <1>d, <2>2, KnownLater
    <2>4. StatusSound'
        BY <1>d, <2>2, <2>3, KnownStays
    <2> QED BY <2>1, <2>2, <2>4, <1>k
<1>4. ASSUME NEW now \in -1..MaxFunds, PayforVpn(now), UNCHANGED chainVars,
             nowBalance' \in -1..MaxFunds
      PROVE  VipInv' /\ Kept
    <2>1. FundsSound'
        BY <1>4, PayforVpnBounded DEF FundsSound, chainVars
    <2>2. day' = day /\ vip' = vip
        BY <1>4 DEF chainVars
    <2>3. /\ Known(status') /\ Known(saved') /\ (~wiped' => saved' = status')
          /\ wiped' \in BOOLEAN /\ denied' \in BOOLEAN /\ other' \in BOOLEAN /\ Kept
        BY <1>4, PayforVpnKnown DEF Kept
    <2>4. Known(vip)' /\ Known(status)' /\ Known(saved)'
        BY <1>d, <2>2, <2>3, KnownSameDay DEF Known, Paid, Payment, NoTime, NoPayment, Unparsed
    <2>5. StatusSound'
        BY <1>d, <2>2, <2>3, <2>4 DEF StatusSound
    <2> QED BY <2>1, <2>3, <2>5
<1>5. CASE RequestData
    BY <1>4, <1>5 DEF RequestData, FundsSound
<1>6. CASE MainViewPays
    BY <1>4, <1>6 DEF MainViewPays, FundsSound, chainVars
<1>7. CASE ReloadBalance
    <2>1. leftDays' \in -1..(MaxFunds + Month)
        BY <1>7, DaysBounded DEF ReloadBalance, StatusSound, FundsSound
    <2>2. FundsSound'
        BY <1>7, <2>1 DEF ReloadBalance, FundsSound, chainVars, payVars
    <2>3. UNCHANGED <<day, vip, status, denied, keptVars>>
        BY <1>7 DEF ReloadBalance, chainVars
    <2>4. StatusSound'
        BY <1>d, <2>3, KnownStays, KnownSameDay
    <2> QED BY <2>2, <2>3, <2>4, <1>k
<1>8. CASE ResetPrivateKey
    <2>1. day' = day /\ Known(vip') /\ vip' # Unparsed
        BY <1>8, NewAccountKnown DEF ResetPrivateKey
    <2>2. FundsSound'
        BY <1>8 DEF ResetPrivateKey, NewAccount, FundsSound, chainVars, payVars
    <2>3. saved' = NoPayment /\ wiped' = TRUE /\ other' \in BOOLEAN /\ UNCHANGED <<status, denied>>
        BY <1>8 DEF ResetPrivateKey
    <2>4. Known(vip)' /\ Known(status)' /\ Known(saved)'
        BY <1>d, <2>1, <2>3, NoneKnown, KnownSameDay
        DEF StatusSound, Known, Paid, Payment, NoTime, NoPayment, Unparsed
    <2>5. StatusSound'
        BY <1>d, <2>1, <2>3, <2>4 DEF StatusSound
    <2> QED BY <2>2, <2>3, <2>5, <1>k
<1>9. CASE InitP2pNetwork
    <2>1. day' = day /\ Known(vip') /\ vip' # Unparsed
        BY <1>9, NewAccountKnown DEF InitP2pNetwork
    <2>2. balance' \in Nat /\ balance' <= funds /\ funds' = funds
          /\ pending' \subseteq pending /\ sent' = sent
        BY <1>9 DEF InitP2pNetwork, NewAccount, chainVars, payVars, FundsSound
    <2>3. leftDays' \in -1..(MaxFunds + Month)
        <3>1. PICK answer \in Answers(vip') : leftDays' = GetLeftDays(InitStatus(answer), -1, balance')
            BY <1>9 DEF InitP2pNetwork
        <3>2. Known(InitStatus(answer))
            BY <1>d, <2>1, NoneKnown DEF InitStatus, Answers, StatusSound
        <3>3. balance' \in 0..MaxFunds
            BY <2>2 DEF FundsSound
        <3> QED BY <3>1, <3>2, <3>3, DaysBounded
    <2>4. FundsSound'
        BY <1>9, <2>2, <2>3 DEF InitP2pNetwork, FundsSound
    <2>5. /\ Known(status') /\ saved' = status' /\ wiped' = FALSE
          /\ denied' \in BOOLEAN /\ other' \in BOOLEAN /\ Kept
        BY <1>9, InitKnown DEF Kept
    <2>6. Known(vip)' /\ Known(status)' /\ Known(saved)'
        BY <2>1, <2>5 DEF Known, Paid, Payment, NoTime, NoPayment, Unparsed
    <2>7. StatusSound'
        BY <1>d, <2>1, <2>5, <2>6 DEF StatusSound
    <2> QED BY <2>4, <2>5, <2>7
<1>10. CASE UNCHANGED vars
    <2>1. UNCHANGED <<day, vip, status, denied, keptVars>>
        BY <1>10 DEF vars, chainVars, statusVars
    <2>2. FundsSound'
        BY <1>10 DEF vars, chainVars, payVars, statusVars, FundsSound
    <2>3. StatusSound'
        BY <1>d, <2>1, KnownStays, KnownSameDay
    <2> QED BY <2>1, <2>2, <2>3, <1>k
<1> QED
    BY <1>1, <1>2, <1>3, <1>5, <1>6, <1>7, <1>8, <1>9, <1>10 DEF Next

\* The inductive invariant: what the app knows is what the defaults hold, unless
\* a change of account emptied them since; amounts stay in their bounds.
THEOREM VipInvariant == Spec => []VipInv
BY VipInit, VipStep, PTL DEF Spec

\* Dates, amounts and ids of payments are typed: no payment exceeds a month or
\* the account's funds.
THEOREM VipTypeOK == Spec => []TypeOK
<1>1. VipInv => TypeOK
    <2> SUFFICES ASSUME VipInv PROVE TypeOK
        OBVIOUS
    <2>1. MaxFunds \in Nat /\ MaxDay \in Nat
        BY VipAssumption DEF VipAssumption
    <2>2. balance \in 0..MaxFunds /\ funds \in 0..MaxFunds
        BY <2>1 DEF VipInv, FundsSound
    <2>3. status \in Payment /\ saved \in Payment /\ vip \in Payment /\ day \in 1..MaxDay
          /\ other \in BOOLEAN /\ denied \in BOOLEAN /\ wiped \in BOOLEAN
        BY DEF VipInv, StatusSound, Known
    <2> QED
        BY <2>1, <2>2, <2>3 DEF VipInv, FundsSound, TypeOK
<1> QED
    BY <1>1, VipInvariant, PTL

\* A known payment is taken back only by the library's word or by a launch after
\* a change of account: through silence, ticks and launches it is kept, as what
\* was taken over is what the defaults hold.
THEOREM VipKnownKept == Spec => KnownPaymentKept
<1>1. VipInv /\ [Next]_vars => [Kept]_vars
    BY VipStep
<1>2. KnownPaymentKept <=> [][Kept]_vars
    BY PTL DEF KnownPaymentKept, Kept
<1> QED
    BY <1>1, <1>2, VipInvariant, PTL DEF Spec
=============================================================================
