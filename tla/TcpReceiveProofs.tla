-------------------------- MODULE TcpReceiveProofs --------------------------
(***************************************************************************)
(* Proofs about TcpReceive for streams of any length, any window and any   *)
(* order of segments: the application is given the peer's stream, the      *)
(* queue of out-of-order segments stays in order, the window comes back,   *)
(* its announced edge is never taken back, and the whole implements        *)
(* ByteStream.                                                             *)
(*                                                                         *)
(* The theorems hold for connections whose sequence numbers do not pass    *)
(* 2^32: NoWrap.  The configuration TcpReceiveWrap shows that they may     *)
(* fail for others, because CutToWindow compares plain numbers.            *)
(***************************************************************************)
EXTENDS TcpReceive, TLAPS, SequenceTheorems, FiniteSetTheorems

\* The stream, its FIN and a window behind it lie below the modulus.
NoWrap == First + StreamLen + Wnd + 2 <= Modulus

\* The sequence number of the FIN.
Final == First + StreamLen

\* The sequence numbers the connection can meet.
Numbers == First..(Final + Wnd + 1)

-----------------------------------------------------------------------------
(* Segments and queues of segments *)

Segments == [seqno : Nat, len : Nat, data : Seq(Nat), fin : BOOLEAN]

\* A part of the peer's stream: its bytes are those its place says, and it
\* has the FIN only where the stream ends.
Piece(s) ==
    /\ s \in Segments
    /\ First <= s.seqno /\ s.seqno + s.len <= Final
    /\ s.data = [i \in 1..s.len |-> s.seqno - First + i]
    /\ s.fin => s.seqno + s.len = Final

\* Segment s lies between the sequence numbers lo and hi, its FIN included.
Within(s, lo, hi) == lo <= s.seqno /\ s.seqno + TcpLen(s) <= hi

\* Segment s lies before segment t.
Before(s, t) == s.seqno + s.len <= t.seqno /\ ~s.fin

\* Pieces in order and without overlap, between lo and hi.
Chain(q, lo, hi) ==
    /\ q \in Seq(Segments)
    /\ \A i \in 1..Len(q) : Piece(q[i]) /\ Within(q[i], lo, hi)
    /\ \A i, j \in 1..Len(q) : i < j => Before(q[i], q[j])

-----------------------------------------------------------------------------
(* The inductive invariant *)

\* The first n bytes of the stream.
Prefix(n) == [i \in 1..n |-> i]

Pcbs ==
    [state : {"ESTABLISHED", "CLOSE_WAIT"}, rcv_nxt : First..(Final + 1), rcv_wnd : Nat,
     rcv_ann_wnd : Nat, rcv_ann_right_edge : Numbers, flags : SUBSET {"ACK_NOW", "ACK_DELAY"},
     ooseq : Seq(Segments), ackno : First..(Final + 1)]

ReceiveTypeOK ==
    /\ pcb \in Pcbs /\ delivered \in Seq(Nat) /\ eof \in BOOLEAN
    /\ peerAcked \in First..(Final + 1) /\ arrived \in BOOLEAN

\* What was announced is no more than there is, and nothing is announced of
\* less than was announced before.
EdgeSound(p) ==
    /\ p.rcv_ann_right_edge <= p.rcv_nxt + p.rcv_ann_wnd
    /\ p.rcv_ann_wnd <= p.rcv_wnd

\* What has been received in order: with the FIN exactly when the connection
\* is half closed and its application knows.
Progress ==
    /\ pcb.state = "ESTABLISHED" => ~eof /\ pcb.rcv_nxt <= Final
    /\ pcb.state = "CLOSE_WAIT" => eof /\ pcb.rcv_nxt = Final + 1 /\ pcb.ooseq = <<>>
    /\ delivered = Prefix(MinOf(pcb.rcv_nxt, Final) - First)

AcksBehind == pcb.ackno <= pcb.rcv_nxt /\ peerAcked <= pcb.ackno

ReceiveInv ==
    /\ ReceiveTypeOK
    /\ WindowRestored
    /\ EdgeSound(pcb)
    /\ Chain(pcb.ooseq, pcb.rcv_nxt + 1, pcb.rcv_nxt + Wnd)
    /\ Progress
    /\ AcksBehind

-----------------------------------------------------------------------------
(* Sequence numbers that do not wrap *)

LEMMA ModSmall ==
    ASSUME NEW m \in Nat \ {0}, NEW a \in Nat, a < m
    PROVE  a % m = a
OBVIOUS

LEMMA ModBelow ==
    ASSUME NEW m \in Nat \ {0}, NEW a \in Nat, 0 < a, a <= m
    PROVE  (-a) % m = m - a
OBVIOUS

LEMMA NumbersSmall ==
    ASSUME NoWrap
    PROVE  /\ Numbers \subseteq Nat /\ \A s \in Numbers : s < Modulus
           /\ Modulus \in Nat \ {0} /\ First \in Nat /\ Final \in Nat /\ First <= Final
           /\ Wnd \in Nat \ {0} /\ StreamLen \in Nat
           /\ Modulus \div 2 \in Nat /\ Final + Wnd + 2 - First <= Modulus \div 2
           /\ (Modulus \div 2) + (Modulus \div 2) <= Modulus
BY ReceiveAssumption DEF ReceiveAssumption, NoWrap, Numbers, Final

LEMMA NumAdd ==
    ASSUME NoWrap, NEW s \in Int, NEW n \in Int, s + n \in Numbers
    PROVE  Add(s, n) = s + n
<1>1. s + n \in Nat /\ s + n < Modulus /\ Modulus \in Nat \ {0}
    BY NumbersSmall
<1> DEFINE t == s + n
<1> HIDE DEF t
<1>2. t % Modulus = t
    BY <1>1, ModSmall DEF t
<1> QED BY <1>2 DEF Add, t

LEMMA NumDistance ==
    ASSUME NoWrap, NEW a \in Numbers, NEW b \in Numbers, a <= b
    PROVE  Distance(a, b) = b - a
<1>1. b - a \in Nat /\ b - a < Modulus /\ Modulus \in Nat \ {0}
    BY NumbersSmall
<1> DEFINE t == b - a
<1> HIDE DEF t
<1>2. t % Modulus = t
    BY <1>1, ModSmall DEF t
<1> QED BY <1>2 DEF Distance, t

LEMMA NumGeq ==
    ASSUME NoWrap, NEW a \in Numbers, NEW b \in Numbers
    PROVE  SeqGeq(a, b) <=> a >= b
<1>1. a \in Nat /\ b \in Nat /\ Modulus \in Nat \ {0} /\ Modulus \div 2 \in Nat
      /\ First \in Nat /\ Final \in Nat /\ Wnd \in Nat
      /\ Final + Wnd + 2 - First <= Modulus \div 2 /\ (Modulus \div 2) + (Modulus \div 2) <= Modulus
    BY NumbersSmall
<1>2. CASE a >= b
    <2>1. Distance(b, a) = a - b
        BY <1>2, <1>1, NumDistance
    <2>2. a - b < Modulus \div 2
        BY <1>1 DEF Numbers
    <2> QED BY <1>2, <2>1, <2>2 DEF SeqGeq
<1>3. CASE a < b
    <2> DEFINE d == b - a
    <2>1. d \in Nat /\ 0 < d /\ d <= Modulus /\ Modulus - d >= Modulus \div 2 /\ a - b = -d
        BY <1>1, <1>3 DEF Numbers
    <2> HIDE DEF d
    <2>2. (-d) % Modulus = Modulus - d
        BY <1>1, <2>1, ModBelow
    <2>3. Distance(b, a) = Modulus - d
        BY <2>1, <2>2 DEF Distance
    <2> QED BY <1>1, <1>3, <2>1, <2>3 DEF SeqGeq
<1> QED BY <1>1, <1>2, <1>3

LEMMA NumGt ==
    ASSUME NoWrap, NEW a \in Numbers, NEW b \in Numbers
    PROVE  SeqGt(a, b) <=> a > b
<1>1. a \in Nat /\ b \in Nat
    BY NumbersSmall
<1> QED BY <1>1, NumGeq DEF SeqGt

-----------------------------------------------------------------------------
(* Segments *)

LEMMA PieceFacts ==
    ASSUME NoWrap, NEW s, Piece(s)
    PROVE  /\ s \in Segments /\ s.seqno \in Nat /\ s.len \in Nat /\ s.fin \in BOOLEAN
           /\ s.seqno \in Numbers /\ s.seqno + s.len \in Numbers
           /\ DataEnd(s) = s.seqno + s.len
           /\ TcpLen(s) \in Nat /\ s.len <= TcpLen(s)
           /\ s.seqno + TcpLen(s) <= Final + 1
           /\ s.seqno + TcpLen(s) \in Numbers
           /\ Add(s.seqno, TcpLen(s)) = s.seqno + TcpLen(s)
           /\ First <= s.seqno /\ s.seqno + s.len <= Final
<1>1. s \in Segments /\ s.seqno \in Nat /\ s.len \in Nat /\ s.fin \in BOOLEAN
      /\ First <= s.seqno /\ s.seqno + s.len <= Final
    BY DEF Piece, Segments
<1>2. First \in Nat /\ Final \in Nat /\ Wnd \in Nat \ {0}
    BY NumbersSmall
<1>3. s.seqno \in Numbers /\ s.seqno + s.len \in Numbers
    BY <1>1, <1>2 DEF Numbers
<1>4. DataEnd(s) = s.seqno + s.len
    BY <1>1, <1>3, NumAdd DEF DataEnd
<1>5. TcpLen(s) = s.len \/ TcpLen(s) = s.len + 1
    BY <1>1, Zenon DEF TcpLen
<1>6. TcpLen(s) \in Nat /\ s.len <= TcpLen(s) /\ s.seqno + TcpLen(s) <= Final + 1
      /\ s.seqno + TcpLen(s) \in Numbers
    BY <1>1, <1>2, <1>5 DEF Numbers
<1>7. Add(s.seqno, TcpLen(s)) = s.seqno + TcpLen(s)
    BY <1>1, <1>6, NumAdd
<1> QED BY <1>1, <1>3, <1>4, <1>6, <1>7

\* Without a FIN the sequence number behind a segment is that behind its data.
LEMMA NoFin ==
    ASSUME NEW s, s \in Segments, ~s.fin
    PROVE  TcpLen(s) = s.len
BY DEF TcpLen

\* What the peer sends is a piece.
LEMMA SegmentPiece ==
    ASSUME NoWrap, NEW a \in 0..StreamLen, NEW b \in a..StreamLen, NEW fin \in BOOLEAN,
           fin => b = StreamLen
    PROVE  /\ Piece(Segment(a, b, fin))
           /\ Segment(a, b, fin).seqno = First + a
           /\ Segment(a, b, fin).len = b - a
           /\ Segment(a, b, fin).fin = fin
<1>1. StreamLen \in Nat /\ First \in Nat /\ Wnd \in Nat /\ a \in Nat /\ b \in Nat /\ a <= b
      /\ b <= StreamLen /\ b - a \in Nat
    BY NumbersSmall
<1>2. First + a \in Numbers
    BY <1>1 DEF Numbers, Final
<1>3. SeqAt(a) = First + a
    BY <1>1, <1>2, NumAdd DEF SeqAt
<1> DEFINE t == Segment(a, b, fin)
           d == [i \in 1..(b - a) |-> a + i]
<1>4. t = [seqno |-> First + a, len |-> b - a, data |-> d, fin |-> fin]
    BY <1>3 DEF Segment
<1>5. d \in Seq(Nat)
    BY <1>1
<1>6. d = [i \in 1..(b - a) |-> (First + a) - First + i]
    BY <1>1
<1> HIDE DEF d
<1>7. t.seqno = First + a /\ t.len = b - a /\ t.data = d /\ t.fin = fin
    BY <1>4
<1>8. t \in Segments
    BY <1>1, <1>4, <1>5 DEF Segments
<1> HIDE DEF t
<1>9. t.data = [i \in 1..t.len |-> t.seqno - First + i]
    BY <1>6, <1>7
<1>10. t.fin => t.seqno + t.len = Final
    <2>1. ASSUME fin PROVE First + a + (b - a) = Final
        BY <1>1, <2>1 DEF Final
    <2> QED BY <1>7, <2>1
<1>11. First <= t.seqno /\ t.seqno + t.len <= Final
    BY <1>1, <1>7 DEF Final
<1>12. Piece(t)
    BY <1>8, <1>9, <1>10, <1>11 DEF Piece
<1> QED BY <1>7, <1>12 DEF t

\* A piece of which something is cut off is a piece.
LEMMA CutPiece ==
    ASSUME NoWrap, NEW s, Piece(s), ~s.fin, NEW n \in Nat, n <= s.len
    PROVE  /\ Piece(Cut(s, n))
           /\ Cut(s, n).seqno = s.seqno /\ Cut(s, n).len = n /\ Cut(s, n).fin = FALSE
<1>1. s \in Segments /\ s.seqno \in Nat /\ s.len \in Nat /\ s.fin \in BOOLEAN
      /\ First <= s.seqno /\ s.seqno + s.len <= Final /\ First \in Nat /\ Final \in Nat
    BY PieceFacts, NumbersSmall
<1>2. s.data = [i \in 1..s.len |-> s.seqno - First + i] /\ s.data \in Seq(Nat)
    BY <1>1 DEF Piece, Segments
<1>3. Len(s.data) = s.len
    BY <1>1, <1>2
<1> DEFINE t == Cut(s, n)
           d == IF n < Len(s.data) THEN SubSeq(s.data, 1, n) ELSE s.data
<1>4. d = [i \in 1..n |-> s.seqno - First + i] /\ d \in Seq(Nat)
    <2>1. CASE n < s.len
        <3>1. d = SubSeq(s.data, 1, n)
            BY <1>3, <2>1
        <3>2. ASSUME NEW i \in 1..n
              PROVE  s.data[i] = s.seqno - First + i /\ s.data[i] \in Nat
            <4>1. i \in 1..s.len
                BY <1>1, <2>1
            <4>2. s.data[i] = s.seqno - First + i
                BY <1>2, <4>1
            <4>3. s.seqno - First + i \in Nat
                BY <1>1, <4>1
            <4> QED BY <4>2, <4>3
        <3> DEFINE u == SubSeq(s.data, 1, n)
        <3>3. u \in Seq(Nat) /\ Len(u) = n /\ \A i \in 1..n : u[i] = s.data[i]
            BY <3>2, SubSeqProperties
        <3> DEFINE v == [i \in 1..n |-> s.seqno - First + i]
        <3>4. v \in Seq(Nat) /\ Len(v) = n /\ \A i \in 1..n : v[i] = s.seqno - First + i
            BY <1>1
        <3> HIDE DEF u, v
        <3>5. u = v
            BY <3>2, <3>3, <3>4, SeqEqual
        <3> QED BY <3>1, <3>3, <3>5 DEF u, v
    <2>2. CASE n = s.len
        BY <1>1, <1>2, <1>3, <2>2
    <2> QED BY <1>1, <2>1, <2>2
<1> HIDE DEF d
<1>5. t = [s EXCEPT !.len = n, !.data = d]
    BY DEF Cut, d
<1>6. t \in Segments /\ t.seqno = s.seqno /\ t.len = n /\ t.data = d /\ t.fin = s.fin
    BY <1>1, <1>4, <1>5 DEF Segments
<1> HIDE DEF t
<1>7. t.fin = FALSE
    BY <1>1, <1>6
<1>8. First <= t.seqno /\ t.seqno + t.len <= Final
    BY <1>1, <1>6
<1>9. t.data = [i \in 1..t.len |-> t.seqno - First + i]
    BY <1>4, <1>6
<1>10. Piece(t)
    BY <1>6, <1>7, <1>8, <1>9 DEF Piece
<1> QED BY <1>6, <1>7, <1>10 DEF t

\* A piece of which the front is dropped is a piece.
LEMMA BehindPiece ==
    ASSUME NoWrap, NEW s, Piece(s), NEW c \in Nat, s.seqno <= c, c <= s.seqno + s.len
    PROVE  /\ Piece(Behind(s, c))
           /\ Behind(s, c).seqno = c /\ Behind(s, c).len = s.seqno + s.len - c
           /\ Behind(s, c).fin = s.fin
<1>1. s \in Segments /\ s.seqno \in Nat /\ s.len \in Nat /\ s.fin \in BOOLEAN
      /\ First <= s.seqno /\ s.seqno + s.len <= Final /\ First \in Nat /\ Final \in Nat
      /\ Wnd \in Nat /\ s.seqno \in Numbers
    BY PieceFacts, NumbersSmall
<1>2. s.data = [i \in 1..s.len |-> s.seqno - First + i] /\ s.data \in Seq(Nat)
      /\ (s.fin => s.seqno + s.len = Final)
    BY <1>1 DEF Piece, Segments
<1>3. Len(s.data) = s.len
    BY <1>1, <1>2
<1> DEFINE off == c - s.seqno
           m == s.seqno + s.len - c
           d == SubSeq(s.data, off + 1, Len(s.data))
           t == Behind(s, c)
<1>4. c \in Numbers /\ off \in Nat /\ m \in Nat /\ off + m = s.len
    BY <1>1 DEF Numbers
<1>5. Distance(s.seqno, c) = off
    BY <1>1, <1>4, NumDistance
<1>6. d = [i \in 1..m |-> c - First + i] /\ d \in Seq(Nat)
    <2> DEFINE u == SubSeq(s.data, off + 1, s.len)
               v == [i \in 1..m |-> c - First + i]
    <2>1. \A i \in (off + 1)..s.len : s.data[i] = s.seqno - First + i /\ s.data[i] \in Nat
        <3>1. \A i \in 1..s.len : s.data[i] = s.seqno - First + i
            BY <1>2, Zenon
        <3>2. \A i \in 1..s.len : s.seqno - First + i \in Nat
            BY <1>1
        <3>3. \A i \in (off + 1)..s.len : i \in 1..s.len
            BY <1>1, <1>4
        <3> QED BY <3>1, <3>2, <3>3
    <2>2. u \in Seq(Nat) /\ Len(u) = m /\ \A i \in 1..m : u[i] = s.data[off + i]
        <3> HIDE DEF off, m
        <3>1. off + 1 \in Int /\ s.len \in Int /\ \A i \in (off + 1)..s.len : s.data[i] \in Nat
            BY <1>1, <1>4, <2>1
        <3>2. /\ u \in Seq(Nat)
              /\ Len(u) = IF off + 1 <= s.len THEN s.len - (off + 1) + 1 ELSE 0
              /\ \A i \in 1..(s.len - (off + 1) + 1) : u[i] = s.data[(off + 1) + i - 1]
            BY <3>1, SubSeqProperties
        <3>3. s.len - (off + 1) + 1 = m /\ \A i \in 1..m : (off + 1) + i - 1 = off + i
            BY <1>1, <1>4
        <3>4. \A i \in 1..m : u[i] = s.data[off + i]
            BY <3>2, <3>3
        <3>5. Len(u) = m
            BY <1>1, <1>4, <3>2
        <3> QED BY <3>2, <3>4, <3>5
    <2>3. v \in Seq(Nat) /\ Len(v) = m /\ \A i \in 1..m : v[i] = c - First + i
        <3>1. \A i \in 1..m : c - First + i \in Nat
            BY <1>1
        <3> HIDE DEF m
        <3> QED BY <1>4, <3>1
    <2>4. \A i \in 1..m : s.data[off + i] = c - First + i
        BY <1>1, <1>4, <2>1
    <2> HIDE DEF u, v
    <2>5. u = v
        BY <2>2, <2>3, <2>4, SeqEqual
    <2> QED BY <1>3, <2>2, <2>5 DEF u, v
<1>7. t = [s EXCEPT !.seqno = c, !.len = m, !.data = d]
    <2>1. s.len - off = m
        BY <1>1, <1>4
    <2> HIDE DEF m, off, d
    <2>2. t = [s EXCEPT !.seqno = c, !.len = s.len - off, !.data = SubSeq(s.data, off + 1, Len(s.data))]
        BY <1>1, <1>5 DEF Behind, Segments
    <2> QED BY <2>1, <2>2 DEF d
<1> HIDE DEF d, off
<1>8. t \in Segments /\ t.seqno = c /\ t.len = m /\ t.data = d /\ t.fin = s.fin
    BY <1>1, <1>4, <1>6, <1>7 DEF Segments
<1> HIDE DEF t
<1>9. First <= t.seqno /\ t.seqno + t.len <= Final /\ (t.fin => t.seqno + t.len = Final)
    <2>1. First <= c /\ c + m = s.seqno + s.len
        BY <1>1
    <2> QED BY <1>1, <1>2, <1>8, <2>1
<1>10. t.data = [i \in 1..t.len |-> t.seqno - First + i]
    BY <1>6, <1>8
<1>11. Piece(t)
    BY <1>8, <1>9, <1>10 DEF Piece
<1> QED BY <1>8, <1>11 DEF t

-----------------------------------------------------------------------------
(* Queues of segments *)

\* Induction over the naturals, for one set at a time.
LEMMA Induction ==
    ASSUME NEW S, 0 \in S, \A n \in Nat : n \in S => n + 1 \in S
    PROVE  \A n \in Nat : n \in S
<1> SUFFICES ASSUME NEW m \in Nat, m \notin S PROVE FALSE
    OBVIOUS
<1> DEFINE T == {n \in Nat : n \notin S}
<1>1. T \subseteq Nat /\ T # {}
    OBVIOUS
<1>2. PICK n \in T : \A k \in T : ~(<<k, n>> \in OpToRel(<, Nat))
    <2> HIDE DEF T
    <2> QED BY <1>1, NatLessThanWellFounded, WFMin
<1>3. n \in Nat /\ n \notin S /\ n # 0
    OBVIOUS
<1>4. PICK k \in Nat : n = k + 1 /\ k < n
    <2>1. n - 1 \in Nat /\ n = (n - 1) + 1 /\ n - 1 < n
        BY <1>3
    <2> QED BY <2>1
<1>5. k \notin T
    BY <1>2, <1>3, <1>4 DEF OpToRel
<1>6. k \in S
    BY <1>4, <1>5
<1> QED
    BY <1>3, <1>4, <1>6

\* How far a property of indices holds from the first one on.
LEMMA FirstFailure ==
    ASSUME NEW S, NEW n \in Nat
    PROVE  \E k \in 0..n : (\A i \in 1..k : i \in S) /\ (k < n => k + 1 \notin S)
<1> DEFINE T == {m \in Nat : \E k \in 0..m : (\A i \in 1..k : i \in S) /\ (k < m => k + 1 \notin S)}
<1>1. 0 \in T
    OBVIOUS
<1>2. ASSUME NEW m \in Nat, m \in T PROVE m + 1 \in T
    <2>1. PICK k \in 0..m : (\A i \in 1..k : i \in S) /\ (k < m => k + 1 \notin S)
        BY <1>2
    <2>2. CASE k < m \/ m + 1 \notin S
        <3>1. k \in 0..(m + 1) /\ (k < m + 1 => k + 1 \notin S)
            BY <2>1, <2>2
        <3> QED BY <2>1, <3>1
    <2>3. CASE k = m /\ m + 1 \in S
        <3>1. m + 1 \in 0..(m + 1) /\ \A i \in 1..(m + 1) : i \in S
            BY <2>1, <2>3
        <3> QED BY <3>1
    <2> QED BY <2>1, <2>2, <2>3
<1>3. n \in T
    <2> HIDE DEF T
    <2> QED BY <1>1, <1>2, Induction
<1> QED BY <1>3

LEMMA ChainFacts ==
    ASSUME NEW q, NEW lo, NEW hi, Chain(q, lo, hi)
    PROVE  /\ q \in Seq(Segments) /\ Len(q) \in Nat /\ (q = <<>> <=> Len(q) = 0)
           /\ \A i \in 1..Len(q) : Piece(q[i]) /\ Within(q[i], lo, hi) /\ q[i] \in Segments
           /\ \A i, j \in 1..Len(q) : i < j => Before(q[i], q[j])
<1>1. q \in Seq(Segments)
    BY DEF Chain
<1>2. Len(q) \in Nat /\ (q = <<>> <=> Len(q) = 0) /\ \A i \in 1..Len(q) : q[i] \in Segments
    BY <1>1
<1> QED BY <1>1, <1>2 DEF Chain

LEMMA WithinWiden ==
    ASSUME NoWrap, NEW s, Piece(s), NEW lo \in Int, NEW hi \in Int, NEW lo2 \in Int, NEW hi2 \in Int,
           Within(s, lo, hi), lo2 <= lo, hi <= hi2
    PROVE  Within(s, lo2, hi2)
<1>1. s.seqno \in Nat /\ TcpLen(s) \in Nat
    BY PieceFacts
<1> QED BY <1>1 DEF Within

LEMMA ChainWiden ==
    ASSUME NoWrap, NEW lo \in Int, NEW hi \in Int, NEW lo2 \in Int, NEW hi2 \in Int,
           NEW q, Chain(q, lo, hi), lo2 <= lo, hi <= hi2
    PROVE  Chain(q, lo2, hi2)
<1>1. \A i \in 1..Len(q) : Within(q[i], lo2, hi2)
    BY WithinWiden, ChainFacts
<1> QED BY <1>1 DEF Chain

\* t is the part of q from m to n.
PartOf(t, q, m, n) ==
    /\ Len(t) = IF m <= n THEN n - m + 1 ELSE 0
    /\ \A i \in 1..(n - m + 1) : t[i] = q[m + i - 1]

\* A part of a chain is a chain, between what bounds it.
LEMMA ChainPart ==
    ASSUME NoWrap, NEW lo \in Int, NEW hi \in Int, NEW lo2 \in Int, NEW q, Chain(q, lo, hi),
           NEW m \in Nat \ {0}, NEW n \in Nat, n <= Len(q),
           \A i \in m..n : lo2 <= q[i].seqno
    PROVE  Chain(SubSeq(q, m, n), lo2, hi) /\ PartOf(SubSeq(q, m, n), q, m, n)
<1> DEFINE t == SubSeq(q, m, n)
<1>1. Len(q) \in Nat /\ \A i \in m..n : i \in 1..Len(q)
    BY ChainFacts
<1>2. \A i \in m..n : q[i] \in Segments
    BY <1>1, ChainFacts
<1>3. /\ t \in Seq(Segments)
      /\ Len(t) = IF m <= n THEN n - m + 1 ELSE 0
      /\ \A i \in 1..(n - m + 1) : t[i] = q[m + i - 1]
    BY <1>2, SubSeqProperties
<1> HIDE DEF t
<1>4. \A i \in 1..Len(t) : m + i - 1 \in m..n /\ i \in 1..(n - m + 1)
    BY <1>3
<1>5. ASSUME NEW i \in 1..Len(t) PROVE Piece(t[i]) /\ Within(t[i], lo2, hi)
    <2>1. PICK j \in m..n : j = m + i - 1
        BY <1>4
    <2>2. t[i] = q[j]
        BY <1>3, <1>4, <2>1
    <2>3. j \in 1..Len(q)
        BY <1>1
    <2>4. Piece(q[j]) /\ Within(q[j], lo, hi)
        BY <2>3, ChainFacts
    <2>5. lo2 <= q[j].seqno
        OBVIOUS
    <2> QED BY <2>2, <2>4, <2>5 DEF Within
<1>6. ASSUME NEW i \in 1..Len(t), NEW j \in 1..Len(t), i < j PROVE Before(t[i], t[j])
    <2>1. PICK a \in m..n : a = m + i - 1
        BY <1>4
    <2>2. PICK b \in m..n : b = m + j - 1
        BY <1>4
    <2>3. t[i] = q[a] /\ t[j] = q[b]
        BY <1>3, <1>4, <2>1, <2>2
    <2>4. a \in 1..Len(q) /\ b \in 1..Len(q) /\ a < b
        BY <1>1, <1>6, <2>1, <2>2
    <2>5. Before(q[a], q[b])
        BY <2>4, ChainFacts
    <2> QED BY <2>3, <2>5
<1>7. Chain(t, lo2, hi)
    BY <1>3, <1>5, <1>6 DEF Chain
<1>8. PartOf(t, q, m, n)
    BY <1>3, Zenon DEF PartOf
<1> QED BY <1>7, <1>8 DEF t

\* A chain behind a chain.
LEMMA ChainJoin ==
    ASSUME NEW lo \in Int, NEW hi \in Int, NEW f, Chain(f, lo, hi), NEW g, Chain(g, lo, hi),
           \A i \in 1..Len(f), j \in 1..Len(g) : Before(f[i], g[j])
    PROVE  /\ Chain(f \o g, lo, hi)
           /\ Len(f \o g) = Len(f) + Len(g)
           /\ \A i \in 1..(Len(f) + Len(g)) : (f \o g)[i] = IF i <= Len(f) THEN f[i] ELSE g[i - Len(f)]
<1>1. f \in Seq(Segments) /\ g \in Seq(Segments) /\ Len(f) \in Nat /\ Len(g) \in Nat
    BY ChainFacts
<1> DEFINE t == f \o g
<1>2. /\ t \in Seq(Segments) /\ Len(t) = Len(f) + Len(g)
      /\ \A i \in 1..(Len(f) + Len(g)) : t[i] = IF i <= Len(f) THEN f[i] ELSE g[i - Len(f)]
    BY <1>1, ConcatProperties
<1> HIDE DEF t
<1>3. ASSUME NEW i \in 1..Len(t)
      PROVE  \/ i \in 1..Len(f) /\ t[i] = f[i]
             \/ i - Len(f) \in 1..Len(g) /\ t[i] = g[i - Len(f)]
    BY <1>1, <1>2
<1>4. ASSUME NEW i \in 1..Len(t) PROVE Piece(t[i]) /\ Within(t[i], lo, hi)
    BY <1>3, ChainFacts
<1>5. ASSUME NEW i \in 1..Len(t), NEW j \in 1..Len(t), i < j PROVE Before(t[i], t[j])
    <2>1. CASE j <= Len(f)
        <3>1. i \in 1..Len(f) /\ j \in 1..Len(f) /\ t[i] = f[i] /\ t[j] = f[j]
            BY <1>1, <1>2, <1>5, <2>1
        <3> QED BY <1>5, <3>1, ChainFacts
    <2>2. CASE j > Len(f) /\ i <= Len(f)
        <3>1. i \in 1..Len(f) /\ j - Len(f) \in 1..Len(g) /\ t[i] = f[i] /\ t[j] = g[j - Len(f)]
            BY <1>1, <1>2, <2>2
        <3> QED BY <3>1
    <2>3. CASE i > Len(f)
        <3>1. i - Len(f) \in 1..Len(g) /\ j - Len(f) \in 1..Len(g) /\ i - Len(f) < j - Len(f)
              /\ t[i] = g[i - Len(f)] /\ t[j] = g[j - Len(f)]
            BY <1>1, <1>2, <1>5, <2>3
        <3> QED BY <3>1, ChainFacts
    <2> QED BY <1>1, <1>2, <2>1, <2>2, <2>3
<1>6. Chain(t, lo, hi)
    BY <1>2, <1>4, <1>5 DEF Chain
<1> QED BY <1>2, <1>6 DEF t

LEMMA ChainOne ==
    ASSUME NEW s, NEW lo, NEW hi, Piece(s), Within(s, lo, hi)
    PROVE  Chain(<<s>>, lo, hi)
<1>1. s \in Segments
    BY DEF Piece
<1>2. <<s>> \in Seq(Segments) /\ Len(<<s>>) = 1 /\ <<s>>[1] = s
    BY <1>1
<1> DEFINE t == <<s>>
<1> HIDE DEF t
<1>3. \A i \in 1..Len(t) : i = 1
    BY <1>2 DEF t
<1> QED BY <1>2, <1>3 DEF Chain, t

\* A segment before a chain.
LEMMA ChainAhead ==
    ASSUME NoWrap, NEW lo \in Int, NEW hi \in Int, NEW x, Piece(x), Within(x, lo, hi),
           NEW g, Chain(g, lo, hi), g # <<>> => Before(x, g[1])
    PROVE  /\ Chain(<<x>> \o g, lo, hi)
           /\ Len(<<x>> \o g) = 1 + Len(g)
           /\ (<<x>> \o g)[1] = x
<1>1. Chain(<<x>>, lo, hi) /\ Len(<<x>>) = 1 /\ <<x>>[1] = x
    BY ChainOne
<1>2. Len(g) \in Nat /\ (g = <<>> <=> Len(g) = 0)
    BY ChainFacts
<1>3. ASSUME NEW j \in 1..Len(g) PROVE Before(x, g[j])
    <2>1. g # <<>> /\ 1 \in 1..Len(g)
        BY <1>2
    <2>2. Before(x, g[1]) /\ Piece(g[1]) /\ Piece(g[j])
        BY <2>1, ChainFacts
    <2>3. CASE j = 1
        BY <2>2, <2>3
    <2>4. CASE j # 1
        <3>1. Before(g[1], g[j])
            BY <2>1, <2>4, ChainFacts
        <3>2. x.seqno \in Nat /\ x.len \in Nat /\ g[1].seqno \in Nat /\ g[1].len \in Nat /\ g[j].seqno \in Nat
            BY <2>2, PieceFacts
        <3>3. x.seqno + x.len <= g[1].seqno
            BY <2>2 DEF Before
        <3>6. ~x.fin
            BY <2>2 DEF Before
        <3>4. g[1].seqno + g[1].len <= g[j].seqno
            BY <3>1 DEF Before
        <3>5. x.seqno + x.len <= g[j].seqno
            BY <3>2, <3>3, <3>4
        <3> QED BY <3>5, <3>6 DEF Before
    <2> QED BY <2>3, <2>4
<1> DEFINE f == <<x>>
<1>4. \A i \in 1..Len(f), j \in 1..Len(g) : Before(f[i], g[j])
    <2>1. \A i \in 1..Len(f) : f[i] = x
        BY <1>1
    <2> HIDE DEF f
    <2> QED BY <1>3, <2>1
<1> HIDE DEF f
<1>5. Chain(f \o g, lo, hi) /\ Len(f \o g) = Len(f) + Len(g)
      /\ \A i \in 1..(Len(f) + Len(g)) : (f \o g)[i] = IF i <= Len(f) THEN f[i] ELSE g[i - Len(f)]
    BY <1>1, <1>4, ChainJoin DEF f
<1>6. Len(f) = 1 /\ f[1] = x
    BY <1>1 DEF f
<1>7. (f \o g)[1] = x
    BY <1>2, <1>5, <1>6
<1> QED BY <1>5, <1>6, <1>7 DEF f

-----------------------------------------------------------------------------
(* Absorb: a segment and the queued ones behind it *)

\* Covered counts the segments at the head that end before end.
LEMMA CoveredIs ==
    ASSUME NoWrap, NEW lo \in Int, NEW hi \in Int, NEW q, Chain(q, lo, hi), NEW end \in Numbers
    PROVE  /\ Covered(q, end) \in 0..Len(q)
           /\ \A i \in 1..Covered(q, end) : q[i].seqno + q[i].len <= end
           /\ Covered(q, end) < Len(q)
                => q[Covered(q, end) + 1].seqno + q[Covered(q, end) + 1].len > end
<1>1. Len(q) \in Nat /\ end \in Nat
    BY ChainFacts, NumbersSmall
<1>2. ASSUME NEW i \in 1..Len(q)
      PROVE  /\ SeqGeq(end, DataEnd(q[i])) <=> end >= q[i].seqno + q[i].len
             /\ q[i].seqno + q[i].len \in Nat
    <2>1. Piece(q[i])
        BY ChainFacts
    <2>2. DataEnd(q[i]) = q[i].seqno + q[i].len /\ q[i].seqno + q[i].len \in Numbers
        BY <2>1, PieceFacts
    <2> QED BY <2>2, NumGeq, NumbersSmall
<1> DEFINE S == {i \in Nat : SeqGeq(end, DataEnd(q[i]))}
           Prop(k) == /\ \A i \in 1..k : SeqGeq(end, DataEnd(q[i]))
                      /\ k < Len(q) => ~SeqGeq(end, DataEnd(q[k + 1]))
<1>3. \E k \in 0..Len(q) : Prop(k)
    <2>1. PICK k \in 0..Len(q) : (\A i \in 1..k : i \in S) /\ (k < Len(q) => k + 1 \notin S)
        <3> HIDE DEF S
        <3> QED BY <1>1, FirstFailure
    <2>2. Prop(k)
        BY <1>1, <2>1
    <2> QED BY <2>2
<1>4. Covered(q, end) \in 0..Len(q) /\ Prop(Covered(q, end))
    <2>1. Covered(q, end) = CHOOSE k \in 0..Len(q) : Prop(k)
        BY DEF Covered
    <2> HIDE DEF Prop
    <2> QED BY <1>3, <2>1
<1> DEFINE c == Covered(q, end)
<1> HIDE DEF c
<1>5. c \in 0..Len(q) /\ Prop(c)
    BY <1>4 DEF c
<1>6. \A i \in 1..c : q[i].seqno + q[i].len <= end
    <2>1. \A i \in 1..c : i \in 1..Len(q)
        BY <1>1, <1>5
    <2> QED BY <1>1, <1>2, <1>5, <2>1
<1>7. c < Len(q) => q[c + 1].seqno + q[c + 1].len > end
    <2>1. c < Len(q) => c + 1 \in 1..Len(q)
        BY <1>1, <1>5
    <2> QED BY <1>1, <1>2, <1>5, <2>1
<1> QED BY <1>5, <1>6, <1>7 DEF c

\* A segment that takes over the FIN of one it covers is a piece.
LEMMA WholePiece ==
    ASSUME NoWrap, NEW c, Piece(c), ~c.fin, NEW lo \in Int, NEW hi \in Int, NEW q, Chain(q, lo, hi),
           Within(c, lo, hi),
           NEW k \in 0..Len(q), \A i \in 1..k : q[i].seqno + q[i].len <= c.seqno + c.len
    PROVE  LET w == [c EXCEPT !.fin = \E i \in 1..k : q[i].fin]
           IN  /\ Piece(w) /\ Within(w, lo, hi) /\ w.seqno = c.seqno /\ w.len = c.len
               /\ k < Len(q) => ~w.fin
<1>1. c \in Segments /\ c.seqno \in Nat /\ c.len \in Nat /\ c.fin = FALSE
    BY PieceFacts
<1>2. Len(q) \in Nat /\ \A i \in 1..k : i \in 1..Len(q)
    BY ChainFacts
<1> DEFINE f == \E i \in 1..k : q[i].fin
           w == [c EXCEPT !.fin = f]
<1>3. f \in BOOLEAN
    OBVIOUS
<1>4. ASSUME f PROVE c.seqno + c.len = Final /\ Final + 1 <= hi /\ ~(k < Len(q))
    <2>1. PICK i \in 1..k : q[i].fin
        BY <1>4
    <2>2. i \in 1..Len(q) /\ Piece(q[i]) /\ Within(q[i], lo, hi)
        BY <1>2, ChainFacts
    <2>3. q[i].seqno + q[i].len = Final
        BY <2>1, <2>2 DEF Piece
    <2>4. c.seqno + c.len <= Final
        BY DEF Piece
    <2>5. Final \in Nat /\ c.seqno + c.len \in Nat
        <3>1. Final \in Nat
            BY NumbersSmall
        <3>2. c.seqno + c.len \in Nat
            BY <1>1
        <3> QED BY <3>1, <3>2
    <2>6. c.seqno + c.len = Final
        BY <2>3, <2>4, <2>5
    <2>7. TcpLen(q[i]) = q[i].len + 1
        BY <2>1 DEF TcpLen
    <2>8. Final + 1 <= hi
        <3>1. q[i].seqno \in Nat /\ q[i].len \in Nat
            BY <2>2, PieceFacts
        <3>2. q[i].seqno + TcpLen(q[i]) <= hi
            BY <2>2 DEF Within
        <3>3. TcpLen(q[i]) = q[i].len + 1
            BY <2>7
        <3> DEFINE s == q[i].seqno
                   n == q[i].len
        <3>4. s \in Nat /\ n \in Nat /\ s + (n + 1) <= hi /\ s + n = Final
            BY <2>3, <3>1, <3>2, <3>3
        <3> HIDE DEF s, n, f, w
        <3> QED BY <3>4
    <2>9. ASSUME k < Len(q) PROVE FALSE
        <3>1. Len(q) \in 1..Len(q) /\ i < Len(q)
            BY <1>2, <2>9
        <3>2. Before(q[i], q[Len(q)])
            BY <2>2, <3>1, ChainFacts
        <3> QED BY <2>1, <3>2 DEF Before
    <2> QED BY <2>6, <2>8, <2>9
<1> HIDE DEF f
<1>5. w \in Segments /\ w.seqno = c.seqno /\ w.len = c.len /\ w.data = c.data /\ w.fin = f
    BY <1>1, <1>3 DEF Segments
<1> HIDE DEF w
<1>6. Piece(w)
    <2>1. First <= c.seqno /\ c.seqno + c.len <= Final
          /\ c.data = [i \in 1..c.len |-> c.seqno - First + i]
        BY DEF Piece
    <2> QED BY <1>4, <1>5, <2>1 DEF Piece
<1>7. Within(w, lo, hi)
    <2>1. CASE f
        <3>1. TcpLen(w) = w.len + 1
            BY <1>5, <2>1 DEF TcpLen
        <3>2. c.seqno + (c.len + 1) <= hi
            BY <1>1, <1>4, <2>1
        <3> QED BY <1>5, <3>1, <3>2 DEF Within
    <2>2. CASE ~f
        <3>1. TcpLen(w) = c.len /\ TcpLen(c) = c.len
            BY <1>1, <1>5, <2>2 DEF TcpLen
        <3> QED BY <1>5, <3>1 DEF Within
    <2> QED BY <2>1, <2>2
<1>8. Piece(w) /\ Within(w, lo, hi) /\ w.seqno = c.seqno /\ w.len = c.len /\ (k < Len(q) => ~w.fin)
    BY <1>4, <1>5, <1>6, <1>7
<1> QED BY <1>8 DEF w, f

\* The result is a chain that begins with the segment.
LEMMA AbsorbIs ==
    ASSUME NoWrap, NEW c, Piece(c), NEW lo \in Int, lo <= c.seqno, NEW hi \in Int, Within(c, lo, hi),
           NEW q, Chain(q, c.seqno, hi)
    PROVE  /\ Chain(Absorb(c, q), c.seqno, hi)
           /\ Len(Absorb(c, q)) \in Nat \ {0}
           /\ Absorb(c, q)[1].seqno = c.seqno
<1>1. c \in Segments /\ c.seqno \in Nat /\ c.len \in Nat /\ c.fin \in BOOLEAN /\ c.seqno \in Int
      /\ c.seqno + c.len \in Numbers /\ DataEnd(c) = c.seqno + c.len
    BY PieceFacts
<1>2. Within(c, c.seqno, hi)
    BY <1>1 DEF Within
<1>3. CASE c.fin
    <2>1. Absorb(c, q) = <<c>>
        BY <1>3 DEF Absorb
    <2>2. Chain(<<c>>, c.seqno, hi)
        BY <1>2, ChainOne
    <2> QED BY <2>1, <2>2
<1>4. CASE ~c.fin
    <2> DEFINE k == Covered(q, DataEnd(c))
               rest == SubSeq(q, k + 1, Len(q))
               w == [c EXCEPT !.fin = \E i \in 1..k : q[i].fin]
               cuts == rest # <<>> /\ SeqGt(DataEnd(c), rest[1].seqno)
               x == IF cuts THEN Cut(w, Distance(c.seqno, rest[1].seqno)) ELSE w
    <2>1. Absorb(c, q) = <<x>> \o rest
        BY <1>4 DEF Absorb
    <2>2. /\ k \in 0..Len(q) /\ \A i \in 1..k : q[i].seqno + q[i].len <= c.seqno + c.len
          /\ k < Len(q) => q[k + 1].seqno + q[k + 1].len > c.seqno + c.len
        BY <1>1, CoveredIs
    <2> HIDE DEF k
    <2>3. Len(q) \in Nat /\ k + 1 \in Nat \ {0} /\ \A i \in (k + 1)..Len(q) : i \in 1..Len(q)
        BY <2>2, ChainFacts
    <2>4. \A i \in (k + 1)..Len(q) : c.seqno <= q[i].seqno
        BY <2>3, ChainFacts DEF Within
    <2>5. Chain(rest, c.seqno, hi) /\ PartOf(rest, q, k + 1, Len(q))
        <3> DEFINE m == k + 1
                   n == Len(q)
        <3> HIDE DEF m, n
        <3>1. m \in Nat \ {0} /\ n \in Nat /\ n <= Len(q) /\ \A i \in m..n : c.seqno <= q[i].seqno
            BY <2>3, <2>4 DEF m, n
        <3>2. Chain(SubSeq(q, m, n), c.seqno, hi) /\ PartOf(SubSeq(q, m, n), q, m, n)
            BY <1>1, <3>1, ChainPart
        <3> QED BY <3>2 DEF m, n
    <2> HIDE DEF rest
    <2>6. rest # <<>> => k < Len(q)
        BY <2>2, <2>3, <2>5, ChainFacts DEF PartOf
    <2>7. Piece(w) /\ Within(w, c.seqno, hi) /\ w.seqno = c.seqno /\ w.len = c.len
          /\ (k < Len(q) => ~w.fin)
        <3> DEFINE c0 == c.seqno
        <3>1. c0 \in Int
            BY <1>1, PieceFacts
        <3>2. w = [c EXCEPT !.fin = \E i \in 1..k : q[i].fin]
            OBVIOUS
        <3> HIDE DEF w, c0
        <3>3. Chain(q, c0, hi) /\ Within(c, c0, hi)
            BY <1>1, <1>2 DEF c0
        <3>4. /\ Piece(w) /\ Within(w, c0, hi) /\ w.seqno = c.seqno /\ w.len = c.len
              /\ k < Len(q) => ~w.fin
            BY <1>1, <1>4, <2>2, <3>1, <3>2, <3>3, WholePiece
        <3> QED BY <3>4 DEF c0
    <2> HIDE DEF w
    <2>8. Piece(x) /\ Within(x, c.seqno, hi) /\ x.seqno = c.seqno /\ (rest # <<>> => Before(x, rest[1]))
        <3>1. CASE rest = <<>>
            <4>1. x = w
                BY <3>1
            <4> HIDE DEF x
            <4> QED BY <2>7, <3>1, <4>1
        <3>2. CASE rest # <<>>
            <4> DEFINE t == rest[1].seqno
            <4>1. 1 \in 1..Len(rest) /\ Piece(rest[1]) /\ Within(rest[1], c.seqno, hi)
                BY <2>5, <3>2, ChainFacts
            <4>2. t \in Numbers /\ t \in Nat /\ c.seqno <= t
                BY <4>1, PieceFacts DEF Within
            <4>3. ~w.fin /\ w.fin = FALSE
                BY <2>6, <2>7, <3>2, PieceFacts
            <4>4. SeqGt(DataEnd(c), t) <=> c.seqno + c.len > t
                BY <1>1, <4>2, NumGt
            <4>5. CASE c.seqno + c.len > t
                <5>1. Distance(c.seqno, t) = t - c.seqno /\ t - c.seqno \in Nat /\ t - c.seqno <= w.len
                    <6>1. c.seqno \in Numbers
                        BY PieceFacts
                    <6>2. Distance(c.seqno, t) = t - c.seqno
                        BY <4>2, <6>1, NumDistance
                    <6> HIDE DEF t
                    <6> QED BY <1>1, <2>7, <4>2, <4>5, <6>2
                <5>2. x = Cut(w, Distance(c.seqno, t))
                    BY <3>2, <4>4, <4>5
                <5> DEFINE d == Distance(c.seqno, t)
                <5> HIDE DEF x, t, d
                <5>3. d \in Nat /\ d <= w.len /\ x = Cut(w, d) /\ d = t - c.seqno
                    BY <5>1, <5>2 DEF d
                <5>4. Piece(x) /\ x.seqno = w.seqno /\ x.len = d /\ x.fin = FALSE
                    BY <2>7, <4>3, <5>3, CutPiece
                <5>5. TcpLen(x) = d
                    BY <5>4 DEF TcpLen
                <5>6. w.seqno + w.len <= hi
                    <6>1. TcpLen(w) = w.len
                        BY <4>3 DEF TcpLen
                    <6> QED BY <2>7, <6>1 DEF Within
                <5>7. Within(x, c.seqno, hi)
                    BY <1>1, <2>7, <5>3, <5>4, <5>5, <5>6 DEF Within
                <5>8. Before(x, rest[1])
                    <6>1. x.seqno + x.len <= t
                        BY <1>1, <2>7, <4>2, <5>3, <5>4
                    <6> QED BY <5>4, <6>1 DEF Before, t
                <5> QED BY <2>7, <5>4, <5>7, <5>8
            <4>6. CASE ~(c.seqno + c.len > t)
                <5>1. x = w
                    BY <3>2, <4>4, <4>6
                <5> HIDE DEF x
                <5>2. w.seqno + w.len <= rest[1].seqno
                    BY <1>1, <2>7, <4>2, <4>6
                <5> QED BY <2>7, <4>3, <5>1, <5>2 DEF Before
            <4> QED BY <4>5, <4>6
        <3> QED BY <3>1, <3>2
    <2> HIDE DEF x
    <2>9. Chain(<<x>> \o rest, c.seqno, hi) /\ Len(<<x>> \o rest) = 1 + Len(rest) /\ (<<x>> \o rest)[1] = x
        BY <1>1, <2>5, <2>8, ChainAhead
    <2>10. Len(rest) \in Nat
        BY <2>5, ChainFacts
    <2> DEFINE a == <<x>> \o rest
    <2> HIDE DEF a
    <2>11. Absorb(c, q) = a /\ Chain(a, c.seqno, hi) /\ Len(a) = 1 + Len(rest) /\ a[1] = x
        BY <2>1, <2>9 DEF a
    <2> QED BY <2>8, <2>10, <2>11
<1> QED BY <1>1, <1>3, <1>4

-----------------------------------------------------------------------------
(* Enqueue: the place of a segment in the queue *)

\* The last segment of a chain is cut where t begins.
LEMMA CutLastIs ==
    ASSUME NoWrap, NEW lo \in Int, NEW hi \in Int, NEW q, Chain(q, lo, hi), NEW t \in Numbers,
           \A i \in 1..Len(q) : q[i].seqno <= t /\ ~q[i].fin
    PROVE  /\ Chain(CutLast(q, t), lo, hi)
           /\ \A i \in 1..Len(CutLast(q, t)) :
                 CutLast(q, t)[i].seqno + CutLast(q, t)[i].len <= t /\ ~CutLast(q, t)[i].fin
<1> DEFINE n == Len(q)
<1>1. n \in Nat /\ (q = <<>> <=> n = 0) /\ q \in Seq(Segments) /\ t \in Nat
    BY ChainFacts, NumbersSmall
<1>2. \A i \in 1..n : /\ Piece(q[i]) /\ Within(q[i], lo, hi) /\ q[i].fin = FALSE
                      /\ q[i].seqno \in Nat /\ q[i].len \in Nat /\ q[i].seqno \in Numbers
                      /\ DataEnd(q[i]) = q[i].seqno + q[i].len /\ DataEnd(q[i]) \in Numbers
                      /\ TcpLen(q[i]) = q[i].len
    BY ChainFacts, PieceFacts, NoFin
<1>3. ASSUME NEW i \in 1..n, i # n PROVE q[i].seqno + q[i].len <= t
    <2>1. n \in 1..n /\ i < n
        BY <1>1, <1>3
    <2>2. Before(q[i], q[n])
        BY <2>1, ChainFacts
    <2>3. q[i].seqno + q[i].len <= q[n].seqno /\ q[n].seqno <= t
        BY <2>1, <2>2 DEF Before
    <2> QED BY <1>1, <1>2, <2>1, <2>3
<1> DEFINE cuts == q # <<>> /\ SeqGt(DataEnd(q[n]), t)
<1>4. q # <<>> => n \in 1..n /\ (SeqGt(DataEnd(q[n]), t) <=> q[n].seqno + q[n].len > t)
    BY <1>1, <1>2, NumGt
<1>5. CASE ~cuts
    <2>1. CutLast(q, t) = q
        BY <1>5 DEF CutLast
    <2>2. ASSUME NEW i \in 1..n PROVE q[i].seqno + q[i].len <= t
        <3>1. q # <<>>
            BY <1>1
        <3>2. q[n].seqno + q[n].len <= t
            BY <1>1, <1>2, <1>4, <1>5, <3>1
        <3> QED BY <1>3, <3>2
    <2> QED BY <2>1, <2>2
<1>6. CASE cuts
    <2> DEFINE d == Distance(q[n].seqno, t)
               y == Cut(q[n], d)
               f == [q EXCEPT ![n] = y]
    <2>1. CutLast(q, t) = f
        BY <1>6 DEF CutLast
    <2>2. n \in 1..n /\ q[n].seqno + q[n].len > t /\ q[n].seqno <= t
        BY <1>4, <1>6
    <2>3. d = t - q[n].seqno /\ d \in Nat /\ d <= q[n].len
        <3>1. d = t - q[n].seqno
            BY <1>2, <2>2, NumDistance
        <3> HIDE DEF d
        <3> QED BY <1>1, <1>2, <2>2, <3>1
    <2>4. Piece(q[n]) /\ ~q[n].fin /\ q[n].seqno \in Nat /\ q[n].len \in Nat /\ TcpLen(q[n]) = q[n].len
          /\ Within(q[n], lo, hi)
        BY <1>2, <2>2
    <2> HIDE DEF d
    <2>5. Piece(y) /\ y.seqno = q[n].seqno /\ y.len = d /\ y.fin = FALSE
        BY <2>3, <2>4, CutPiece
    <2> HIDE DEF y
    <2>6. TcpLen(y) = d
        BY <2>5 DEF TcpLen
    <2>7. Within(y, lo, hi)
        BY <2>3, <2>4, <2>5, <2>6 DEF Within
    <2>8. y \in Segments
        BY <2>5 DEF Piece
    <2>9. f \in Seq(Segments) /\ Len(f) = n /\ \A j \in 1..n : f[j] = IF j = n THEN y ELSE q[j]
        <3> HIDE DEF n
        <3>1. n \in 1..Len(q)
            BY <2>2 DEF n
        <3>2. /\ f \in Seq(Segments) /\ Len(f) = Len(q)
              /\ \A j \in 1..Len(q) : f[j] = IF j = n THEN y ELSE q[j]
            BY <1>1, <2>8, <3>1, ExceptSeq
        <3> QED BY <3>2 DEF n
    <2> HIDE DEF f
    <2>10. \A i \in 1..n : Piece(f[i]) /\ Within(f[i], lo, hi) /\ f[i].seqno = q[i].seqno
        BY <1>2, <2>5, <2>7, <2>9
    <2>11. ASSUME NEW i \in 1..n, NEW j \in 1..n, i < j PROVE Before(f[i], f[j])
        <3>1. i # n
            BY <1>1, <2>11
        <3>2. f[i] = q[i] /\ Before(q[i], q[j])
            BY <2>9, <2>11, <3>1, ChainFacts
        <3> QED BY <2>10, <3>2 DEF Before
    <2>12. Chain(f, lo, hi)
        BY <2>9, <2>10, <2>11 DEF Chain
    <2>13. ASSUME NEW i \in 1..n PROVE f[i].seqno + f[i].len <= t /\ ~f[i].fin
        <3>1. CASE i = n
            <4>1. f[i] = y
                BY <2>9, <3>1
            <4>2. y.seqno + y.len <= t
                BY <1>1, <2>3, <2>4, <2>5
            <4> QED BY <2>5, <4>1, <4>2
        <3>2. CASE i # n
            <4>1. f[i] = q[i]
                BY <2>9, <3>2
            <4> QED BY <1>3, <3>2, <4>1
        <3> QED BY <3>1, <3>2
    <2> QED BY <2>1, <2>9, <2>12, <2>13
<1> QED BY <1>5, <1>6

\* A range that ends by t ends by whatever begins at t or later.
LEMMA EndsBefore ==
    ASSUME NEW s \in Nat, NEW n \in Nat, NEW t \in Int, NEW u \in Nat, s + n <= t, t <= u
    PROVE  s + n <= u
OBVIOUS

LEMMA NextAfter ==
    ASSUME NEW s \in Nat, NEW n \in Nat, NEW t, s + n = t
    PROVE  s + (n + 1) = t + 1
OBVIOUS

\* What ends before t, and what begins there.
LEMMA ChainMeets ==
    ASSUME NoWrap, NEW lo \in Int, NEW hi \in Int, NEW t \in Int, lo <= t, NEW f, Chain(f, lo, hi),
           \A i \in 1..Len(f) : f[i].seqno + f[i].len <= t /\ ~f[i].fin,
           NEW a, Chain(a, t, hi)
    PROVE  Chain(f \o a, lo, hi)
<1>1. Chain(a, lo, hi)
    <2>1. hi <= hi
        OBVIOUS
    <2> QED BY <2>1, ChainWiden
<1>2. ASSUME NEW i \in 1..Len(f), NEW j \in 1..Len(a) PROVE Before(f[i], a[j])
    <2>1. Piece(f[i]) /\ Piece(a[j]) /\ Within(a[j], t, hi)
        BY ChainFacts
    <2>2. f[i].seqno \in Nat /\ f[i].len \in Nat /\ a[j].seqno \in Nat
        BY <2>1, PieceFacts
    <2>3. f[i].seqno + f[i].len <= t /\ ~f[i].fin /\ t <= a[j].seqno
        BY <2>1 DEF Within
    <2>4. f[i].seqno + f[i].len <= a[j].seqno
        BY <2>2, <2>3, EndsBefore
    <2> QED BY <2>3, <2>4 DEF Before
<1> QED BY <1>1, <1>2, ChainJoin

\* The segments that begin before s are the first ones of the queue.
LEMMA PlaceIs ==
    ASSUME NoWrap, NEW lo \in Int, NEW hi \in Int, NEW q, Chain(q, lo, hi), NEW t \in Numbers
    PROVE  LET k == Cardinality({i \in 1..Len(q) : SeqGt(t, q[i].seqno)})
           IN  /\ k \in 0..Len(q)
               /\ \A i \in 1..k : q[i].seqno < t
               /\ \A i \in (k + 1)..Len(q) : t <= q[i].seqno
<1> DEFINE n == Len(q)
           T == {i \in 1..n : SeqGt(t, q[i].seqno)}
           S == {i \in 1..n : q[i].seqno < t}
<1>1. n \in Nat /\ t \in Nat
    BY ChainFacts, NumbersSmall
<1>2. \A i \in 1..n : /\ q[i].seqno \in Nat /\ q[i].len \in Nat
                      /\ (SeqGt(t, q[i].seqno) <=> q[i].seqno < t)
    <2>1. \A i \in 1..n : q[i].seqno \in Numbers /\ q[i].seqno \in Nat /\ q[i].len \in Nat
        BY ChainFacts, PieceFacts
    <2>2. \A i \in 1..n : SeqGt(t, q[i].seqno) <=> t > q[i].seqno
        BY <2>1, NumGt
    <2> QED BY <1>1, <2>1, <2>2
<1>3. T = S
    BY <1>2
<1>4. PICK k \in 0..n : (\A i \in 1..k : i \in S) /\ (k < n => k + 1 \notin S)
    <2> HIDE DEF S
    <2> QED BY <1>1, FirstFailure
<1>5. \A i \in 1..k : q[i].seqno < t
    BY <1>4
<1>6. ASSUME NEW i \in (k + 1)..n PROVE t <= q[i].seqno
    <2>1. k < n /\ k + 1 \in 1..n /\ i \in 1..n
        BY <1>1
    <2>2. t <= q[k + 1].seqno
        BY <1>1, <1>2, <1>4, <2>1
    <2>3. CASE i = k + 1
        BY <2>2, <2>3
    <2>4. CASE i # k + 1
        <3> DEFINE m == k + 1
        <3>1. m \in 1..n /\ m < i
            BY <2>1, <2>4
        <3> HIDE DEF m
        <3>2. Before(q[m], q[i])
            BY <2>1, <3>1, ChainFacts
        <3>3. t <= q[m].seqno
            BY <2>2 DEF m
        <3> QED BY <1>1, <1>2, <2>1, <3>1, <3>2, <3>3 DEF Before
    <2> QED BY <2>3, <2>4
<1>7. S = 1..k
    <2>1. ASSUME NEW i \in S PROVE i \in 1..k
        <3>1. i \in 1..n /\ q[i].seqno < t /\ q[i].seqno \in Nat
            BY <1>2
        <3>2. ~(i \in (k + 1)..n)
            BY <1>1, <1>6, <3>1
        <3> QED BY <1>1, <3>1, <3>2
    <2> QED BY <1>4, <2>1
<1>8. Cardinality(1..k) = k
    <2>1. k \in Nat
        BY <1>1
    <2>2. Cardinality(1..k) = IF 1 > k THEN 0 ELSE k - 1 + 1
        BY <2>1, FS_Interval
    <2> QED BY <2>1, <2>2
<1>9. Cardinality(T) = k
    BY <1>3, <1>7, <1>8, Zenon
<1> HIDE DEF T, S
<1> QED BY <1>4, <1>5, <1>6, <1>9 DEF T

\* A segment that lies within the window is not cut to it.
LEMMA WindowFits ==
    ASSUME NoWrap, NEW s, Piece(s), NEW p, p.rcv_nxt \in Nat, p.rcv_wnd \in Nat,
           p.rcv_nxt + p.rcv_wnd \in Numbers, s.seqno + TcpLen(s) <= p.rcv_nxt + p.rcv_wnd
    PROVE  CutToWindow(p, s) = s
<1>1. Add(s.seqno, TcpLen(s)) = s.seqno + TcpLen(s) /\ s.seqno \in Nat /\ TcpLen(s) \in Nat
    BY PieceFacts
<1>2. Add(p.rcv_nxt, p.rcv_wnd) = p.rcv_nxt + p.rcv_wnd
    BY NumAdd
<1>3. ~(Add(s.seqno, TcpLen(s)) > Add(p.rcv_nxt, p.rcv_wnd))
    BY <1>1, <1>2
<1> QED BY <1>3 DEF CutToWindow

\* The segments of q behind the first k begin at lo or later.
Beyond(q, k, lo) == \A i \in (k + 1)..Len(q) : lo <= q[i].seqno

\* t is a chain of the segments of q behind the first k.
IsRest(t, q, k, lo, hi) ==
    /\ Chain(t, lo, hi) /\ Len(t) = Len(q) - k
    /\ k < Len(q) => t[1] = q[k + 1]

LEMMA RestIs ==
    ASSUME NoWrap, NEW lo \in Int, NEW hi \in Int, NEW lo2 \in Int, NEW q, Chain(q, lo, hi),
           NEW k \in 0..Len(q), Beyond(q, k, lo2), NEW rest, rest = SubSeq(q, k + 1, Len(q))
    PROVE  IsRest(rest, q, k, lo2, hi)
<1> DEFINE m == k + 1
           n == Len(q)
<1>1. m \in Nat \ {0} /\ n \in Nat /\ n <= Len(q) /\ k \in Nat /\ k <= n
    BY ChainFacts
<1> HIDE DEF m, n
<1>2. \A i \in m..n : lo2 <= q[i].seqno
    BY DEF m, n, Beyond
<1>3. Chain(SubSeq(q, m, n), lo2, hi) /\ PartOf(SubSeq(q, m, n), q, m, n)
    BY <1>1, <1>2, ChainPart
<1> DEFINE t == SubSeq(q, m, n)
<1> HIDE DEF t
<1>4. Len(t) = n - k
    BY <1>1, <1>3 DEF PartOf, m, t
<1>5. k < n => t[1] = q[m]
    <2> SUFFICES ASSUME k < n PROVE t[1] = q[m]
        OBVIOUS
    <2>1. 1 \in 1..(n - m + 1) /\ m + 1 - 1 = m
        BY <1>1 DEF m
    <2>2. t[1] = q[m + 1 - 1]
        BY <1>3, <2>1 DEF PartOf, t
    <2> QED BY <2>1, <2>2
<1>6. rest = t
    BY Zenon DEF t, m, n
<1>7. IsRest(t, q, k, lo2, hi)
    BY <1>3, <1>4, <1>5, Zenon DEF t, m, n, IsRest
<1> QED BY <1>6, <1>7, Zenon

\* The front of a chain.
LEMMA FrontIs ==
    ASSUME NoWrap, NEW lo \in Int, NEW hi \in Int, NEW q, Chain(q, lo, hi), NEW k \in 0..Len(q)
    PROVE  /\ Chain(SubSeq(q, 1, k), lo, hi)
           /\ Len(SubSeq(q, 1, k)) = k
           /\ \A i \in 1..k : SubSeq(q, 1, k)[i] = q[i]
<1>1. Len(q) \in Nat /\ k \in Nat /\ k <= Len(q) /\ 1 \in Nat \ {0}
    BY ChainFacts
<1>2. \A i \in 1..k : lo <= q[i].seqno
    <2>1. \A i \in 1..k : i \in 1..Len(q)
        BY <1>1
    <2> QED BY <2>1, ChainFacts DEF Within
<1>3. Chain(SubSeq(q, 1, k), lo, hi) /\ PartOf(SubSeq(q, 1, k), q, 1, k)
    BY <1>1, <1>2, ChainPart
<1> DEFINE t == SubSeq(q, 1, k)
<1> HIDE DEF t
<1>4. Len(t) = k /\ \A i \in 1..k : t[i] = q[i]
    <2>1. PartOf(t, q, 1, k)
        BY <1>3 DEF t
    <2>2. k - 1 + 1 = k /\ \A i \in 1..k : 1 + i - 1 = i
        BY <1>1
    <2> QED BY <1>1, <2>1, <2>2 DEF PartOf
<1> QED BY <1>3, <1>4 DEF t

\* The queue stays a chain, whichever way the segment is put into it.
LEMMA EnqueueIs ==
    ASSUME NoWrap, NEW p, NEW lo \in Int, p.rcv_nxt \in Nat, p.rcv_wnd \in Nat,
           p.rcv_nxt + p.rcv_wnd \in Numbers,
           Chain(p.ooseq, lo, p.rcv_nxt + p.rcv_wnd),
           NEW s, Piece(s), Within(s, lo, p.rcv_nxt + p.rcv_wnd)
    PROVE  Chain(Enqueue(p, s), lo, p.rcv_nxt + p.rcv_wnd)
<1> DEFINE hi == p.rcv_nxt + p.rcv_wnd
           q == p.ooseq
           t == s.seqno
           k == Cardinality({i \in 1..Len(q) : SeqGt(t, q[i].seqno)})
           front == SubSeq(q, 1, k)
           rest == SubSeq(q, k + 1, Len(q))
           e == Enqueue(p, s)
<1>1. hi \in Int /\ t \in Numbers /\ t \in Nat /\ t \in Int /\ s.len \in Nat /\ s.seqno + TcpLen(s) <= hi
      /\ TcpLen(s) \in Nat /\ lo <= t /\ Within(s, t, hi) /\ Chain(q, lo, hi)
    <2>1. t \in Numbers /\ t \in Nat /\ s.len \in Nat /\ TcpLen(s) \in Nat
        BY PieceFacts
    <2>2. hi \in Int
        OBVIOUS
    <2>3. lo <= t /\ s.seqno + TcpLen(s) <= hi
        BY DEF Within
    <2>4. Within(s, t, hi)
        BY <2>1, <2>3 DEF Within
    <2> QED BY <2>1, <2>2, <2>3, <2>4
<1>2. e = CASE q = <<>> -> <<s>>
          [] rest # <<>> /\ rest[1].seqno = t ->
                IF s.len > rest[1].len THEN front \o Absorb(s, rest) ELSE q
          [] rest # <<>> /\ rest[1].seqno # t -> CutLast(front, t) \o Absorb(s, rest)
          [] OTHER -> IF q[k].fin THEN q ELSE Append(CutLast(front, t), CutToWindow(p, s))
    BY DEF Enqueue
<1>3. CutToWindow(p, s) = s
    BY <1>1, WindowFits
<1>4. k \in 0..Len(q) /\ (\A i \in 1..k : q[i].seqno < t) /\ (\A i \in (k + 1)..Len(q) : t <= q[i].seqno)
    <2> HIDE DEF hi, t, q
    <2> QED BY <1>1, PlaceIs
<1> HIDE DEF k
<1>5. Len(q) \in Nat /\ (q = <<>> <=> Len(q) = 0)
    BY <1>1, ChainFacts
<1>6. Chain(front, lo, hi) /\ Len(front) = k /\ \A i \in 1..k : front[i] = q[i]
    <2> HIDE DEF hi, t, q
    <2>1. k \in 0..Len(q)
        BY <1>4
    <2> HIDE DEF front
    <2>2. Chain(SubSeq(q, 1, k), lo, hi) /\ Len(SubSeq(q, 1, k)) = k
          /\ \A i \in 1..k : SubSeq(q, 1, k)[i] = q[i]
        BY <1>1, <2>1, FrontIs
    <2> QED BY <2>2, Zenon DEF front
<1>7. Chain(rest, t, hi) /\ Len(rest) = Len(q) - k /\ (k < Len(q) => rest[1] = q[k + 1])
    <2>1. Beyond(q, k, t) /\ k \in 0..Len(q)
        BY <1>4 DEF Beyond
    <2>2. rest = SubSeq(q, k + 1, Len(q))
        OBVIOUS
    <2> HIDE DEF hi, t, q, rest
    <2>3. IsRest(rest, q, k, t, hi)
        BY <1>1, <2>1, <2>2, RestIs
    <2> QED BY <2>3 DEF IsRest
<1> HIDE DEF front, rest, e, hi, q, t
<1>8. (rest = <<>> <=> k = Len(q)) /\ (front = <<>> <=> k = 0) /\ k \in Nat /\ (q = <<>> => rest = <<>>)
    BY <1>4, <1>5, <1>6, <1>7, ChainFacts
<1>9. \A i \in 1..k : q[i].seqno \in Nat /\ q[i].len \in Nat /\ i \in 1..Len(q)
    <2>1. ASSUME NEW i \in 1..k PROVE q[i].seqno \in Nat /\ q[i].len \in Nat /\ i \in 1..Len(q)
        <3>1. i \in 1..Len(q)
            BY <1>4, <1>5
        <3>2. Piece(q[i])
            BY <1>1, <3>1, ChainFacts
        <3> QED BY <3>1, <3>2, PieceFacts
    <2> QED BY <2>1
<1>10. ASSUME k < Len(q), NEW i \in 1..k
       PROVE  front[i].seqno + front[i].len <= q[k + 1].seqno /\ ~front[i].fin
    <2> DEFINE m == k + 1
    <2>1. m \in 1..Len(q) /\ i < m /\ i \in 1..Len(q)
        BY <1>4, <1>5, <1>9, <1>10
    <2> HIDE DEF m
    <2>2. Before(q[i], q[m])
        BY <1>1, <2>1, ChainFacts
    <2> QED BY <1>6, <2>2 DEF Before, m
<1>11. Chain(Absorb(s, rest), t, hi)
    BY <1>1, <1>7, AbsorbIs DEF t
<1>12. CASE q = <<>>
    <2>1. e = <<s>>
        BY <1>2, <1>8, <1>12
    <2> QED BY <1>1, <2>1, ChainOne DEF e, hi
<1>13. CASE rest # <<>> /\ rest[1].seqno = t
    <2>1. q # <<>> /\ k < Len(q) /\ q[k + 1].seqno = t
        BY <1>4, <1>5, <1>7, <1>8, <1>13
    <2>2. e = IF s.len > rest[1].len THEN front \o Absorb(s, rest) ELSE q
        BY <1>2, <1>13, <2>1
    <2>3. \A i \in 1..Len(front) : front[i].seqno + front[i].len <= t /\ ~front[i].fin
        BY <1>6, <1>10, <2>1
    <2>4. Chain(front \o Absorb(s, rest), lo, hi)
        <3> DEFINE a == Absorb(s, rest)
        <3> HIDE DEF a
        <3>1. Chain(a, t, hi)
            BY <1>11 DEF a
        <3>2. Chain(front \o a, lo, hi)
            BY <1>1, <1>6, <2>3, <3>1, ChainMeets
        <3> QED BY <3>2 DEF a
    <2> QED BY <1>1, <2>2, <2>4 DEF e, hi
<1>14. ASSUME \A i \in 1..k : ~q[i].fin PROVE
          LET f == CutLast(front, t)
          IN  Chain(f, lo, hi) /\ \A i \in 1..Len(f) : f[i].seqno + f[i].len <= t /\ ~f[i].fin
    <2>1. \A i \in 1..Len(front) : front[i].seqno <= t /\ ~front[i].fin
        <3> SUFFICES ASSUME NEW i \in 1..Len(front) PROVE front[i].seqno <= t /\ ~front[i].fin
            OBVIOUS
        <3>1. i \in 1..k /\ front[i] = q[i]
            BY <1>6
        <3>2. q[i].seqno < t
            BY <1>4, <3>1
        <3>3. q[i].seqno \in Nat /\ t \in Nat
            BY <1>1, <1>9, <3>1
        <3>4. q[i].seqno <= t
            BY <3>2, <3>3
        <3> QED BY <1>14, <3>1, <3>4
    <2> QED BY <1>1, <1>6, <2>1, CutLastIs
<1>15. CASE rest # <<>> /\ rest[1].seqno # t
    <2>1. q # <<>> /\ k < Len(q)
        BY <1>4, <1>5, <1>7, <1>8, <1>15
    <2>2. e = CutLast(front, t) \o Absorb(s, rest)
        BY <1>2, <1>15, <2>1
    <2>3. \A i \in 1..k : ~q[i].fin
        BY <1>6, <1>10, <2>1
    <2> DEFINE f == CutLast(front, t)
               a == Absorb(s, rest)
    <2>4. Chain(f, lo, hi) /\ \A i \in 1..Len(f) : f[i].seqno + f[i].len <= t /\ ~f[i].fin
        BY <1>14, <2>3
    <2> HIDE DEF f, a
    <2>5. Chain(a, t, hi)
        BY <1>11 DEF a
    <2>6. Chain(f \o a, lo, hi)
        BY <1>1, <2>4, <2>5, ChainMeets
    <2> QED BY <2>2, <2>6 DEF e, hi, f, a
<1>16. CASE q # <<>> /\ rest = <<>>
    <2>1. e = IF q[k].fin THEN q ELSE Append(CutLast(front, t), s)
        BY <1>2, <1>3, <1>16
    <2>2. k = Len(q) /\ k \in 1..Len(q)
        BY <1>5, <1>8, <1>16
    <2>3. CASE q[k].fin
        BY <1>1, <2>1, <2>3 DEF e, hi
    <2>4. CASE ~q[k].fin
        <3>1. \A i \in 1..k : ~q[i].fin
            <4>1. ASSUME NEW i \in 1..k, i # k PROVE ~q[i].fin
                <5>1. i \in 1..Len(q) /\ i < k
                    BY <1>8, <1>9, <4>1
                <5>2. Before(q[i], q[k])
                    BY <1>1, <2>2, <5>1, ChainFacts
                <5> QED BY <5>2 DEF Before
            <4> QED BY <2>4, <4>1
        <3> DEFINE f == CutLast(front, t)
                   a == <<s>>
        <3>2. Chain(f, lo, hi) /\ \A i \in 1..Len(f) : f[i].seqno + f[i].len <= t /\ ~f[i].fin
            BY <1>14, <3>1
        <3>3. Chain(a, t, hi)
            BY <1>1, ChainOne
        <3>4. Append(f, s) = f \o a
            <4> HIDE DEF f
            <4>1. f \in Seq(Segments) /\ s \in Segments
                BY <3>2, ChainFacts DEF Piece
            <4> QED BY <4>1
        <3> HIDE DEF f, a
        <3>5. Chain(f \o a, lo, hi)
            BY <1>1, <3>2, <3>3, ChainMeets
        <3>6. e = f \o a
            BY <2>1, <2>4, <3>4, Zenon DEF f
        <3> QED BY <3>5, <3>6 DEF e, hi
    <2> QED BY <2>3, <2>4
<1> QED BY <1>12, <1>13, <1>15, <1>16

-----------------------------------------------------------------------------
(* The window and the acknowledgements *)

\* From p to q no more than the window, what is announced of it and the
\* flags have changed.
Keeps(p, q) ==
    /\ q.state = p.state /\ q.rcv_nxt = p.rcv_nxt /\ q.ooseq = p.ooseq
    /\ q.ackno = p.ackno /\ q.rcv_ann_right_edge = p.rcv_ann_right_edge

\* The window lies within the numbers.
WindowSound(p) == p.rcv_nxt + p.rcv_wnd \in Numbers

LEMMA PcbFacts ==
    ASSUME NoWrap, NEW p \in Pcbs
    PROVE  /\ p.rcv_nxt \in Numbers /\ p.rcv_nxt \in Nat /\ p.rcv_nxt \in First..(Final + 1)
           /\ p.rcv_wnd \in Nat /\ p.rcv_ann_wnd \in Nat
           /\ p.rcv_ann_right_edge \in Numbers /\ p.rcv_ann_right_edge \in Nat
           /\ p.ackno \in First..(Final + 1) /\ p.ackno \in Nat
           /\ p.flags \in SUBSET {"ACK_NOW", "ACK_DELAY"}
           /\ p.state \in {"ESTABLISHED", "CLOSE_WAIT"} /\ p.ooseq \in Seq(Segments)
<1>1. First \in Nat /\ Final \in Nat /\ Wnd \in Nat
    BY NumbersSmall
<1>2. /\ p.rcv_nxt \in First..(Final + 1) /\ p.rcv_wnd \in Nat /\ p.rcv_ann_wnd \in Nat
      /\ p.rcv_ann_right_edge \in Numbers /\ p.ackno \in First..(Final + 1)
      /\ p.flags \in SUBSET {"ACK_NOW", "ACK_DELAY"}
      /\ p.state \in {"ESTABLISHED", "CLOSE_WAIT"} /\ p.ooseq \in Seq(Segments)
    BY DEF Pcbs
<1>3. p.rcv_nxt \in Numbers /\ p.rcv_nxt \in Nat /\ p.ackno \in Nat /\ p.rcv_ann_right_edge \in Nat
    BY <1>1, <1>2 DEF Numbers
<1> QED BY <1>2, <1>3

LEMMA NewFlags ==
    ASSUME NEW p \in Pcbs, NEW f \in SUBSET {"ACK_NOW", "ACK_DELAY"}
    PROVE  LET q == [p EXCEPT !.flags = f]
           IN  /\ q \in Pcbs /\ Keeps(p, q)
               /\ q.rcv_wnd = p.rcv_wnd /\ q.rcv_ann_wnd = p.rcv_ann_wnd
BY DEF Pcbs, Keeps

\* The flags are all that tcp_ack and tcp_ack_now change.
LEMMA AckIs ==
    ASSUME NEW p \in Pcbs, NEW q \in {Ack(p), AckNow(p)}
    PROVE  q \in Pcbs /\ Keeps(p, q) /\ q.rcv_wnd = p.rcv_wnd /\ q.rcv_ann_wnd = p.rcv_ann_wnd
<1>1. p.flags \in SUBSET {"ACK_NOW", "ACK_DELAY"}
    BY DEF Pcbs
<1>2. PICK f \in SUBSET {"ACK_NOW", "ACK_DELAY"} : q = [p EXCEPT !.flags = f]
    <2>1. CASE q = AckNow(p)
        <3>1. p.flags \union {"ACK_NOW"} \in SUBSET {"ACK_NOW", "ACK_DELAY"}
            BY <1>1
        <3> QED BY <2>1, <3>1 DEF AckNow
    <2>2. CASE q = Ack(p)
        <3>1. (p.flags \ {"ACK_DELAY"}) \union {"ACK_NOW"} \in SUBSET {"ACK_NOW", "ACK_DELAY"}
              /\ p.flags \union {"ACK_DELAY"} \in SUBSET {"ACK_NOW", "ACK_DELAY"}
            BY <1>1
        <3>2. q = [p EXCEPT !.flags = (p.flags \ {"ACK_DELAY"}) \union {"ACK_NOW"}]
              \/ q = [p EXCEPT !.flags = p.flags \union {"ACK_DELAY"}]
            BY <2>2 DEF Ack
        <3> QED BY <3>1, <3>2
    <2> QED BY <2>1, <2>2
<1> QED BY <1>2, NewFlags

LEMMA EdgeKept ==
    ASSUME NEW p, NEW q, EdgeSound(p), Keeps(p, q),
           q.rcv_wnd = p.rcv_wnd, q.rcv_ann_wnd = p.rcv_ann_wnd
    PROVE  EdgeSound(q)
BY DEF EdgeSound, Keeps

\* Whatever tcp_update_rcv_ann_wnd decides, the edge announced before stays
\* inside and the window is not exceeded.
LEMMA UpdateIs ==
    ASSUME NoWrap, NEW p \in Pcbs, WindowSound(p),
           p.rcv_ann_right_edge <= p.rcv_nxt + p.rcv_wnd
    PROVE  LET q == UpdateRcvAnnWnd(p)
           IN  q \in Pcbs /\ Keeps(p, q) /\ q.rcv_wnd = p.rcv_wnd /\ EdgeSound(q)
<1> DEFINE nxt == p.rcv_nxt
           edge == p.rcv_ann_right_edge
           ann == CASE MayAnnounce(p) -> p.rcv_wnd
                    [] ~MayAnnounce(p) /\ SeqGt(nxt, edge) -> 0
                    [] OTHER -> Distance(nxt, edge)
           q == UpdateRcvAnnWnd(p)
<1>1. nxt \in Numbers /\ nxt \in Nat /\ edge \in Numbers /\ edge \in Nat /\ p.rcv_wnd \in Nat
    BY PcbFacts
<1>2. SeqGt(nxt, edge) <=> nxt > edge
    BY <1>1, NumGt
<1>3. ann \in Nat /\ ann <= p.rcv_wnd /\ edge <= nxt + ann
    <2>1. CASE MayAnnounce(p)
        <3>1. ann = p.rcv_wnd
            BY <2>1
        <3> HIDE DEF ann
        <3> QED BY <1>1, <3>1
    <2>2. CASE ~MayAnnounce(p) /\ SeqGt(nxt, edge)
        <3>1. ann = 0
            BY <2>2
        <3> HIDE DEF ann
        <3> QED BY <1>1, <1>2, <2>2, <3>1
    <2>3. CASE ~MayAnnounce(p) /\ ~SeqGt(nxt, edge)
        <3>1. nxt <= edge
            BY <1>1, <1>2, <2>3
        <3>2. Distance(nxt, edge) = edge - nxt
            BY <1>1, <3>1, NumDistance
        <3>3. ann = Distance(nxt, edge)
            BY <2>3
        <3> HIDE DEF ann
        <3> QED BY <1>1, <3>1, <3>2, <3>3
    <2> QED BY <2>1, <2>2, <2>3
<1>4. q = [p EXCEPT !.rcv_ann_wnd = ann]
    BY DEF UpdateRcvAnnWnd
<1> HIDE DEF ann
<1>5. q \in Pcbs /\ Keeps(p, q) /\ q.rcv_wnd = p.rcv_wnd /\ q.rcv_ann_wnd = ann
    BY <1>3, <1>4 DEF Pcbs, Keeps
<1> HIDE DEF q
<1>6. EdgeSound(q)
    BY <1>3, <1>5 DEF EdgeSound, Keeps
<1> QED BY <1>5, <1>6 DEF q

\* A segment that leaves announces an edge that is not behind the last one.
LEMMA SendAckIs ==
    ASSUME NoWrap, NEW p \in Pcbs, WindowSound(p), EdgeSound(p)
    PROVE  LET q == SendAck(p)
           IN  /\ q \in Pcbs /\ EdgeSound(q)
               /\ q.state = p.state /\ q.rcv_nxt = p.rcv_nxt /\ q.ooseq = p.ooseq
               /\ q.rcv_wnd = p.rcv_wnd /\ q.ackno = p.rcv_nxt
               /\ p.rcv_ann_right_edge <= q.rcv_ann_right_edge
<1> DEFINE e == p.rcv_nxt + p.rcv_ann_wnd
           q == SendAck(p)
<1>1. p.rcv_nxt \in Nat /\ p.rcv_nxt \in First..(Final + 1) /\ p.rcv_wnd \in Nat /\ p.rcv_ann_wnd \in Nat
      /\ First \in Nat /\ Final \in Nat /\ Wnd \in Nat /\ p.rcv_ann_right_edge \in Nat
    BY PcbFacts, NumbersSmall
<1>2. e \in Numbers /\ p.rcv_ann_right_edge <= e /\ p.rcv_ann_wnd <= p.rcv_wnd
    BY <1>1 DEF WindowSound, EdgeSound, Numbers
<1>3. Add(p.rcv_nxt, p.rcv_ann_wnd) = e
    BY <1>1, <1>2, NumAdd
<1> HIDE DEF e
<1>4. q = [p EXCEPT !.flags = {}, !.ackno = p.rcv_nxt, !.rcv_ann_right_edge = e]
    BY <1>3 DEF SendAck
<1>5. /\ q \in Pcbs /\ q.state = p.state /\ q.rcv_nxt = p.rcv_nxt /\ q.ooseq = p.ooseq
      /\ q.rcv_wnd = p.rcv_wnd /\ q.ackno = p.rcv_nxt /\ q.rcv_ann_wnd = p.rcv_ann_wnd
      /\ q.rcv_ann_right_edge = e
    BY <1>1, <1>2, <1>4 DEF Pcbs
<1> HIDE DEF q
<1>6. EdgeSound(q)
    <2>1. e <= p.rcv_nxt + p.rcv_ann_wnd
        BY <1>1 DEF e
    <2> QED BY <1>2, <1>5, <2>1 DEF EdgeSound
<1> QED BY <1>2, <1>5, <1>6 DEF q

\* What tcp_recved and the end of the stream give back.
LEMMA RecvedIs ==
    ASSUME NoWrap, NEW p \in Pcbs, WindowSound(p), EdgeSound(p), NEW n \in Nat,
           p.rcv_wnd + n <= Wnd, p.rcv_nxt + p.rcv_wnd + n \in Numbers
    PROVE  LET q == Recved(p, n)
           IN  q \in Pcbs /\ Keeps(p, q) /\ q.rcv_wnd = p.rcv_wnd + n /\ EdgeSound(q)
<1> DEFINE w == p.rcv_wnd + n
           u == [p EXCEPT !.rcv_wnd = MinOf(@ + n, Wnd)]
           v == UpdateRcvAnnWnd(u)
           q == Recved(p, n)
<1>1. p.rcv_nxt \in Nat /\ p.rcv_wnd \in Nat /\ p.rcv_ann_wnd \in Nat /\ p.rcv_ann_right_edge \in Nat
      /\ Wnd \in Nat
    BY PcbFacts, NumbersSmall
<1>2. MinOf(w, Wnd) = w /\ w \in Nat
    BY <1>1 DEF MinOf
<1>3. u = [p EXCEPT !.rcv_wnd = w]
    BY <1>2 DEF Pcbs
<1> HIDE DEF w
<1>4. u \in Pcbs /\ Keeps(p, u) /\ u.rcv_wnd = w
    BY <1>2, <1>3 DEF Pcbs, Keeps
<1> HIDE DEF u
<1>5. WindowSound(u) /\ u.rcv_ann_right_edge <= u.rcv_nxt + u.rcv_wnd
    <2>1. u.rcv_nxt = p.rcv_nxt /\ u.rcv_ann_right_edge = p.rcv_ann_right_edge
        BY <1>4 DEF Keeps
    <2>2. p.rcv_nxt + w \in Numbers
        BY <1>1 DEF w
    <2>3. p.rcv_ann_right_edge <= p.rcv_nxt + w
        BY <1>1 DEF w, EdgeSound
    <2> QED BY <1>4, <2>1, <2>2, <2>3 DEF WindowSound
<1>6. v \in Pcbs /\ Keeps(u, v) /\ v.rcv_wnd = u.rcv_wnd /\ EdgeSound(v)
    BY <1>4, <1>5, UpdateIs
<1>7. q \in {v, AckNow(v)}
    BY DEF Recved, u
<1> HIDE DEF v
<1>8. q \in Pcbs /\ Keeps(v, q) /\ q.rcv_wnd = v.rcv_wnd /\ q.rcv_ann_wnd = v.rcv_ann_wnd
    <2>1. CASE q = v
        BY <1>6, <2>1 DEF Keeps
    <2>2. CASE q = AckNow(v)
        BY <1>6, <2>2, AckIs
    <2> QED BY <1>7, <2>1, <2>2
<1> HIDE DEF q
<1>9. EdgeSound(q)
    BY <1>6, <1>8, EdgeKept
<1>10. Keeps(p, q) /\ q.rcv_wnd = w
    BY <1>4, <1>6, <1>8 DEF Keeps
<1> QED BY <1>8, <1>9, <1>10 DEF q, w

LEMMA EndEventIs ==
    ASSUME NoWrap, NEW p \in Pcbs, EdgeSound(p), p.rcv_wnd + 1 = Wnd
    PROVE  LET q == EndEvent(p)
           IN  q \in Pcbs /\ Keeps(p, q) /\ q.rcv_wnd = Wnd /\ EdgeSound(q)
<1> DEFINE q == EndEvent(p)
<1>1. p.rcv_wnd \in Nat /\ p.rcv_ann_wnd \in Nat /\ p.rcv_wnd # Wnd /\ Wnd \in Nat
    BY PcbFacts, NumbersSmall
<1>2. q = [p EXCEPT !.rcv_wnd = p.rcv_wnd + 1]
    BY <1>1 DEF EndEvent
<1>3. q = [p EXCEPT !.rcv_wnd = Wnd]
    BY <1>2
<1>4. q \in Pcbs /\ Keeps(p, q) /\ q.rcv_wnd = Wnd /\ q.rcv_ann_wnd = p.rcv_ann_wnd
    BY <1>1, <1>3 DEF Pcbs, Keeps
<1> HIDE DEF q
<1>5. EdgeSound(q)
    <2>1. p.rcv_ann_wnd <= Wnd
        BY <1>1 DEF EdgeSound
    <2> QED BY <1>4, <2>1 DEF EdgeSound, Keeps
<1> QED BY <1>4, <1>5 DEF q

\* tcp_output acknowledges or does nothing.
LEMMA OutputIs ==
    ASSUME NoWrap, NEW p \in Pcbs, WindowSound(p), EdgeSound(p), p.ackno <= p.rcv_nxt
    PROVE  LET q == Output(p)
           IN  /\ q \in Pcbs /\ EdgeSound(q)
               /\ q.state = p.state /\ q.rcv_nxt = p.rcv_nxt /\ q.ooseq = p.ooseq
               /\ q.rcv_wnd = p.rcv_wnd /\ p.ackno <= q.ackno /\ q.ackno <= q.rcv_nxt
               /\ p.rcv_ann_right_edge <= q.rcv_ann_right_edge
<1>1. p.rcv_nxt \in Nat /\ p.ackno \in Nat /\ p.rcv_ann_right_edge \in Nat
    BY PcbFacts
<1>2. CASE "ACK_NOW" \in p.flags
    <2> DEFINE q == SendAck(p)
    <2>1. Output(p) = q
        BY <1>2 DEF Output
    <2>2. /\ q \in Pcbs /\ EdgeSound(q)
          /\ q.state = p.state /\ q.rcv_nxt = p.rcv_nxt /\ q.ooseq = p.ooseq
          /\ q.rcv_wnd = p.rcv_wnd /\ q.ackno = p.rcv_nxt
          /\ p.rcv_ann_right_edge <= q.rcv_ann_right_edge
        BY SendAckIs
    <2> HIDE DEF q
    <2> QED BY <1>1, <2>1, <2>2
<1>3. CASE ~("ACK_NOW" \in p.flags)
    <2>1. Output(p) = p
        BY <1>3 DEF Output
    <2> QED BY <1>1, <2>1
<1> QED BY <1>2, <1>3

-----------------------------------------------------------------------------
(* The bytes of segments that follow one another *)

\* c is a followed by b.
Joins(a, b, c) == c = a \o b

\* v[i] is what the first i of the sequences d make when put together.
Concats(v, d, n) ==
    /\ n > 0 => v[1] = d[1]
    /\ \A i \in 1..n : i # 1 => Joins(v[i - 1], d[i], v[i])

\* Two ways to put them together make the same.
LEMMA ConcatsAgree ==
    ASSUME NEW n \in Nat, NEW d, NEW v, NEW w, Concats(v, d, n), Concats(w, d, n)
    PROVE  n > 0 => v[n] = w[n]
<1> DEFINE S == {k \in Nat : k + 1 <= n => v[k + 1] = w[k + 1]}
<1>1. 0 \in S
    <2>1. ASSUME 0 + 1 <= n PROVE v[0 + 1] = w[0 + 1]
        BY <2>1 DEF Concats
    <2> QED BY <2>1
<1>2. ASSUME NEW k \in Nat, k \in S PROVE k + 1 \in S
    <2> SUFFICES ASSUME (k + 1) + 1 <= n PROVE v[(k + 1) + 1] = w[(k + 1) + 1]
        OBVIOUS
    <2>1. (k + 1) + 1 \in 1..n /\ (k + 1) + 1 # 1 /\ ((k + 1) + 1) - 1 = k + 1 /\ k + 1 <= n /\ n > 0
        OBVIOUS
    <2>2. v[k + 1] = w[k + 1]
        BY <1>2, <2>1
    <2> DEFINE m == (k + 1) + 1
    <2>3. m \in 1..n /\ m # 1 /\ m - 1 = k + 1
        BY <2>1
    <2> HIDE DEF m
    <2>4. Joins(v[m - 1], d[m], v[m]) /\ Joins(w[m - 1], d[m], w[m])
        BY <2>3, Zenon DEF Concats
    <2>5. v[m] = w[m]
        BY <2>2, <2>3, <2>4, Zenon DEF Joins
    <2> QED BY <2>5 DEF m
<1>3. \A k \in Nat : k \in S
    <2> HIDE DEF S
    <2> QED BY <1>1, <1>2, Induction
<1> SUFFICES ASSUME n > 0 PROVE v[n] = w[n]
    OBVIOUS
<1>4. PICK k \in Nat : n = k + 1
    <2>1. n - 1 \in Nat /\ n = (n - 1) + 1
        OBVIOUS
    <2> QED BY <2>1
<1> QED BY <1>3, <1>4

\* FlattenSeq puts them together.
LEMMA FlattenIs ==
    ASSUME NEW n \in Nat, n > 0, NEW d, Len(d) = n, NEW v, Concats(v, d, n)
    PROVE  FlattenSeq(d) = v[n]
<1> DEFINE Def(g) == g = [i \in 1..n |-> IF i = 1 THEN d[i] ELSE g[i - 1] \o d[i]]
           u == [i \in 1..n |-> v[i]]
<1>1. Def(u)
    <2>1. ASSUME NEW i \in 1..n
          PROVE v[i] = IF i = 1 THEN d[i] ELSE u[i - 1] \o d[i]
        <3>1. CASE i = 1
            BY <3>1 DEF Concats
        <3>2. CASE i # 1
            <4>1. i - 1 \in 1..n
                BY <3>2
            <4>2. u[i - 1] = v[i - 1] /\ Joins(v[i - 1], d[i], v[i])
                BY <3>2, <4>1 DEF Concats
            <4>3. v[i] = u[i - 1] \o d[i]
                BY <4>2 DEF Joins
            <4> QED BY <3>2, <4>3
        <3> QED BY <3>1, <3>2
    <2> QED BY <2>1
<1> DEFINE g == CHOOSE g : Def(g)
<1>2. Def(g)
    <2> HIDE DEF Def
    <2> QED BY <1>1
<1>3. FlattenSeq(d) = g[n]
    BY DEF FlattenSeq
<1>4. Concats(g, d, n)
    <2> HIDE DEF g
    <2>1. \A i \in 1..n : g[i] = IF i = 1 THEN d[i] ELSE g[i - 1] \o d[i]
        BY <1>2, Zenon
    <2>2. 1 \in 1..n
        OBVIOUS
    <2>3. g[1] = d[1]
        BY <2>1, <2>2, Zenon
    <2>4. \A i \in 1..n : i # 1 => Joins(g[i - 1], d[i], g[i])
        BY <2>1, Zenon DEF Joins
    <2> QED BY <2>3, <2>4 DEF Concats
<1> HIDE DEF g
<1>5. g[n] = v[n]
    BY <1>4, ConcatsAgree
<1> QED BY <1>3, <1>5

\* n bytes of the stream, behind the first b.
Run(b, n) == [j \in 1..n |-> b + j]

LEMMA RunIs ==
    ASSUME NEW b \in Nat, NEW n \in Nat
    PROVE  Run(b, n) \in Seq(Nat) /\ Len(Run(b, n)) = n /\ \A j \in 1..n : Run(b, n)[j] = b + j
BY DEF Run

LEMMA RunJoins ==
    ASSUME NEW b \in Nat, NEW m \in Nat, NEW n \in Nat, NEW c, c = b + m, NEW e, e = m + n
    PROVE  Joins(Run(b, m), Run(c, n), Run(b, e))
<1> DEFINE r == Run(b, m)
           s == Run(c, n)
           t == Run(b, e)
<1>1. r \in Seq(Nat) /\ Len(r) = m /\ \A j \in 1..m : r[j] = b + j
    BY RunIs
<1>2. s \in Seq(Nat) /\ Len(s) = n /\ \A j \in 1..n : s[j] = c + j
    <2>1. c \in Nat
        OBVIOUS
    <2> QED BY <2>1, RunIs
<1>3. t \in Seq(Nat) /\ Len(t) = e /\ \A j \in 1..e : t[j] = b + j
    <2>1. e \in Nat
        OBVIOUS
    <2> QED BY <2>1, RunIs
<1> HIDE DEF r, s, t
<1> DEFINE u == r \o s
<1>4. /\ u \in Seq(Nat) /\ Len(u) = Len(r) + Len(s)
      /\ \A j \in 1..(Len(r) + Len(s)) : u[j] = IF j <= Len(r) THEN r[j] ELSE s[j - Len(r)]
    BY <1>1, <1>2, ConcatProperties
<1> HIDE DEF u
<1>5. ASSUME NEW j \in 1..e PROVE u[j] = t[j]
    <2>1. CASE j <= m
        <3>1. j \in 1..m /\ u[j] = r[j]
            BY <1>1, <1>2, <1>4, <2>1
        <3> QED BY <1>1, <1>3, <3>1
    <2>2. CASE j > m
        <3>1. j - m \in 1..n /\ u[j] = s[j - m]
            BY <1>1, <1>2, <1>4, <2>2
        <3>2. s[j - m] = c + (j - m) /\ c + (j - m) = b + j
            BY <1>2, <3>1
        <3> QED BY <1>3, <3>1, <3>2
    <2> QED BY <2>1, <2>2
<1>6. Len(u) = e
    BY <1>1, <1>2, <1>4
<1>7. u = t
    BY <1>3, <1>4, <1>5, <1>6, SeqEqual
<1> QED BY <1>7 DEF u, r, s, t, Joins

\* The data of the first n segments of q put together.
DataOf(q, n) == FlattenSeq([i \in 1..n |-> q[i].data])

\* The first n segments of q are pieces that follow one another.
Contiguous(q, n) ==
    /\ \A i \in 1..n : Piece(q[i]) /\ q[1].seqno <= q[i].seqno
    /\ \A i \in 1..(n - 1) : q[i + 1].seqno = q[i].seqno + q[i].len

\* The data of segments without a gap are the bytes from the first one's to
\* the last one's.
LEMMA RunsFlatten ==
    ASSUME NoWrap, NEW q, NEW n \in Nat \ {0}, Contiguous(q, n),
           NEW b, b = q[1].seqno - First, NEW m, m = q[n].seqno + q[n].len - q[1].seqno
    PROVE  DataOf(q, n) = Run(b, m)
<1> DEFINE B == q[1].seqno - First
           E(i) == q[i].seqno + q[i].len - q[1].seqno
           d == [i \in 1..n |-> q[i].data]
           v == [i \in 1..n |-> Run(B, E(i))]
<1>1. First \in Nat /\ 1 \in 1..n /\ n \in 1..n
    BY NumbersSmall
<1>0. /\ \A i \in 1..n : Piece(q[i]) /\ q[1].seqno <= q[i].seqno
      /\ \A i \in 1..(n - 1) : q[i + 1].seqno = q[i].seqno + q[i].len
    BY DEF Contiguous
<1>2. \A i \in 1..n : /\ q[i].seqno \in Nat /\ q[i].len \in Nat /\ First <= q[i].seqno
                      /\ q[i].data = Run(q[i].seqno - First, q[i].len)
    BY <1>0, PieceFacts DEF Piece, Run
<1>3. B \in Nat /\ q[1].seqno \in Nat /\ \A i \in 1..n : E(i) \in Nat
    BY <1>0, <1>1, <1>2
<1>4. v[1] = d[1]
    <2>1. v[1] = Run(B, E(1)) /\ d[1] = q[1].data
        BY <1>1
    <2>2. E(1) = q[1].len
        BY <1>1, <1>2
    <2>3. q[1].data = Run(B, q[1].len)
        BY <1>1, <1>2
    <2> QED BY <2>1, <2>2, <2>3
<1>5. ASSUME NEW i \in 1..n, i # 1 PROVE Joins(v[i - 1], d[i], v[i])
    <2>1. PICK k \in 1..(n - 1) : i = k + 1 /\ k \in 1..n /\ k = i - 1
        <3>1. i - 1 \in 1..(n - 1) /\ i = (i - 1) + 1 /\ i - 1 \in 1..n
            BY <1>5
        <3> QED BY <3>1
    <2>2. q[i].seqno = q[k].seqno + q[k].len
        BY <1>0, <2>1
    <2>3. E(k) = q[i].seqno - q[1].seqno /\ q[i].seqno - First = B + E(k) /\ E(i) = E(k) + q[i].len
        BY <1>1, <1>2, <1>3, <2>1, <2>2
    <2>4. v[k] = Run(B, E(k)) /\ v[i] = Run(B, E(i)) /\ d[i] = q[i].data
        BY <2>1
    <2>5. d[i] = Run(q[i].seqno - First, q[i].len)
        BY <1>2, <2>4
    <2> DEFINE c == q[i].seqno - First
               a == E(k)
               e == E(i)
    <2>6. a \in Nat /\ c = B + a /\ e = a + q[i].len /\ q[i].len \in Nat
        BY <1>2, <1>3, <2>1, <2>3
    <2> HIDE DEF a, c, e, B
    <2>7. Joins(Run(B, a), Run(c, q[i].len), Run(B, e))
        BY <1>3, <2>6, RunJoins
    <2>8. v[i - 1] = Run(B, a) /\ v[i] = Run(B, e) /\ d[i] = Run(c, q[i].len)
        BY <2>1, <2>4, <2>5 DEF a, c, e
    <2> HIDE DEF v, d
    <2> QED BY <2>7, <2>8
<1>6. Len(d) = n
    OBVIOUS
<1>7. v[n] = Run(B, E(n))
    BY <1>1
<1> HIDE DEF v, d
<1>8. Concats(v, d, n)
    BY <1>4, <1>5 DEF Concats
<1>9. FlattenSeq(d) = v[n]
    <2>1. n \in Nat /\ n > 0
        OBVIOUS
    <2> QED BY <1>6, <1>8, <2>1, FlattenIs
<1>10. DataOf(q, n) = v[n]
    BY <1>9, Zenon DEF DataOf, d
<1>11. B = b /\ E(n) = m
    OBVIOUS
<1> QED BY <1>7, <1>10, <1>11

-----------------------------------------------------------------------------
(* tcp_receive *)

\* A pcb between two segments.
Ready(p) ==
    /\ p \in Pcbs /\ p.rcv_wnd = Wnd /\ EdgeSound(p)
    /\ Chain(p.ooseq, p.rcv_nxt + 1, p.rcv_nxt + Wnd)
    /\ p.state = "ESTABLISHED" => p.rcv_nxt <= Final
    /\ p.state = "CLOSE_WAIT" => p.rcv_nxt = Final + 1 /\ p.ooseq = <<>>
    /\ p.ackno <= p.rcv_nxt

\* r is what tcp_receive may make of p: rcv_nxt moves on over the data that
\* is handed up, and over the FIN when there is nothing more to come.
Received(p, r) ==
    /\ r = [pcb |-> r.pcb, data |-> r.data, fin |-> r.fin]
    /\ r.pcb \in Pcbs /\ r.fin \in BOOLEAN /\ r.pcb.state = p.state
    /\ p.rcv_nxt <= r.pcb.rcv_nxt
    /\ r.pcb.rcv_nxt + r.pcb.rcv_wnd = p.rcv_nxt + Wnd
    /\ EdgeSound(r.pcb) /\ p.rcv_ann_right_edge <= r.pcb.rcv_ann_right_edge
    /\ Chain(r.pcb.ooseq, r.pcb.rcv_nxt + 1, p.rcv_nxt + Wnd)
    /\ r.data = Run(p.rcv_nxt - First, MinOf(r.pcb.rcv_nxt, Final) - MinOf(p.rcv_nxt, Final))
    /\ r.fin <=> p.rcv_nxt <= Final /\ r.pcb.rcv_nxt = Final + 1
    /\ r.pcb.rcv_nxt = Final + 1 => r.pcb.ooseq = <<>>
    /\ p.ackno <= r.pcb.ackno /\ r.pcb.ackno <= r.pcb.rcv_nxt

LEMMA ReadyFacts ==
    ASSUME NoWrap, NEW p, Ready(p)
    PROVE  /\ p \in Pcbs /\ WindowSound(p) /\ p.rcv_wnd = Wnd /\ EdgeSound(p)
           /\ p.rcv_nxt \in Nat /\ p.rcv_nxt \in Numbers /\ p.rcv_nxt + Wnd \in Numbers
           /\ p.rcv_nxt + Wnd \in Nat /\ First <= p.rcv_nxt /\ p.rcv_nxt <= Final + 1
           /\ p.rcv_ann_right_edge \in Nat /\ p.rcv_ann_right_edge <= p.rcv_nxt + Wnd
           /\ p.ackno \in Nat /\ p.ackno <= p.rcv_nxt
<1>1. p \in Pcbs /\ p.rcv_wnd = Wnd /\ EdgeSound(p) /\ p.ackno <= p.rcv_nxt
    BY DEF Ready
<1>2. /\ p.rcv_nxt \in Nat /\ p.rcv_nxt \in Numbers /\ p.rcv_nxt \in First..(Final + 1)
      /\ p.rcv_ann_right_edge \in Nat /\ p.ackno \in Nat /\ p.rcv_ann_wnd \in Nat
    BY <1>1, PcbFacts
<1>3. First \in Nat /\ Final \in Nat /\ Wnd \in Nat
    BY NumbersSmall
<1>4. p.rcv_nxt + Wnd \in Numbers /\ p.rcv_nxt + Wnd \in Nat
    BY <1>2, <1>3 DEF Numbers
<1>5. p.rcv_ann_right_edge <= p.rcv_nxt + Wnd
    BY <1>1, <1>2, <1>3 DEF EdgeSound
<1> QED BY <1>1, <1>2, <1>3, <1>4, <1>5 DEF WindowSound

\* How many segments follow one another without a gap, in the words of
\* InSequence.
Follows(all, i) == all[i + 1].seqno = Add(all[i].seqno, TcpLen(all[i]))
RunCount(all) ==
    CHOOSE n \in 1..Len(all) :
        /\ \A i \in 1..(n - 1) : Follows(all, i)
        /\ n < Len(all) => ~Follows(all, n)

\* The first k segments follow one another, and no more do.
IsRun(all, k) ==
    /\ k \in 1..Len(all)
    /\ \A i \in 1..(k - 1) : all[i + 1].seqno = all[i].seqno + all[i].len
    /\ k < Len(all) => all[k + 1].seqno # all[k].seqno + all[k].len

LEMMA RunLength ==
    ASSUME NoWrap, NEW lo \in Int, NEW hi \in Int, NEW all, Chain(all, lo, hi), Len(all) > 0
    PROVE  IsRun(all, RunCount(all))
<1> DEFINE follows(i) == Follows(all, i)
           n == Len(all)
           Prop(m) == (\A i \in 1..(m - 1) : follows(i)) /\ (m < n => ~follows(m))
           k == CHOOSE m \in 1..n : Prop(m)
           S == {i \in Nat : follows(i)}
<1>1. n \in Nat \ {0} /\ n - 1 \in Nat
    BY ChainFacts
<1>2. ASSUME NEW i \in 1..(n - 1) PROVE follows(i) <=> all[i + 1].seqno = all[i].seqno + all[i].len
    <2>1. i \in 1..n /\ n \in 1..n /\ i < n
        BY <1>1
    <2>2. Piece(all[i]) /\ Before(all[i], all[n])
        BY <2>1, ChainFacts
    <2>3. Add(all[i].seqno, TcpLen(all[i])) = all[i].seqno + TcpLen(all[i]) /\ all[i] \in Segments
        BY <2>2, PieceFacts
    <2>4. TcpLen(all[i]) = all[i].len
        BY <2>2, <2>3, NoFin DEF Before
    <2> QED BY <2>3, <2>4 DEF Follows
<1>3. \E m \in 1..n : Prop(m)
    <2>1. PICK j \in 0..(n - 1) : (\A i \in 1..j : i \in S) /\ (j < n - 1 => j + 1 \notin S)
        <3> DEFINE l == n - 1
        <3> HIDE DEF S, l
        <3>1. \E j \in 0..l : (\A i \in 1..j : i \in S) /\ (j < l => j + 1 \notin S)
            <4>1. l \in Nat
                BY <1>1 DEF l
            <4> QED BY <4>1, FirstFailure
        <3> QED BY <3>1 DEF l
    <2> DEFINE m == j + 1
    <2>2. m \in 1..n /\ m - 1 = j /\ m \in Nat /\ (m < n => j < n - 1)
        BY <1>1
    <2>3. \A i \in 1..j : follows(i)
        BY <2>1
    <2>4. m < n => ~follows(m)
        <3>1. m \in S <=> follows(m)
            BY <2>2
        <3> QED BY <2>1, <2>2, <3>1
    <2> HIDE DEF m
    <2>5. Prop(m)
        BY <2>2, <2>3, <2>4
    <2> QED BY <2>2, <2>5
<1>4. k \in 1..n /\ Prop(k)
    <2> HIDE DEF Prop
    <2> QED BY <1>3
<1> HIDE DEF k
<1>5. ASSUME NEW i \in 1..(k - 1) PROVE all[i + 1].seqno = all[i].seqno + all[i].len
    <2>1. i \in 1..(n - 1) /\ follows(i)
        BY <1>1, <1>4
    <2> QED BY <1>2, <2>1
<1>6. k < n => all[k + 1].seqno # all[k].seqno + all[k].len
    <2> SUFFICES ASSUME k < n PROVE all[k + 1].seqno # all[k].seqno + all[k].len
        OBVIOUS
    <2>1. k \in 1..(n - 1) /\ ~follows(k)
        BY <1>1, <1>4
    <2> QED BY <1>2, <2>1
<1>7. IsRun(all, k)
    BY <1>4, <1>5, <1>6 DEF IsRun
<1>8. RunCount(all) = k
    BY DEF RunCount, k
<1> QED BY <1>7, <1>8

\* Where the segments that follow one another end: their data, whether they
\* have the FIN, and the gap behind them.
RunEnds(all, k, lo, hi, nxt, fin, data) ==
    /\ nxt \in Nat /\ lo <= nxt /\ nxt <= hi /\ nxt <= Final + 1
    /\ fin <=> nxt = Final + 1
    /\ nxt = Final + 1 => k = Len(all)
    /\ \A i \in (k + 1)..Len(all) : nxt + 1 <= all[i].seqno
    /\ data = Run(lo - First, MinOf(nxt, Final) - lo)

LEMMA RunEnd ==
    ASSUME NoWrap, NEW hi \in Int, NEW all, Chain(all, all[1].seqno, hi), NEW k, IsRun(all, k)
    PROVE  RunEnds(all, k, all[1].seqno, hi, Add(all[k].seqno, TcpLen(all[k])),
                   \E i \in 1..k : all[i].fin, FlattenSeq([i \in 1..k |-> all[i].data]))
<1> DEFINE n == Len(all)
           a == all[k]
           end == a.seqno + a.len
           nxt == Add(a.seqno, TcpLen(a))
           fin == \E i \in 1..k : all[i].fin
           data == FlattenSeq([i \in 1..k |-> all[i].data])
<1>0. /\ k \in 1..Len(all)
      /\ \A i \in 1..(k - 1) : all[i + 1].seqno = all[i].seqno + all[i].len
      /\ k < Len(all) => all[k + 1].seqno # all[k].seqno + all[k].len
    BY DEF IsRun
<1>1. n \in Nat /\ k \in 1..n /\ 1 \in 1..n /\ n \in 1..n /\ Final \in Nat /\ k \in Nat \ {0}
    <2>1. Len(all) \in Nat
        BY ChainFacts
    <2>2. Final \in Nat
        BY NumbersSmall
    <2> QED BY <1>0, <2>1, <2>2
<1>2. \A i \in 1..n : /\ Piece(all[i]) /\ Within(all[i], all[1].seqno, hi)
                      /\ all[i].seqno \in Nat /\ all[i].len \in Nat /\ all[1].seqno <= all[i].seqno
    BY ChainFacts, PieceFacts DEF Within
<1>3. /\ a.seqno \in Nat /\ a.len \in Nat /\ TcpLen(a) \in Nat /\ a.len <= TcpLen(a)
      /\ nxt = a.seqno + TcpLen(a) /\ end <= Final /\ a \in Segments
      /\ all[1].seqno <= a.seqno /\ all[1].seqno \in Nat /\ nxt <= hi /\ nxt <= Final + 1
    <2>1. Piece(a) /\ Within(a, all[1].seqno, hi)
        BY <1>1, <1>2
    <2>2. /\ a.seqno \in Nat /\ a.len \in Nat /\ TcpLen(a) \in Nat /\ a.len <= TcpLen(a)
          /\ nxt = a.seqno + TcpLen(a) /\ end <= Final /\ a \in Segments
          /\ a.seqno + TcpLen(a) <= Final + 1
        BY <2>1, PieceFacts
    <2>3. a.seqno + TcpLen(a) <= hi /\ all[1].seqno <= a.seqno
        BY <2>1 DEF Within
    <2>4. all[1].seqno \in Nat
        BY <1>1, <1>2
    <2> QED BY <2>2, <2>3, <2>4
<1>4. a.fin => nxt = Final + 1 /\ end = Final
    <2> SUFFICES ASSUME a.fin PROVE nxt = Final + 1 /\ end = Final
        OBVIOUS
    <2>1. Piece(a)
        BY <1>1, <1>2
    <2>2. end = Final /\ TcpLen(a) = a.len + 1
        BY <2>1 DEF Piece, TcpLen
    <2>3. nxt = a.seqno + (a.len + 1)
        BY <1>3, <2>2
    <2>4. a.seqno \in Nat /\ a.len \in Nat /\ a.seqno + a.len = Final
        BY <1>3, <2>2
    <2>5. a.seqno + (a.len + 1) = Final + 1
        BY <2>4, NextAfter
    <2> QED BY <2>2, <2>3, <2>5
<1>5. ~a.fin => nxt = end
    BY <1>3, NoFin
<1>6. ASSUME NEW i \in 1..n, i < n PROVE ~all[i].fin
    <2>1. Before(all[i], all[n])
        BY <1>1, <1>6, ChainFacts
    <2> QED BY <2>1 DEF Before
<1> HIDE DEF nxt, end, a, n, fin, data
<1>7. a.fin <=> nxt = Final + 1
    BY <1>1, <1>3, <1>4, <1>5
<1>8. fin <=> a.fin
    <2>1. ASSUME NEW i \in 1..k, all[i].fin PROVE a.fin
        <3>1. i \in 1..n /\ ~(i < n)
            BY <1>1, <1>6, <2>1
        <3>2. i = k
            BY <1>1, <3>1
        <3> QED BY <2>1, <3>2 DEF a
    <2>2. a.fin => all[k].fin /\ k \in 1..k
        BY <1>1 DEF a
    <2> QED BY <2>1, <2>2, Zenon DEF fin
<1>9. nxt = Final + 1 => k = n
    <2>1. a.fin => ~(k < n)
        BY <1>1, <1>6 DEF a
    <2> QED BY <1>1, <1>7, <2>1
<1>10. MinOf(nxt, Final) = end
    <2>1. CASE a.fin
        BY <1>1, <1>4, <2>1 DEF MinOf
    <2>2. CASE ~a.fin
        BY <1>1, <1>3, <1>5, <2>2 DEF MinOf
    <2> QED BY <2>1, <2>2
<1>11. ASSUME NEW i \in (k + 1)..n PROVE nxt + 1 <= all[i].seqno
    <2> DEFINE m == k + 1
    <2>1. k < n /\ k < m /\ m \in 1..n /\ i \in 1..n /\ (i = m \/ m < i)
        <3>1. n \in Nat /\ k \in Nat \ {0}
            BY <1>1
        <3> QED BY <3>1
    <2>2. ~a.fin /\ nxt = end
        <3>1. ~all[k].fin
            BY <1>1, <1>6, <2>1
        <3> QED BY <1>5, <3>1 DEF a
    <2>3. all[m].seqno # end
        BY <1>0, <2>1 DEF n, end, a
    <2> HIDE DEF m
    <2>4. Before(all[k], all[m])
        BY <1>1, <2>1, ChainFacts DEF n
    <2>5. end <= all[m].seqno
        BY <2>4 DEF Before, end, a
    <2>6. nxt + 1 <= all[m].seqno
        <3>1. end \in Nat /\ all[m].seqno \in Nat
            BY <1>2, <1>3, <2>1 DEF end
        <3> QED BY <2>2, <2>3, <2>5, <3>1
    <2>7. CASE i = m
        BY <2>6, <2>7
    <2>8. CASE m < i
        <3>1. Before(all[m], all[i])
            BY <2>1, <2>8, ChainFacts DEF n
        <3>2. all[m].seqno \in Nat /\ all[m].len \in Nat /\ all[i].seqno \in Nat
            BY <1>2, <2>1
        <3>3. nxt \in Nat
            BY <1>3
        <3> QED BY <2>6, <3>1, <3>2, <3>3 DEF Before
    <2> QED BY <2>1, <2>7, <2>8
<1>12. data = Run(all[1].seqno - First, end - all[1].seqno)
    <2>1. \A i \in 1..k : i \in 1..n
        BY <1>1
    <2>2. \A i \in 1..k : Piece(all[i]) /\ all[1].seqno <= all[i].seqno
        BY <1>2, <2>1
    <2>3. Contiguous(all, k)
        BY <1>0, <2>2 DEF Contiguous
    <2> DEFINE b == all[1].seqno - First
               m == all[k].seqno + all[k].len - all[1].seqno
    <2>4. b = all[1].seqno - First /\ m = all[k].seqno + all[k].len - all[1].seqno
        OBVIOUS
    <2> HIDE DEF b, m
    <2>5. DataOf(all, k) = Run(b, m)
        BY <1>1, <2>3, <2>4, RunsFlatten
    <2>6. data = DataOf(all, k)
        BY Zenon DEF data, DataOf
    <2>7. m = end - all[1].seqno
        <3>1. a = all[k]
            BY DEF a
        <3>2. end = a.seqno + a.len
            BY DEF end
        <3> QED BY <1>3, <2>4, <3>1, <3>2
    <2> QED BY <2>4, <2>5, <2>6, <2>7
<1>13. nxt \in Nat /\ all[1].seqno <= nxt
    BY <1>3
<1>14. RunEnds(all, k, all[1].seqno, hi, nxt, fin, data)
    BY <1>3, <1>7, <1>8, <1>9, <1>10, <1>11, <1>12, <1>13 DEF RunEnds, n
<1> QED BY <1>14, Zenon DEF nxt, a, fin, data

LEMMA InSequenceIs ==
    ASSUME NoWrap, NEW p, Ready(p), p.rcv_nxt <= Final, NEW s, Piece(s), s.seqno = p.rcv_nxt,
           s.seqno + TcpLen(s) <= p.rcv_nxt + Wnd
    PROVE  Received(p, InSequence(p, s))
<1> DEFINE r == p.rcv_nxt
           hi == r + Wnd
           all == Absorb(s, p.ooseq)
           n == Len(all)
           k == RunCount(all)
           nxt == Add(all[k].seqno, TcpLen(all[k]))
           rest == SubSeq(all, k + 1, n)
           u == [p EXCEPT !.rcv_nxt = nxt, !.rcv_wnd = @ - Distance(p.rcv_nxt, nxt), !.ooseq = rest]
           v == UpdateRcvAnnWnd(u)
           w == Ack(v)
           data == FlattenSeq([i \in 1..k |-> all[i].data])
           fin == \E i \in 1..k : all[i].fin
<1>1. /\ p \in Pcbs /\ p.rcv_wnd = Wnd /\ EdgeSound(p) /\ r \in Nat /\ hi \in Nat /\ hi \in Numbers
      /\ r \in Numbers /\ First <= r /\ p.rcv_ann_right_edge \in Nat /\ p.rcv_ann_right_edge <= hi
      /\ p.ackno <= r /\ p.ackno \in Nat
    BY ReadyFacts
<1>2. First \in Nat /\ Final \in Nat /\ Wnd \in Nat
    BY NumbersSmall
<1>3. s.seqno = r /\ TcpLen(s) \in Nat /\ r + TcpLen(s) <= hi /\ TcpLen(s) <= Wnd /\ r \in Int /\ hi \in Int
      /\ r <= r
    <2>1. TcpLen(s) \in Nat
        BY PieceFacts
    <2> QED BY <1>1, <1>2, <2>1
<1>4. InSequence(p, s) = [pcb |-> w, data |-> data, fin |-> fin]
    <2>1. ~(TcpLen(s) > p.rcv_wnd)
        BY <1>1, <1>2, <1>3
    <2> QED BY <2>1, Zenon DEF InSequence, RunCount, Follows
<1>5. Chain(all, r, hi) /\ Len(all) \in Nat \ {0} /\ all[1].seqno = r
    <2>1. Chain(p.ooseq, s.seqno, hi)
        <3>1. r + 1 \in Int /\ r <= r + 1 /\ hi <= hi
            BY <1>1
        <3> DEFINE l == r + 1
        <3>2. Chain(p.ooseq, l, hi)
            BY DEF Ready
        <3> HIDE DEF l, hi
        <3>3. Chain(p.ooseq, r, hi)
            <4>1. l \in Int /\ r <= l /\ hi \in Int /\ hi <= hi
                BY <1>3, <3>1 DEF l
            <4> QED BY <1>3, <3>2, <4>1, ChainWiden
        <3> QED BY <3>3
    <2>2. Within(s, r, hi)
        BY <1>3 DEF Within
    <2>3. r <= s.seqno
        BY <1>3
    <2> HIDE DEF hi
    <2> QED BY <1>3, <2>1, <2>2, <2>3, AbsorbIs
<1> HIDE DEF all, hi
<1>6. IsRun(all, k) /\ k \in 1..n
    <2>1. Len(all) > 0
        BY <1>5
    <2>2. IsRun(all, k)
        BY <1>3, <1>5, <2>1, RunLength
    <2> QED BY <2>2 DEF IsRun
<1> HIDE DEF k
<1>7. /\ nxt \in Nat /\ r <= nxt /\ nxt <= hi /\ nxt <= Final + 1
      /\ fin <=> nxt = Final + 1
      /\ nxt = Final + 1 => k = n
      /\ \A i \in (k + 1)..n : nxt + 1 <= all[i].seqno
      /\ data = Run(r - First, MinOf(nxt, Final) - r)
    <2>1. Chain(all, all[1].seqno, hi)
        BY <1>5
    <2>2. RunEnds(all, k, all[1].seqno, hi, nxt, fin, data)
        BY <1>3, <1>6, <2>1, RunEnd
    <2>3. RunEnds(all, k, r, hi, nxt, fin, data)
        BY <1>5, <2>2
    <2> HIDE DEF nxt, fin, data
    <2> QED BY <2>3 DEF RunEnds
<1> HIDE DEF nxt, data, fin
<1>8. /\ Chain(rest, nxt + 1, hi)
      /\ nxt = Final + 1 => rest = <<>>
    <2>1. k \in 0..n /\ nxt + 1 \in Int
        BY <1>5, <1>6, <1>7
    <2> DEFINE l == nxt + 1
    <2> HIDE DEF l
    <2>2. l \in Int /\ Beyond(all, k, l)
        BY <1>7, <2>1 DEF l, Beyond
    <2>3. rest = SubSeq(all, k + 1, Len(all)) /\ k \in 0..Len(all)
        BY <2>1
    <2> HIDE DEF rest
    <2>5. IsRest(rest, all, k, l, hi)
        BY <1>3, <1>5, <2>2, <2>3, RestIs
    <2>6. Chain(rest, l, hi) /\ Len(rest) = n - k
        BY <2>5 DEF IsRest
    <2> HIDE DEF n
    <2>4. nxt = Final + 1 => Len(rest) = 0
        BY <1>5, <1>7, <2>6 DEF n
    <2> QED BY <2>4, <2>6, ChainFacts DEF l
<1> DEFINE wnd == Wnd - (nxt - r)
<1>9. wnd \in Nat /\ nxt + wnd = hi /\ nxt \in First..(Final + 1) /\ nxt \in Numbers
    BY <1>1, <1>2, <1>7 DEF hi, Numbers
<1>10. u = [p EXCEPT !.rcv_nxt = nxt, !.rcv_wnd = wnd, !.ooseq = rest]
    <2>1. Distance(r, nxt) = nxt - r
        BY <1>1, <1>7, <1>9, NumDistance
    <2> QED BY <1>1, <2>1 DEF Pcbs
<1>11. rest \in Seq(Segments)
    BY <1>8, ChainFacts
<1> HIDE DEF wnd, rest
<1>12. /\ u \in Pcbs /\ u.state = p.state /\ u.rcv_nxt = nxt /\ u.rcv_wnd = wnd /\ u.ooseq = rest
       /\ u.ackno = p.ackno /\ u.rcv_ann_right_edge = p.rcv_ann_right_edge
    BY <1>1, <1>9, <1>10, <1>11 DEF Pcbs
<1> HIDE DEF u
<1>13. v \in Pcbs /\ Keeps(u, v) /\ v.rcv_wnd = u.rcv_wnd /\ EdgeSound(v)
    <2>1. WindowSound(u) /\ u.rcv_ann_right_edge <= u.rcv_nxt + u.rcv_wnd
        BY <1>1, <1>9, <1>12 DEF WindowSound
    <2> QED BY <1>12, <2>1, UpdateIs
<1> HIDE DEF v
<1>14. w \in Pcbs /\ Keeps(v, w) /\ w.rcv_wnd = v.rcv_wnd /\ w.rcv_ann_wnd = v.rcv_ann_wnd
    BY <1>13, AckIs
<1> HIDE DEF w
<1>15. EdgeSound(w)
    BY <1>13, <1>14, EdgeKept
<1>16. /\ w.state = p.state /\ w.rcv_nxt = nxt /\ w.rcv_wnd = wnd /\ w.ooseq = rest
       /\ w.ackno = p.ackno /\ w.rcv_ann_right_edge = p.rcv_ann_right_edge
    BY <1>12, <1>13, <1>14 DEF Keeps
<1> DEFINE res == [pcb |-> w, data |-> data, fin |-> fin]
<1>17. res.pcb = w /\ res.data = data /\ res.fin = fin
       /\ res = [pcb |-> res.pcb, data |-> res.data, fin |-> res.fin]
    OBVIOUS
<1>18. fin \in BOOLEAN
    BY DEF fin
<1>19. MinOf(r, Final) = r
    BY <1>1, <1>2 DEF MinOf
<1> HIDE DEF res
<1>20. /\ p.rcv_nxt <= w.rcv_nxt
       /\ w.rcv_nxt + w.rcv_wnd = p.rcv_nxt + Wnd
       /\ p.rcv_ann_right_edge <= w.rcv_ann_right_edge
       /\ p.ackno <= w.ackno /\ w.ackno <= w.rcv_nxt
    BY <1>1, <1>7, <1>9, <1>16 DEF hi
<1>21. Chain(w.ooseq, w.rcv_nxt + 1, p.rcv_nxt + Wnd)
    BY <1>8, <1>16 DEF hi
<1>22. res.fin <=> p.rcv_nxt <= Final /\ res.pcb.rcv_nxt = Final + 1
    BY <1>7, <1>16, <1>17
<1>23. res.pcb.rcv_nxt = Final + 1 => res.pcb.ooseq = <<>>
    BY <1>8, <1>16, <1>17
<1>24. res.data = Run(p.rcv_nxt - First, MinOf(res.pcb.rcv_nxt, Final) - MinOf(p.rcv_nxt, Final))
    BY <1>7, <1>16, <1>17, <1>19
<1>25. Received(p, res)
    BY <1>14, <1>15, <1>16, <1>17, <1>18, <1>20, <1>21, <1>22, <1>23, <1>24 DEF Received
<1> QED BY <1>4, <1>25 DEF res

\* A pcb on which nothing is received.
LEMMA NothingIs ==
    ASSUME NoWrap, NEW p, Ready(p), NEW q \in Pcbs,
           q.state = p.state, q.rcv_nxt = p.rcv_nxt, q.rcv_wnd = p.rcv_wnd, EdgeSound(q),
           p.rcv_ann_right_edge <= q.rcv_ann_right_edge,
           Chain(q.ooseq, p.rcv_nxt + 1, p.rcv_nxt + Wnd),
           p.rcv_nxt = Final + 1 => q.ooseq = <<>>,
           p.ackno <= q.ackno, q.ackno <= p.rcv_nxt
    PROVE  Received(p, Nothing(q))
<1> DEFINE r == Nothing(q)
<1>1. r = [pcb |-> q, data |-> <<>>, fin |-> FALSE]
    BY DEF Nothing
<1>2. r.pcb = q /\ r.data = <<>> /\ r.fin = FALSE /\ r = [pcb |-> r.pcb, data |-> r.data, fin |-> r.fin]
    BY <1>1
<1> HIDE DEF r
<1>3. p.rcv_nxt \in Nat /\ Final \in Nat /\ p.rcv_wnd = Wnd /\ Wnd \in Nat
    BY ReadyFacts, NumbersSmall
<1> DEFINE m == MinOf(p.rcv_nxt, Final)
<1>4. m - m = 0
    BY <1>3 DEF MinOf
<1> HIDE DEF m
<1>5. Run(p.rcv_nxt - First, m - m) = <<>>
    BY <1>4 DEF Run
<1>6. r.data = Run(p.rcv_nxt - First, MinOf(r.pcb.rcv_nxt, Final) - MinOf(p.rcv_nxt, Final))
    <2>1. MinOf(r.pcb.rcv_nxt, Final) = m /\ MinOf(p.rcv_nxt, Final) = m
        BY <1>2 DEF m
    <2> QED BY <1>2, <1>5, <2>1
<1>7. r.fin <=> p.rcv_nxt <= Final /\ r.pcb.rcv_nxt = Final + 1
    BY <1>2, <1>3
<1>8. r.pcb \in Pcbs /\ r.fin \in BOOLEAN /\ r.pcb.state = p.state
    BY <1>2
<1>9. /\ p.rcv_nxt <= r.pcb.rcv_nxt /\ r.pcb.rcv_nxt + r.pcb.rcv_wnd = p.rcv_nxt + Wnd
      /\ p.rcv_ann_right_edge <= r.pcb.rcv_ann_right_edge
      /\ p.ackno <= r.pcb.ackno /\ r.pcb.ackno <= r.pcb.rcv_nxt
    BY <1>2, <1>3
<1>10. EdgeSound(r.pcb) /\ Chain(r.pcb.ooseq, r.pcb.rcv_nxt + 1, p.rcv_nxt + Wnd)
       /\ (r.pcb.rcv_nxt = Final + 1 => r.pcb.ooseq = <<>>)
    BY <1>2
<1>11. Received(p, r)
    BY <1>2, <1>6, <1>7, <1>8, <1>9, <1>10 DEF Received
<1> QED BY <1>11 DEF r

\* The front of a segment that was received before is dropped.
LEMMA TrimmedIs ==
    ASSUME NoWrap, NEW p, Ready(p), NEW seg, Piece(seg), TcpLen(seg) > 0, NEW hi \in Int,
           seg.seqno + TcpLen(seg) <= hi
    PROVE  LET straddles == SeqBetween(p.rcv_nxt, Add(seg.seqno, 1), Add(seg.seqno, TcpLen(seg) - 1))
               s == IF straddles THEN Behind(seg, p.rcv_nxt) ELSE seg
           IN  Piece(s) /\ s.seqno + TcpLen(s) <= hi
<1> DEFINE r == p.rcv_nxt
           a == seg.seqno
           n == TcpLen(seg)
           straddles == SeqBetween(r, Add(a, 1), Add(a, n - 1))
           s == IF straddles THEN Behind(seg, r) ELSE seg
<1>1. r \in Nat /\ r \in Numbers
    BY ReadyFacts
<1>2. /\ a \in Nat /\ n \in Nat /\ n > 0 /\ seg.len \in Nat /\ seg.fin \in BOOLEAN /\ a \in Numbers
      /\ a + n \in Numbers /\ seg \in Segments /\ a + seg.len <= Final
    BY PieceFacts
<1>3. First \in Nat /\ Final \in Nat /\ Wnd \in Nat \ {0}
    BY NumbersSmall
<1>4. n = seg.len \/ n = seg.len + 1
    BY Zenon DEF TcpLen
<1>5. CASE ~straddles
    BY <1>5
<1>6. CASE straddles
    <2> HIDE DEF n
    <2>1. a + 1 \in Numbers /\ a + (n - 1) \in Numbers /\ n - 1 \in Int
        BY <1>2, <1>3 DEF Numbers
    <2>2. Add(a, 1) = a + 1 /\ Add(a, n - 1) = a + (n - 1)
        BY <1>2, <2>1, NumAdd
    <2>3. SeqGeq(r, a + 1) /\ SeqGeq(a + (n - 1), r)
        BY <1>6, <2>2 DEF SeqBetween
    <2>4. r >= a + 1 /\ a + (n - 1) >= r
        <3> DEFINE b == a + 1
                   c == a + (n - 1)
        <3> HIDE DEF b, c
        <3>1. SeqGeq(r, b) /\ SeqGeq(c, r) /\ b \in Numbers /\ c \in Numbers
            BY <2>1, <2>3 DEF b, c
        <3>2. r >= b /\ c >= r
            BY <1>1, <3>1, NumGeq
        <3> QED BY <3>2 DEF b, c
    <2>5. a <= r /\ r <= a + seg.len
        BY <1>1, <1>2, <1>4, <2>4
    <2> DEFINE t == Behind(seg, r)
    <2>6. Piece(t) /\ t.seqno = r /\ t.len = a + seg.len - r /\ t.fin = seg.fin
        BY <1>1, <2>5, BehindPiece
    <2>7. s = t
        BY <1>6
    <2> HIDE DEF t, s
    <2>8. (seg.fin => n = seg.len + 1 /\ TcpLen(t) = t.len + 1) /\ (~seg.fin => n = seg.len /\ TcpLen(t) = t.len)
        BY <2>6, Zenon DEF TcpLen, n
    <2>9. r + TcpLen(t) = a + n
        <3>1. CASE seg.fin
            BY <1>1, <1>2, <2>6, <2>8, <3>1
        <3>2. CASE ~seg.fin
            BY <1>1, <1>2, <2>6, <2>8, <3>2
        <3> QED BY <3>1, <3>2
    <2>10. Piece(s) /\ s.seqno + TcpLen(s) <= hi
        BY <2>6, <2>7, <2>9 DEF n
    <2> QED BY <2>10 DEF s, n
<1> QED BY <1>5, <1>6

\* tcp_receive, whatever segment of the announced window arrives.
LEMMA ReceiveIs ==
    ASSUME NoWrap, NEW p, Ready(p), NEW seg, Piece(seg),
           seg.seqno + TcpLen(seg) <= p.rcv_nxt + Wnd
    PROVE  Received(p, Receive(p, seg))
<1> DEFINE hi == p.rcv_nxt + Wnd
           straddles == SeqBetween(p.rcv_nxt, Add(seg.seqno, 1), Add(seg.seqno, TcpLen(seg) - 1))
           s == IF straddles THEN Behind(seg, p.rcv_nxt) ELSE seg
           open == p.state = "ESTABLISHED" /\ TcpLen(seg) > 0
<1>1. /\ p \in Pcbs /\ WindowSound(p) /\ p.rcv_wnd = Wnd /\ EdgeSound(p)
      /\ p.rcv_nxt \in Nat /\ p.rcv_nxt \in Numbers /\ hi \in Numbers /\ hi \in Nat
      /\ p.rcv_ann_right_edge \in Nat /\ p.ackno \in Nat /\ p.ackno <= p.rcv_nxt
    BY ReadyFacts
<1>2. /\ Chain(p.ooseq, p.rcv_nxt + 1, hi)
      /\ p.state = "ESTABLISHED" => p.rcv_nxt <= Final
      /\ p.rcv_nxt = Final + 1 => p.ooseq = <<>>
    <2>1. p.state \in {"ESTABLISHED", "CLOSE_WAIT"} /\ Final \in Nat
        BY <1>1, PcbFacts, NumbersSmall
    <2> QED BY <1>1, <2>1 DEF Ready
<1>3. TcpLen(seg) \in Nat
    BY PieceFacts
<1>4. TcpLen(seg) > 0 => Piece(s) /\ s.seqno + TcpLen(s) <= hi
    BY <1>1, TrimmedIs
<1> HIDE DEF s, hi
<1>5. Receive(p, seg) =
        CASE p.state # "ESTABLISHED" \/ TcpLen(seg) = 0 ->
                Nothing(IF InWindow(p, seg.seqno) THEN p ELSE AckNow(p))
          [] p.state = "ESTABLISHED" /\ TcpLen(seg) > 0 /\ ~InWindow(p, s.seqno) ->
                Nothing(SendAck(p))
          [] p.state = "ESTABLISHED" /\ TcpLen(seg) > 0 /\ s.seqno = p.rcv_nxt ->
                InSequence(p, s)
          [] OTHER ->
                Nothing([SendAck(p) EXCEPT !.ooseq = Enqueue(p, s)])
    BY DEF Receive, s
<1>6. open => s.seqno \in Numbers /\ s.seqno \in Nat /\ TcpLen(s) \in Nat
    BY <1>4, PieceFacts
<1>7. InWindow(p, s.seqno) => SeqGeq(s.seqno, p.rcv_nxt)
    BY DEF InWindow, SeqBetween
<1>8. open /\ s.seqno = p.rcv_nxt => InWindow(p, s.seqno)
    <2> SUFFICES ASSUME open, s.seqno = p.rcv_nxt PROVE InWindow(p, p.rcv_nxt)
        OBVIOUS
    <2> DEFINE e == p.rcv_nxt + (p.rcv_wnd - 1)
    <2>1. e \in Numbers /\ p.rcv_wnd - 1 \in Int /\ e >= p.rcv_nxt /\ p.rcv_nxt >= p.rcv_nxt
        <3>1. First \in Nat /\ Final \in Nat /\ Wnd \in Nat \ {0}
            BY NumbersSmall
        <3> QED BY <1>1, <3>1 DEF Numbers, hi
    <2>2. Add(p.rcv_nxt, p.rcv_wnd - 1) = e
        BY <1>1, <2>1, NumAdd
    <2> HIDE DEF e
    <2>3. SeqGeq(p.rcv_nxt, p.rcv_nxt) /\ SeqGeq(e, p.rcv_nxt)
        BY <1>1, <2>1, NumGeq
    <2> QED BY <2>2, <2>3 DEF InWindow, SeqBetween
<1> DEFINE a == SendAck(p)
<1>9. /\ a \in Pcbs /\ EdgeSound(a)
      /\ a.state = p.state /\ a.rcv_nxt = p.rcv_nxt /\ a.ooseq = p.ooseq
      /\ a.rcv_wnd = p.rcv_wnd /\ a.ackno = p.rcv_nxt
      /\ p.rcv_ann_right_edge <= a.rcv_ann_right_edge
    BY <1>1, SendAckIs
<1>10. CASE ~open
    <2> DEFINE q == IF InWindow(p, seg.seqno) THEN p ELSE AckNow(p)
    <2>1. Receive(p, seg) = Nothing(q)
        BY <1>3, <1>5, <1>10
    <2>2. q \in Pcbs /\ Keeps(p, q) /\ q.rcv_wnd = p.rcv_wnd /\ q.rcv_ann_wnd = p.rcv_ann_wnd
        <3>1. CASE q = p
            BY <1>1, <3>1 DEF Keeps
        <3>2. CASE q = AckNow(p)
            BY <1>1, <3>2, AckIs
        <3> QED BY <3>1, <3>2
    <2> HIDE DEF q
    <2>3. EdgeSound(q)
        BY <1>1, <2>2, EdgeKept
    <2>4. /\ q.state = p.state /\ q.rcv_nxt = p.rcv_nxt /\ q.ooseq = p.ooseq /\ q.ackno = p.ackno
          /\ q.rcv_ann_right_edge = p.rcv_ann_right_edge
        BY <2>2 DEF Keeps
    <2>5. Received(p, Nothing(q))
        <3>1. p.rcv_ann_right_edge <= q.rcv_ann_right_edge /\ p.ackno <= q.ackno /\ q.ackno <= p.rcv_nxt
            BY <1>1, <2>4
        <3>2. Chain(q.ooseq, p.rcv_nxt + 1, p.rcv_nxt + Wnd) /\ (p.rcv_nxt = Final + 1 => q.ooseq = <<>>)
            BY <1>2, <2>4 DEF hi
        <3> QED BY <2>2, <2>3, <2>4, <3>1, <3>2, NothingIs
    <2> QED BY <2>1, <2>5
<1>11. CASE open /\ ~InWindow(p, s.seqno)
    <2>1. Receive(p, seg) = Nothing(a)
        BY <1>5, <1>8, <1>11
    <2> HIDE DEF a
    <2>2. Received(p, Nothing(a))
        <3>1. p.ackno <= a.ackno /\ a.ackno <= p.rcv_nxt
            BY <1>1, <1>9
        <3>2. Chain(a.ooseq, p.rcv_nxt + 1, p.rcv_nxt + Wnd) /\ (p.rcv_nxt = Final + 1 => a.ooseq = <<>>)
            BY <1>2, <1>9 DEF hi
        <3> QED BY <1>9, <3>1, <3>2, NothingIs
    <2> QED BY <2>1, <2>2
<1>12. CASE open /\ InWindow(p, s.seqno) /\ s.seqno = p.rcv_nxt
    <2>1. Receive(p, seg) = InSequence(p, s)
        BY <1>5, <1>12
    <2>2. Received(p, InSequence(p, s))
        BY <1>2, <1>4, <1>12, InSequenceIs DEF hi
    <2> QED BY <2>1, <2>2
<1>13. CASE open /\ InWindow(p, s.seqno) /\ s.seqno # p.rcv_nxt
    <2> DEFINE e == Enqueue(p, s)
               b == [a EXCEPT !.ooseq = e]
    <2>1. Receive(p, seg) = Nothing(b)
        BY <1>5, <1>13
    <2>2. p.rcv_nxt + 1 <= s.seqno
        <3>1. s.seqno >= p.rcv_nxt
            BY <1>1, <1>6, <1>7, <1>13, NumGeq
        <3> QED BY <1>1, <1>6, <1>13, <3>1
    <2> DEFINE lo == p.rcv_nxt + 1
    <2>3. lo \in Int /\ Within(s, lo, p.rcv_nxt + p.rcv_wnd) /\ p.rcv_nxt + p.rcv_wnd \in Numbers
          /\ p.rcv_wnd \in Nat
        BY <1>1, <1>4, <1>13, <2>2 DEF Within, hi, Pcbs
    <2>4. Chain(e, lo, hi)
        <3> HIDE DEF lo, e
        <3>1. Chain(p.ooseq, lo, p.rcv_nxt + p.rcv_wnd)
            BY <1>1, <1>2 DEF lo, hi
        <3>2. Chain(Enqueue(p, s), lo, p.rcv_nxt + p.rcv_wnd)
            BY <1>1, <1>4, <1>13, <2>3, <3>1, EnqueueIs
        <3> QED BY <1>1, <3>2 DEF hi, e
    <2>5. e \in Seq(Segments)
        BY <2>4, ChainFacts
    <2> HIDE DEF e, a
    <2>6. /\ b \in Pcbs /\ b.state = a.state /\ b.rcv_nxt = a.rcv_nxt /\ b.ooseq = e
          /\ b.rcv_wnd = a.rcv_wnd /\ b.ackno = a.ackno /\ b.rcv_ann_wnd = a.rcv_ann_wnd
          /\ b.rcv_ann_right_edge = a.rcv_ann_right_edge
        BY <1>9, <2>5 DEF Pcbs
    <2> HIDE DEF b
    <2>7. EdgeSound(b)
        BY <1>9, <2>6 DEF EdgeSound
    <2>8. Received(p, Nothing(b))
        <3>1. /\ b.state = p.state /\ b.rcv_nxt = p.rcv_nxt /\ b.rcv_wnd = p.rcv_wnd
              /\ p.rcv_ann_right_edge <= b.rcv_ann_right_edge /\ p.ackno <= b.ackno /\ b.ackno <= p.rcv_nxt
            BY <1>1, <1>9, <2>6
        <3>2. Chain(b.ooseq, p.rcv_nxt + 1, p.rcv_nxt + Wnd)
            BY <2>4, <2>6 DEF hi
        <3>3. ~(p.rcv_nxt = Final + 1)
            <4>1. Final \in Nat
                BY NumbersSmall
            <4> QED BY <1>1, <1>2, <1>13, <4>1
        <3> QED BY <2>6, <2>7, <3>1, <3>2, <3>3, NothingIs
    <2> QED BY <2>1, <2>8 DEF a
<1> QED BY <1>10, <1>11, <1>12, <1>13

-----------------------------------------------------------------------------
(* A segment as a whole *)

\* tcp_process: a FIN that was reached changes the state and nothing else.
Closed(r) == IF r.fin THEN [r EXCEPT !.pcb = [AckNow(@) EXCEPT !.state = "CLOSE_WAIT"]] ELSE r

LEMMA ClosedIs ==
    ASSUME NoWrap, NEW p, Ready(p), NEW r, Received(p, r)
    PROVE  LET c == Closed(r)
           IN  /\ c.pcb \in Pcbs /\ c.data = r.data /\ c.fin = r.fin
               /\ c.pcb.state = IF r.fin THEN "CLOSE_WAIT" ELSE p.state
               /\ c.pcb.rcv_nxt = r.pcb.rcv_nxt /\ c.pcb.ooseq = r.pcb.ooseq
               /\ c.pcb.ackno = r.pcb.ackno
               /\ c.pcb.rcv_ann_right_edge = r.pcb.rcv_ann_right_edge
               /\ c.pcb.rcv_wnd = r.pcb.rcv_wnd /\ c.pcb.rcv_ann_wnd = r.pcb.rcv_ann_wnd
<1>1. /\ r = [pcb |-> r.pcb, data |-> r.data, fin |-> r.fin]
      /\ r.pcb \in Pcbs /\ r.fin \in BOOLEAN /\ r.pcb.state = p.state
    BY DEF Received
<1>2. CASE ~r.fin
    BY <1>1, <1>2, Zenon DEF Closed
<1>3. CASE r.fin
    <2> DEFINE a == AckNow(r.pcb)
               b == [a EXCEPT !.state = "CLOSE_WAIT"]
    <2>1. /\ a \in Pcbs /\ Keeps(r.pcb, a)
          /\ a.rcv_wnd = r.pcb.rcv_wnd /\ a.rcv_ann_wnd = r.pcb.rcv_ann_wnd
        BY <1>1, AckIs
    <2>2. Closed(r) = [r EXCEPT !.pcb = b]
        BY <1>3, Zenon DEF Closed
    <2> HIDE DEF a
    <2>3. /\ b \in Pcbs /\ b.state = "CLOSE_WAIT" /\ b.rcv_nxt = a.rcv_nxt /\ b.ooseq = a.ooseq
          /\ b.ackno = a.ackno /\ b.rcv_ann_right_edge = a.rcv_ann_right_edge
          /\ b.rcv_wnd = a.rcv_wnd /\ b.rcv_ann_wnd = a.rcv_ann_wnd
        BY <2>1 DEF Pcbs
    <2> HIDE DEF b
    <2>4. Closed(r) = [pcb |-> b, data |-> r.data, fin |-> r.fin]
        BY <1>1, <2>2
    <2>5. Closed(r).pcb = b /\ Closed(r).data = r.data /\ Closed(r).fin = r.fin
        BY <2>4
    <2> QED BY <1>3, <2>1, <2>3, <2>5, Zenon DEF Keeps
<1> QED BY <1>1, <1>2, <1>3

\* How far tcp_receive moved on: over the data, and over the FIN.
LEMMA ReceivedMoves ==
    ASSUME NoWrap, NEW p, Ready(p), NEW r, Received(p, r)
    PROVE  /\ r.data \in Seq(Nat) /\ Len(r.data) \in Nat
           /\ r.data = <<>> <=> Len(r.data) = 0
           /\ Len(r.data) = MinOf(r.pcb.rcv_nxt, Final) - MinOf(p.rcv_nxt, Final)
           /\ r.fin => r.pcb.rcv_wnd + Len(r.data) + 1 = Wnd
           /\ ~r.fin => r.pcb.rcv_wnd + Len(r.data) = Wnd
<1>1. /\ p.rcv_nxt \in Nat /\ First <= p.rcv_nxt /\ p.rcv_nxt <= Final + 1
    BY ReadyFacts
<1>2. First \in Nat /\ Final \in Nat /\ Wnd \in Nat \ {0}
    BY NumbersSmall
<1>3. r.pcb \in Pcbs /\ p.rcv_nxt <= r.pcb.rcv_nxt /\ r.pcb.rcv_nxt + r.pcb.rcv_wnd = p.rcv_nxt + Wnd
    BY DEF Received
<1>4. r.pcb.rcv_nxt \in Nat /\ r.pcb.rcv_wnd \in Nat /\ r.pcb.rcv_nxt <= Final + 1
    <2>1. r.pcb.rcv_nxt \in First..(Final + 1) /\ r.pcb.rcv_nxt \in Nat /\ r.pcb.rcv_wnd \in Nat
        BY <1>3, PcbFacts
    <2> QED BY <1>2, <2>1
<1> DEFINE b == p.rcv_nxt - First
           n == MinOf(r.pcb.rcv_nxt, Final) - MinOf(p.rcv_nxt, Final)
<1>5. b \in Nat /\ n \in Nat
    BY <1>1, <1>2, <1>3, <1>4 DEF MinOf
<1>6. r.data = Run(b, n)
    BY DEF Received
<1>7. r.fin <=> p.rcv_nxt <= Final /\ r.pcb.rcv_nxt = Final + 1
    BY DEF Received
<1>8. p.rcv_nxt <= Final /\ r.pcb.rcv_nxt = Final + 1 => r.pcb.rcv_wnd + n + 1 = Wnd
    BY <1>1, <1>2, <1>3, <1>4 DEF MinOf
<1>9. ~(p.rcv_nxt <= Final /\ r.pcb.rcv_nxt = Final + 1) => r.pcb.rcv_wnd + n = Wnd
    BY <1>1, <1>2, <1>3, <1>4 DEF MinOf
<1> HIDE DEF b, n
<1>10. r.data \in Seq(Nat) /\ Len(r.data) = n
    BY <1>5, <1>6, RunIs
<1>11. r.data = <<>> <=> Len(r.data) = 0
    BY <1>10
<1>12. /\ r.fin => r.pcb.rcv_wnd + Len(r.data) + 1 = Wnd
       /\ ~r.fin => r.pcb.rcv_wnd + Len(r.data) = Wnd
    BY <1>7, <1>8, <1>9, <1>10
<1>13. Len(r.data) \in Nat
    BY <1>5, <1>10
<1> QED BY <1>10, <1>11, <1>12, <1>13 DEF n

\* What the events of a segment make of the pcb: the window is whole again.
Restored(p, r, q) ==
    /\ q \in Pcbs /\ q.rcv_wnd = Wnd /\ EdgeSound(q)
    /\ q.state = IF r.fin THEN "CLOSE_WAIT" ELSE p.state
    /\ q.rcv_nxt = r.pcb.rcv_nxt /\ q.ooseq = r.pcb.ooseq
    /\ p.ackno <= q.ackno /\ q.ackno <= q.rcv_nxt
    /\ p.rcv_ann_right_edge <= q.rcv_ann_right_edge

LEMMA EventsIs ==
    ASSUME NoWrap, NEW p, Ready(p), NEW r, Received(p, r)
    PROVE  Restored(p, r, Events(Closed(r)))
<1> DEFINE c == Closed(r)
           n == Len(r.data)
           q == IF r.data # <<>> THEN Recved(c.pcb, n) ELSE c.pcb
<1>1. /\ c.pcb \in Pcbs /\ c.data = r.data /\ c.fin = r.fin
      /\ c.pcb.state = IF r.fin THEN "CLOSE_WAIT" ELSE p.state
      /\ c.pcb.rcv_nxt = r.pcb.rcv_nxt /\ c.pcb.ooseq = r.pcb.ooseq
      /\ c.pcb.ackno = r.pcb.ackno
      /\ c.pcb.rcv_ann_right_edge = r.pcb.rcv_ann_right_edge
      /\ c.pcb.rcv_wnd = r.pcb.rcv_wnd /\ c.pcb.rcv_ann_wnd = r.pcb.rcv_ann_wnd
    BY ClosedIs
<1>2. /\ n \in Nat /\ (r.data = <<>> <=> n = 0)
      /\ r.fin => r.pcb.rcv_wnd + n + 1 = Wnd
      /\ ~r.fin => r.pcb.rcv_wnd + n = Wnd
    BY ReceivedMoves
<1>3. /\ r.pcb \in Pcbs /\ r.fin \in BOOLEAN /\ EdgeSound(r.pcb)
      /\ p.rcv_nxt <= r.pcb.rcv_nxt /\ r.pcb.rcv_nxt + r.pcb.rcv_wnd = p.rcv_nxt + Wnd
      /\ p.ackno <= r.pcb.ackno /\ r.pcb.ackno <= r.pcb.rcv_nxt
      /\ p.rcv_ann_right_edge <= r.pcb.rcv_ann_right_edge
    BY DEF Received
<1>4. /\ p.rcv_nxt \in Nat /\ First <= p.rcv_nxt /\ p.rcv_nxt <= Final + 1
      /\ p.rcv_nxt + Wnd \in Numbers
    BY ReadyFacts
<1>5. /\ r.pcb.rcv_nxt \in Nat /\ r.pcb.rcv_wnd \in Nat /\ r.pcb.rcv_nxt <= Final + 1
      /\ First <= r.pcb.rcv_nxt
    <2>1. r.pcb.rcv_nxt \in First..(Final + 1) /\ r.pcb.rcv_nxt \in Nat /\ r.pcb.rcv_wnd \in Nat
        BY <1>3, PcbFacts
    <2>2. First \in Nat /\ Final \in Nat
        BY NumbersSmall
    <2> QED BY <2>1, <2>2
<1>6. First \in Nat /\ Final \in Nat /\ Wnd \in Nat \ {0}
    BY NumbersSmall
<1> HIDE DEF c, n
<1>7. WindowSound(c.pcb) /\ EdgeSound(c.pcb)
    <2>1. r.pcb.rcv_nxt + r.pcb.rcv_wnd \in Numbers
        BY <1>3, <1>4
    <2>2. EdgeSound(c.pcb)
        BY <1>1, <1>3 DEF EdgeSound
    <2> QED BY <1>1, <2>1, <2>2 DEF WindowSound
<1>8. /\ c.pcb.rcv_wnd + n <= Wnd
      /\ c.pcb.rcv_nxt + c.pcb.rcv_wnd + n \in Numbers
    <2>1. c.pcb.rcv_wnd + n <= Wnd
        BY <1>1, <1>2, <1>3, <1>5, <1>6
    <2>2. c.pcb.rcv_nxt + c.pcb.rcv_wnd + n \in Nat
        BY <1>1, <1>2, <1>5
    <2>3. c.pcb.rcv_nxt + c.pcb.rcv_wnd + n <= Final + 1 + Wnd
        BY <1>1, <1>2, <1>5, <1>6, <2>1
    <2>4. First <= c.pcb.rcv_nxt + c.pcb.rcv_wnd + n
        BY <1>1, <1>2, <1>5, <1>6
    <2> DEFINE m == c.pcb.rcv_nxt + c.pcb.rcv_wnd + n
    <2>5. m \in Nat /\ First <= m /\ m <= Final + 1 + Wnd
        BY <2>2, <2>3, <2>4
    <2> HIDE DEF m
    <2>6. m \in Numbers
        BY <1>6, <2>5 DEF Numbers
    <2> QED BY <2>1, <2>6 DEF m
<1>9. /\ q \in Pcbs /\ Keeps(c.pcb, q) /\ q.rcv_wnd = c.pcb.rcv_wnd + n /\ EdgeSound(q)
    <2>1. CASE r.data # <<>>
        <3>1. q = Recved(c.pcb, n)
            BY <2>1
        <3> QED BY <1>1, <1>2, <1>7, <1>8, <3>1, RecvedIs
    <2>2. CASE r.data = <<>>
        <3>1. q = c.pcb /\ n = 0 /\ c.pcb.rcv_wnd \in Nat
            BY <1>1, <1>2, <1>5, <2>2
        <3> QED BY <1>1, <1>7, <3>1 DEF Keeps
    <2> QED BY <2>1, <2>2
<1>10. Events(c) = IF r.fin THEN EndEvent(q) ELSE q
    BY <1>1, Zenon DEF Events, n
<1> HIDE DEF q
<1> DEFINE e == Events(c)
<1>11. e \in Pcbs /\ Keeps(q, e) /\ e.rcv_wnd = Wnd /\ EdgeSound(e)
    <2>1. CASE r.fin
        <3>1. e = EndEvent(q) /\ q.rcv_wnd + 1 = Wnd
            BY <1>1, <1>2, <1>9, <1>10, <2>1
        <3> QED BY <1>9, <3>1, EndEventIs
    <2>2. CASE ~r.fin
        <3>1. e = q /\ q.rcv_wnd = Wnd
            BY <1>1, <1>2, <1>9, <1>10, <2>2
        <3> QED BY <1>9, <3>1 DEF Keeps
    <2> QED BY <2>1, <2>2
<1> HIDE DEF e
<1>12. /\ e.state = IF r.fin THEN "CLOSE_WAIT" ELSE p.state
       /\ e.rcv_nxt = r.pcb.rcv_nxt /\ e.ooseq = r.pcb.ooseq /\ e.ackno = r.pcb.ackno
       /\ e.rcv_ann_right_edge = r.pcb.rcv_ann_right_edge
    BY <1>1, <1>9, <1>11, Zenon DEF Keeps
<1>13. Restored(p, r, e)
    BY <1>3, <1>11, <1>12, Zenon DEF Restored
<1> QED BY <1>13 DEF e, c

\* q is the pcb after a segment that handed up data and, if fin, the end.
Handled(p, q, data, fin) ==
    /\ Ready(q) /\ fin \in BOOLEAN
    /\ q.state = IF fin THEN "CLOSE_WAIT" ELSE p.state
    /\ p.rcv_nxt <= q.rcv_nxt /\ p.ackno <= q.ackno
    /\ p.rcv_ann_right_edge <= q.rcv_ann_right_edge
    /\ data = Run(p.rcv_nxt - First, MinOf(q.rcv_nxt, Final) - MinOf(p.rcv_nxt, Final))
    /\ fin <=> p.rcv_nxt <= Final /\ q.rcv_nxt = Final + 1

LEMMA HandledIs ==
    ASSUME NoWrap, NEW p, Ready(p), NEW seg, Piece(seg),
           seg.seqno + TcpLen(seg) <= p.rcv_nxt + Wnd
    PROVE  LET r == Process(p, seg)
           IN  Handled(p, Output(Events(r)), r.data, r.fin)
<1> DEFINE r == Receive(p, seg)
           e == Events(Closed(r))
           q == Output(e)
<1>1. Process(p, seg) = Closed(r)
    BY DEF Process, Closed
<1>2. Received(p, r)
    BY ReceiveIs
<1> HIDE DEF r
<1>3. Closed(r).data = r.data /\ Closed(r).fin = r.fin
    BY <1>2, ClosedIs
<1>4. Restored(p, r, e)
    BY <1>2, EventsIs
<1> HIDE DEF e
<1>5. /\ e \in Pcbs /\ e.rcv_wnd = Wnd /\ EdgeSound(e)
      /\ e.state = IF r.fin THEN "CLOSE_WAIT" ELSE p.state
      /\ e.rcv_nxt = r.pcb.rcv_nxt /\ e.ooseq = r.pcb.ooseq
      /\ p.ackno <= e.ackno /\ e.ackno <= e.rcv_nxt
      /\ p.rcv_ann_right_edge <= e.rcv_ann_right_edge
    BY <1>4, Zenon DEF Restored
<1>6. First \in Nat /\ Final \in Nat /\ Wnd \in Nat \ {0}
    BY NumbersSmall
<1>7. /\ e.rcv_nxt \in Nat /\ e.rcv_nxt \in First..(Final + 1) /\ e.ackno \in Nat
      /\ e.rcv_ann_right_edge \in Nat
    BY <1>5, PcbFacts
<1>8. WindowSound(e)
    BY <1>5, <1>6, <1>7 DEF WindowSound, Numbers
<1>9. /\ q \in Pcbs /\ EdgeSound(q)
      /\ q.state = e.state /\ q.rcv_nxt = e.rcv_nxt /\ q.ooseq = e.ooseq
      /\ q.rcv_wnd = e.rcv_wnd /\ e.ackno <= q.ackno /\ q.ackno <= q.rcv_nxt
      /\ e.rcv_ann_right_edge <= q.rcv_ann_right_edge
    BY <1>5, <1>8, OutputIs
<1> HIDE DEF q
<1>10. /\ p.rcv_nxt \in Nat /\ p.rcv_ann_right_edge \in Nat /\ p.ackno \in Nat
       /\ p.rcv_nxt <= Final + 1
    BY ReadyFacts
<1>11. q.rcv_nxt \in Nat /\ q.rcv_nxt <= Final + 1 /\ q.rcv_ann_right_edge \in Nat /\ q.ackno \in Nat
    <2>1. q.rcv_nxt \in First..(Final + 1)
        BY <1>9, PcbFacts
    <2>2. q.rcv_nxt <= Final + 1
        BY <1>6, <2>1
    <2>3. q.rcv_nxt \in Nat /\ q.rcv_ann_right_edge \in Nat /\ q.ackno \in Nat
        BY <1>9, PcbFacts
    <2> QED BY <2>2, <2>3
<1>12. /\ p.rcv_nxt <= q.rcv_nxt
       /\ r.data = Run(p.rcv_nxt - First, MinOf(q.rcv_nxt, Final) - MinOf(p.rcv_nxt, Final))
       /\ r.fin <=> p.rcv_nxt <= Final /\ q.rcv_nxt = Final + 1
       /\ q.rcv_nxt = Final + 1 => q.ooseq = <<>>
       /\ r.fin \in BOOLEAN
    BY <1>2, <1>5, <1>9 DEF Received
<1>13. p.ackno <= q.ackno /\ p.rcv_ann_right_edge <= q.rcv_ann_right_edge
    BY <1>5, <1>7, <1>9, <1>10, <1>11
<1>14. Chain(q.ooseq, q.rcv_nxt + 1, q.rcv_nxt + Wnd)
    <2> DEFINE lo == q.rcv_nxt + 1
               hi == p.rcv_nxt + Wnd
               hi2 == q.rcv_nxt + Wnd
    <2>1. Chain(q.ooseq, lo, hi)
        BY <1>2, <1>5, <1>9 DEF Received
    <2>2. lo \in Int /\ hi \in Int /\ hi2 \in Int /\ hi <= hi2 /\ lo <= lo
        <3>1. lo \in Int /\ lo <= lo
            BY <1>11
        <3>2. p.rcv_nxt <= q.rcv_nxt
            BY <1>12
        <3>3. Wnd \in Nat
            BY ReceiveAssumption DEF ReceiveAssumption
        <3>4. hi \in Int /\ hi2 \in Int /\ hi <= hi2
            BY <1>10, <1>11, <3>2, <3>3
        <3> QED BY <3>1, <3>4
    <2> HIDE DEF lo, hi, hi2
    <2>3. Chain(q.ooseq, lo, hi2)
        BY <2>1, <2>2, ChainWiden
    <2> QED BY <2>3 DEF lo, hi2
<1>15. q.state = IF r.fin THEN "CLOSE_WAIT" ELSE p.state
    BY <1>5, <1>9
<1>16. q.state = "ESTABLISHED" => q.rcv_nxt <= Final
    <2>1. /\ p.state = "ESTABLISHED" => p.rcv_nxt <= Final
        BY DEF Ready
    <2>2. q.state = "ESTABLISHED" => ~r.fin /\ p.rcv_nxt <= Final
        BY <1>12, <1>15, <2>1
    <2> QED BY <1>6, <1>11, <1>12, <2>2
<1>17. q.state = "CLOSE_WAIT" => q.rcv_nxt = Final + 1 /\ q.ooseq = <<>>
    <2>1. p.state = "CLOSE_WAIT" => p.rcv_nxt = Final + 1
        BY DEF Ready
    <2>2. q.state = "CLOSE_WAIT" => r.fin \/ p.rcv_nxt = Final + 1
        BY <1>12, <1>15, <2>1
    <2>3. p.rcv_nxt = Final + 1 => q.rcv_nxt = Final + 1
        BY <1>6, <1>10, <1>11, <1>12
    <2> QED BY <1>12, <2>2, <2>3
<1>18. Ready(q)
    <2>1. q.rcv_wnd = Wnd
        BY <1>5, <1>9
    <2> QED BY <1>9, <1>14, <1>16, <1>17, <2>1 DEF Ready
<1>19. Handled(p, q, r.data, r.fin)
    BY <1>12, <1>13, <1>15, <1>18 DEF Handled
<1>20. Output(Events(Process(p, seg))) = q
    BY <1>1 DEF q, e
<1>21. Process(p, seg).data = r.data /\ Process(p, seg).fin = r.fin
    BY <1>1, <1>3
<1> QED BY <1>19, <1>20, <1>21

-----------------------------------------------------------------------------
(* The steps *)

LEMMA InvReady ==
    ASSUME ReceiveInv
    PROVE  Ready(pcb)
BY DEF ReceiveInv, ReceiveTypeOK, WindowRestored, Progress, AcksBehind, Ready

\* What the peer may send lies inside the window.
LEMMA SendableFits ==
    ASSUME NoWrap, ReceiveInv, NEW a \in 0..StreamLen, NEW b \in a..StreamLen,
           NEW fin \in BOOLEAN, Sendable(a, b, fin)
    PROVE  LET seg == Segment(a, b, fin)
           IN  Piece(seg) /\ seg.seqno + TcpLen(seg) <= pcb.rcv_nxt + Wnd
<1> DEFINE s == Segment(a, b, fin)
           z == Segment(0, b, fin)
           edge == pcb.rcv_ann_right_edge
<1>1. fin => b = StreamLen
    BY DEF Sendable
<1>2. StreamLen \in Nat /\ First \in Nat /\ Wnd \in Nat \ {0} /\ Final \in Nat
    BY NumbersSmall
<1>3. a \in Nat /\ b \in Nat /\ a <= b /\ 0 \in 0..StreamLen /\ b \in 0..StreamLen
    BY <1>2
<1>4. Piece(s) /\ s.seqno = First + a /\ s.len = b - a /\ s.fin = fin
    BY <1>1, SegmentPiece
<1>5. z.len = b /\ z.fin = fin
    BY <1>3 DEF Segment
<1>6. TcpLen(z) <= Distance(First, edge)
    BY DEF Sendable
<1> HIDE DEF s, z
<1>7. a + TcpLen(s) = TcpLen(z)
    <2>1. CASE fin
        <3>1. TcpLen(s) = s.len + 1 /\ TcpLen(z) = z.len + 1
            BY <1>4, <1>5, <2>1 DEF TcpLen
        <3> QED BY <1>3, <1>4, <1>5, <3>1
    <2>2. CASE ~fin
        <3>1. TcpLen(s) = s.len /\ TcpLen(z) = z.len
            BY <1>4, <1>5, <2>2 DEF TcpLen
        <3> QED BY <1>3, <1>4, <1>5, <3>1
    <2> QED BY <2>1, <2>2
<1>8. Ready(pcb)
    BY InvReady
<1>9. edge \in Nat /\ edge <= pcb.rcv_nxt + Wnd /\ pcb.rcv_nxt \in Nat /\ pcb \in Pcbs
    BY <1>8, ReadyFacts
<1>10. edge \in Numbers
    BY <1>9, PcbFacts
<1> HIDE DEF edge
<1>11. Distance(First, edge) = edge - First
    <2>1. First \in Numbers /\ First <= edge
        BY <1>2, <1>10 DEF Numbers, Final
    <2> QED BY <1>10, <2>1, NumDistance
<1>12. TcpLen(s) \in Nat
    BY <1>4, PieceFacts
<1>13. s.seqno + TcpLen(s) <= pcb.rcv_nxt + Wnd
    <2>1. a + TcpLen(s) <= edge - First
        BY <1>6, <1>7, <1>11
    <2> QED BY <1>2, <1>3, <1>4, <1>9, <1>12, <2>1
<1> QED BY <1>4, <1>13 DEF s

\* What a handled segment hands up continues what was handed up before it.
LEMMA HandledData ==
    ASSUME NoWrap, NEW p, Ready(p), NEW q, NEW data, NEW fin, Handled(p, q, data, fin)
    PROVE  Prefix(MinOf(p.rcv_nxt, Final) - First) \o data = Prefix(MinOf(q.rcv_nxt, Final) - First)
<1>1. /\ p.rcv_nxt \in Nat /\ First <= p.rcv_nxt /\ p.rcv_nxt <= Final + 1
    BY ReadyFacts
<1>2. First \in Nat /\ Final \in Nat /\ First <= Final
    BY NumbersSmall
<1>3. Ready(q) /\ p.rcv_nxt <= q.rcv_nxt
    BY DEF Handled
<1>4. q.rcv_nxt \in Nat
    BY <1>3, ReadyFacts
<1> DEFINE m == MinOf(p.rcv_nxt, Final) - First
           e == MinOf(q.rcv_nxt, Final) - First
           n == MinOf(q.rcv_nxt, Final) - MinOf(p.rcv_nxt, Final)
           c == p.rcv_nxt - First
<1>5. data = Run(c, n)
    BY DEF Handled
<1>6. m \in Nat /\ e \in Nat /\ n \in Nat /\ c \in Nat /\ e = m + n
      /\ (c = m \/ n = 0) /\ m = 0 + m
    BY <1>1, <1>2, <1>3, <1>4 DEF MinOf
<1>7. Prefix(m) = Run(0, m) /\ Prefix(e) = Run(0, e)
    BY <1>6 DEF Prefix, Run
<1> HIDE DEF m, e, n, c
<1>8. Run(c, n) = Run(m, n)
    <2>1. CASE c = m
        BY <2>1
    <2>2. CASE n = 0
        BY <1>6, <2>2 DEF Run
    <2> QED BY <1>6, <2>1, <2>2
<1>9. Joins(Run(0, m), Run(m, n), Run(0, e))
    BY <1>6, RunJoins
<1>10. Prefix(m) \o data = Prefix(e)
    BY <1>5, <1>7, <1>8, <1>9 DEF Joins
<1> QED BY <1>10 DEF m, e

LEMMA TcpInputStep ==
    ASSUME NoWrap, ReceiveInv, NEW a \in 0..StreamLen, NEW b \in a..StreamLen,
           NEW fin \in BOOLEAN, TcpInput(a, b, fin)
    PROVE  \E data, end :
              /\ Handled(pcb, pcb', data, end)
              /\ delivered' = delivered \o data
              /\ eof' = (eof \/ end)
<1> DEFINE seg == Segment(a, b, fin)
           r == Process(pcb, seg)
<1>1. Sendable(a, b, fin) /\ pcb' = Output(Events(r)) /\ delivered' = delivered \o r.data
      /\ eof' = (eof \/ r.fin)
    BY DEF TcpInput
<1>2. Ready(pcb)
    BY InvReady
<1>3. Piece(seg) /\ seg.seqno + TcpLen(seg) <= pcb.rcv_nxt + Wnd
    BY <1>1, SendableFits
<1> HIDE DEF seg
<1>4. Handled(pcb, Output(Events(r)), r.data, r.fin)
    BY <1>2, <1>3, HandledIs
<1> HIDE DEF r
<1> DEFINE d == r.data
           x == r.fin
<1>5. Handled(pcb, pcb', d, x) /\ delivered' = delivered \o d /\ eof' = (eof \/ x)
    BY <1>1, <1>4
<1> HIDE DEF d, x
<1> QED BY <1>5

\* The edge is never moved back, whatever the pcb does.
Forward == pcb.rcv_ann_right_edge <= pcb'.rcv_ann_right_edge

LEMMA HandledStep ==
    ASSUME NoWrap, ReceiveInv, NEW data, NEW end, Handled(pcb, pcb', data, end),
           delivered' = delivered \o data, eof' = (eof \/ end),
           arrived' \in BOOLEAN, UNCHANGED peerAcked
    PROVE  ReceiveInv' /\ Forward
<1>1. /\ Ready(pcb') /\ end \in BOOLEAN
      /\ pcb'.state = IF end THEN "CLOSE_WAIT" ELSE pcb.state
      /\ pcb.rcv_nxt <= pcb'.rcv_nxt /\ pcb.ackno <= pcb'.ackno
      /\ pcb.rcv_ann_right_edge <= pcb'.rcv_ann_right_edge
      /\ end <=> pcb.rcv_nxt <= Final /\ pcb'.rcv_nxt = Final + 1
    BY DEF Handled
<1>2. Ready(pcb)
    BY InvReady
<1>3. /\ pcb' \in Pcbs /\ pcb'.rcv_wnd = Wnd /\ EdgeSound(pcb')
      /\ Chain(pcb'.ooseq, pcb'.rcv_nxt + 1, pcb'.rcv_nxt + Wnd)
      /\ pcb'.state = "ESTABLISHED" => pcb'.rcv_nxt <= Final
      /\ pcb'.state = "CLOSE_WAIT" => pcb'.rcv_nxt = Final + 1 /\ pcb'.ooseq = <<>>
      /\ pcb'.ackno <= pcb'.rcv_nxt
    BY <1>1, Zenon DEF Ready
<1>4. First \in Nat /\ Final \in Nat /\ First <= Final
    BY NumbersSmall
<1>5. /\ delivered = Prefix(MinOf(pcb.rcv_nxt, Final) - First)
      /\ pcb.state = "ESTABLISHED" => ~eof
      /\ pcb.state = "CLOSE_WAIT" => eof
      /\ eof \in BOOLEAN /\ pcb \in Pcbs /\ peerAcked \in First..(Final + 1) /\ peerAcked <= pcb.ackno
    BY DEF ReceiveInv, Progress, ReceiveTypeOK, AcksBehind
<1>6. delivered' = Prefix(MinOf(pcb'.rcv_nxt, Final) - First)
    BY <1>2, <1>5, HandledData
<1>7. delivered' \in Seq(Nat)
    <2>1. pcb'.rcv_nxt \in Nat /\ First <= pcb'.rcv_nxt
        BY <1>1, ReadyFacts
    <2> DEFINE n == MinOf(pcb'.rcv_nxt, Final) - First
    <2>2. n \in Nat
        BY <1>4, <2>1 DEF MinOf
    <2> HIDE DEF n
    <2>3. Prefix(n) \in Seq(Nat)
        BY <2>2 DEF Prefix
    <2> QED BY <1>6, <2>3 DEF n
<1>8. eof' \in BOOLEAN
    BY <1>1, <1>5
<1>9. ReceiveTypeOK'
    BY <1>3, <1>5, <1>7, <1>8 DEF ReceiveTypeOK
<1>10. Progress'
    <2>1. pcb.state \in {"ESTABLISHED", "CLOSE_WAIT"}
        BY <1>5 DEF Pcbs
    <2>2. pcb'.state = "ESTABLISHED" => ~eof'
        BY <1>1, <1>5, <2>1
    <2>3. pcb'.state = "CLOSE_WAIT" => eof'
        BY <1>1, <1>5, <2>1
    <2> QED BY <1>3, <1>6, <2>2, <2>3 DEF Progress
<1>11. AcksBehind'
    <2>1. pcb.ackno \in Nat /\ pcb'.ackno \in Nat /\ peerAcked \in Nat
        BY <1>3, <1>4, <1>5, PcbFacts
    <2>2. peerAcked <= pcb'.ackno
        BY <1>1, <1>5, <2>1
    <2> QED BY <1>3, <2>2 DEF AcksBehind
<1>12. WindowRestored'
    BY <1>3 DEF WindowRestored
<1>13. ReceiveInv'
    BY <1>3, <1>9, <1>10, <1>11, <1>12 DEF ReceiveInv
<1> QED BY <1>1, <1>13 DEF Forward

LEMMA SendsDataStep ==
    ASSUME NoWrap, ReceiveInv, SendsData
    PROVE  ReceiveInv' /\ Forward
<1> DEFINE q == SendAck(pcb)
<1>1. Ready(pcb)
    BY InvReady
<1>2. /\ pcb \in Pcbs /\ WindowSound(pcb) /\ EdgeSound(pcb) /\ pcb.rcv_nxt \in Nat
      /\ pcb.ackno \in Nat /\ pcb.ackno <= pcb.rcv_nxt
    BY <1>1, ReadyFacts
<1>3. /\ q \in Pcbs /\ EdgeSound(q)
      /\ q.state = pcb.state /\ q.rcv_nxt = pcb.rcv_nxt /\ q.ooseq = pcb.ooseq
      /\ q.rcv_wnd = pcb.rcv_wnd /\ q.ackno = pcb.rcv_nxt
      /\ pcb.rcv_ann_right_edge <= q.rcv_ann_right_edge
    BY <1>2, SendAckIs
<1>4. pcb' = q /\ UNCHANGED <<delivered, eof, peerAcked, arrived>>
    BY DEF SendsData
<1> HIDE DEF q
<1>5. /\ ReceiveTypeOK /\ WindowRestored /\ Progress /\ AcksBehind
      /\ Chain(pcb.ooseq, pcb.rcv_nxt + 1, pcb.rcv_nxt + Wnd)
    BY DEF ReceiveInv
<1>6. ReceiveTypeOK'
    BY <1>3, <1>4, <1>5 DEF ReceiveTypeOK
<1>7. WindowRestored'
    BY <1>3, <1>4, <1>5 DEF WindowRestored
<1>8. EdgeSound(pcb') /\ Chain(pcb'.ooseq, pcb'.rcv_nxt + 1, pcb'.rcv_nxt + Wnd)
    BY <1>3, <1>4, <1>5
<1>9. Progress'
    BY <1>3, <1>4, <1>5 DEF Progress
<1>10. AcksBehind'
    <2>1. peerAcked \in Nat
        <3>1. First \in Nat /\ Final \in Nat
            BY NumbersSmall
        <3> QED BY <1>5, <3>1 DEF ReceiveTypeOK
    <2>2. peerAcked <= pcb.rcv_nxt
        BY <1>2, <1>5, <2>1 DEF AcksBehind
    <2> QED BY <1>2, <1>3, <1>4, <2>2 DEF AcksBehind
<1>11. ReceiveInv'
    BY <1>6, <1>7, <1>8, <1>9, <1>10 DEF ReceiveInv
<1> QED BY <1>3, <1>4, <1>11 DEF Forward

LEMMA AckArrivesStep ==
    ASSUME NoWrap, ReceiveInv, AckArrives
    PROVE  ReceiveInv' /\ Forward
<1>1. peerAcked' = pcb.ackno /\ UNCHANGED <<pcb, delivered, eof, arrived>>
    BY DEF AckArrives
<1>2. /\ ReceiveTypeOK /\ WindowRestored /\ EdgeSound(pcb) /\ Progress /\ AcksBehind
      /\ Chain(pcb.ooseq, pcb.rcv_nxt + 1, pcb.rcv_nxt + Wnd)
    BY DEF ReceiveInv
<1>3. /\ pcb \in Pcbs /\ pcb.ackno \in First..(Final + 1) /\ pcb.ackno \in Nat
      /\ pcb.rcv_ann_right_edge \in Nat
    BY <1>2, PcbFacts DEF ReceiveTypeOK
<1>4. ReceiveTypeOK'
    BY <1>1, <1>2, <1>3 DEF ReceiveTypeOK
<1>5. WindowRestored' /\ Progress' /\ EdgeSound(pcb')
      /\ Chain(pcb'.ooseq, pcb'.rcv_nxt + 1, pcb'.rcv_nxt + Wnd)
    BY <1>1, <1>2 DEF WindowRestored, Progress
<1>6. AcksBehind'
    BY <1>1, <1>2, <1>3 DEF AcksBehind
<1>7. ReceiveInv'
    BY <1>4, <1>5, <1>6 DEF ReceiveInv
<1> QED BY <1>1, <1>3, <1>7 DEF Forward

LEMMA ReceiveInitial ==
    ASSUME NoWrap, Init
    PROVE  ReceiveInv
<1>1. First \in Nat /\ Final \in Nat /\ First <= Final /\ Wnd \in Nat \ {0} /\ First \in Int
      /\ First + Wnd \in Numbers
    <2>1. First \in Nat /\ Final \in Nat /\ First <= Final /\ Wnd \in Nat \ {0}
        BY NumbersSmall
    <2> QED BY <2>1 DEF Numbers
<1>2. Add(First, Wnd) = First + Wnd
    BY <1>1, NumAdd
<1>3. pcb = [state |-> "ESTABLISHED", rcv_nxt |-> First, rcv_wnd |-> Wnd, rcv_ann_wnd |-> Wnd,
             rcv_ann_right_edge |-> First + Wnd, flags |-> {}, ooseq |-> <<>>, ackno |-> First]
    BY <1>2 DEF Init
<1>4. delivered = <<>> /\ eof = FALSE /\ peerAcked = First /\ arrived = FALSE
    BY DEF Init
<1>5. First \in First..(Final + 1)
    BY <1>1
<1>6. pcb \in Pcbs
    BY <1>1, <1>3, <1>5 DEF Pcbs
<1>7. /\ pcb.state = "ESTABLISHED" /\ pcb.rcv_nxt = First /\ pcb.rcv_wnd = Wnd /\ pcb.rcv_ann_wnd = Wnd
      /\ pcb.rcv_ann_right_edge = First + Wnd /\ pcb.ooseq = <<>> /\ pcb.ackno = First
    BY <1>3
<1>8. ReceiveTypeOK
    <2>1. delivered \in Seq(Nat)
        BY <1>4
    <2>2. eof \in BOOLEAN /\ arrived \in BOOLEAN
        BY <1>4
    <2>3. peerAcked \in First..(Final + 1)
        BY <1>4, <1>5
    <2> QED BY <1>6, <2>1, <2>2, <2>3 DEF ReceiveTypeOK
<1>9. EdgeSound(pcb) /\ WindowRestored /\ AcksBehind
    BY <1>1, <1>4, <1>7 DEF EdgeSound, WindowRestored, AcksBehind
<1>10. Chain(pcb.ooseq, pcb.rcv_nxt + 1, pcb.rcv_nxt + Wnd)
    BY <1>7 DEF Chain
<1>11. Progress
    <2>1. MinOf(First, Final) - First = 0
        BY <1>1 DEF MinOf
    <2>2. Prefix(0) = <<>>
        BY DEF Prefix
    <2>3. delivered = Prefix(MinOf(pcb.rcv_nxt, Final) - First)
        BY <1>4, <1>7, <2>1, <2>2
    <2> QED BY <1>1, <1>4, <1>7, <2>3 DEF Progress
<1> QED BY <1>8, <1>9, <1>10, <1>11 DEF ReceiveInv

LEMMA ReceiveInductive ==
    ASSUME NoWrap, ReceiveInv, [Next]_vars
    PROVE  ReceiveInv' /\ Forward
<1>1. ASSUME NEW a \in 0..StreamLen, NEW b \in a..StreamLen, NEW fin \in BOOLEAN, TcpInput(a, b, fin)
      PROVE  ReceiveInv' /\ Forward
    <2>1. PICK data, end :
              /\ Handled(pcb, pcb', data, end)
              /\ delivered' = delivered \o data
              /\ eof' = (eof \/ end)
        BY <1>1, TcpInputStep
    <2>2. arrived' = ~arrived /\ UNCHANGED peerAcked
        BY <1>1 DEF TcpInput
    <2>3. arrived' \in BOOLEAN
        BY <2>2
    <2> QED BY <2>1, <2>2, <2>3, HandledStep
<1>2. CASE SendsData
    BY <1>2, SendsDataStep
<1>3. CASE AckArrives
    BY <1>3, AckArrivesStep
<1>4. CASE UNCHANGED vars
    <2>1. UNCHANGED <<pcb, delivered, eof, peerAcked, arrived>>
        BY <1>4 DEF vars
    <2>2. ReceiveInv'
        BY <2>1 DEF ReceiveInv, ReceiveTypeOK, WindowRestored, Progress, AcksBehind
    <2>3. pcb.rcv_ann_right_edge \in Nat
        <3>1. pcb \in Pcbs
            BY DEF ReceiveInv, ReceiveTypeOK
        <3> QED BY <3>1, PcbFacts
    <2> QED BY <2>1, <2>2, <2>3 DEF Forward
<1> QED BY <1>1, <1>2, <1>3, <1>4 DEF Next

-----------------------------------------------------------------------------
(* Theorems *)

\* Whatever segments of the peer arrive, in whatever order and however
\* often, the pcb, the queue and what was handed up keep to ReceiveInv
\* (tcp_receive, tcp_input, tcp_recved, tcp_output).
THEOREM ReceiveInvariant ==
    ASSUME NoWrap
    PROVE  Spec => []ReceiveInv
<1>1. Init => ReceiveInv
    BY ReceiveInitial
<1>2. ReceiveInv /\ [Next]_vars => ReceiveInv'
    BY ReceiveInductive
<1> QED BY <1>1, <1>2, PTL DEF Spec

\* The pcb keeps its type: rcv_nxt and the last acknowledgement never pass
\* the FIN, and the announced edge stays within a window of it.
THEOREM ReceiveTyped ==
    ASSUME NoWrap
    PROVE  Spec => []ReceiveTypeOK
<1>1. ReceiveInv => ReceiveTypeOK
    BY DEF ReceiveInv
<1> QED BY <1>1, ReceiveInvariant, PTL

\* Between two segments the whole window is open again, the FIN's byte
\* included (tcp_recved, TCP_EVENT_CLOSED in tcp_input).
THEOREM ReceiveWindow ==
    ASSUME NoWrap
    PROVE  Spec => []WindowRestored
<1>1. ReceiveInv => WindowRestored
    BY DEF ReceiveInv
<1> QED BY <1>1, ReceiveInvariant, PTL

\* The application is given the peer's stream from its beginning, nothing
\* twice and nothing left out, and rcv_nxt is what follows (tcp_receive and
\* the delivery in tcp_input).
THEOREM ReceiveIntact ==
    ASSUME NoWrap
    PROVE  Spec => []Intact
<1>1. ASSUME ReceiveInv PROVE Intact
    <2>1. First \in Nat /\ Final \in Nat /\ First <= Final /\ Wnd \in Nat \ {0} /\ StreamLen \in Nat
          /\ Final = First + StreamLen
        BY NumbersSmall DEF Final
    <2>2. Ready(pcb)
        BY <1>1, InvReady
    <2>3. pcb.rcv_nxt \in Nat /\ First <= pcb.rcv_nxt /\ pcb.rcv_nxt <= Final + 1 /\ pcb.rcv_nxt \in Numbers
        BY <2>2, ReadyFacts
    <2> DEFINE n == MinOf(pcb.rcv_nxt, Final) - First
    <2>4. n \in Nat
        BY <2>1, <2>3 DEF MinOf
    <2>5. delivered = Prefix(n)
        BY <1>1 DEF ReceiveInv, Progress
    <2>6. (pcb.rcv_nxt <= Final /\ pcb.rcv_nxt = First + n)
          \/ (n = StreamLen /\ pcb.rcv_nxt = First + (StreamLen + 1))
        BY <2>1, <2>3 DEF MinOf
    <2> HIDE DEF n
    <2>7. Len(delivered) = n /\ delivered = [i \in 1..n |-> i]
        BY <2>4, <2>5 DEF Prefix
    <2>8. CASE pcb.rcv_nxt <= Final /\ pcb.rcv_nxt = First + n
        <3>1. First + n \in Numbers
            BY <2>3, <2>8
        <3>2. SeqAt(n) = pcb.rcv_nxt
            BY <2>1, <2>4, <2>8, <3>1, NumAdd DEF SeqAt
        <3> QED BY <2>7, <3>2 DEF Intact
    <2>9. CASE n = StreamLen /\ pcb.rcv_nxt = First + (StreamLen + 1)
        <3> DEFINE m == StreamLen + 1
        <3>1. m \in Int /\ First + m \in Numbers
            BY <2>1, <2>3, <2>9
        <3> HIDE DEF m
        <3>2. Add(First, m) = First + m
            BY <2>1, <3>1, NumAdd
        <3>3. SeqAt(StreamLen + 1) = pcb.rcv_nxt
            BY <2>9, <3>2 DEF SeqAt, m
        <3> QED BY <2>7, <2>9, <3>3 DEF Intact
    <2> QED BY <2>6, <2>8, <2>9
<1> QED BY <1>1, ReceiveInvariant, PTL

\* The queue of out-of-order segments is in order, without overlap, beyond
\* rcv_nxt and inside the window, and holds the bytes its places say,
\* whatever was cut or merged to put a segment in (tcp_receive).
THEOREM ReceiveOrdered ==
    ASSUME NoWrap
    PROVE  Spec => []OoseqOrdered
<1>1. ASSUME ReceiveInv PROVE OoseqOrdered
    <2> DEFINE q == pcb.ooseq
               nxt == pcb.rcv_nxt
               lo == nxt + 1
               hi == nxt + Wnd
    <2>1. First \in Nat /\ Final \in Nat /\ First <= Final /\ Wnd \in Nat \ {0} /\ StreamLen \in Nat
        BY NumbersSmall
    <2>2. Ready(pcb)
        BY <1>1, InvReady
    <2>3. nxt \in Nat /\ nxt \in Numbers /\ hi \in Numbers /\ hi \in Nat /\ lo \in Nat
          /\ pcb.rcv_wnd = Wnd
        BY <2>2, ReadyFacts
    <2>4. Add(pcb.rcv_nxt, pcb.rcv_wnd) = hi
        BY <2>1, <2>3, NumAdd
    <2>5. Chain(q, lo, hi)
        BY <1>1 DEF ReceiveInv
    <2>6. /\ q \in Seq(Segments) /\ Len(q) \in Nat
          /\ \A i \in 1..Len(q) : Piece(q[i]) /\ Within(q[i], lo, hi) /\ q[i] \in Segments
          /\ \A i, j \in 1..Len(q) : i < j => Before(q[i], q[j])
        BY <2>5, ChainFacts
    <2>7. ASSUME NEW i \in 1..Len(q)
          PROVE  /\ SeqGt(q[i].seqno, nxt)
                 /\ SeqGeq(hi, Add(q[i].seqno, TcpLen(q[i])))
                 /\ q[i].data = Segment(Distance(First, q[i].seqno), Distance(First, DataEnd(q[i])), FALSE).data
                 /\ i < Len(q) => ~q[i].fin /\ SeqGeq(q[i + 1].seqno, DataEnd(q[i]))
        <3> DEFINE s == q[i]
                   end == s.seqno + TcpLen(s)
                   stop == s.seqno + s.len
        <3>1. Piece(s) /\ Within(s, lo, hi)
            BY <2>6
        <3> HIDE DEF q
        <3> HIDE DEF s
        <3>2. /\ s.seqno \in Nat /\ s.len \in Nat /\ s.seqno \in Numbers /\ stop \in Numbers
              /\ DataEnd(s) = stop /\ TcpLen(s) \in Nat /\ end \in Numbers
              /\ Add(s.seqno, TcpLen(s)) = end /\ First <= s.seqno /\ stop <= Final
            BY <3>1, PieceFacts
        <3>3. lo <= s.seqno /\ end <= hi
            BY <3>1 DEF Within
        <3> HIDE DEF end, hi
        <3>4. SeqGt(s.seqno, nxt)
            <4>1. s.seqno > nxt
                BY <2>3, <3>2, <3>3
            <4> HIDE DEF nxt
            <4> QED BY <2>3, <3>2, <4>1, NumGt
        <3>5. SeqGeq(hi, end)
            <4>1. hi >= end /\ end \in Nat
                BY <2>1, <2>3, <3>2, <3>3 DEF Numbers
            <4> QED BY <2>3, <3>2, <4>1, NumGeq
        <3> HIDE DEF stop
        <3>6. s.data = Segment(Distance(First, s.seqno), Distance(First, stop), FALSE).data
            <4> DEFINE a == s.seqno - First
                       b == stop - First
            <4>1. First \in Numbers /\ First <= s.seqno /\ First <= stop /\ stop \in Nat
                BY <2>1, <3>2 DEF Numbers, stop
            <4>2. Distance(First, s.seqno) = a /\ Distance(First, stop) = b
                BY <3>2, <4>1, NumDistance
            <4>3. b - a = s.len
                BY <2>1, <3>2, <4>1 DEF stop
            <4>4. s.data = [j \in 1..s.len |-> a + j]
                BY <3>1 DEF Piece
            <4> HIDE DEF a, b
            <4>5. Segment(a, b, FALSE).data = [j \in 1..(b - a) |-> a + j]
                BY DEF Segment
            <4> QED BY <4>2, <4>3, <4>4, <4>5
        <3>7. ASSUME i < Len(q) PROVE ~s.fin /\ SeqGeq(q[i + 1].seqno, stop)
            <4> DEFINE t == q[i + 1]
            <4>1. i + 1 \in 1..Len(q) /\ i < i + 1
                BY <2>6, <3>7
            <4>2. Before(s, t) /\ Piece(t)
                BY <2>6, <4>1 DEF s
            <4> HIDE DEF t
            <4>3. t.seqno \in Nat /\ t.seqno \in Numbers
                BY <4>2, PieceFacts
            <4>4. ~s.fin /\ t.seqno >= stop
                BY <3>2, <4>2, <4>3 DEF Before, stop
            <4>5. SeqGeq(t.seqno, stop)
                BY <3>2, <4>3, <4>4, NumGeq
            <4> QED BY <4>4, <4>5 DEF t
        <3> QED BY <3>2, <3>4, <3>5, <3>6, <3>7 DEF s
    <2> HIDE DEF q, nxt, hi
    <2>8. \A i \in 1..Len(q) :
             /\ SeqGt(q[i].seqno, nxt)
             /\ SeqGeq(Add(pcb.rcv_nxt, pcb.rcv_wnd), Add(q[i].seqno, TcpLen(q[i])))
             /\ q[i].data = Segment(Distance(First, q[i].seqno), Distance(First, DataEnd(q[i])), FALSE).data
             /\ i < Len(q) => ~q[i].fin /\ SeqGeq(q[i + 1].seqno, DataEnd(q[i]))
        BY <2>4, <2>7, Zenon
    <2> QED BY <2>8, Zenon DEF OoseqOrdered, q, nxt
<1> QED BY <1>1, ReceiveInvariant, PTL

\* What the peer was once allowed to send it stays allowed to send: no step
\* takes the right edge of the window back (tcp_update_rcv_ann_wnd, tcp_ack).
THEOREM ReceiveEdge ==
    ASSUME NoWrap
    PROVE  Spec => EdgeNeverShrinks
<1>1. ASSUME ReceiveInv, ReceiveInv', [Next]_vars
      PROVE  SeqGeq(pcb'.rcv_ann_right_edge, pcb.rcv_ann_right_edge)
    <2>1. pcb \in Pcbs /\ pcb' \in Pcbs
        BY <1>1 DEF ReceiveInv, ReceiveTypeOK
    <2>2. /\ pcb.rcv_ann_right_edge \in Numbers /\ pcb.rcv_ann_right_edge \in Nat
          /\ pcb'.rcv_ann_right_edge \in Numbers /\ pcb'.rcv_ann_right_edge \in Nat
        BY <2>1, PcbFacts
    <2>3. pcb.rcv_ann_right_edge <= pcb'.rcv_ann_right_edge
        BY <1>1, ReceiveInductive DEF Forward
    <2>4. pcb'.rcv_ann_right_edge >= pcb.rcv_ann_right_edge
        BY <2>2, <2>3
    <2> QED BY <2>2, <2>4, NumGeq
<1> QED BY <1>1, ReceiveInvariant, PTL DEF Spec, EdgeNeverShrinks

\* tcp_receive and tcp_input implement the byte stream that TSTCPSocket
\* reads: pieces of it in order, and the end once, after the last byte.
THEOREM ReceiveImplementsStream ==
    ASSUME NoWrap
    PROVE  Spec => ImplementsStream
<1>1. Init => Stream!StreamInit
    BY DEF Init, Stream!StreamInit
<1>2. ASSUME ReceiveInv, ReceiveInv', [Next]_vars
      PROVE  Stream!StreamStep \/ UNCHANGED Stream!streamVars
    <2>1. CASE UNCHANGED <<delivered, eof>>
        BY <2>1 DEF Stream!streamVars
    <2>2. ASSUME NEW a \in 0..StreamLen, NEW b \in a..StreamLen, NEW fin \in BOOLEAN, TcpInput(a, b, fin)
          PROVE  Stream!StreamStep \/ UNCHANGED Stream!streamVars
        <3>1. PICK data, end :
                  /\ Handled(pcb, pcb', data, end)
                  /\ delivered' = delivered \o data
                  /\ eof' = (eof \/ end)
            BY <1>2, <2>2, TcpInputStep
        <3>2. Ready(pcb) /\ Ready(pcb')
            BY <1>2, InvReady, <3>1 DEF Handled
        <3>3. /\ First \in Nat /\ Final \in Nat /\ First <= Final /\ StreamLen \in Nat
              /\ Final = First + StreamLen
            BY NumbersSmall DEF Final
        <3>4. /\ pcb.rcv_nxt \in Nat /\ First <= pcb.rcv_nxt /\ pcb.rcv_nxt <= Final + 1
              /\ pcb'.rcv_nxt \in Nat /\ pcb'.rcv_nxt <= Final + 1
            BY <3>2, ReadyFacts
        <3>5. pcb.rcv_nxt <= pcb'.rcv_nxt /\ end \in BOOLEAN
              /\ (end <=> pcb.rcv_nxt <= Final /\ pcb'.rcv_nxt = Final + 1)
            BY <3>1 DEF Handled
        <3> DEFINE m == MinOf(pcb.rcv_nxt, Final) - First
                   n == MinOf(pcb'.rcv_nxt, Final) - First
        <3>6. delivered = Prefix(m) /\ delivered' = Prefix(n)
            BY <1>2 DEF ReceiveInv, Progress
        <3>7. m \in Nat /\ n \in Nat /\ m <= n /\ n <= StreamLen
              /\ (pcb'.rcv_nxt = Final + 1 => n = StreamLen)
              /\ (pcb.rcv_nxt = Final + 1 => n = m)
            BY <3>3, <3>4, <3>5 DEF MinOf
        <3> HIDE DEF m, n
        <3>8. CASE eof
            <4>1. pcb \in Pcbs /\ pcb.state \in {"ESTABLISHED", "CLOSE_WAIT"}
                BY <1>2 DEF ReceiveInv, ReceiveTypeOK, Pcbs
            <4>2. pcb.rcv_nxt = Final + 1
                BY <1>2, <3>8, <4>1 DEF ReceiveInv, Progress
            <4>3. ~end
                BY <3>3, <3>5, <4>2
            <4>4. delivered' = delivered
                BY <3>6, <3>7, <4>2
            <4>5. eof' = eof
                BY <3>1, <3>8, <4>3, <1>2 DEF ReceiveInv, ReceiveTypeOK
            <4> QED BY <4>4, <4>5 DEF Stream!streamVars
        <3>9. CASE ~eof
            <4>1. Len(delivered) = m /\ n \in m..StreamLen
                BY <3>3, <3>6, <3>7 DEF Prefix
            <4>2. delivered' = [i \in 1..n |-> i]
                BY <3>6 DEF Prefix
            <4>3. eof' = end
                BY <3>1, <3>5, <3>9
            <4>4. end => n = StreamLen
                BY <3>5, <3>7
            <4>5. eof' \in {FALSE, n = StreamLen}
                BY <3>5, <4>3, <4>4
            <4> QED BY <3>9, <4>1, <4>2, <4>5 DEF Stream!StreamStep
        <3> QED BY <3>8, <3>9
    <2>3. CASE SendsData
        BY <2>1, <2>3 DEF SendsData
    <2>4. CASE AckArrives
        BY <2>1, <2>4 DEF AckArrives
    <2>5. CASE UNCHANGED vars
        BY <2>1, <2>5 DEF vars
    <2> QED BY <1>2, <2>2, <2>3, <2>4, <2>5 DEF Next
<1>3. ASSUME ReceiveInv, ReceiveInv', [Next]_vars
      PROVE  [Stream!StreamStep]_Stream!streamVars
    BY <1>2, <1>3
<1> QED BY <1>1, <1>3, ReceiveInvariant, PTL
      DEF Spec, ImplementsStream, Stream!StreamSpec

\* What the peer knows to be acknowledged, and so no longer keeps.
AckedDelivered ==
    /\ Distance(First, peerAcked) <= IF eof THEN Len(delivered) + 1 ELSE Len(delivered)
    /\ eof => delivered = Prefix(StreamLen)

\* The peer is never told of a byte, or of its FIN, as acknowledged that the
\* application has not been given: nothing is lost when the peer drops it
\* (tcp_receive, tcp_ack, tcp_send_empty_ack).
THEOREM ReceiveAcked ==
    ASSUME NoWrap
    PROVE  Spec => []AckedDelivered
<1>1. ASSUME ReceiveInv PROVE AckedDelivered
    <2>1. /\ First \in Nat /\ Final \in Nat /\ First <= Final /\ StreamLen \in Nat
          /\ Final = First + StreamLen /\ First \in Numbers /\ Wnd \in Nat
        <3>1. First \in Nat /\ Final \in Nat /\ First <= Final /\ StreamLen \in Nat /\ Wnd \in Nat
            BY NumbersSmall
        <3> QED BY <3>1 DEF Final, Numbers
    <2>2. Ready(pcb)
        BY <1>1, InvReady
    <2>3. /\ pcb.rcv_nxt \in Nat /\ First <= pcb.rcv_nxt /\ pcb.rcv_nxt <= Final + 1
          /\ pcb.ackno \in Nat /\ pcb.ackno <= pcb.rcv_nxt /\ pcb \in Pcbs
        BY <2>2, ReadyFacts
    <2>4. peerAcked \in First..(Final + 1) /\ peerAcked <= pcb.ackno
        BY <1>1 DEF ReceiveInv, ReceiveTypeOK, AcksBehind
    <2>5. peerAcked \in Nat /\ First <= peerAcked /\ peerAcked \in Numbers /\ peerAcked <= pcb.rcv_nxt
        BY <2>1, <2>3, <2>4 DEF Numbers
    <2>6. Distance(First, peerAcked) = peerAcked - First
        BY <2>1, <2>5, NumDistance
    <2> DEFINE n == MinOf(pcb.rcv_nxt, Final) - First
    <2>7. /\ n \in Nat
          /\ pcb.rcv_nxt <= Final => pcb.rcv_nxt - First = n
          /\ pcb.rcv_nxt = Final + 1 => pcb.rcv_nxt - First = n + 1 /\ n = StreamLen
        BY <2>1, <2>3 DEF MinOf
    <2>8. delivered = Prefix(n)
        BY <1>1 DEF ReceiveInv, Progress
    <2> HIDE DEF n
    <2>9. Len(delivered) = n
        BY <2>7, <2>8 DEF Prefix
    <2>10. pcb.state = "ESTABLISHED" \/ pcb.state = "CLOSE_WAIT"
        BY <2>3, PcbFacts
    <2>11. eof => pcb.rcv_nxt = Final + 1
        BY <1>1, <2>10 DEF ReceiveInv, Progress
    <2>12. ~eof => pcb.rcv_nxt <= Final
        BY <1>1, <2>10 DEF ReceiveInv, Progress
    <2>13. CASE eof
        BY <2>1, <2>3, <2>5, <2>6, <2>7, <2>8, <2>9, <2>11, <2>13 DEF AckedDelivered
    <2>14. CASE ~eof
        BY <2>1, <2>3, <2>5, <2>6, <2>7, <2>9, <2>12, <2>14 DEF AckedDelivered
    <2> QED BY <2>13, <2>14
<1> QED BY <1>1, ReceiveInvariant, PTL
=============================================================================
