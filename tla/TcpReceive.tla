----------------------------- MODULE TcpReceive -----------------------------
(***************************************************************************)
(* The receiving half of a connection in lwIP, as tun2socks uses it:       *)
(* tcp_receive of tcp_in.c with its queue of out-of-order segments, the    *)
(* delivery in tcp_input, the window that tcp_recved and                   *)
(* tcp_update_rcv_ann_wnd of tcp.c advertise, and the acknowledgements.    *)
(*                                                                         *)
(* The peer, the device's own TCP, sends StreamLen bytes and a FIN.  The   *)
(* tunnel may lose, delay, repeat and reorder what it sends, and the peer  *)
(* may cut its stream anew for a retransmission: at any time a segment     *)
(* with any part of the stream that the announced window allows arrives.   *)
(* The application is TSTCPSocket, which takes all data it is given and    *)
(* calls tcp_recved at once.  No timer of lwIP fires: TSIPStack schedules  *)
(* sys_check_timeouts for the distant future.                              *)
(***************************************************************************)
EXTENDS Integers, Sequences, FiniteSets, SequencesExt

CONSTANTS
    Modulus,     \* sequence numbers are taken modulo it: 2^32
    First,       \* the sequence number of the first byte of data
    StreamLen,   \* the number of bytes the peer sends
    Wnd,         \* TCP_WND
    Mss,         \* pcb->mss
    WndUpdate    \* TCP_WND_UPDATE_THRESHOLD

ASSUME ReceiveAssumption ==
    /\ Modulus \in Nat /\ First \in 0..(Modulus - 1)
    /\ StreamLen \in Nat /\ Wnd \in Nat \ {0} /\ Mss \in Nat \ {0} /\ WndUpdate \in Nat
    /\ 2 * (StreamLen + Wnd + 2) <= Modulus

VARIABLES
    pcb,         \* the receiving part of struct tcp_pcb, and the last ackno sent
    delivered,   \* the bytes passed to TSTCPSocket
    eof,         \* TSTCPSocket was told that the peer has closed
    peerAcked,   \* what the peer knows to be acknowledged
    arrived      \* history: flips when a segment arrives, so that the
                 \* arrival of one that is ignored is a step too

vars == <<pcb, delivered, eof, peerAcked, arrived>>

-----------------------------------------------------------------------------
(* Sequence numbers *)

Add(s, n) == (s + n) % Modulus

Distance(a, b) == (b - a) % Modulus

SeqGeq(a, b) == Distance(b, a) < Modulus \div 2
SeqGt(a, b) == a # b /\ SeqGeq(a, b)
SeqBetween(a, b, c) == SeqGeq(a, b) /\ SeqGeq(c, a)

\* The sequence number of a position of the stream; the FIN is at StreamLen.
SeqAt(pos) == Add(First, pos)

-----------------------------------------------------------------------------
(* Segments: len is tcp_seg.len, data the bytes its pbuf really holds. *)

TcpLen(s) == IF s.fin THEN s.len + 1 ELSE s.len

DataEnd(s) == Add(s.seqno, s.len)

\* Mutant: the pbuf keeps its length.
CutLength(s, len) == [s EXCEPT !.len = len]

\* Shorten a segment to len; pbuf_realloc cannot grow a pbuf.
Cut(s, len) ==
    [s EXCEPT !.len = len,
              !.data = IF len < Len(@) THEN SubSeq(@, 1, len) ELSE @]

\* Drop the part of a segment before seqno.
Behind(s, seqno) ==
    LET off == Distance(s.seqno, seqno)
    IN  [s EXCEPT !.seqno = seqno, !.len = @ - off,
                  !.data = SubSeq(@, off + 1, Len(@))]

\* How many segments at the head of queue q lie before end.
Covered(q, end) ==
    CHOOSE k \in 0..Len(q) :
        /\ \A i \in 1..k : SeqGeq(end, DataEnd(q[i]))
        /\ k < Len(q) => ~SeqGeq(end, DataEnd(q[k + 1]))

\* Merge segment c with the queued ones behind it: those it covers go, and
\* leave it their FIN; it is cut where the first other one begins.
Absorb(c, q) ==
    IF c.fin THEN <<c>>
    ELSE LET k == Covered(q, DataEnd(c))
             rest == SubSeq(q, k + 1, Len(q))
             whole == [c EXCEPT !.fin = \E i \in 1..k : q[i].fin]
         IN  <<IF rest # <<>> /\ SeqGt(DataEnd(c), rest[1].seqno)
               THEN Cut(whole, Distance(c.seqno, rest[1].seqno))
               ELSE whole>> \o rest

-----------------------------------------------------------------------------
(* The out-of-order queue *)

\* Mutant: the segment in front keeps its tail.
CutLastNot(q, seqno) == q

\* Cut the last segment of q where seqno begins.
CutLast(q, seqno) ==
    IF q # <<>> /\ SeqGt(DataEnd(q[Len(q)]), seqno)
    THEN [q EXCEPT ![Len(q)] = Cut(@, Distance(@.seqno, seqno))]
    ELSE q

\* The check that the end of a segment put last is inside the window.  The
\* sums are compared as plain 32-bit numbers, not as sequence numbers.
CutToWindow(p, s) ==
    IF Add(s.seqno, TcpLen(s)) > Add(p.rcv_nxt, p.rcv_wnd)
    THEN Cut([s EXCEPT !.fin = FALSE], Distance(s.seqno, Add(p.rcv_nxt, p.rcv_wnd)))
    ELSE s

\* The queue with segment s: behind the segments that begin before it.  Of
\* two that begin together the longer stays; nothing goes behind a FIN.
Enqueue(p, s) ==
    LET q == p.ooseq
        k == Cardinality({i \in 1..Len(q) : SeqGt(s.seqno, q[i].seqno)})
        front == SubSeq(q, 1, k)
        rest == SubSeq(q, k + 1, Len(q))
    IN  CASE q = <<>> -> <<s>>
          [] rest # <<>> /\ rest[1].seqno = s.seqno ->
                IF s.len > rest[1].len THEN front \o Absorb(s, rest) ELSE q
          [] rest # <<>> /\ rest[1].seqno # s.seqno ->
                CutLast(front, s.seqno) \o Absorb(s, rest)
          [] OTHER ->
                IF q[k].fin THEN q
                ELSE Append(CutLast(front, s.seqno), CutToWindow(p, s))

-----------------------------------------------------------------------------
(* The window and the acknowledgements *)

MinOf(a, b) == IF a < b THEN a ELSE b

\* Whether the window could be announced far enough beyond what it was.
MayAnnounce(p) ==
    SeqGeq(Add(p.rcv_nxt, p.rcv_wnd), Add(p.rcv_ann_right_edge, MinOf(Wnd \div 2, Mss)))

\* Mutant: a window not worth announcing is announced as closed.
UpdateRcvAnnWndClosed(p) ==
    [p EXCEPT !.rcv_ann_wnd = IF MayAnnounce(p) THEN p.rcv_wnd ELSE 0]

UpdateRcvAnnWnd(p) ==
    [p EXCEPT !.rcv_ann_wnd =
        CASE MayAnnounce(p) -> p.rcv_wnd
          [] ~MayAnnounce(p) /\ SeqGt(p.rcv_nxt, p.rcv_ann_right_edge) -> 0
          [] OTHER -> Distance(p.rcv_nxt, p.rcv_ann_right_edge)]

AckNow(p) == [p EXCEPT !.flags = @ \union {"ACK_NOW"}]

\* tcp_ack: every second segment is acknowledged at once.
Ack(p) ==
    IF "ACK_DELAY" \in p.flags
    THEN [p EXCEPT !.flags = (@ \ {"ACK_DELAY"}) \union {"ACK_NOW"}]
    ELSE [p EXCEPT !.flags = @ \union {"ACK_DELAY"}]

\* A segment leaves with rcv_nxt and rcv_ann_wnd: an empty one, or data.
SendAck(p) ==
    [p EXCEPT !.flags = {}, !.ackno = p.rcv_nxt,
              !.rcv_ann_right_edge = Add(p.rcv_nxt, p.rcv_ann_wnd)]

\* tcp_output with nothing to send.
Output(p) == IF "ACK_NOW" \in p.flags THEN SendAck(p) ELSE p

\* tcp_recved: the application has taken n bytes; a window that has grown
\* much is announced at once.
Recved(p, n) ==
    LET q == UpdateRcvAnnWnd([p EXCEPT !.rcv_wnd = MinOf(@ + n, Wnd)])
    IN  IF MayAnnounce(q) /\ Distance(q.rcv_ann_right_edge, Add(q.rcv_nxt, q.rcv_wnd)) >= WndUpdate
        THEN AckNow(q) ELSE q

-----------------------------------------------------------------------------
(* tcp_receive: from a pcb and a segment to the pcb after it, the data for *)
(* the application (recv_data) and whether a FIN was reached (TF_GOT_FIN). *)

Nothing(p) == [pcb |-> p, data |-> <<>>, fin |-> FALSE]

\* The next segment in sequence, and what the queue has behind it.
InSequence(p, s) ==
    LET fits == IF TcpLen(s) > p.rcv_wnd THEN Cut([s EXCEPT !.fin = FALSE], p.rcv_wnd) ELSE s
        all == Absorb(fits, p.ooseq)
        follows(i) == all[i + 1].seqno = Add(all[i].seqno, TcpLen(all[i]))
        k == CHOOSE n \in 1..Len(all) :
                /\ \A i \in 1..(n - 1) : follows(i)
                /\ n < Len(all) => ~follows(n)
        nxt == Add(all[k].seqno, TcpLen(all[k]))
    IN  [pcb |-> Ack(UpdateRcvAnnWnd(
                    [p EXCEPT !.rcv_nxt = nxt, !.rcv_wnd = @ - Distance(p.rcv_nxt, nxt),
                              !.ooseq = SubSeq(all, k + 1, Len(all))])),
         data |-> FlattenSeq([i \in 1..k |-> all[i].data]),
         fin |-> \E i \in 1..k : all[i].fin]

InWindow(p, seqno) ==
    SeqBetween(seqno, p.rcv_nxt, Add(p.rcv_nxt, p.rcv_wnd - 1))

\* Mutant: a segment that was received before is ignored.
ReceiveSilent(p, seg) ==
    LET straddles == SeqBetween(p.rcv_nxt, Add(seg.seqno, 1), Add(seg.seqno, TcpLen(seg) - 1))
        s == IF straddles THEN Behind(seg, p.rcv_nxt) ELSE seg
    IN  CASE p.state # "ESTABLISHED" \/ TcpLen(seg) = 0 \/ ~InWindow(p, s.seqno) -> Nothing(p)
          [] p.state = "ESTABLISHED" /\ TcpLen(seg) > 0 /\ s.seqno = p.rcv_nxt -> InSequence(p, s)
          [] OTHER -> Nothing([SendAck(p) EXCEPT !.ooseq = Enqueue(p, s)])

Receive(p, seg) ==
    LET straddles == SeqBetween(p.rcv_nxt, Add(seg.seqno, 1), Add(seg.seqno, TcpLen(seg) - 1))
        s == IF straddles THEN Behind(seg, p.rcv_nxt) ELSE seg
    IN  CASE p.state # "ESTABLISHED" \/ TcpLen(seg) = 0 ->
                Nothing(IF InWindow(p, seg.seqno) THEN p ELSE AckNow(p))
          [] p.state = "ESTABLISHED" /\ TcpLen(seg) > 0 /\ ~InWindow(p, s.seqno) ->
                Nothing(SendAck(p))
          [] p.state = "ESTABLISHED" /\ TcpLen(seg) > 0 /\ s.seqno = p.rcv_nxt ->
                InSequence(p, s)
          [] OTHER ->
                Nothing([SendAck(p) EXCEPT !.ooseq = Enqueue(p, s)])

\* Mutant: any FIN closes it, reached or not.
ProcessAnyFin(p, seg) ==
    LET r == Receive(p, seg)
    IN  IF seg.fin THEN [r EXCEPT !.pcb = [AckNow(@) EXCEPT !.state = "CLOSE_WAIT"], !.fin = TRUE]
        ELSE r

\* tcp_process: a FIN that was reached closes the receiving side.
Process(p, seg) ==
    LET r == Receive(p, seg)
    IN  IF r.fin THEN [r EXCEPT !.pcb = [AckNow(@) EXCEPT !.state = "CLOSE_WAIT"]] ELSE r

\* Mutant: the byte of the FIN stays in the window.
EndEventPlain(p) == p

\* tcp_input calls the application: with the data, of which it reports every
\* byte as taken, and then with the end; the FIN itself leaves the window.
EndEvent(p) == [p EXCEPT !.rcv_wnd = IF @ # Wnd THEN @ + 1 ELSE @]

Events(r) ==
    LET p == IF r.data # <<>> THEN Recved(r.pcb, Len(r.data)) ELSE r.pcb
    IN  IF r.fin THEN EndEvent(p) ELSE p

-----------------------------------------------------------------------------
Init ==
    /\ pcb = [state |-> "ESTABLISHED", rcv_nxt |-> First, rcv_wnd |-> Wnd, rcv_ann_wnd |-> Wnd,
              rcv_ann_right_edge |-> Add(First, Wnd), flags |-> {}, ooseq |-> <<>>,
              ackno |-> First]
    /\ delivered = <<>> /\ eof = FALSE /\ peerAcked = First /\ arrived = FALSE

\* The segment of the peer with the bytes a + 1 to b, and the FIN if fin.
Segment(a, b, fin) ==
    [seqno |-> SeqAt(a), len |-> b - a, data |-> [i \in 1..(b - a) |-> a + i], fin |-> fin]

\* What the peer may send: nothing beyond the window it was told of.
Sendable(a, b, fin) ==
    /\ fin => b = StreamLen
    /\ TcpLen(Segment(0, b, fin)) <= Distance(First, pcb.rcv_ann_right_edge)

\* A segment arrives: tcp_input as a whole.
TcpInput(a, b, fin) ==
    /\ Sendable(a, b, fin)
    /\ LET r == Process(pcb, Segment(a, b, fin))
       IN  /\ pcb' = Output(Events(r))
           /\ delivered' = delivered \o r.data
           /\ eof' = (eof \/ r.fin)
    /\ arrived' = ~arrived
    /\ UNCHANGED peerAcked

\* The application sends data, and tcp_output_segment the acknowledgement
\* with it.
SendsData ==
    /\ pcb' = SendAck(pcb)
    /\ UNCHANGED <<delivered, eof, peerAcked, arrived>>

\* The peer learns of the last acknowledgement; earlier ones may be lost.
AckArrives ==
    /\ peerAcked # pcb.ackno
    /\ peerAcked' = pcb.ackno
    /\ UNCHANGED <<pcb, delivered, eof, arrived>>

Next ==
    \/ \E a \in 0..StreamLen : \E b \in a..StreamLen, fin \in BOOLEAN : TcpInput(a, b, fin)
    \/ SendsData \/ AckArrives

\* The first segment the peer has no acknowledgement of, sent again.
Retransmit ==
    LET a == Distance(First, peerAcked)
    IN  \E b \in a..StreamLen, fin \in BOOLEAN : (b > a \/ fin) /\ TcpInput(a, b, fin)

\* When the peer has something to retransmit: when Retransmit is enabled.
Unacknowledged == peerAcked # SeqAt(StreamLen + 1)

Spec == Init /\ [][Next]_vars

\* The peer retransmits, and of many segments and acknowledgements some
\* arrive.  Nothing is asked of lwIP's timers or of the application.  The
\* last conjunct is weak fairness of Retransmit with what enables it spelled
\* out.
FairSpec ==
    /\ Spec
    /\ WF_vars(AckArrives)
    /\ []<>(~Unacknowledged) \/ []<><<Retransmit>>_vars

-----------------------------------------------------------------------------
(* Properties *)

\* The application has been given the beginning of the peer's stream,
\* nothing twice and nothing left out, and rcv_nxt is what follows, the FIN
\* counted once everything is there, however segments were lost, repeated,
\* reordered or cut (tcp_receive, tcp_input).
Intact ==
    /\ delivered = [i \in 1..Len(delivered) |-> i]
    /\ \/ pcb.rcv_nxt = SeqAt(Len(delivered))
       \/ Len(delivered) = StreamLen /\ pcb.rcv_nxt = SeqAt(StreamLen + 1)

\* The queue of out-of-order segments lies beyond rcv_nxt and inside the
\* window, in order and without overlap; every segment has the bytes its
\* place in the stream says, and only the last may have the FIN.
OoseqOrdered ==
    LET q == pcb.ooseq
    IN  \A i \in 1..Len(q) :
            /\ SeqGt(q[i].seqno, pcb.rcv_nxt)
            /\ SeqGeq(Add(pcb.rcv_nxt, pcb.rcv_wnd), Add(q[i].seqno, TcpLen(q[i])))
            /\ q[i].data = Segment(Distance(First, q[i].seqno), Distance(First, DataEnd(q[i])), FALSE).data
            /\ i < Len(q) => ~q[i].fin /\ SeqGeq(q[i + 1].seqno, DataEnd(q[i]))

\* Between two segments the window is whole again: what was taken from it
\* for data, for queued data and for the FIN has been given back.
WindowRestored == pcb.rcv_wnd = Wnd

\* The right edge of the window, once announced, is never taken back: the
\* peer may already have filled it.
EdgeNeverShrinks ==
    [][SeqGeq(pcb'.rcv_ann_right_edge, pcb.rcv_ann_right_edge)]_vars

\* tcp_receive and tcp_input implement the byte stream: in particular the
\* end is told once, after the last byte, though a FIN may wait in the queue.
Stream == INSTANCE ByteStream
ImplementsStream == Stream!StreamSpec

\* Without any timer of lwIP, as TSIPStack leaves it, the whole stream is
\* delivered and acknowledged: the delayed acknowledgement of a last odd
\* segment is sent when the peer repeats the segment.
StreamAcked == <>(eof /\ peerAcked = SeqAt(StreamLen + 1))
=============================================================================
