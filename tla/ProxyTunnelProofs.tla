--------------------------- MODULE ProxyTunnelProofs ---------------------------
(***************************************************************************)
(* Proofs about ProxyTunnel for streams of any length and any limit on a   *)
(* write: whichever side ends first, a tunnel its server forgets has       *)
(* released both; while it forwards, each side is read by exactly one at a *)
(* time; and until the end no byte of the device is lost or out of order.  *)
(*                                                                         *)
(* The turns are counted by the blocks of the queue, so the second part    *)
(* begins with what Append and Tail do to such counts and sums, and the    *)
(* last with what they do to the bytes that the blocks carry.              *)
(***************************************************************************)
EXTENDS ProxyTunnel, TLAPS, SequenceTheorems, FiniteSetTheorems

-----------------------------------------------------------------------------
(* The blocks of the queue, and what they may rely on when they run *)

\* A block that reports an end is sent after the end, one that opens the
\* adapter before there is a connection, one that reports a connection after;
\* one that reports an acknowledgement acknowledges something; only data of
\* the device travels in a block.
Fits(b, valid, state) ==
    /\ b.type = "gone" => ~valid
    /\ b.type = "adapterGone" => state = "gone"
    /\ b.type = "open" => state = "none"
    /\ b.type = "connected" => state \notin {"none", "connecting"}
    /\ b.type = "wrote" => b.n > 0
    /\ b.type # "data" => b.data = <<>>

\* All blocks fit, and at most one opens the adapter.
QueueSound(q, valid, state) ==
    /\ \A i \in 1..Len(q) : Fits(q[i], valid, state)
    /\ \A i, j \in 1..Len(q) : q[i].type = "open" /\ q[j].type = "open" => i = j

\* How a connection may move while blocks are waiting that do not open it.
Moves(from, to) ==
    to = from \/ (from \notin {"none", "gone"} /\ to \notin {"none", "connecting"})

LEMMA FitsLater ==
    ASSUME NEW b, NEW valid \in BOOLEAN, NEW valid2 \in BOOLEAN, NEW from, NEW to,
           Fits(b, valid, from), valid2 => valid, Moves(from, to)
    PROVE  Fits(b, valid2, to)
BY DEF Fits, Moves

LEMMA QueueLater ==
    ASSUME NEW q \in Seq(QueueBlock), NEW valid \in BOOLEAN, NEW valid2 \in BOOLEAN,
           NEW from, NEW to,
           QueueSound(q, valid, from), valid2 => valid, Moves(from, to)
    PROVE  QueueSound(q, valid2, to)
BY FitsLater DEF QueueSound

\* The first block leaves; if it opened the adapter, no other does.
LEMMA TailSound ==
    ASSUME NEW q \in Seq(QueueBlock), q # <<>>, NEW valid \in BOOLEAN, NEW state,
           QueueSound(q, valid, state)
    PROVE  /\ Tail(q) \in Seq(QueueBlock) /\ QueueSound(Tail(q), valid, state)
           /\ Head(q) \in QueueBlock /\ Fits(Head(q), valid, state)
           /\ Head(q).type = "open" => \A i \in 1..Len(Tail(q)) : Tail(q)[i].type # "open"
<1>1. /\ Tail(q) \in Seq(QueueBlock) /\ Len(Tail(q)) = Len(q) - 1 /\ Len(q) \in Nat \ {0}
      /\ \A i \in 1..Len(Tail(q)) : Tail(q)[i] = q[i + 1]
      /\ Head(q) = q[1] /\ q[1] \in QueueBlock
    OBVIOUS
<1>2. \A i \in 1..Len(Tail(q)) : i + 1 \in 1..Len(q) /\ i + 1 # 1
    BY <1>1
<1>3. 1 \in 1..Len(q)
    BY <1>1
<1>4. \A i \in 1..Len(Tail(q)) : Fits(Tail(q)[i], valid, state)
    BY <1>1, <1>2 DEF QueueSound
<1>5. \A i, j \in 1..Len(Tail(q)) :
        Tail(q)[i].type = "open" /\ Tail(q)[j].type = "open" => i = j
    <2> SUFFICES ASSUME NEW i \in 1..Len(Tail(q)), NEW j \in 1..Len(Tail(q)),
                        Tail(q)[i].type = "open", Tail(q)[j].type = "open"
                 PROVE  i = j
        OBVIOUS
    <2>1. i + 1 = j + 1
        BY <1>1, <1>2 DEF QueueSound
    <2> QED BY <2>1, <1>1
<1>6. Head(q).type = "open" => \A i \in 1..Len(Tail(q)) : Tail(q)[i].type # "open"
    BY <1>1, <1>2, <1>3 DEF QueueSound
<1> QED
    BY <1>1, <1>3, <1>4, <1>5, <1>6 DEF QueueSound

\* Blocks that fit are put behind the others.
LEMMA ConcatSound ==
    ASSUME NEW q \in Seq(QueueBlock), NEW bs \in Seq(QueueBlock),
           NEW valid \in BOOLEAN, NEW state, QueueSound(q, valid, state),
           \A i \in 1..Len(bs) : Fits(bs[i], valid, state) /\ bs[i].type # "open"
    PROVE  q \o bs \in Seq(QueueBlock) /\ QueueSound(q \o bs, valid, state)
<1>1. /\ q \o bs \in Seq(QueueBlock) /\ Len(q \o bs) = Len(q) + Len(bs)
      /\ Len(q) \in Nat /\ Len(bs) \in Nat
      /\ \A i \in 1..(Len(q) + Len(bs)) :
            (q \o bs)[i] = IF i <= Len(q) THEN q[i] ELSE bs[i - Len(q)]
    OBVIOUS
<1> DEFINE r == q \o bs
<1>2. \A i \in 1..Len(r) : \/ i \in 1..Len(q) /\ r[i] = q[i]
                           \/ \E k \in 1..Len(bs) : r[i] = bs[k]
    <2> SUFFICES ASSUME NEW i \in 1..Len(r)
                 PROVE  \/ i \in 1..Len(q) /\ r[i] = q[i]
                        \/ \E k \in 1..Len(bs) : r[i] = bs[k]
        OBVIOUS
    <2>1. CASE i <= Len(q)
        BY <1>1, <2>1
    <2>2. CASE ~(i <= Len(q))
        <3>1. i - Len(q) \in 1..Len(bs) /\ r[i] = bs[i - Len(q)]
            BY <1>1, <2>2
        <3> QED BY <3>1
    <2> QED BY <2>1, <2>2
<1> HIDE DEF r
<1>3. \A i \in 1..Len(r) : Fits(r[i], valid, state)
    BY <1>2 DEF QueueSound
<1>4. \A i, j \in 1..Len(r) : r[i].type = "open" /\ r[j].type = "open" => i = j
    BY <1>2 DEF QueueSound
<1>5. QueueSound(r, valid, state)
    BY <1>3, <1>4 DEF QueueSound
<1> QED
    BY <1>1, <1>5 DEF r

LEMMA OneBlockSound ==
    ASSUME NEW q \in Seq(QueueBlock), NEW b \in QueueBlock, b.type # "open",
           NEW valid \in BOOLEAN, NEW state, QueueSound(q, valid, state), Fits(b, valid, state)
    PROVE  Append(q, b) \in Seq(QueueBlock) /\ QueueSound(Append(q, b), valid, state)
<1>1. <<b>> \in Seq(QueueBlock) /\ Len(<<b>>) = 1 /\ <<b>>[1] = b /\ Append(q, b) = q \o <<b>>
    OBVIOUS
<1>2. \A i \in 1..Len(<<b>>) : <<b>>[i] = b
    BY <1>1
<1> QED
    BY <1>1, <1>2, ConcatSound

LEMMA BlockTyped ==
    ASSUME NEW type \in {"open", "connected", "data", "read", "adapterWrote", "adapterRead",
                         "wrote", "readAdapter", "gone", "adapterGone"}
    PROVE  Block(type) \in QueueBlock /\ Block(type).type = type /\ Block(type).data = <<>>
BY TunnelAssumption DEF TunnelAssumption, Block, QueueBlock

-----------------------------------------------------------------------------
(* Dispatching *)

\* Blocks that may be dispatched in a state with this socket and connection.
Fitting(bs, valid, state) ==
    /\ bs \in Seq(QueueBlock)
    /\ \A i \in 1..Len(bs) : Fits(bs[i], valid, state) /\ bs[i].type # "open"

LEMMA NoneFitting == \A valid, state : Fitting(<<>>, valid, state)
BY DEF Fitting

LEMMA OneFitting ==
    ASSUME NEW b \in QueueBlock, NEW valid, NEW state, Fits(b, valid, state), b.type # "open"
    PROVE  Fitting(<<b>>, valid, state)
<1>1. <<b>> \in Seq(QueueBlock) /\ Len(<<b>>) = 1 /\ <<b>>[1] = b
    OBVIOUS
<1>2. \A i \in 1..Len(<<b>>) : <<b>>[i] = b
    BY <1>1
<1> QED
    BY <1>1, <1>2 DEF Fitting

LEMMA ReadFitting == \A s, valid, state : Fitting(CheckReadData(s), valid, state)
<1> SUFFICES ASSUME NEW s, NEW valid, NEW state PROVE Fitting(CheckReadData(s), valid, state)
    OBVIOUS
<1>1. Block("read") \in QueueBlock /\ Block("read").type = "read" /\ Block("read").data = <<>>
    BY BlockTyped
<1>2. Fits(Block("read"), valid, state)
    BY <1>1 DEF Fits
<1> QED
    BY <1>1, <1>2, OneFitting, NoneFitting DEF CheckReadData

LEMMA GoneFitting == \A s, t, state : Fitting(Gone(s, t), t.valid, state)
<1> SUFFICES ASSUME NEW s, NEW t, NEW state PROVE Fitting(Gone(s, t), t.valid, state)
    OBVIOUS
<1>1. Block("gone") \in QueueBlock /\ Block("gone").type = "gone" /\ Block("gone").data = <<>>
    BY BlockTyped
<1>2. ~t.valid => Fits(Block("gone"), t.valid, state)
    BY <1>1 DEF Fits
<1> QED
    BY <1>1, <1>2, OneFitting, NoneFitting DEF Gone

\* A block has run, and dispatched others.
LEMMA DispatchSound ==
    ASSUME NEW q \in Seq(QueueBlock), q # <<>>, NEW bs,
           NEW valid \in BOOLEAN, NEW valid2 \in BOOLEAN, NEW from, NEW to,
           QueueSound(q, valid, from), valid2 => valid, Moves(from, to),
           Fitting(bs, valid2, to)
    PROVE  Tail(q) \o bs \in Seq(QueueBlock) /\ QueueSound(Tail(q) \o bs, valid2, to)
<1>1. Tail(q) \in Seq(QueueBlock) /\ QueueSound(Tail(q), valid, from)
    BY TailSound
<1>2. QueueSound(Tail(q), valid2, to)
    BY <1>1, QueueLater
<1> QED
    BY <1>1, <1>2, ConcatSound DEF Fitting

\* Something outside has put blocks behind the others.
LEMMA ArrivalSound ==
    ASSUME NEW q \in Seq(QueueBlock), NEW bs,
           NEW valid \in BOOLEAN, NEW valid2 \in BOOLEAN, NEW from, NEW to,
           QueueSound(q, valid, from), valid2 => valid, Moves(from, to),
           Fitting(bs, valid2, to)
    PROVE  q \o bs \in Seq(QueueBlock) /\ QueueSound(q \o bs, valid2, to)
<1>1. QueueSound(q, valid2, to)
    BY QueueLater
<1> QED
    BY <1>1, ConcatSound DEF Fitting

LEMMA AppendSound ==
    ASSUME NEW q \in Seq(QueueBlock), NEW b \in QueueBlock, b.type # "open",
           NEW valid \in BOOLEAN, NEW valid2 \in BOOLEAN, NEW from, NEW to,
           QueueSound(q, valid, from), valid2 => valid, Moves(from, to), Fits(b, valid2, to)
    PROVE  Append(q, b) \in Seq(QueueBlock) /\ QueueSound(Append(q, b), valid2, to)
<1>1. QueueSound(q, valid2, to)
    BY QueueLater
<1> QED
    BY <1>1, OneBlockSound

-----------------------------------------------------------------------------
(* The invariant *)

\* What the two sides' status says of the pcb and of the connection.
Sides ==
    /\ tunnel.proxy = "closed" => ~sock.valid
    /\ adapter = "none" <=> conn.state = "none"
    /\ adapter = "closed" => conn.state = "gone"

\* A closed tunnel is cancelled, so no answer of the resolver opens it again.
Released == tunnel.closed => tunnel.cancelled /\ ~sock.valid /\ conn.state \in {"none", "gone"}

TunnelInv == TypeOK /\ QueueSound(queue, sock.valid, conn.state) /\ Sides /\ Released

LEMMA TunnelInit == Init => TunnelInv
<1> SUFFICES ASSUME Init PROVE TunnelInv
    OBVIOUS
<1>1. PICK named \in BOOLEAN :
        /\ adapter = IF named THEN "none" ELSE "connecting"
        /\ conn = [NoConn EXCEPT !.state = IF named THEN "none" ELSE "connecting"]
    BY DEF Init
<1>2. /\ conn = [state |-> IF named THEN "none" ELSE "connecting", reading |-> FALSE,
                writing |-> <<>>, closing |-> FALSE]
    BY <1>1 DEF NoConn
<1>3. <<>> \in Seq(1..UpLen) /\ <<>> \in Seq(QueueBlock) /\ 0 \in 0..UpLen
    BY TunnelAssumption DEF TunnelAssumption
<1>4. TypeOK
    <2>1. sock \in [valid : BOOLEAN, pending : Seq(1..UpLen), reading : BOOLEAN,
                   remain : Int, closing : BOOLEAN]
        BY <1>3 DEF Init
    <2>2. tunnel \in [cancelled : BOOLEAN, proxy : {"open", "disconnecting", "closed"},
                     forwarding : BOOLEAN, closed : BOOLEAN]
        BY DEF Init
    <2>3. conn \in [state : {"none", "connecting", "open", "gone"}, reading : BOOLEAN,
                   writing : Seq(1..UpLen), closing : BOOLEAN]
        BY <1>2, <1>3
    <2>4. adapter \in {"none", "connecting"}
        BY <1>1
    <2>5. queue \in Seq(QueueBlock)
        BY <1>3 DEF Init
    <2>6. delayed = 0 /\ inflight = 0 /\ up = 0 /\ 0 \in Nat
        BY DEF Init
    <2> QED BY <1>3, <2>1, <2>2, <2>3, <2>4, <2>5, <2>6 DEF TypeOK
<1>5. QueueSound(queue, sock.valid, conn.state)
    BY DEF Init, QueueSound
<1>6. tunnel.proxy = "open" /\ tunnel.closed = FALSE
    BY DEF Init
<1>7. adapter # "closed" /\ (adapter = "none" <=> conn.state = "none")
    BY <1>1, <1>2
<1>8. Sides /\ Released
    BY <1>6, <1>7 DEF Sides, Released
<1> QED
    BY <1>4, <1>5, <1>8 DEF TunnelInv

\* Steps that leave both sides' status alone: the pcb may go, and the
\* connection may move on.
LEMMA QuietStep ==
    ASSUME TunnelInv, TypeOK', QueueSound(queue, sock.valid, conn.state)',
           UNCHANGED adapter,
           tunnel'.proxy = tunnel.proxy, tunnel'.closed = tunnel.closed,
           tunnel'.cancelled = tunnel.cancelled,
           sock'.valid => sock.valid, Moves(conn.state, conn'.state)
    PROVE  TunnelInv'
<1>1. Sides'
    BY DEF TunnelInv, Sides, Moves
<1>2. Released'
    BY DEF TunnelInv, Released, Moves
<1> QED
    BY <1>1, <1>2 DEF TunnelInv

\* Steps that end a side: the tunnel is cancelled and counts as closed only
\* when its local side is closed and its adapter is closed or was never made.
LEMMA EndStep ==
    ASSUME TunnelInv, TypeOK', QueueSound(queue, sock.valid, conn.state)',
           sock'.valid => sock.valid, Moves(conn.state, conn'.state),
           tunnel'.cancelled, tunnel'.proxy = "closed" => ~sock'.valid,
           adapter' = "none" <=> adapter = "none", adapter' = "closed" => conn'.state = "gone",
           tunnel'.closed => tunnel.closed \/ IsClosed(tunnel'.proxy, adapter')
    PROVE  TunnelInv'
<1>1. Sides'
    BY DEF TunnelInv, Sides, Moves
<1>2. Released'
    <2> SUFFICES ASSUME tunnel'.closed PROVE ~sock'.valid /\ conn'.state \in {"none", "gone"}
        BY DEF Released
    <2>1. CASE tunnel.closed
        BY <2>1 DEF TunnelInv, Released, Moves
    <2>2. CASE IsClosed(tunnel'.proxy, adapter')
        BY <1>1, <2>2 DEF IsClosed, Sides
    <2> QED BY <2>1, <2>2
<1> QED
    BY <1>1, <1>2 DEF TunnelInv

-----------------------------------------------------------------------------
(* The blocks *)

\* What every block finds: itself at the head, typed and fitting.
LEMMA HeadSound ==
    ASSUME TunnelInv, queue # <<>>
    PROVE  /\ Head(queue) \in QueueBlock /\ Fits(Head(queue), sock.valid, conn.state)
           /\ Head(queue).data \in Seq(1..UpLen) /\ Head(queue).n \in 0..DownLen
<1>1. queue \in Seq(QueueBlock) /\ QueueSound(queue, sock.valid, conn.state)
      /\ sock.valid \in BOOLEAN
    BY DEF TunnelInv, TypeOK
<1>2. Head(queue) \in QueueBlock /\ Fits(Head(queue), sock.valid, conn.state)
    BY <1>1, TailSound
<1> QED
    BY <1>2 DEF QueueBlock

\* A block that leaves the pcb or gives it up, and the connection where it is.
LEMMA BlockSound ==
    ASSUME TunnelInv, queue # <<>>, NEW bs, Dispatch(bs), sock'.valid \in BOOLEAN,
           sock'.valid => sock.valid, conn'.state = conn.state,
           Fitting(bs, sock'.valid, conn'.state)
    PROVE  queue' \in Seq(QueueBlock) /\ QueueSound(queue, sock.valid, conn.state)'
<1>1. queue \in Seq(QueueBlock) /\ QueueSound(queue, sock.valid, conn.state)
      /\ sock.valid \in BOOLEAN
    BY DEF TunnelInv, TypeOK
<1>2. Moves(conn.state, conn'.state)
    BY DEF Moves
<1>3. /\ Tail(queue) \o bs \in Seq(QueueBlock)
      /\ QueueSound(Tail(queue) \o bs, sock'.valid, conn'.state)
    BY <1>1, <1>2, DispatchSound
<1> QED
    BY <1>3 DEF Dispatch

LEMMA OpenAdapterStep ==
    ASSUME TunnelInv, queue # <<>>, Head(queue).type = "open", OpenAdapter, UNCHANGED up
    PROVE  TunnelInv'
<1>1. conn.state = "none" /\ adapter = "none"
    BY HeadSound DEF Fits, TunnelInv, Sides
<1>2. queue' = Tail(queue)
    BY DEF OpenAdapter, Dispatch, TunnelInv, TypeOK
<1>3. /\ Tail(queue) \in Seq(QueueBlock) /\ QueueSound(Tail(queue), sock.valid, conn.state)
      /\ \A i \in 1..Len(Tail(queue)) : Tail(queue)[i].type # "open"
    BY TailSound DEF TunnelInv, TypeOK
<1>4. CASE tunnel.cancelled
    <2>1. UNCHANGED <<adapter, conn, sock, tunnel, delayed, inflight>>
        BY <1>4 DEF OpenAdapter
    <2> QED
        BY <1>2, <1>3, <2>1 DEF TunnelInv, TypeOK, Sides, Released
<1>5. CASE ~tunnel.cancelled
    <2>1. /\ adapter' = "connecting" /\ conn' = [conn EXCEPT !.state = "connecting"]
          /\ UNCHANGED <<sock, tunnel, delayed, inflight>>
        BY <1>5 DEF OpenAdapter
    <2>2. conn'.state = "connecting"
        BY <2>1 DEF TunnelInv, TypeOK
    <2>3. TypeOK'
        BY <1>2, <1>3, <2>1 DEF TunnelInv, TypeOK
    <2>4. QueueSound(Tail(queue), sock.valid, "connecting")
        BY <1>1, <1>3 DEF QueueSound, Fits
    <2>5. Sides' /\ Released'
        BY <1>5, <2>1, <2>2 DEF TunnelInv, Sides, Released
    <2> QED
        BY <1>2, <2>1, <2>2, <2>3, <2>4, <2>5 DEF TunnelInv
<1> QED
    BY <1>4, <1>5

LEMMA DidConnectStep ==
    ASSUME TunnelInv, queue # <<>>, Head(queue).type = "connected", DidConnect, UNCHANGED up
    PROVE  TunnelInv'
<1>1. conn.state \notin {"none", "connecting"}
    BY HeadSound DEF Fits
<1>2. PICK bs : Dispatch(bs) /\ Fitting(bs, sock.valid, conn.state)
    BY NoneFitting, ReadFitting DEF DidConnect
<1>3. /\ sock' \in [valid : BOOLEAN, pending : Seq(1..UpLen), reading : BOOLEAN,
                    remain : Int, closing : BOOLEAN]
      /\ sock'.valid = sock.valid
    <2>1. sock \in [valid : BOOLEAN, pending : Seq(1..UpLen), reading : BOOLEAN,
                    remain : Int, closing : BOOLEAN]
        BY DEF TunnelInv, TypeOK
    <2>2. sock' = sock \/ sock' = [sock EXCEPT !.reading = TRUE]
        BY DEF DidConnect, ReadsLocal
    <2> QED BY <2>1, <2>2
<1>4. /\ tunnel' \in [cancelled : BOOLEAN, proxy : {"open", "disconnecting", "closed"},
                      forwarding : BOOLEAN, closed : BOOLEAN]
      /\ tunnel'.proxy = tunnel.proxy /\ tunnel'.closed = tunnel.closed
      /\ tunnel'.cancelled = tunnel.cancelled
    BY DEF DidConnect, TunnelInv, TypeOK
<1>5. /\ conn' \in [state : {"none", "connecting", "open", "gone"}, reading : BOOLEAN,
                    writing : Seq(1..UpLen), closing : BOOLEAN]
      /\ conn'.state = conn.state
    BY DEF DidConnect, TunnelInv, TypeOK
<1>6. queue' \in Seq(QueueBlock) /\ QueueSound(queue, sock.valid, conn.state)'
    BY <1>2, <1>3, <1>5, BlockSound
<1>7. adapter' = "established" /\ UNCHANGED <<delayed, inflight>>
    BY DEF DidConnect
<1>8. TypeOK'
    BY <1>3, <1>4, <1>5, <1>6, <1>7 DEF TunnelInv, TypeOK
<1>9. Sides' /\ Released'
    BY <1>1, <1>3, <1>4, <1>5, <1>7 DEF TunnelInv, Sides, Released
<1> QED
    BY <1>6, <1>8, <1>9 DEF TunnelInv

\* The blocks that pass data on: nothing ends with them, except that lwIP may
\* refuse a write.
LEMMA KeepDataStep ==
    ASSUME TunnelInv, queue # <<>>, KeepData(Head(queue).data), UNCHANGED up
    PROVE  TunnelInv'
<1>1. Dispatch(CheckReadData(sock')) /\ UNCHANGED <<delayed, inflight, tunnel, adapter, conn>>
    BY DEF KeepData
<1>2. sock.pending \o Head(queue).data \in Seq(1..UpLen)
    BY HeadSound DEF TunnelInv, TypeOK
<1>3. /\ sock' \in [valid : BOOLEAN, pending : Seq(1..UpLen), reading : BOOLEAN,
                    remain : Int, closing : BOOLEAN]
      /\ sock'.valid = sock.valid
    BY <1>2 DEF KeepData, TunnelInv, TypeOK
<1>4. queue' \in Seq(QueueBlock) /\ QueueSound(queue, sock.valid, conn.state)'
    BY <1>1, <1>3, BlockSound, ReadFitting
<1>5. TypeOK' /\ Moves(conn.state, conn'.state)
    BY <1>1, <1>3, <1>4 DEF TunnelInv, TypeOK, Moves
<1> QED
    BY <1>1, <1>3, <1>4, <1>5, QuietStep

LEMMA HandOnStep ==
    ASSUME TunnelInv, queue # <<>>, HandOn, UNCHANGED up
    PROVE  TunnelInv'
<1>1. Dispatch(<<>>) /\ UNCHANGED <<delayed, inflight, tunnel, adapter>>
    BY DEF HandOn
<1>2. conn.writing \o sock.pending \in Seq(1..UpLen)
    BY DEF TunnelInv, TypeOK
<1>3. <<>> \in Seq(1..UpLen)
    OBVIOUS
<1>4. /\ sock' \in [valid : BOOLEAN, pending : Seq(1..UpLen), reading : BOOLEAN,
                    remain : Int, closing : BOOLEAN]
      /\ sock'.valid = sock.valid
    BY <1>3 DEF HandOn, TunnelInv, TypeOK
<1>5. /\ conn' \in [state : {"none", "connecting", "open", "gone"}, reading : BOOLEAN,
                    writing : Seq(1..UpLen), closing : BOOLEAN]
      /\ conn'.state = conn.state
    BY <1>2 DEF HandOn, TunnelInv, TypeOK
<1>6. queue' \in Seq(QueueBlock) /\ QueueSound(queue, sock.valid, conn.state)'
    BY <1>1, <1>4, <1>5, BlockSound, NoneFitting
<1>7. TypeOK' /\ Moves(conn.state, conn'.state)
    BY <1>1, <1>4, <1>5, <1>6 DEF TunnelInv, TypeOK, Moves
<1> QED
    BY <1>1, <1>4, <1>6, <1>7, QuietStep

LEMMA AdapterWroteStep ==
    ASSUME TunnelInv, queue # <<>>, AdapterWrote, UNCHANGED up
    PROVE  TunnelInv'
<1>1. PICK bs : Dispatch(bs) /\ Fitting(bs, sock.valid, conn.state)
    BY NoneFitting, ReadFitting DEF AdapterWrote
<1>2. UNCHANGED <<delayed, inflight, tunnel, adapter, conn>>
    BY DEF AdapterWrote
<1>3. /\ sock' \in [valid : BOOLEAN, pending : Seq(1..UpLen), reading : BOOLEAN,
                    remain : Int, closing : BOOLEAN]
      /\ sock'.valid = sock.valid
    BY DEF AdapterWrote, ReadsLocal, TunnelInv, TypeOK
<1>4. queue' \in Seq(QueueBlock) /\ QueueSound(queue, sock.valid, conn.state)'
    BY <1>1, <1>2, <1>3, BlockSound
<1>5. TypeOK' /\ Moves(conn.state, conn'.state)
    BY <1>2, <1>3, <1>4 DEF TunnelInv, TypeOK, Moves
<1> QED
    BY <1>2, <1>3, <1>4, <1>5, QuietStep

LEMMA AdapterReadsStep ==
    ASSUME TunnelInv, queue # <<>>, AdapterReads, UNCHANGED up
    PROVE  TunnelInv'
<1>1. Dispatch(<<>>) /\ UNCHANGED <<delayed, sock, inflight, tunnel, adapter>>
    BY DEF AdapterReads
<1>2. (conn.reading \/ (conn.state = "open" /\ ~conn.closing)) \in BOOLEAN
    OBVIOUS
<1>3. /\ conn' \in [state : {"none", "connecting", "open", "gone"}, reading : BOOLEAN,
                    writing : Seq(1..UpLen), closing : BOOLEAN]
      /\ conn'.state = conn.state
    BY <1>2 DEF AdapterReads, TunnelInv, TypeOK
<1>4. queue' \in Seq(QueueBlock) /\ QueueSound(queue, sock.valid, conn.state)'
    BY <1>1, <1>3, BlockSound, NoneFitting DEF TunnelInv, TypeOK
<1>5. TypeOK' /\ Moves(conn.state, conn'.state)
    BY <1>1, <1>3, <1>4 DEF TunnelInv, TypeOK, Moves
<1> QED
    BY <1>1, <1>4, <1>5, QuietStep

LEMMA WriteLocalStep ==
    ASSUME TunnelInv, queue # <<>>, WriteLocal(Head(queue).n), UNCHANGED up
    PROVE  TunnelInv'
<1> DEFINE n == Head(queue).n
<1>1. UNCHANGED <<delayed, tunnel, adapter, conn>>
    BY DEF WriteLocal
<1>2. n \in Nat
    BY HeadSound, TunnelAssumption DEF TunnelAssumption
<1> HIDE DEF n
<1>3. CASE tunnel.cancelled
    <2>1. UNCHANGED <<sock, inflight>> /\ Dispatch(<<>>)
        BY <1>3 DEF WriteLocal
    <2>2. queue' \in Seq(QueueBlock) /\ QueueSound(queue, sock.valid, conn.state)'
        BY <1>1, <2>1, BlockSound, NoneFitting DEF TunnelInv, TypeOK
    <2>3. TypeOK' /\ Moves(conn.state, conn'.state)
        BY <1>1, <2>1, <2>2 DEF TunnelInv, TypeOK, Moves
    <2> QED BY <1>1, <2>1, <2>2, <2>3, QuietStep
<1>4. CASE ~tunnel.cancelled
    <2>1. PICK accepted \in BOOLEAN :
            /\ sock' = [sock EXCEPT !.remain = n, !.valid = sock.valid /\ accepted]
            /\ inflight' = IF sock'.valid /\ n < WriteLimit THEN inflight + n ELSE inflight
            /\ Dispatch(Gone(sock, sock'))
        BY <1>4 DEF WriteLocal, n
    <2>2. PICK valid \in BOOLEAN :
            sock' = [sock EXCEPT !.remain = n, !.valid = valid] /\ (valid => sock.valid)
        <3>1. (sock.valid /\ accepted) \in BOOLEAN
            OBVIOUS
        <3> QED BY <2>1, <3>1, Zenon
    <2>3. /\ sock' \in [valid : BOOLEAN, pending : Seq(1..UpLen), reading : BOOLEAN,
                        remain : Int, closing : BOOLEAN]
          /\ sock'.valid => sock.valid
        <3>1. n \in Int
            BY <1>2
        <3>2. /\ sock' \in [valid : BOOLEAN, pending : Seq(1..UpLen), reading : BOOLEAN,
                            remain : Int, closing : BOOLEAN]
              /\ sock'.valid = valid
            BY <3>1, <2>2 DEF TunnelInv, TypeOK
        <3> QED BY <3>2, <2>2, Zenon
    <2>4. inflight' \in Nat
        BY <1>2, <2>1 DEF TunnelInv, TypeOK
    <2>5. queue' \in Seq(QueueBlock) /\ QueueSound(queue, sock.valid, conn.state)'
        BY <1>1, <2>1, <2>3, BlockSound, GoneFitting
    <2>6. TypeOK' /\ Moves(conn.state, conn'.state)
        BY <1>1, <2>3, <2>4, <2>5 DEF TunnelInv, TypeOK, Moves
    <2> QED BY <1>1, <2>3, <2>5, <2>6, QuietStep
<1> QED
    BY <1>3, <1>4

\* A side has ended, or is told to.
LEMMA AdapterDisconnectSound ==
    ASSUME TypeOK, AdapterDisconnect
    PROVE  /\ conn' \in [state : {"none", "connecting", "open", "gone"}, reading : BOOLEAN,
                         writing : Seq(1..UpLen), closing : BOOLEAN]
           /\ conn'.state = conn.state
           /\ adapter' \in {"none", "connecting", "established", "disconnecting", "closed"}
           /\ adapter' = "none" <=> adapter = "none"
           /\ adapter' = "closed" => adapter = "closed"
<1>1. CASE AdapterOpen
    BY <1>1 DEF AdapterDisconnect, AdapterOpen, TypeOK
<1>2. CASE ~AdapterOpen
    BY <1>2 DEF AdapterDisconnect, TypeOK
<1> QED
    BY <1>1, <1>2

LEMMA ProxyGoneSound ==
    ASSUME TypeOK, ProxyGone
    PROVE  /\ conn' \in [state : {"none", "connecting", "open", "gone"}, reading : BOOLEAN,
                         writing : Seq(1..UpLen), closing : BOOLEAN]
           /\ conn'.state = conn.state
           /\ adapter' \in {"none", "connecting", "established", "disconnecting", "closed"}
           /\ adapter' = "none" <=> adapter = "none"
           /\ adapter' = "closed" => adapter = "closed"
           /\ tunnel' \in [cancelled : BOOLEAN, proxy : {"open", "disconnecting", "closed"},
                           forwarding : BOOLEAN, closed : BOOLEAN]
           /\ tunnel'.cancelled
           /\ tunnel'.closed => tunnel.closed \/ IsClosed(tunnel'.proxy, adapter')
<1>1. PICK c \in BOOLEAN :
        /\ tunnel' = [tunnel EXCEPT !.cancelled = TRUE, !.proxy = "closed", !.closed = c]
        /\ c => tunnel.closed \/ IsClosed("closed", adapter')
    <2>1. (tunnel.closed \/ IsClosed("closed", adapter')) \in BOOLEAN
        OBVIOUS
    <2>2. tunnel' = [tunnel EXCEPT !.cancelled = TRUE, !.proxy = "closed",
                                  !.closed = tunnel.closed \/ IsClosed("closed", adapter')]
        BY DEF ProxyGone
    <2> QED BY <2>1, <2>2, Zenon
<1>2. /\ tunnel' \in [cancelled : BOOLEAN, proxy : {"open", "disconnecting", "closed"},
                      forwarding : BOOLEAN, closed : BOOLEAN]
      /\ tunnel'.cancelled = TRUE /\ tunnel'.proxy = "closed" /\ tunnel'.closed = c
    BY <1>1 DEF TypeOK
<1>3. tunnel'.closed => tunnel.closed \/ IsClosed(tunnel'.proxy, adapter')
    BY <1>1, <1>2, Zenon
<1>4. CASE tunnel.cancelled
    BY <1>2, <1>3, <1>4 DEF ProxyGone, TypeOK
<1>5. CASE ~tunnel.cancelled
    BY <1>2, <1>3, <1>5, AdapterDisconnectSound DEF ProxyGone
<1> QED
    BY <1>4, <1>5

LEMMA GoneStep ==
    ASSUME TunnelInv, queue # <<>>, Head(queue).type = "gone", ProxyGone, Dispatch(<<>>),
           UNCHANGED <<delayed, sock, inflight, up>>
    PROVE  TunnelInv'
<1>1. ~sock.valid
    BY HeadSound DEF Fits
<1>2. TypeOK /\ Sides /\ sock.valid \in BOOLEAN
    BY DEF TunnelInv, TypeOK
<1>3. queue' \in Seq(QueueBlock) /\ QueueSound(queue, sock.valid, conn.state)'
    BY <1>2, BlockSound, NoneFitting, ProxyGoneSound
<1>4. TypeOK' /\ Moves(conn.state, conn'.state)
    BY <1>2, <1>3, ProxyGoneSound DEF TypeOK, Moves
<1> QED
    BY <1>1, <1>2, <1>3, <1>4, ProxyGoneSound, EndStep DEF Sides

LEMMA DisconnectsTyped ==
    ASSUME TypeOK
    PROVE  Disconnects(sock) \in [valid : BOOLEAN, pending : Seq(1..UpLen), reading : BOOLEAN,
                                  remain : Int, closing : BOOLEAN]
<1>1. (sock.remain # 0) \in BOOLEAN
    OBVIOUS
<1> QED
    BY <1>1 DEF TypeOK, Disconnects

LEMMA WroteStep ==
    ASSUME TunnelInv, queue # <<>>, Wrote(Head(queue).n), UNCHANGED up
    PROVE  TunnelInv'
<1> DEFINE n == Head(queue).n
           left == sock.remain - n
           ends == left = 0 /\ sock.closing
           closes == ends /\ ~sock.valid
<1>1. n \in Nat /\ left \in Int
    BY HeadSound, TunnelAssumption DEF TunnelAssumption, TunnelInv, TypeOK
<1>2. TypeOK /\ Sides /\ Dispatch(Gone(sock, sock')) /\ UNCHANGED inflight
    BY DEF TunnelInv, Wrote
<1>3. delayed' \in Nat
    BY DEF Wrote, TunnelInv, TypeOK
<1>4. /\ [sock EXCEPT !.remain = left].closing = sock.closing
      /\ [sock EXCEPT !.remain = left].valid = sock.valid
    BY DEF TunnelInv, TypeOK
<1>5. sock' = IF ends THEN [[sock EXCEPT !.remain = left] EXCEPT !.valid = FALSE]
              ELSE [sock EXCEPT !.remain = left]
    BY <1>4 DEF Wrote
<1>6. IF closes THEN ProxyGone ELSE UNCHANGED <<tunnel, adapter, conn>>
    BY <1>4 DEF Wrote
<1> HIDE DEF n, left, ends, closes
<1>7. /\ sock' \in [valid : BOOLEAN, pending : Seq(1..UpLen), reading : BOOLEAN,
                    remain : Int, closing : BOOLEAN]
      /\ sock'.valid => sock.valid
    BY <1>1, <1>2, <1>5 DEF TypeOK
<1>8. conn'.state = conn.state
    BY <1>2, <1>6, ProxyGoneSound
<1>9. queue' \in Seq(QueueBlock) /\ QueueSound(queue, sock.valid, conn.state)'
    BY <1>2, <1>7, <1>8, BlockSound, GoneFitting
<1>10. CASE closes
    <2>1. ~sock.valid /\ ProxyGone
        BY <1>6, <1>10 DEF closes
    <2>2. TypeOK' /\ Moves(conn.state, conn'.state)
        BY <1>2, <1>3, <1>7, <1>9, <2>1, ProxyGoneSound DEF TypeOK, Moves
    <2> QED
        BY <1>2, <1>7, <1>9, <2>1, <2>2, ProxyGoneSound, EndStep DEF Sides
<1>11. CASE ~closes
    <2>1. UNCHANGED <<tunnel, adapter, conn>>
        BY <1>6, <1>11
    <2>2. TypeOK' /\ Moves(conn.state, conn'.state)
        BY <1>2, <1>3, <1>7, <1>9, <2>1 DEF TypeOK, Moves
    <2> QED BY <1>7, <1>9, <2>1, <2>2, QuietStep
<1> QED
    BY <1>10, <1>11

LEMMA AdapterGoneStep ==
    ASSUME TunnelInv, queue # <<>>, Head(queue).type = "adapterGone", AdapterGone,
           UNCHANGED <<delayed, inflight, up>>
    PROVE  TunnelInv'
<1>1. conn.state = "gone" /\ TypeOK /\ Sides /\ adapter # "none"
    BY HeadSound DEF Fits, TunnelInv, Sides
<1> DEFINE proxy == IF tunnel.cancelled THEN tunnel.proxy
                    ELSE IF sock.valid THEN "disconnecting" ELSE "closed"
<1>2. /\ adapter' = "closed" /\ conn' = conn /\ Dispatch(Gone(sock, sock'))
      /\ sock' = IF ~tunnel.cancelled /\ sock.valid THEN Disconnects(sock) ELSE sock
      /\ tunnel' = [tunnel EXCEPT !.cancelled = TRUE, !.proxy = proxy,
                                  !.closed = tunnel.closed \/ IsClosed(proxy, "closed")]
    BY DEF AdapterGone
<1>3. proxy \in {"open", "disconnecting", "closed"} /\ (proxy = "closed" => ~sock.valid)
    BY <1>1 DEF TypeOK, Sides
<1> HIDE DEF proxy
<1>4. PICK c \in BOOLEAN :
        /\ tunnel' = [tunnel EXCEPT !.cancelled = TRUE, !.proxy = proxy, !.closed = c]
        /\ c => tunnel.closed \/ IsClosed(proxy, "closed")
    <2>1. (tunnel.closed \/ IsClosed(proxy, "closed")) \in BOOLEAN
        OBVIOUS
    <2> QED BY <1>2, <2>1, Zenon
<1>5. /\ tunnel' \in [cancelled : BOOLEAN, proxy : {"open", "disconnecting", "closed"},
                      forwarding : BOOLEAN, closed : BOOLEAN]
      /\ tunnel'.cancelled = TRUE /\ tunnel'.proxy = proxy /\ tunnel'.closed = c
    BY <1>1, <1>3, <1>4 DEF TypeOK
<1>6. tunnel'.closed => tunnel.closed \/ IsClosed(tunnel'.proxy, adapter')
    BY <1>2, <1>4, <1>5, Zenon
<1>7. /\ sock' \in [valid : BOOLEAN, pending : Seq(1..UpLen), reading : BOOLEAN,
                    remain : Int, closing : BOOLEAN]
      /\ sock'.valid => sock.valid
    <2>1. CASE ~tunnel.cancelled /\ sock.valid
        BY <1>1, <1>2, <2>1, DisconnectsTyped
    <2>2. CASE ~(~tunnel.cancelled /\ sock.valid)
        BY <1>1, <1>2, <2>2 DEF TypeOK
    <2> QED BY <2>1, <2>2
<1>8. queue' \in Seq(QueueBlock) /\ QueueSound(queue, sock.valid, conn.state)'
    BY <1>2, <1>7, BlockSound, GoneFitting
<1>9. TypeOK' /\ Moves(conn.state, conn'.state)
    BY <1>1, <1>2, <1>5, <1>7, <1>8 DEF TypeOK, Moves
<1> QED
    BY <1>1, <1>2, <1>3, <1>5, <1>6, <1>7, <1>8, <1>9, EndStep

LEMMA TurnStep == TunnelInv /\ Turn => TunnelInv'
<1> SUFFICES ASSUME TunnelInv, Turn PROVE TunnelInv'
    OBVIOUS
<1>1. queue # <<>> /\ UNCHANGED up
    BY DEF Turn
<1>2. CASE Head(queue).type = "open" /\ OpenAdapter
    BY <1>1, <1>2, OpenAdapterStep
<1>3. CASE Head(queue).type = "connected" /\ DidConnect
    BY <1>1, <1>3, DidConnectStep
<1>4. CASE KeepData(Head(queue).data)
    BY <1>1, <1>4, KeepDataStep
<1>5. CASE HandOn
    BY <1>1, <1>5, HandOnStep
<1>6. CASE AdapterWrote
    BY <1>1, <1>6, AdapterWroteStep
<1>7. CASE WriteLocal(Head(queue).n)
    BY <1>1, <1>7, WriteLocalStep
<1>8. CASE Wrote(Head(queue).n)
    BY <1>1, <1>8, WroteStep
<1>9. CASE AdapterReads
    BY <1>1, <1>9, AdapterReadsStep
<1>10. CASE /\ Head(queue).type = "gone" /\ ProxyGone /\ Dispatch(<<>>)
            /\ UNCHANGED <<delayed, sock, inflight, forwarded, unanswered>>
    BY <1>1, <1>10, GoneStep
<1>11. CASE /\ Head(queue).type = "adapterGone" /\ AdapterGone
            /\ UNCHANGED <<delayed, inflight, forwarded, unanswered>>
    BY <1>1, <1>11, AdapterGoneStep
<1> QED
    BY <1>2, <1>3, <1>4, <1>5, <1>6, <1>7, <1>8, <1>9, <1>10, <1>11 DEF Turn

-----------------------------------------------------------------------------
(* What reaches the queue from outside *)

\* Arrivals that put one block on the queue and leave the pcb.
LEMMA ArrivalStep ==
    ASSUME TunnelInv, NEW b \in QueueBlock, b.type # "open", Enqueue(b),
           sock' = sock, Moves(conn.state, conn'.state), Fits(b, sock.valid, conn'.state)
    PROVE  queue' \in Seq(QueueBlock) /\ QueueSound(queue, sock.valid, conn.state)'
<1>1. queue \in Seq(QueueBlock) /\ QueueSound(queue, sock.valid, conn.state)
      /\ sock.valid \in BOOLEAN
    BY DEF TunnelInv, TypeOK
<1>2. Append(queue, b) \in Seq(QueueBlock) /\ QueueSound(Append(queue, b), sock.valid, conn'.state)
    BY <1>1, AppendSound
<1> QED
    BY <1>2 DEF Enqueue

LEMMA ResolvedStep ==
    ASSUME TunnelInv, Resolved
    PROVE  TunnelInv'
<1>1. /\ conn.state = "none" /\ \A i \in 1..Len(queue) : queue[i].type # "open"
      /\ queue' = Append(queue, Block("open"))
      /\ UNCHANGED <<delayed, sock, inflight, tunnel, adapter, conn, up>>
    BY DEF Resolved, Enqueue
<1> DEFINE b == Block("open")
<1>2. b \in QueueBlock /\ b.type = "open" /\ b.data = <<>> /\ queue \in Seq(QueueBlock)
    BY BlockTyped DEF TunnelInv, TypeOK
<1> HIDE DEF b
<1>3. /\ Append(queue, b) \in Seq(QueueBlock) /\ Len(queue) \in Nat
      /\ Len(Append(queue, b)) = Len(queue) + 1
      /\ \A i \in 1..(Len(queue) + 1) :
            Append(queue, b)[i] = IF i <= Len(queue) THEN queue[i] ELSE b
    BY <1>2
<1>4. \A i \in 1..(Len(queue) + 1) :
        \/ i \in 1..Len(queue) /\ Append(queue, b)[i] = queue[i]
        \/ i = Len(queue) + 1 /\ Append(queue, b)[i] = b
    BY <1>3
<1>5. Fits(b, sock.valid, conn.state)
    BY <1>1, <1>2 DEF Fits
<1>6. QueueSound(Append(queue, b), sock.valid, conn.state)
    <2>1. \A i \in 1..(Len(queue) + 1) : Fits(Append(queue, b)[i], sock.valid, conn.state)
        BY <1>4, <1>5 DEF TunnelInv, QueueSound
    <2>2. \A i \in 1..(Len(queue) + 1) : Append(queue, b)[i].type = "open" => i = Len(queue) + 1
        BY <1>1, <1>4
    <2> QED BY <1>3, <2>1, <2>2 DEF QueueSound
<1>7. queue' = Append(queue, b)
    BY <1>1 DEF b
<1>8. TypeOK' /\ QueueSound(queue, sock.valid, conn.state)' /\ Sides' /\ Released'
    BY <1>1, <1>3, <1>6, <1>7 DEF TunnelInv, TypeOK, Sides, Released
<1> QED
    BY <1>8 DEF TunnelInv

LEMMA DelayEndsStep ==
    ASSUME TunnelInv, DelayEnds
    PROVE  TunnelInv'
<1>1. /\ delayed' \in Nat /\ Enqueue(Block("readAdapter"))
      /\ UNCHANGED <<sock, inflight, tunnel, adapter, conn, up>>
    BY DEF DelayEnds, TunnelInv, TypeOK
<1>2. Moves(conn.state, conn'.state)
    BY <1>1 DEF Moves
<1>3. /\ Block("readAdapter") \in QueueBlock /\ Block("readAdapter").type = "readAdapter"
      /\ Fits(Block("readAdapter"), sock.valid, conn'.state)
    BY BlockTyped DEF Fits
<1>4. queue' \in Seq(QueueBlock) /\ QueueSound(queue, sock.valid, conn.state)'
    BY <1>1, <1>2, <1>3, ArrivalStep
<1>5. TypeOK'
    BY <1>1, <1>4 DEF TunnelInv, TypeOK
<1> QED
    BY <1>1, <1>2, <1>4, <1>5, QuietStep

LEMMA LocalSendsStep ==
    ASSUME TunnelInv, NEW n \in 0..UpLen, NEW last \in BOOLEAN, LocalSends(n, last)
    PROVE  TunnelInv'
<1> DEFINE data == [i \in 1..n |-> up + i]
           b == [Block("data") EXCEPT !.data = data]
           bs == IF n > 0 THEN <<b>> ELSE <<>>
<1>1. /\ sock.valid /\ up' = up + n /\ up + n <= UpLen
      /\ sock' = IF last THEN Disconnects(sock) ELSE sock
      /\ queue' = queue \o bs \o Gone(sock, sock')
      /\ UNCHANGED <<delayed, inflight, tunnel, adapter, conn>>
    BY DEF LocalSends
<1>2. up \in 0..UpLen /\ UpLen \in Nat /\ up' \in 0..UpLen
    BY <1>1, TunnelAssumption DEF TunnelAssumption, TunnelInv, TypeOK
<1>3. data \in Seq(1..UpLen)
    <2>1. n \in Nat /\ \A i \in 1..n : up + i \in 1..UpLen
        BY <1>1, <1>2
    <2> QED BY <2>1
<1>4. b \in QueueBlock /\ b.type = "data"
    BY <1>3, BlockTyped, TunnelAssumption DEF TunnelAssumption, QueueBlock, Block
<1> HIDE DEF data, b
<1>5. /\ sock' \in [valid : BOOLEAN, pending : Seq(1..UpLen), reading : BOOLEAN,
                    remain : Int, closing : BOOLEAN]
      /\ sock'.valid => sock.valid
    <2>1. CASE last
        BY <1>1, <2>1, DisconnectsTyped DEF TunnelInv
    <2>2. CASE ~last
        BY <1>1, <2>2 DEF TunnelInv, TypeOK
    <2> QED BY <2>1, <2>2
<1>6. Fitting(bs, sock.valid, conn.state)
    <2>1. Fits(b, sock.valid, conn.state)
        BY <1>4 DEF Fits
    <2> QED BY <1>4, <2>1, OneFitting, NoneFitting
<1> HIDE DEF bs
<1>7. Moves(conn.state, conn.state) /\ conn'.state = conn.state
    BY <1>1 DEF Moves
<1>8. /\ queue \o bs \in Seq(QueueBlock) /\ QueueSound(queue \o bs, sock.valid, conn.state)
      /\ sock.valid \in BOOLEAN
    BY <1>6, <1>7, ArrivalSound DEF TunnelInv, TypeOK
<1>9. queue' \in Seq(QueueBlock) /\ QueueSound(queue, sock.valid, conn.state)'
    <2> DEFINE r == queue \o bs
    <2>1. queue' = r \o Gone(sock, sock')
        BY <1>1
    <2>2. r \in Seq(QueueBlock) /\ QueueSound(r, sock.valid, conn.state)
        BY <1>8
    <2> HIDE DEF r
    <2> QED BY <1>5, <1>7, <1>8, <2>1, <2>2, ArrivalSound, GoneFitting
<1>10. TypeOK' /\ Moves(conn.state, conn'.state)
    BY <1>1, <1>2, <1>5, <1>7, <1>9 DEF TunnelInv, TypeOK
<1> QED
    BY <1>1, <1>5, <1>9, <1>10, QuietStep

LEMMA LocalAcksStep ==
    ASSUME TunnelInv, NEW n \in 1..DownLen, LocalAcks(n)
    PROVE  TunnelInv'
<1> DEFINE b == [Block("wrote") EXCEPT !.n = n]
<1>1. b \in QueueBlock /\ b.type = "wrote" /\ b.data = <<>>
    <2>1. n \in 0..DownLen /\ <<>> \in Seq(1..UpLen)
        BY TunnelAssumption DEF TunnelAssumption
    <2>2. b = [type |-> "wrote", data |-> <<>>, n |-> n]
        BY DEF Block
    <2> HIDE DEF b
    <2> QED BY <2>1, <2>2 DEF QueueBlock
<1>2. Enqueue(b) /\ b.n = n /\ n > 0 /\ UNCHANGED <<delayed, sock, tunnel, adapter, conn, up>>
    BY TunnelAssumption DEF TunnelAssumption, LocalAcks, Block
<1>3. inflight' \in Nat
    BY TunnelAssumption DEF TunnelAssumption, LocalAcks, TunnelInv, TypeOK
<1> HIDE DEF b
<1>4. Fits(b, sock.valid, conn'.state) /\ Moves(conn.state, conn'.state)
    BY <1>1, <1>2 DEF Fits, Moves
<1>5. queue' \in Seq(QueueBlock) /\ QueueSound(queue, sock.valid, conn.state)'
    BY <1>1, <1>2, <1>4, ArrivalStep
<1>6. TypeOK'
    BY <1>2, <1>3, <1>5 DEF TunnelInv, TypeOK
<1> QED
    BY <1>2, <1>4, <1>5, <1>6, QuietStep

LEMMA LocalResetsStep ==
    ASSUME TunnelInv, LocalResets
    PROVE  TunnelInv'
<1>1. /\ sock' = [sock EXCEPT !.valid = FALSE] /\ queue' = Append(queue, Block("gone"))
      /\ UNCHANGED <<delayed, inflight, tunnel, adapter, conn, up>>
    BY DEF LocalResets, Enqueue
<1>2. /\ sock' \in [valid : BOOLEAN, pending : Seq(1..UpLen), reading : BOOLEAN,
                    remain : Int, closing : BOOLEAN]
      /\ sock'.valid = FALSE
    BY <1>1 DEF TunnelInv, TypeOK
<1>3. /\ Block("gone") \in QueueBlock /\ Block("gone").type = "gone"
      /\ Fits(Block("gone"), FALSE, conn.state) /\ Moves(conn.state, conn.state)
    BY BlockTyped DEF Fits, Moves
<1>4. queue \in Seq(QueueBlock) /\ QueueSound(queue, sock.valid, conn.state)
      /\ sock.valid \in BOOLEAN
    BY DEF TunnelInv, TypeOK
<1>5. queue' \in Seq(QueueBlock) /\ QueueSound(queue', FALSE, conn.state)
    BY <1>1, <1>3, <1>4, AppendSound
<1>6. TypeOK' /\ QueueSound(queue, sock.valid, conn.state)' /\ conn'.state = conn.state
    <2>1. TypeOK'
        BY <1>1, <1>2, <1>5 DEF TunnelInv, TypeOK
    <2>2. QueueSound(queue, sock.valid, conn.state)' /\ conn'.state = conn.state
        BY <1>1, <1>2, <1>5
    <2> QED BY <2>1, <2>2
<1> QED
    BY <1>1, <1>2, <1>3, <1>6, QuietStep

LEMMA ConnectsStep ==
    ASSUME TunnelInv, Connects
    PROVE  TunnelInv'
<1>1. /\ conn.state = "connecting" /\ conn' = [conn EXCEPT !.state = "open"]
      /\ Enqueue(Block("connected"))
      /\ UNCHANGED <<delayed, sock, inflight, tunnel, adapter, up>>
    BY DEF Connects
<1>2. /\ conn' \in [state : {"none", "connecting", "open", "gone"}, reading : BOOLEAN,
                    writing : Seq(1..UpLen), closing : BOOLEAN]
      /\ conn'.state = "open"
    BY <1>1 DEF TunnelInv, TypeOK
<1>3. /\ Block("connected") \in QueueBlock /\ Block("connected").type = "connected"
      /\ Fits(Block("connected"), sock.valid, conn'.state) /\ Moves(conn.state, conn'.state)
    BY <1>1, <1>2, BlockTyped DEF Fits, Moves
<1>4. queue' \in Seq(QueueBlock) /\ QueueSound(queue, sock.valid, conn.state)'
    BY <1>1, <1>3, ArrivalStep
<1>5. TypeOK'
    BY <1>1, <1>2, <1>4 DEF TunnelInv, TypeOK
<1> QED
    BY <1>1, <1>3, <1>4, <1>5, QuietStep

LEMMA RemoteSendsStep ==
    ASSUME TunnelInv, NEW n \in 0..DownLen, RemoteSends(n)
    PROVE  TunnelInv'
<1> DEFINE b == [Block("adapterRead") EXCEPT !.n = n]
<1>1. b \in QueueBlock /\ b.type = "adapterRead" /\ b.data = <<>>
    <2>1. n \in 0..DownLen /\ <<>> \in Seq(1..UpLen)
        BY TunnelAssumption DEF TunnelAssumption
    <2>2. b = [type |-> "adapterRead", data |-> <<>>, n |-> n]
        BY DEF Block
    <2> HIDE DEF b
    <2> QED BY <2>1, <2>2 DEF QueueBlock
<1>2. /\ Enqueue(b) /\ conn' = [conn EXCEPT !.reading = FALSE]
      /\ UNCHANGED <<delayed, sock, inflight, tunnel, adapter, up>>
    BY DEF RemoteSends
<1> HIDE DEF b
<1>3. /\ conn' \in [state : {"none", "connecting", "open", "gone"}, reading : BOOLEAN,
                    writing : Seq(1..UpLen), closing : BOOLEAN]
      /\ conn'.state = conn.state
    BY <1>2 DEF TunnelInv, TypeOK
<1>4. Fits(b, sock.valid, conn'.state) /\ Moves(conn.state, conn'.state)
    BY <1>1, <1>3 DEF Fits, Moves
<1>5. queue' \in Seq(QueueBlock) /\ QueueSound(queue, sock.valid, conn.state)'
    BY <1>1, <1>2, <1>4, ArrivalStep
<1>6. TypeOK'
    BY <1>2, <1>3, <1>5 DEF TunnelInv, TypeOK
<1> QED
    BY <1>2, <1>4, <1>5, <1>6, QuietStep

LEMMA ConnWritesStep ==
    ASSUME TunnelInv, ConnWrites
    PROVE  TunnelInv'
<1>1. /\ conn' = [conn EXCEPT !.writing = <<>>] /\ Enqueue(Block("adapterWrote"))
      /\ UNCHANGED <<delayed, sock, inflight, tunnel, adapter, up>>
    BY DEF ConnWrites
<1>2. <<>> \in Seq(1..UpLen)
    OBVIOUS
<1>3. /\ conn' \in [state : {"none", "connecting", "open", "gone"}, reading : BOOLEAN,
                    writing : Seq(1..UpLen), closing : BOOLEAN]
      /\ conn'.state = conn.state
    BY <1>1, <1>2 DEF TunnelInv, TypeOK
<1>4. /\ Block("adapterWrote") \in QueueBlock /\ Block("adapterWrote").type = "adapterWrote"
      /\ Fits(Block("adapterWrote"), sock.valid, conn'.state) /\ Moves(conn.state, conn'.state)
    BY <1>3, BlockTyped DEF Fits, Moves
<1>5. queue' \in Seq(QueueBlock) /\ QueueSound(queue, sock.valid, conn.state)'
    BY <1>1, <1>4, ArrivalStep
<1>6. TypeOK'
    BY <1>1, <1>3, <1>5 DEF TunnelInv, TypeOK
<1> QED
    BY <1>1, <1>4, <1>5, <1>6, QuietStep

LEMMA ConnGoneStep ==
    ASSUME TunnelInv, conn.state \in {"connecting", "open"}, ConnGone
    PROVE  TunnelInv'
<1>1. /\ conn' = [conn EXCEPT !.state = "gone", !.reading = FALSE, !.writing = <<>>]
      /\ Enqueue(Block("adapterGone"))
      /\ UNCHANGED <<delayed, sock, inflight, tunnel, adapter, up>>
    BY DEF ConnGone
<1>2. <<>> \in Seq(1..UpLen)
    OBVIOUS
<1>3. /\ conn' \in [state : {"none", "connecting", "open", "gone"}, reading : BOOLEAN,
                    writing : Seq(1..UpLen), closing : BOOLEAN]
      /\ conn'.state = "gone"
    BY <1>1, <1>2 DEF TunnelInv, TypeOK
<1>4. /\ Block("adapterGone") \in QueueBlock /\ Block("adapterGone").type = "adapterGone"
      /\ Fits(Block("adapterGone"), sock.valid, conn'.state) /\ Moves(conn.state, conn'.state)
    BY <1>3, BlockTyped DEF Fits, Moves
<1>5. queue' \in Seq(QueueBlock) /\ QueueSound(queue, sock.valid, conn.state)'
    BY <1>1, <1>4, ArrivalStep
<1>6. TypeOK'
    BY <1>1, <1>3, <1>5 DEF TunnelInv, TypeOK
<1> QED
    BY <1>1, <1>4, <1>5, <1>6, QuietStep

LEMMA ForceCloseStep ==
    ASSUME TunnelInv, ForceClose
    PROVE  TunnelInv'
<1> DEFINE proxy == IF sock.valid THEN "disconnecting" ELSE "closed"
           bs == IF conn'.state # conn.state THEN <<Block("adapterGone")>> ELSE <<>>
           cuts == AdapterOpen /\ conn.state # "gone"
<1>1. /\ TypeOK /\ Sides /\ sock.valid \in BOOLEAN
      /\ QueueSound(queue, sock.valid, conn.state)
    BY DEF TunnelInv, TypeOK
<1>2. /\ sock' = [sock EXCEPT !.valid = FALSE]
      /\ tunnel' = [tunnel EXCEPT !.cancelled = TRUE, !.proxy = proxy,
                                  !.closed = IsClosed(proxy, adapter)]
      /\ adapter' = IF AdapterOpen THEN "disconnecting" ELSE adapter
      /\ conn' = IF cuts
                 THEN [conn EXCEPT !.state = "gone", !.reading = FALSE, !.writing = <<>>, !.closing = TRUE]
                 ELSE conn
      /\ queue' = queue \o Gone(sock, sock') \o bs
      /\ UNCHANGED <<delayed, inflight, up>>
    BY DEF ForceClose
<1>3. proxy \in {"open", "disconnecting", "closed"}
    OBVIOUS
<1> HIDE DEF proxy, bs
<1>4. /\ sock' \in [valid : BOOLEAN, pending : Seq(1..UpLen), reading : BOOLEAN,
                    remain : Int, closing : BOOLEAN]
      /\ sock'.valid = FALSE
    BY <1>1, <1>2 DEF TypeOK
<1>5. PICK c \in BOOLEAN :
        /\ tunnel' = [tunnel EXCEPT !.cancelled = TRUE, !.proxy = proxy, !.closed = c]
        /\ c => IsClosed(proxy, adapter)
    <2>1. IsClosed(proxy, adapter) \in BOOLEAN
        BY DEF IsClosed
    <2> QED BY <1>2, <2>1, Zenon
<1>6. /\ tunnel' \in [cancelled : BOOLEAN, proxy : {"open", "disconnecting", "closed"},
                      forwarding : BOOLEAN, closed : BOOLEAN]
      /\ tunnel'.cancelled = TRUE /\ tunnel'.proxy = proxy /\ tunnel'.closed = c
    BY <1>1, <1>3, <1>5 DEF TypeOK
<1>7. tunnel'.closed => IsClosed(tunnel'.proxy, adapter')
    <2>1. c => IsClosed(proxy, adapter')
        BY <1>2, <1>5 DEF IsClosed, AdapterOpen
    <2> QED BY <1>6, <2>1, Zenon
<1>8. /\ conn' \in [state : {"none", "connecting", "open", "gone"}, reading : BOOLEAN,
                    writing : Seq(1..UpLen), closing : BOOLEAN]
      /\ conn'.state = IF cuts THEN "gone" ELSE conn.state
    <2>1. <<>> \in Seq(1..UpLen)
        OBVIOUS
    <2>2. CASE cuts
        BY <1>1, <1>2, <2>1, <2>2 DEF TypeOK
    <2>3. CASE ~cuts
        BY <1>1, <1>2, <2>3 DEF TypeOK
    <2> QED BY <2>2, <2>3
<1>9. Moves(conn.state, conn'.state)
    BY <1>1, <1>8 DEF Moves, Sides, AdapterOpen
<1>10. queue' \in Seq(QueueBlock) /\ QueueSound(queue, sock.valid, conn.state)'
    <2> DEFINE r == queue \o Gone(sock, sock')
    <2>1. queue' = r \o bs
        BY <1>2
    <2>2. Fitting(Gone(sock, sock'), FALSE, conn.state) /\ Moves(conn.state, conn.state)
        BY <1>4, GoneFitting DEF Moves
    <2>3. queue \in Seq(QueueBlock)
        BY <1>1 DEF TypeOK
    <2>4. r \in Seq(QueueBlock) /\ QueueSound(r, FALSE, conn.state)
        BY <1>1, <2>2, <2>3, ArrivalSound
    <2>5. Fitting(bs, FALSE, conn'.state)
        <3>1. /\ Block("adapterGone") \in QueueBlock /\ Block("adapterGone").type = "adapterGone"
              /\ Block("adapterGone").data = <<>>
            BY BlockTyped
        <3>2. CASE conn'.state # conn.state
            <4>1. conn'.state = "gone"
                BY <1>8, <3>2
            <4>2. Fits(Block("adapterGone"), FALSE, conn'.state)
                BY <3>1, <4>1 DEF Fits
            <4> QED BY <3>1, <3>2, <4>2, OneFitting DEF bs
        <3>3. CASE conn'.state = conn.state
            BY <3>3, NoneFitting DEF bs
        <3> QED BY <3>2, <3>3
    <2> HIDE DEF r
    <2>6. r \o bs \in Seq(QueueBlock) /\ QueueSound(r \o bs, FALSE, conn'.state)
        BY <1>9, <2>4, <2>5, ArrivalSound
    <2> QED BY <1>4, <2>1, <2>6
<1>11. adapter' \in {"none", "connecting", "established", "disconnecting", "closed"}
       /\ (adapter' = "none" <=> adapter = "none")
       /\ (adapter' = "closed" => adapter = "closed")
    BY <1>1, <1>2 DEF TypeOK, AdapterOpen
<1>12. adapter' = "closed" => conn'.state = "gone"
    BY <1>1, <1>8, <1>11 DEF Sides
<1>13. TypeOK'
    BY <1>1, <1>2, <1>4, <1>6, <1>8, <1>10, <1>11 DEF TypeOK
<1> QED
    BY <1>4, <1>6, <1>7, <1>9, <1>10, <1>11, <1>12, <1>13, EndStep

-----------------------------------------------------------------------------
\* Every step keeps the invariant.
LEMMA TunnelStep == TunnelInv /\ [Next]_vars => TunnelInv'
<1> SUFFICES ASSUME TunnelInv, [Next]_vars PROVE TunnelInv'
    OBVIOUS
<1>1. CASE Turn
    BY <1>1, TurnStep
<1>2. CASE Resolved \/ DelayEnds
    BY <1>2, ResolvedStep, DelayEndsStep
<1>3. CASE \E n \in 0..UpLen, last \in BOOLEAN : LocalSends(n, last)
    BY <1>3, LocalSendsStep
<1>4. CASE \E n \in 1..DownLen : LocalAcks(n)
    BY <1>4, LocalAcksStep
<1>5. CASE LocalResets \/ ForceClose
    BY <1>5, LocalResetsStep, ForceCloseStep
<1>6. CASE Connects \/ ConnWrites
    BY <1>6, ConnectsStep, ConnWritesStep
<1>7. CASE \E n \in 0..DownLen : RemoteSends(n)
    BY <1>7, RemoteSendsStep
<1>8. CASE ConnCloses \/ ConnFails
    BY <1>8, ConnGoneStep DEF ConnCloses, ConnFails
<1>9. CASE UNCHANGED vars
    BY <1>9 DEF vars, TunnelInv, TypeOK, Sides, Released
<1> QED
    BY <1>1, <1>2, <1>3, <1>4, <1>5, <1>6, <1>7, <1>8, <1>9 DEF Next

\* The inductive invariant: no block of the queue runs before or after its
\* time, and both sides' status is true of the pcb and of the connection.
THEOREM TunnelInvariant == Spec => []TunnelInv
BY TunnelInit, TunnelStep, PTL DEF Spec

\* The blocks, the two sides and the bytes held are typed.
THEOREM TunnelTypeOK == Spec => []TypeOK
<1>1. TunnelInv => TypeOK
    BY DEF TunnelInv
<1> QED BY <1>1, TunnelInvariant, PTL

\* A tunnel that its server forgets has neither a pcb nor a socket left
\* (Tunnel.isClosed, checkStatus).
THEOREM TunnelReleased == Spec => []ClosedReleased
<1>1. TunnelInv => ClosedReleased
    BY DEF TunnelInv, Released, ClosedReleased
<1> QED BY <1>1, TunnelInvariant, PTL

\* Induction over the naturals, for one set at a time.
LEMMA Induction ==
    ASSUME NEW S, 0 \in S, \A n \in Nat : n \in S => n + 1 \in S
    PROVE  \A n \in Nat : n \in S
<1> SUFFICES ASSUME NEW m \in Nat, m \notin S PROVE FALSE
    OBVIOUS
<1> DEFINE T == {n \in Nat : n \notin S}
<1>1. T \subseteq Nat /\ T # {}
    OBVIOUS
<1>2. PICK n \in T : \A k \in T : ~(<<k, n>> \in OpToRel(<, Nat))
    <2> HIDE DEF T
    <2> QED BY <1>1, NatLessThanWellFounded, WFMin
<1>3. n \in Nat /\ n \notin S /\ n # 0
    OBVIOUS
<1>4. PICK k \in Nat : n = k + 1 /\ k < n
    <2>1. n - 1 \in Nat /\ n = (n - 1) + 1 /\ n - 1 < n
        BY <1>3
    <2> QED BY <2>1
<1>5. k \notin T
    BY <1>2, <1>3, <1>4 DEF OpToRel
<1>6. k \in S
    BY <1>4, <1>5
<1> QED
    BY <1>3, <1>4, <1>6

\* f[n] is the sum of the first n of the values w.
Sums(f, w, k) == f \in [0..k -> Nat] /\ f[0] = 0 /\ \A i \in 1..k : f[i] = f[i - 1] + w[i]

LEMMA SumsExist ==
    ASSUME NEW n \in Nat, NEW w \in [1..n -> Nat]
    PROVE  \E f : Sums(f, w, n)
<1> DEFINE S == {k \in Nat : k <= n => \E f : Sums(f, w, k)}
<1>1. 0 \in S
    <2>1. Sums([i \in 0..0 |-> 0], w, 0)
        BY DEF Sums
    <2> QED BY <2>1
<1>2. ASSUME NEW k \in Nat, k \in S PROVE k + 1 \in S
    <2> SUFFICES ASSUME k + 1 <= n PROVE \E f : Sums(f, w, k + 1)
        OBVIOUS
    <2>1. k <= n /\ k + 1 \in 1..n
        OBVIOUS
    <2>2. PICK f : Sums(f, w, k)
        BY <1>2, <2>1
    <2> DEFINE g == [i \in 0..(k + 1) |-> IF i = k + 1 THEN f[k] + w[k + 1] ELSE f[i]]
    <2>3. g \in [0..(k + 1) -> Nat] /\ g[0] = 0
        BY <2>1, <2>2 DEF Sums
    <2>4. ASSUME NEW i \in 1..(k + 1) PROVE g[i] = g[i - 1] + w[i]
        <3>1. CASE i = k + 1
            BY <3>1
        <3>2. CASE i # k + 1
            <4>1. i \in 1..k /\ i - 1 \in 0..(k + 1) /\ i - 1 # k + 1
                BY <3>2
            <4> QED BY <4>1, <2>2 DEF Sums
        <3> QED BY <3>1, <3>2
    <2>5. Sums(g, w, k + 1)
        BY <2>3, <2>4 DEF Sums
    <2> QED BY <2>5
<1>3. n \in S
    <2> HIDE DEF S
    <2> QED BY <1>1, <1>2, Induction
<1> QED
    BY <1>3

\* Two sums over the same values differ by what they start from.
Grows(f, v, n) ==
    f[0] \in Int /\ \A i \in 1..n : v[i] \in Int /\ f[i] \in Int /\ f[i] = f[i - 1] + v[i]

LEMMA SumsAgree ==
    ASSUME NEW n \in Nat, NEW v, NEW f, NEW g, Grows(f, v, n), Grows(g, v, n)
    PROVE  f[n] - g[n] = f[0] - g[0]
<1> DEFINE S == {k \in Nat : k <= n => f[k] \in Int /\ g[k] \in Int /\ f[k] - g[k] = f[0] - g[0]}
<1>1. 0 \in S
    BY DEF Grows
<1>2. ASSUME NEW k \in Nat, k \in S PROVE k + 1 \in S
    <2> SUFFICES ASSUME k + 1 <= n
                 PROVE  /\ f[k + 1] \in Int /\ g[k + 1] \in Int
                        /\ f[k + 1] - g[k + 1] = f[0] - g[0]
        OBVIOUS
    <2>1. k + 1 \in 1..n /\ (k + 1) - 1 = k
        OBVIOUS
    <2>2. f[k] \in Int /\ g[k] \in Int /\ f[k] - g[k] = f[0] - g[0]
        BY <1>2, <2>1
    <2>3. /\ f[k + 1] = f[k] + v[k + 1] /\ g[k + 1] = g[k] + v[k + 1] /\ v[k + 1] \in Int
          /\ f[0] \in Int /\ g[0] \in Int
        BY <2>1 DEF Grows
    <2> QED BY <2>2, <2>3
<1>3. n \in S
    <2> HIDE DEF S
    <2> QED BY <1>1, <1>2, Induction
<1> QED
    BY <1>3

\* What a block adds to what is to be acknowledged.
Acks(b) == IF b.type = "wrote" THEN b.n ELSE 0

LEMMA AcksNat == \A b \in QueueBlock : Acks(b) \in Nat
BY TunnelAssumption DEF TunnelAssumption, QueueBlock, Acks

Weights(q) == [i \in 1..Len(q) |-> Acks(q[i])]

LEMMA WeightsNat == \A q \in Seq(QueueBlock) : Len(q) \in Nat /\ Weights(q) \in [1..Len(q) -> Nat]
BY AcksNat DEF Weights

LEMMA AcknowledgedSums ==
    ASSUME NEW q \in Seq(QueueBlock)
    PROVE  \E f : Sums(f, Weights(q), Len(q)) /\ Acknowledged(q) = f[Len(q)]
<1>1. PICK f : Sums(f, Weights(q), Len(q))
    BY SumsExist, WeightsNat
<1> DEFINE Def(g) == g = [i \in 0..Len(q) |->
                  IF i = 0 THEN 0 ELSE g[i - 1] + (IF q[i].type = "wrote" THEN q[i].n ELSE 0)]
<1>2. Def(f)
    <2>1. ASSUME NEW i \in 0..Len(q)
          PROVE f[i] = IF i = 0 THEN 0 ELSE f[i - 1] + (IF q[i].type = "wrote" THEN q[i].n ELSE 0)
        <3>1. CASE i = 0
            BY <1>1, <3>1 DEF Sums
        <3>2. CASE i # 0
            <4>1. i \in 1..Len(q)
                BY <3>2, WeightsNat
            <4>2. f[i] = f[i - 1] + Weights(q)[i]
                BY <1>1, <4>1 DEF Sums
            <4> QED BY <3>2, <4>1, <4>2, Zenon DEF Weights, Acks
        <3> QED BY <3>1, <3>2
    <2> QED BY <1>1, <2>1 DEF Sums
<1> DEFINE g == CHOOSE g : Def(g)
<1>3. Def(g)
    <2> HIDE DEF Def
    <2> QED BY <1>2
<1>4. Acknowledged(q) = g[Len(q)]
    BY DEF Acknowledged
<1>5. g[0] = 0 /\ \A i \in 1..Len(q) : g[i] = g[i - 1] + Weights(q)[i]
    <2> HIDE DEF g
    <2>1. \A i \in 0..Len(q) :
            g[i] = IF i = 0 THEN 0 ELSE g[i - 1] + (IF q[i].type = "wrote" THEN q[i].n ELSE 0)
        BY <1>3, Zenon
    <2>2. 0 \in 0..Len(q) /\ \A i \in 1..Len(q) : i \in 0..Len(q) /\ i # 0
        BY WeightsNat
    <2> QED BY <2>1, <2>2, Zenon DEF Weights, Acks
<1>6. g \in [0..Len(q) -> Nat]
    <2> HIDE DEF g
    <2> DEFINE S == {k \in Nat : k <= Len(q) => g[k] \in Nat}
    <2>1. 0 \in S
        BY <1>5
    <2>2. ASSUME NEW k \in Nat, k \in S PROVE k + 1 \in S
        <3> SUFFICES ASSUME k + 1 <= Len(q) PROVE g[k + 1] \in Nat
            OBVIOUS
        <3>1. k + 1 \in 1..Len(q) /\ (k + 1) - 1 = k /\ k <= Len(q)
            BY WeightsNat
        <3>2. g[k] \in Nat /\ Weights(q)[k + 1] \in Nat
            BY <2>2, <3>1, WeightsNat
        <3>3. g[k + 1] = g[k] + Weights(q)[k + 1]
            BY <1>5, <3>1
        <3> QED BY <3>2, <3>3
    <2>3. \A k \in Nat : k \in S
        <3> HIDE DEF S
        <3> QED BY <2>1, <2>2, Induction
    <2>4. \A k \in 0..Len(q) : g[k] \in Nat
        BY <2>3, WeightsNat
    <2>5. g = [i \in 0..Len(q) |-> g[i]]
        BY <1>3
    <2> QED BY <2>4, <2>5
<1> HIDE DEF g
<1>7. Sums(g, Weights(q), Len(q))
    BY <1>5, <1>6 DEF Sums
<1> QED
    BY <1>4, <1>7


LEMMA AcknowledgedNat ==
    /\ \A q \in Seq(QueueBlock) : Acknowledged(q) \in Nat
    /\ Acknowledged(<<>>) = 0
<1>1. ASSUME NEW q \in Seq(QueueBlock) PROVE Acknowledged(q) \in Nat /\ (q = <<>> => Acknowledged(q) = 0)
    <2>1. PICK f : Sums(f, Weights(q), Len(q)) /\ Acknowledged(q) = f[Len(q)]
        BY AcknowledgedSums
    <2> QED BY <2>1, WeightsNat DEF Sums
<1>2. <<>> \in Seq(QueueBlock)
    OBVIOUS
<1> QED BY <1>1, <1>2

LEMMA AcknowledgedAppend ==
    ASSUME NEW q \in Seq(QueueBlock), NEW b \in QueueBlock
    PROVE  Acknowledged(Append(q, b)) = Acknowledged(q) + Acks(b)
<1> DEFINE r == Append(q, b)
           n == Len(q)
<1>1. /\ r \in Seq(QueueBlock) /\ Len(r) = n + 1 /\ n \in Nat /\ r[n + 1] = b
      /\ \A i \in 1..n : r[i] = q[i]
    BY AppendProperties
<1> HIDE DEF r
<1>2. PICK f : Sums(f, Weights(q), n) /\ Acknowledged(q) = f[n]
    BY AcknowledgedSums
<1>3. PICK g : Sums(g, Weights(r), n + 1) /\ Acknowledged(r) = g[n + 1]
    BY <1>1, AcknowledgedSums
<1> HIDE DEF n
<1>4. \A i \in 1..n : Weights(r)[i] = Weights(q)[i]
    BY <1>1 DEF Weights, n
<1>5. g[n] = f[n]
    <2>1. Grows(f, Weights(q), n) /\ f[0] = 0
        <3>1. \A i \in 1..n : Weights(q)[i] \in Int /\ i \in 0..n
            BY WeightsNat DEF n
        <3> QED BY <1>1, <1>2, <3>1 DEF Sums, Grows
    <2>2. Grows(g, Weights(q), n) /\ g[0] = 0
        <3>1. \A i \in 1..n : i \in 1..(n + 1) /\ i \in 0..(n + 1)
            BY <1>1
        <3>2. \A i \in 1..n : Weights(q)[i] \in Int
            BY WeightsNat DEF n
        <3> QED BY <1>1, <1>3, <1>4, <3>1, <3>2 DEF Sums, Grows
    <2>3. g[n] - f[n] = 0
        BY <1>1, <2>1, <2>2, SumsAgree
    <2>4. g[n] \in Int /\ f[n] \in Int
        BY <1>1, <1>2, <1>3 DEF Sums
    <2> QED BY <2>3, <2>4
<1>6. g[n + 1] = g[n] + Acks(b)
    <2>1. n + 1 \in 1..(n + 1) /\ (n + 1) - 1 = n
        BY <1>1
    <2>2. Weights(r)[n + 1] = Acks(b)
        BY <1>1, <2>1 DEF Weights
    <2> QED BY <1>3, <2>1, <2>2 DEF Sums
<1>7. f[n] \in Nat /\ Acks(b) \in Nat
    BY <1>1, <1>2, AcksNat DEF Sums
<1> QED BY <1>2, <1>3, <1>5, <1>6, <1>7 DEF r

LEMMA AcknowledgedTail ==
    ASSUME NEW q \in Seq(QueueBlock), q # <<>>
    PROVE  Acknowledged(q) = Acks(Head(q)) + Acknowledged(Tail(q))
<1> DEFINE r == Tail(q)
           n == Len(r)
           a == Acks(Head(q))
<1>1. /\ r \in Seq(QueueBlock) /\ Len(q) = n + 1 /\ n \in Nat /\ Head(q) = q[1]
      /\ \A i \in 1..n : r[i] = q[i + 1]
      /\ Head(q) \in QueueBlock
    OBVIOUS
<1>2. a \in Nat
    BY <1>1, AcksNat
<1> HIDE DEF r
<1>3. PICK f : Sums(f, Weights(q), n + 1) /\ Acknowledged(q) = f[n + 1]
    BY <1>1, AcknowledgedSums
<1>4. PICK g : Sums(g, Weights(r), n) /\ Acknowledged(r) = g[n]
    BY <1>1, AcknowledgedSums
<1> HIDE DEF n
<1> DEFINE h == [i \in 0..n |-> f[i + 1]]
<1>5. \A i \in 1..n : Weights(r)[i] = Weights(q)[i + 1] /\ Weights(r)[i] \in Nat
    <2>1. \A i \in 1..n : Weights(r)[i] = Acks(r[i])
        BY DEF Weights, n
    <2>2. \A i \in 1..(n + 1) : Weights(q)[i] = Acks(q[i])
        BY <1>1 DEF Weights
    <2>3. \A i \in 1..n : i + 1 \in 1..(n + 1)
        BY <1>1
    <2>4. \A i \in 1..n : r[i] \in QueueBlock
        BY <1>1 DEF n
    <2> QED BY <1>1, <2>1, <2>2, <2>3, <2>4, AcksNat
<1>6. h[n] - g[n] = h[0] - g[0]
    <2>1. Grows(g, Weights(r), n)
        BY <1>1, <1>4, <1>5 DEF Sums, Grows
    <2>2. ASSUME NEW i \in 1..n
          PROVE  h[i] \in Int /\ h[i] = h[i - 1] + Weights(r)[i]
        <3>1. i + 1 \in 1..(n + 1) /\ (i + 1) - 1 = i /\ i - 1 \in 0..n /\ i \in 0..n /\ (i - 1) + 1 = i
            BY <1>1
        <3>2. f[i + 1] = f[i] + Weights(q)[i + 1] /\ f[i + 1] \in Int
            BY <1>3, <3>1 DEF Sums
        <3>3. h[i] = f[i + 1] /\ h[i - 1] = f[i]
            BY <3>1
        <3> QED BY <1>5, <3>2, <3>3
    <2>3. h[0] \in Int
        BY <1>1, <1>3 DEF Sums
    <2> HIDE DEF h
    <2>4. Grows(h, Weights(r), n)
        BY <1>5, <2>2, <2>3 DEF Grows
    <2> QED BY <1>1, <2>1, <2>4, SumsAgree
<1>7. h[n] = f[n + 1] /\ h[0] = f[1] /\ g[n] \in Nat /\ f[n + 1] \in Nat
    BY <1>1, <1>3, <1>4 DEF Sums
<1>8. f[1] = a /\ g[0] = 0
    <2>1. 1 \in 1..(n + 1) /\ 1 - 1 = 0
        BY <1>1
    <2>2. f[1] = f[0] + Weights(q)[1] /\ f[0] = 0 /\ g[0] = 0
        BY <2>1, <1>3, <1>4 DEF Sums
    <2>3. Weights(q)[1] = a
        BY <1>1, <2>1 DEF Weights
    <2> QED BY <1>2, <2>2, <2>3
<1> QED BY <1>2, <1>3, <1>4, <1>6, <1>7, <1>8 DEF r

-----------------------------------------------------------------------------
(* How many blocks of a type are in a queue. *)
Count(q, type) == Cardinality({i \in 1..Len(q) : q[i].type = type})

LEMMA PlacesFinite ==
    ASSUME NEW n \in Nat, NEW S, S \subseteq 1..n
    PROVE  IsFiniteSet(S) /\ Cardinality(S) \in Nat
<1>1. IsFiniteSet(1..n)
    BY FS_Interval
<1>2. S \in SUBSET (1..n)
    OBVIOUS
<1>3. IsFiniteSet(S)
    BY <1>1, <1>2, FS_Subset
<1> QED BY <1>3, FS_CardinalityType

LEMMA CountNat ==
    ASSUME NEW q \in Seq(QueueBlock), NEW type
    PROVE  Count(q, type) \in Nat /\ (Count(q, type) = 0 <=> \A i \in 1..Len(q) : q[i].type # type)
<1> DEFINE S == {i \in 1..Len(q) : q[i].type = type}
<1>1. IsFiniteSet(S) /\ Cardinality(S) \in Nat
    BY PlacesFinite
<1>2. Cardinality(S) = 0 <=> S = {}
    BY <1>1, FS_EmptySet
<1> QED BY <1>1, <1>2 DEF Count

LEMMA CountAppend ==
    ASSUME NEW q \in Seq(QueueBlock), NEW b \in QueueBlock, NEW type
    PROVE  Count(Append(q, b), type) = Count(q, type) + (IF b.type = type THEN 1 ELSE 0)
<1> DEFINE S == {i \in 1..Len(q) : q[i].type = type}
           n == Len(q) + 1
           r == Append(q, b)
           T == {i \in 1..Len(r) : r[i].type = type}
<1>1. /\ Len(r) = n /\ n \in Nat /\ r[n] = b
      /\ \A i \in 1..Len(q) : r[i] = q[i]
      /\ \A i \in 1..n : i = n \/ i \in 1..Len(q)
      /\ 1..Len(q) \subseteq 1..n /\ n \in 1..n /\ n \notin 1..Len(q)
    BY AppendProperties
<1> HIDE DEF n, r
<1>2. IsFiniteSet(S) /\ Cardinality(S) \in Nat
    BY PlacesFinite
<1>3. T = IF b.type = type THEN S \cup {n} ELSE S
    BY <1>1
<1>4. n \notin S
    BY <1>1
<1>5. Cardinality(T) = Cardinality(S) + (IF b.type = type THEN 1 ELSE 0)
    <2> HIDE DEF S, T
    <2>1. Cardinality(S \cup {n}) = Cardinality(S) + 1
        BY <1>2, <1>4, FS_AddElement
    <2> QED BY <1>2, <1>3, <2>1
<1> QED BY <1>5 DEF Count, r

LEMMA CountTail ==
    ASSUME NEW q \in Seq(QueueBlock), q # <<>>, NEW type
    PROVE  Count(q, type) = Count(Tail(q), type) + (IF Head(q).type = type THEN 1 ELSE 0)
<1> DEFINE r == Tail(q)
           S == {i \in 1..Len(r) : r[i].type = type}
           T == {i \in 1..Len(q) : q[i].type = type}
           U == {i \in T : i # 1}
           shift == [i \in S |-> i + 1]
<1>1. /\ Len(r) = Len(q) - 1 /\ Len(q) \in Nat /\ Len(r) \in Nat /\ Head(q) = q[1]
      /\ \A i \in 1..Len(r) : r[i] = q[i + 1]
      /\ 1 \in 1..Len(q)
    OBVIOUS
<1> HIDE DEF r
<1>2. IsFiniteSet(S)
    BY <1>1, PlacesFinite
<1>3. ExistsBijection(S, U)
    <2>1. \A i \in S : i + 1 \in U
        BY <1>1
    <2>2. \A i \in U : i - 1 \in S /\ (i - 1) + 1 = i
        <3> SUFFICES ASSUME NEW i \in U PROVE i - 1 \in S /\ (i - 1) + 1 = i
            OBVIOUS
        <3>1. i \in 1..Len(q) /\ i # 1 /\ q[i].type = type
            OBVIOUS
        <3>2. i - 1 \in 1..Len(r) /\ (i - 1) + 1 = i
            BY <1>1, <3>1
        <3>3. r[i - 1] = q[i]
            BY <1>1, <3>2
        <3> QED BY <3>1, <3>2, <3>3
    <2>3. \A i, j \in S : i + 1 = j + 1 => i = j
        OBVIOUS
    <2> HIDE DEF S, U
    <2>4. shift \in Bijection(S, U)
        BY <2>1, <2>2, <2>3 DEF Bijection, Injection, Surjection, IsInjective
    <2> QED BY <2>4 DEF ExistsBijection
<1>4. IsFiniteSet(U) /\ Cardinality(U) = Cardinality(S) /\ Cardinality(S) \in Nat
    BY <1>2, <1>3, FS_Bijection, FS_CardinalityType
<1>5. T = IF q[1].type = type THEN U \cup {1} ELSE U
    BY <1>1
<1>6. 1 \notin U
    OBVIOUS
<1>7. Cardinality(T) = Cardinality(U) + (IF q[1].type = type THEN 1 ELSE 0)
    <2> HIDE DEF U, T
    <2>1. Cardinality(U \cup {1}) = Cardinality(U) + 1
        BY <1>4, <1>6, FS_AddElement
    <2> QED BY <1>4, <1>5, <2>1
<1> QED BY <1>1, <1>4, <1>7 DEF Count, r


-----------------------------------------------------------------------------
(* The work in the queue *)

\* The blocks that stand for a right to read, or for a connection: a queue
\* holds as much work as another if it has as many of each.
Work == {"connected", "adapterWrote", "adapterRead", "readAdapter"}

\* r is what is left of the work of q without b.
WorkWithout(q, b, r) ==
    /\ \A type \in Work : Count(q, type) = Count(r, type) + (IF b.type = type THEN 1 ELSE 0)
    /\ Acknowledged(q) = Acknowledged(r) + Acks(b)

SameWork(q, r) ==
    /\ \A type \in Work : Count(q, type) = Count(r, type)
    /\ Acknowledged(q) = Acknowledged(r)

\* A block that is no work: it tells of data or of an end.
Idle(b) == b \in QueueBlock /\ b.type \in {"open", "data", "read", "gone", "adapterGone"}

IdleBlocks(bs) == bs = <<>> \/ \E b : Idle(b) /\ bs = <<b>>

LEMMA WorkNat ==
    ASSUME NEW q \in Seq(QueueBlock)
    PROVE  (\A type \in Work : Count(q, type) \in Nat) /\ Acknowledged(q) \in Nat
BY CountNat, AcknowledgedNat

LEMMA AppendWork ==
    ASSUME NEW q \in Seq(QueueBlock), NEW b \in QueueBlock
    PROVE  WorkWithout(Append(q, b), b, q)
<1>1. \A type \in Work :
        Count(Append(q, b), type) = Count(q, type) + (IF b.type = type THEN 1 ELSE 0)
    BY CountAppend
<1>2. Acknowledged(Append(q, b)) = Acknowledged(q) + Acks(b)
    BY AcknowledgedAppend
<1> QED BY <1>1, <1>2, Zenon DEF WorkWithout

LEMMA IdleAppendWork ==
    ASSUME NEW q \in Seq(QueueBlock), NEW b, Idle(b)
    PROVE  SameWork(Append(q, b), q)
<1>1. b \in QueueBlock /\ b.type \notin Work /\ Acks(b) = 0
    BY DEF Idle, Work, Acks
<1>2. WorkWithout(Append(q, b), b, q)
    BY <1>1, AppendWork
<1>3. ASSUME NEW type \in Work PROVE Count(Append(q, b), type) = Count(q, type)
    <2>1. Count(Append(q, b), type) = Count(q, type) + 0
        BY <1>1, <1>2 DEF WorkWithout
    <2> QED BY <2>1, WorkNat
<1>4. Acknowledged(Append(q, b)) = Acknowledged(q)
    BY <1>1, <1>2, WorkNat DEF WorkWithout
<1> QED BY <1>3, <1>4 DEF SameWork

LEMMA IdleConcatWork ==
    ASSUME NEW q \in Seq(QueueBlock), NEW bs, IdleBlocks(bs)
    PROVE  q \o bs \in Seq(QueueBlock) /\ SameWork(q \o bs, q)
<1>1. CASE bs = <<>>
    <2>1. q \o <<>> = q
        OBVIOUS
    <2> QED BY <1>1, <2>1 DEF SameWork
<1>2. CASE \E b : Idle(b) /\ bs = <<b>>
    <2>1. PICK b : Idle(b) /\ bs = <<b>>
        BY <1>2
    <2>2. b \in QueueBlock
        BY <2>1 DEF Idle
    <2>3. q \o <<b>> = Append(q, b) /\ Append(q, b) \in Seq(QueueBlock)
        BY <2>2
    <2> QED BY <2>1, <2>3, IdleAppendWork
<1> QED BY <1>1, <1>2 DEF IdleBlocks

\* A block has run: its work has left the queue.
LEMMA DispatchWork ==
    ASSUME TypeOK, queue # <<>>, NEW bs, IdleBlocks(bs), Dispatch(bs)
    PROVE  queue' \in Seq(QueueBlock) /\ WorkWithout(queue, Head(queue), queue')
<1> DEFINE r == Tail(queue)
<1>1. queue \in Seq(QueueBlock)
    BY DEF TypeOK
<1>2. r \in Seq(QueueBlock) /\ Head(queue) \in QueueBlock
    BY <1>1
<1>3. \A type \in Work : Count(queue, type) = Count(r, type) + (IF Head(queue).type = type THEN 1 ELSE 0)
    BY <1>1, CountTail
<1>4. Acknowledged(queue) = Acknowledged(r) + Acks(Head(queue))
    <2>1. Acknowledged(queue) = Acks(Head(queue)) + Acknowledged(r)
        BY <1>1, AcknowledgedTail
    <2>2. Acknowledged(r) \in Nat /\ Acks(Head(queue)) \in Nat
        BY <1>2, AcknowledgedNat, AcksNat
    <2> HIDE DEF r
    <2> QED BY <2>1, <2>2
<1> HIDE DEF r
<1>5. queue' = r \o bs
    BY DEF Dispatch, r
<1>6. queue' \in Seq(QueueBlock) /\ SameWork(queue', r)
    BY <1>2, <1>5, IdleConcatWork
<1> QED BY <1>3, <1>4, <1>6, Zenon DEF WorkWithout, SameWork

\* Blocks that tell of data or of an end have arrived.
LEMMA ArrivalWork ==
    ASSUME TypeOK, NEW bs, IdleBlocks(bs), NEW cs, IdleBlocks(cs), queue' = queue \o bs \o cs
    PROVE  SameWork(queue', queue)
<1> DEFINE r == queue \o bs
<1>1. r \in Seq(QueueBlock) /\ SameWork(r, queue)
    BY IdleConcatWork DEF TypeOK
<1> HIDE DEF r
<1>2. queue' = r \o cs
    BY DEF r
<1>3. SameWork(queue', r)
    BY <1>1, <1>2, IdleConcatWork
<1> QED BY <1>1, <1>3, Zenon DEF SameWork

LEMMA ReadIdle == \A s : IdleBlocks(CheckReadData(s))
<1>1. Idle(Block("read"))
    BY BlockTyped DEF Idle
<1> QED BY <1>1 DEF CheckReadData, IdleBlocks

LEMMA GoneIdle == \A s, t : IdleBlocks(Gone(s, t))
<1>1. Idle(Block("gone"))
    BY BlockTyped DEF Idle
<1> QED BY <1>1 DEF Gone, IdleBlocks

LEMMA NoneIdle == IdleBlocks(<<>>)
BY DEF IdleBlocks

-----------------------------------------------------------------------------
(* The blocks that hand data on *)

\* No block that hands data on runs while a read waits: none is in the queue
\* while one waits already, or behind a block that starts one.
NoHandOn(q, reading) ==
    \A k \in 1..Len(q) : q[k].type = "read" =>
        ~reading /\ \A i \in 1..(k - 1) : q[i].type \notin {"connected", "adapterWrote"}

LEMMA HandOnAppend ==
    ASSUME NEW q \in Seq(QueueBlock), NEW b, b.type # "read", NEW reading, NoHandOn(q, reading)
    PROVE  NoHandOn(Append(q, b), reading)
<1> DEFINE r == Append(q, b)
           n == Len(q)
<1>1. Len(r) = n + 1 /\ n \in Nat /\ r[n + 1] = b /\ \A i \in 1..n : r[i] = q[i]
    OBVIOUS
<1> HIDE DEF r
<1> SUFFICES ASSUME NEW k \in 1..Len(r), r[k].type = "read"
             PROVE  ~reading /\ \A i \in 1..(k - 1) : r[i].type \notin {"connected", "adapterWrote"}
    BY DEF NoHandOn, r
<1>2. k \in 1..n
    BY <1>1
<1>3. r[k] = q[k] /\ \A i \in 1..(k - 1) : r[i] = q[i]
    BY <1>1, <1>2
<1> QED BY <1>2, <1>3 DEF NoHandOn

\* The first block leaves.  If it starts a read, one waits from now on.
LEMMA HandOnTail ==
    ASSUME NEW q \in Seq(QueueBlock), q # <<>>, NEW reading, NoHandOn(q, reading),
           NEW reading2,
           reading2 => reading \/ Head(q).type \in {"connected", "adapterWrote"}
    PROVE  NoHandOn(Tail(q), reading2)
<1> DEFINE r == Tail(q)
<1>1. /\ Len(r) = Len(q) - 1 /\ Len(q) \in Nat /\ Head(q) = q[1]
      /\ \A i \in 1..Len(r) : r[i] = q[i + 1]
    OBVIOUS
<1> HIDE DEF r
<1> SUFFICES ASSUME NEW k \in 1..Len(r), r[k].type = "read"
             PROVE  ~reading2 /\ \A i \in 1..(k - 1) : r[i].type \notin {"connected", "adapterWrote"}
    BY DEF NoHandOn, r
<1>2. k + 1 \in 1..Len(q) /\ q[k + 1].type = "read" /\ 1 \in 1..((k + 1) - 1)
    BY <1>1
<1>3. ~reading /\ \A i \in 1..((k + 1) - 1) : q[i].type \notin {"connected", "adapterWrote"}
    BY <1>2 DEF NoHandOn
<1>4. \A i \in 1..(k - 1) : i + 1 \in 1..((k + 1) - 1) /\ r[i] = q[i + 1]
    BY <1>1
<1> QED BY <1>1, <1>2, <1>3, <1>4

\* With nothing in the queue that starts a read, no read will find one.
LEMMA NoneHandOn ==
    ASSUME NEW q \in Seq(QueueBlock), Count(q, "connected") = 0, Count(q, "adapterWrote") = 0
    PROVE  NoHandOn(q, FALSE)
<1>1. \A i \in 1..Len(q) : q[i].type # "connected" /\ q[i].type # "adapterWrote"
    BY CountNat
<1>2. \A k \in 1..Len(q) : \A i \in 1..(k - 1) : i \in 1..Len(q)
    OBVIOUS
<1> QED BY <1>1, <1>2 DEF NoHandOn


-----------------------------------------------------------------------------
(* One turn each *)

\* How far the connection is: it is reported once, before the tunnel forwards,
\* and it is told to close only by a tunnel that is cancelled.
StageSound ==
    /\ Count(queue, "connected") <= 1
    /\ Count(queue, "connected") > 0 => ~tunnel.forwarding
    /\ Count(queue, "connected") > 0 \/ tunnel.forwarding => conn.state \notin {"none", "connecting"}
    /\ conn.closing => tunnel.cancelled

\* The local side is read by one at a time, and what reads it will find data.
UploadSound ==
    ~tunnel.cancelled /\ conn.state # "gone" =>
        /\ UploadTurns = IF tunnel.forwarding THEN 1 ELSE 0
        /\ sock.pending = <<>> => NoHandOn(queue, sock.reading)

\* The remote side is read by one at a time, and remainWriteLength is what is
\* still to be acknowledged, but for a write that nobody will acknowledge.
DownloadSound ==
    sock.valid =>
        /\ sock.remain = ToBeAcknowledged \/ (unanswered /\ ToBeAcknowledged = 0)
        /\ ~tunnel.cancelled =>
              /\ ~tunnel.forwarding => DownloadTurns = 0 /\ ~unanswered
              /\ DownloadTurns <= (IF unanswered THEN 0 ELSE 1)
              /\ tunnel.forwarding /\ conn.state = "open" =>
                    DownloadTurns = (IF unanswered THEN 0 ELSE 1)

TurnsInv == StageSound /\ UploadSound /\ DownloadSound

\* The counts behind the turns are numbers.
LEMMA TurnsNat ==
    ASSUME TypeOK
    PROVE  /\ Count(queue, "connected") \in Nat /\ Count(queue, "adapterWrote") \in Nat
           /\ Count(queue, "adapterRead") \in Nat /\ Count(queue, "readAdapter") \in Nat
           /\ Acknowledged(queue) \in Nat /\ ToBeAcknowledged \in Nat
           /\ delayed \in Nat /\ inflight \in Nat /\ sock.remain \in Int
<1>1. queue \in Seq(QueueBlock) /\ delayed \in Nat /\ inflight \in Nat /\ sock.remain \in Int
    BY DEF TypeOK
<1>2. \A type \in Work : Count(queue, type) \in Nat
    BY <1>1, WorkNat
<1>3. Acknowledged(queue) \in Nat
    BY <1>1, WorkNat
<1> QED BY <1>1, <1>2, <1>3 DEF Work, ToBeAcknowledged

LEMMA TurnsAre ==
    /\ UploadTurns = (IF sock.reading THEN 1 ELSE 0) + (IF conn.writing # <<>> THEN 1 ELSE 0)
                     + Count(queue, "adapterWrote")
    /\ DownloadTurns = (IF conn.reading THEN 1 ELSE 0) + Count(queue, "adapterRead")
                       + (IF ToBeAcknowledged > 0 THEN 1 ELSE 0)
                       + delayed + Count(queue, "readAdapter")
BY DEF UploadTurns, DownloadTurns, Blocks, Count

\* Who may read the local side, when nobody or only one may.
LEMMA UploadHeld ==
    ASSUME TypeOK
    PROVE  /\ UploadTurns \in Nat
           /\ UploadTurns = 0 =>
                ~sock.reading /\ conn.writing = <<>> /\ Count(queue, "adapterWrote") = 0
           /\ sock.reading /\ UploadTurns <= 1 =>
                UploadTurns = 1 /\ conn.writing = <<>> /\ Count(queue, "adapterWrote") = 0
           /\ conn.writing # <<>> /\ UploadTurns <= 1 =>
                UploadTurns = 1 /\ ~sock.reading /\ Count(queue, "adapterWrote") = 0
           /\ Count(queue, "adapterWrote") > 0 /\ UploadTurns <= 1 =>
                /\ UploadTurns = 1 /\ ~sock.reading /\ conn.writing = <<>>
                /\ Count(queue, "adapterWrote") = 1
<1> DEFINE r == IF sock.reading THEN 1 ELSE 0
           w == IF conn.writing # <<>> THEN 1 ELSE 0
           a == Count(queue, "adapterWrote")
           t == UploadTurns
<1>1. a \in Nat
    BY TurnsNat
<1>2. t = r + w + a
    BY TurnsAre
<1>3. r \in Nat /\ w \in Nat /\ (sock.reading => r = 1) /\ (~sock.reading => r = 0)
      /\ (conn.writing # <<>> => w = 1) /\ (conn.writing = <<>> => w = 0)
    OBVIOUS
<1>4. /\ t \in Nat
      /\ t = 0 => r = 0 /\ w = 0 /\ a = 0
      /\ r = 1 /\ t <= 1 => t = 1 /\ w = 0 /\ a = 0
      /\ w = 1 /\ t <= 1 => t = 1 /\ r = 0 /\ a = 0
      /\ a > 0 /\ t <= 1 => t = 1 /\ r = 0 /\ w = 0 /\ a = 1
    <2> HIDE DEF r, w, a, t
    <2> QED BY <1>1, <1>2, <1>3
<1>5. (r = 0 => ~sock.reading) /\ (w = 0 => conn.writing = <<>>)
    OBVIOUS
<1> HIDE DEF r, w, a, t
<1>6. /\ t \in Nat
      /\ t = 0 => ~sock.reading /\ conn.writing = <<>> /\ a = 0
      /\ sock.reading /\ t <= 1 => t = 1 /\ conn.writing = <<>> /\ a = 0
      /\ conn.writing # <<>> /\ t <= 1 => t = 1 /\ ~sock.reading /\ a = 0
      /\ a > 0 /\ t <= 1 => t = 1 /\ ~sock.reading /\ conn.writing = <<>> /\ a = 1
    BY <1>3, <1>4, <1>5, Zenon
<1> QED BY <1>6 DEF a, t

\* Who may read the remote side, when nobody or only one may.
LEMMA DownloadHeld ==
    ASSUME TypeOK
    PROVE  /\ DownloadTurns \in Nat
           /\ DownloadTurns = 0 =>
                /\ ~conn.reading /\ Count(queue, "adapterRead") = 0 /\ ToBeAcknowledged = 0
                /\ delayed = 0 /\ Count(queue, "readAdapter") = 0
           /\ conn.reading /\ DownloadTurns <= 1 =>
                /\ DownloadTurns = 1 /\ Count(queue, "adapterRead") = 0 /\ ToBeAcknowledged = 0
                /\ delayed = 0 /\ Count(queue, "readAdapter") = 0
           /\ Count(queue, "adapterRead") > 0 /\ DownloadTurns <= 1 =>
                /\ DownloadTurns = 1 /\ ~conn.reading /\ Count(queue, "adapterRead") = 1
                /\ ToBeAcknowledged = 0 /\ delayed = 0 /\ Count(queue, "readAdapter") = 0
           /\ ToBeAcknowledged > 0 /\ DownloadTurns <= 1 =>
                /\ DownloadTurns = 1 /\ ~conn.reading /\ Count(queue, "adapterRead") = 0
                /\ delayed = 0 /\ Count(queue, "readAdapter") = 0
           /\ Count(queue, "readAdapter") > 0 /\ DownloadTurns <= 1 =>
                /\ DownloadTurns = 1 /\ ~conn.reading /\ Count(queue, "adapterRead") = 0
                /\ ToBeAcknowledged = 0 /\ delayed = 0 /\ Count(queue, "readAdapter") = 1
<1> DEFINE r == IF conn.reading THEN 1 ELSE 0
           a == Count(queue, "adapterRead")
           k == ToBeAcknowledged
           w == IF k > 0 THEN 1 ELSE 0
           b == Count(queue, "readAdapter")
           t == DownloadTurns
<1>1. a \in Nat /\ b \in Nat /\ k \in Nat /\ delayed \in Nat
    BY TurnsNat
<1>2. t = r + a + w + delayed + b
    BY TurnsAre
<1>3. r \in Nat /\ (conn.reading => r = 1) /\ (r = 0 => ~conn.reading)
    OBVIOUS
<1>4. w \in Nat /\ (k > 0 => w = 1) /\ (w = 0 => k = 0)
    <2> HIDE DEF k
    <2> QED BY <1>1
<1>5. /\ t \in Nat
      /\ t = 0 => r = 0 /\ w = 0 /\ a = 0 /\ delayed = 0 /\ b = 0
      /\ r = 1 /\ t <= 1 => t = 1 /\ w = 0 /\ a = 0 /\ delayed = 0 /\ b = 0
      /\ a > 0 /\ t <= 1 => t = 1 /\ r = 0 /\ a = 1 /\ w = 0 /\ delayed = 0 /\ b = 0
      /\ w = 1 /\ t <= 1 => t = 1 /\ r = 0 /\ a = 0 /\ delayed = 0 /\ b = 0
      /\ b > 0 /\ t <= 1 => t = 1 /\ r = 0 /\ a = 0 /\ w = 0 /\ delayed = 0 /\ b = 1
    <2> HIDE DEF r, w, a, b, k, t
    <2> QED BY <1>1, <1>2, <1>3, <1>4
<1> HIDE DEF r, w, a, b, k, t
<1>6. /\ t \in Nat
      /\ t = 0 => ~conn.reading /\ a = 0 /\ k = 0 /\ delayed = 0 /\ b = 0
      /\ conn.reading /\ t <= 1 => t = 1 /\ a = 0 /\ k = 0 /\ delayed = 0 /\ b = 0
      /\ a > 0 /\ t <= 1 => t = 1 /\ ~conn.reading /\ a = 1 /\ k = 0 /\ delayed = 0 /\ b = 0
      /\ k > 0 /\ t <= 1 => t = 1 /\ ~conn.reading /\ a = 0 /\ delayed = 0 /\ b = 0
      /\ b > 0 /\ t <= 1 => t = 1 /\ ~conn.reading /\ a = 0 /\ k = 0 /\ delayed = 0 /\ b = 1
    BY <1>3, <1>4, <1>5, Zenon
<1> QED BY <1>6 DEF a, b, k, t

LEMMA TurnsWillBe ==
    /\ UploadTurns' = (IF sock'.reading THEN 1 ELSE 0) + (IF conn'.writing # <<>> THEN 1 ELSE 0)
                      + Count(queue', "adapterWrote")
    /\ DownloadTurns' = (IF conn'.reading THEN 1 ELSE 0) + Count(queue', "adapterRead")
                        + (IF ToBeAcknowledged' > 0 THEN 1 ELSE 0)
                        + delayed' + Count(queue', "readAdapter")
    /\ ToBeAcknowledged' = inflight' + Acknowledged(queue')
BY DEF UploadTurns, DownloadTurns, Blocks, Count, ToBeAcknowledged

\* Most steps: no connection is reported, and none starts over.
LEMMA StageKept ==
    ASSUME TypeOK, TypeOK', StageSound,
           Count(queue', "connected") = Count(queue, "connected") \/ Count(queue', "connected") = 0,
           tunnel'.forwarding = tunnel.forwarding, tunnel.cancelled => tunnel'.cancelled,
           conn'.closing => conn.closing \/ tunnel'.cancelled,
           conn.state \notin {"none", "connecting"} => conn'.state \notin {"none", "connecting"}
    PROVE  StageSound'
<1>1. Count(queue, "connected") \in Nat /\ Count(queue', "connected") \in Nat
    <2>1. Count(queue, "connected") \in Nat
        BY TurnsNat
    <2>2. queue' \in Seq(QueueBlock)
        BY DEF TypeOK
    <2>3. Count(queue', "connected") \in Nat
        BY <2>2, WorkNat DEF Work
    <2> QED BY <2>1, <2>3
<1>2. /\ Count(queue', "connected") <= 1
      /\ Count(queue', "connected") > 0 => Count(queue, "connected") > 0
    BY <1>1 DEF StageSound
<1>3. conn'.closing => tunnel'.cancelled
    BY DEF StageSound
<1>4. Count(queue', "connected") > 0 => ~tunnel'.forwarding
    BY <1>2 DEF StageSound
<1>5. Count(queue', "connected") > 0 \/ tunnel'.forwarding => conn'.state \notin {"none", "connecting"}
    BY <1>2 DEF StageSound
<1> QED BY <1>2, <1>3, <1>4, <1>5 DEF StageSound

LEMMA UploadOver ==
    ASSUME tunnel'.cancelled \/ conn'.state = "gone"
    PROVE  UploadSound'
BY DEF UploadSound

LEMMA DownloadOver ==
    ASSUME ~sock'.valid
    PROVE  DownloadSound'
BY DEF DownloadSound

\* The local side's turn is not touched.
LEMMA UploadKept ==
    ASSUME UploadSound, tunnel'.forwarding = tunnel.forwarding,
           tunnel.cancelled => tunnel'.cancelled, conn.state = "gone" => conn'.state = "gone",
           sock'.reading = sock.reading, sock'.pending = sock.pending,
           conn'.writing = conn.writing,
           Count(queue', "adapterWrote") = Count(queue, "adapterWrote"),
           NoHandOn(queue, sock.reading) => NoHandOn(queue', sock.reading)
    PROVE  UploadSound'
<1>1. UploadTurns' = UploadTurns
    BY TurnsAre, TurnsWillBe
<1> QED BY <1>1 DEF UploadSound

\* The remote side's turn is not touched.
LEMMA DownloadKept ==
    ASSUME DownloadSound, tunnel'.forwarding = tunnel.forwarding,
           tunnel.cancelled => tunnel'.cancelled,
           conn'.state = "open" => conn.state = "open",
           sock'.valid => sock.valid, sock'.remain = sock.remain,
           ToBeAcknowledged' = ToBeAcknowledged, unanswered' = unanswered,
           ~tunnel'.cancelled => DownloadTurns' = DownloadTurns
    PROVE  DownloadSound'
BY DEF DownloadSound

\* What the running block means for the counts.
LEMMA RunsWork ==
    ASSUME TypeOK, queue # <<>>, NEW bs, IdleBlocks(bs), Dispatch(bs)
    PROVE  /\ Count(queue, "connected") = Count(queue', "connected")
                + (IF Head(queue).type = "connected" THEN 1 ELSE 0)
           /\ Count(queue, "adapterWrote") = Count(queue', "adapterWrote")
                + (IF Head(queue).type = "adapterWrote" THEN 1 ELSE 0)
           /\ Count(queue, "adapterRead") = Count(queue', "adapterRead")
                + (IF Head(queue).type = "adapterRead" THEN 1 ELSE 0)
           /\ Count(queue, "readAdapter") = Count(queue', "readAdapter")
                + (IF Head(queue).type = "readAdapter" THEN 1 ELSE 0)
           /\ Acknowledged(queue) = Acknowledged(queue')
                + (IF Head(queue).type = "wrote" THEN Head(queue).n ELSE 0)
           /\ Count(queue', "connected") \in Nat /\ Count(queue', "adapterWrote") \in Nat
           /\ Count(queue', "adapterRead") \in Nat /\ Count(queue', "readAdapter") \in Nat
           /\ Acknowledged(queue') \in Nat
<1>1. queue' \in Seq(QueueBlock) /\ WorkWithout(queue, Head(queue), queue')
    BY DispatchWork
<1>2. (\A type \in Work : Count(queue', type) \in Nat) /\ Acknowledged(queue') \in Nat
    BY <1>1, WorkNat
<1> QED BY <1>1, <1>2, Zenon DEF WorkWithout, Work, Acks

\* Such a block that is no work leaves all counts alone.
LEMMA RunsIdle ==
    ASSUME TypeOK, queue # <<>>, NEW bs, IdleBlocks(bs), Dispatch(bs), inflight' = inflight,
           Head(queue).type \in {"open", "data", "read", "gone", "adapterGone"}
    PROVE  /\ Count(queue', "connected") = Count(queue, "connected")
           /\ Count(queue', "adapterWrote") = Count(queue, "adapterWrote")
           /\ Count(queue', "adapterRead") = Count(queue, "adapterRead")
           /\ Count(queue', "readAdapter") = Count(queue, "readAdapter")
           /\ ToBeAcknowledged' = ToBeAcknowledged
<1>1. /\ Count(queue, "connected") = Count(queue', "connected") + 0
      /\ Count(queue, "adapterWrote") = Count(queue', "adapterWrote") + 0
      /\ Count(queue, "adapterRead") = Count(queue', "adapterRead") + 0
      /\ Count(queue, "readAdapter") = Count(queue', "readAdapter") + 0
      /\ Acknowledged(queue) = Acknowledged(queue') + 0
    BY RunsWork, Zenon
<1>2. /\ Count(queue', "connected") \in Nat /\ Count(queue', "adapterWrote") \in Nat
      /\ Count(queue', "adapterRead") \in Nat /\ Count(queue', "readAdapter") \in Nat
      /\ Acknowledged(queue') \in Nat
    BY RunsWork
<1>3. Acknowledged(queue') = Acknowledged(queue)
    BY <1>1, <1>2
<1>4. ToBeAcknowledged' = ToBeAcknowledged
    BY <1>3 DEF ToBeAcknowledged
<1> QED BY <1>1, <1>2, <1>4

\* What an arriving block means for the counts.
LEMMA ArrivesWork ==
    ASSUME TypeOK, NEW b \in QueueBlock, Enqueue(b)
    PROVE  /\ Count(queue', "connected") = Count(queue, "connected")
                + (IF b.type = "connected" THEN 1 ELSE 0)
           /\ Count(queue', "adapterWrote") = Count(queue, "adapterWrote")
                + (IF b.type = "adapterWrote" THEN 1 ELSE 0)
           /\ Count(queue', "adapterRead") = Count(queue, "adapterRead")
                + (IF b.type = "adapterRead" THEN 1 ELSE 0)
           /\ Count(queue', "readAdapter") = Count(queue, "readAdapter")
                + (IF b.type = "readAdapter" THEN 1 ELSE 0)
           /\ Acknowledged(queue') = Acknowledged(queue) + (IF b.type = "wrote" THEN b.n ELSE 0)
<1>1. queue' = Append(queue, b) /\ queue \in Seq(QueueBlock)
    BY DEF TypeOK, Enqueue
<1>2. WorkWithout(queue', b, queue)
    BY <1>1, AppendWork
<1> QED BY <1>2, Zenon DEF WorkWithout, Work, Acks

\* The block that hands data on and that is dispatched while there is none.
LEMMA RunsHandOn ==
    ASSUME TypeOK, queue # <<>>, NEW bs, Dispatch(bs), bs = <<>> \/ bs = <<Block("gone")>>,
           NEW reading, NoHandOn(queue, reading),
           NEW reading2, reading2 => reading \/ Head(queue).type \in {"connected", "adapterWrote"}
    PROVE  NoHandOn(queue', reading2)
<1> DEFINE r == Tail(queue)
<1>1. queue \in Seq(QueueBlock) /\ r \in Seq(QueueBlock)
    BY DEF TypeOK
<1>2. NoHandOn(r, reading2)
    BY <1>1, HandOnTail
<1>3. queue' = r \o bs
    BY DEF Dispatch
<1> HIDE DEF r
<1>4. CASE bs = <<>>
    BY <1>1, <1>2, <1>3, <1>4
<1>5. CASE bs = <<Block("gone")>>
    <2> DEFINE b == Block("gone")
    <2>1. b.type # "read" /\ b \in QueueBlock
        BY BlockTyped
    <2>2. bs = <<b>>
        BY <1>5
    <2> HIDE DEF b
    <2>3. queue' = Append(r, b)
        BY <1>1, <1>3, <2>1, <2>2
    <2> QED BY <1>1, <1>2, <2>1, <2>3, HandOnAppend
<1> QED BY <1>4, <1>5

LEMMA ArrivesHandOn ==
    ASSUME TypeOK, NEW b \in QueueBlock, Enqueue(b), b.type # "read",
           NEW reading, NoHandOn(queue, reading)
    PROVE  NoHandOn(queue', reading)
BY HandOnAppend DEF TypeOK, Enqueue


-----------------------------------------------------------------------------
(* The blocks *)

LEMMA OpenAdapterTurns ==
    ASSUME TunnelInv, TypeOK', TurnsInv, queue # <<>>, Head(queue).type = "open", OpenAdapter
    PROVE  TurnsInv'
<1>1. /\ TypeOK /\ conn.state = "none" /\ Dispatch(<<>>)
      /\ UNCHANGED <<delayed, sock, inflight, tunnel, unanswered>>
    BY HeadSound DEF Fits, TunnelInv, OpenAdapter
<1>2. /\ conn'.reading = conn.reading /\ conn'.writing = conn.writing
      /\ conn'.closing = conn.closing /\ conn'.state \in {"none", "connecting"}
    BY <1>1 DEF OpenAdapter, TypeOK
<1>3. /\ Count(queue', "connected") = Count(queue, "connected")
      /\ Count(queue', "adapterWrote") = Count(queue, "adapterWrote")
      /\ Count(queue', "adapterRead") = Count(queue, "adapterRead")
      /\ Count(queue', "readAdapter") = Count(queue, "readAdapter")
      /\ ToBeAcknowledged' = ToBeAcknowledged
    BY <1>1, RunsIdle, NoneIdle
<1>4. StageSound'
    BY <1>1, <1>2, <1>3, StageKept DEF TurnsInv
<1>5. UploadSound'
    BY <1>1, <1>2, <1>3, RunsHandOn, UploadKept DEF TurnsInv
<1>6. DownloadTurns' = DownloadTurns
    BY <1>1, <1>2, <1>3, TurnsAre, TurnsWillBe
<1>7. DownloadSound'
    BY <1>1, <1>2, <1>3, <1>6, DownloadKept DEF TurnsInv
<1> QED BY <1>4, <1>5, <1>7 DEF TurnsInv

\* The connection is reported: both sides start to read.
LEMMA DidConnectTurns ==
    ASSUME TunnelInv, TypeOK', TurnsInv, queue # <<>>, Head(queue).type = "connected", DidConnect
    PROVE  TurnsInv'
<1>1. TypeOK /\ UNCHANGED <<delayed, inflight, unanswered>>
    BY DEF TunnelInv, DidConnect
<1>2. PICK bs : Dispatch(bs) /\ IdleBlocks(bs)
    BY ReadIdle, NoneIdle DEF DidConnect
<1>3. /\ Count(queue, "connected") = Count(queue', "connected") + 1
      /\ Count(queue', "adapterWrote") = Count(queue, "adapterWrote")
      /\ Count(queue', "adapterRead") = Count(queue, "adapterRead")
      /\ Count(queue', "readAdapter") = Count(queue, "readAdapter")
      /\ ToBeAcknowledged' = ToBeAcknowledged
      /\ Count(queue', "connected") \in Nat
    <2>1. /\ Count(queue, "connected") = Count(queue', "connected") + 1
          /\ Count(queue, "adapterWrote") = Count(queue', "adapterWrote") + 0
          /\ Count(queue, "adapterRead") = Count(queue', "adapterRead") + 0
          /\ Count(queue, "readAdapter") = Count(queue', "readAdapter") + 0
          /\ Acknowledged(queue) = Acknowledged(queue') + 0
        BY <1>1, <1>2, RunsWork, Zenon
    <2>2. /\ Count(queue', "connected") \in Nat /\ Count(queue', "adapterWrote") \in Nat
          /\ Count(queue', "adapterRead") \in Nat /\ Count(queue', "readAdapter") \in Nat
          /\ Acknowledged(queue') \in Nat
        BY <1>1, <1>2, RunsWork
    <2>3. ToBeAcknowledged' = ToBeAcknowledged
        BY <1>1, <2>1, <2>2 DEF ToBeAcknowledged
    <2> QED BY <2>1, <2>2, <2>3
<1>4. /\ Count(queue, "connected") = 1 /\ Count(queue', "connected") = 0
      /\ ~tunnel.forwarding /\ conn.state \in {"open", "gone"}
    <2>1. Count(queue, "connected") \in Nat
        BY <1>1, TurnsNat
    <2>2. /\ Count(queue, "connected") <= 1
          /\ Count(queue, "connected") > 0 => ~tunnel.forwarding
          /\ Count(queue, "connected") > 0 => conn.state \notin {"none", "connecting"}
        BY DEF TurnsInv, StageSound
    <2>3. conn.state \in {"none", "connecting", "open", "gone"}
        BY <1>1 DEF TypeOK
    <2>4. Count(queue, "connected") = 1 /\ Count(queue', "connected") = 0
        BY <1>3, <2>1, <2>2
    <2> QED BY <2>2, <2>3, <2>4
<1>5. CASE tunnel.cancelled
    <2>1. UNCHANGED <<sock, tunnel, conn>>
        BY <1>5 DEF DidConnect
    <2>2. StageSound'
        BY <1>1, <1>4, <2>1, StageKept DEF TurnsInv
    <2>3. UploadSound'
        BY <1>5, <2>1, UploadOver
    <2>4. DownloadSound'
        BY <1>1, <1>3, <1>5, <2>1, DownloadKept DEF TurnsInv
    <2> QED BY <2>2, <2>3, <2>4 DEF TurnsInv
<1>6. CASE ~tunnel.cancelled
    <2>1. /\ tunnel' = [tunnel EXCEPT !.forwarding = TRUE]
          /\ sock' = [sock EXCEPT !.reading = TRUE]
          /\ conn' = [conn EXCEPT !.reading = (conn.state = "open")]
          /\ Dispatch(CheckReadData(sock))
        BY <1>6 DEF DidConnect, ReadsLocal
    <2>2. /\ tunnel'.forwarding /\ tunnel'.cancelled = tunnel.cancelled
          /\ sock'.reading /\ sock'.pending = sock.pending /\ sock'.valid = sock.valid
          /\ sock'.remain = sock.remain
          /\ conn'.state = conn.state /\ conn'.writing = conn.writing
          /\ conn'.closing = conn.closing /\ conn'.reading = (conn.state = "open")
        BY <1>1, <2>1 DEF TypeOK
    <2>3. StageSound'
        BY <1>4, <2>2 DEF StageSound, TurnsInv
    <2>4. UploadSound'
        <3> SUFFICES ASSUME conn.state # "gone"
                     PROVE  UploadTurns' = 1 /\ (sock.pending = <<>> => NoHandOn(queue', TRUE))
            BY <2>2 DEF UploadSound
        <3>1. UploadTurns = 0 /\ (sock.pending = <<>> => NoHandOn(queue, sock.reading))
            BY <1>4, <1>6 DEF TurnsInv, UploadSound
        <3>2. ~sock.reading /\ conn.writing = <<>> /\ Count(queue, "adapterWrote") = 0
            BY <1>1, <3>1, UploadHeld
        <3>3. UploadTurns' = 1
            BY <1>3, <2>2, <3>2, TurnsWillBe
        <3>4. ASSUME sock.pending = <<>> PROVE NoHandOn(queue', TRUE)
            <4>1. Dispatch(<<>>)
                BY <2>1, <3>4 DEF CheckReadData
            <4> QED BY <1>1, <3>1, <3>4, <4>1, RunsHandOn
        <3> QED BY <3>3, <3>4
    <2>5. DownloadSound'
        <3> SUFFICES ASSUME sock.valid
                     PROVE  DownloadSound'
            BY <2>2, DownloadOver
        <3>1. DownloadTurns = 0 /\ ~unanswered
            BY <1>4, <1>6 DEF TurnsInv, DownloadSound
        <3>2. /\ ~conn.reading /\ Count(queue, "adapterRead") = 0 /\ delayed = 0
              /\ Count(queue, "readAdapter") = 0 /\ ToBeAcknowledged = 0
            BY <1>1, <3>1, DownloadHeld
        <3>3. DownloadTurns' = IF conn.state = "open" THEN 1 ELSE 0
            <4>1. (IF conn'.reading THEN 1 ELSE 0) = IF conn.state = "open" THEN 1 ELSE 0
                BY <2>2, Zenon
            <4>2. /\ Count(queue', "adapterRead") = 0 /\ delayed' = 0
                  /\ Count(queue', "readAdapter") = 0 /\ ToBeAcknowledged' = 0
                BY <1>1, <1>3, <3>2
            <4>3. DownloadTurns' = (IF conn.state = "open" THEN 1 ELSE 0) + 0
                                   + (IF 0 > 0 THEN 1 ELSE 0) + 0 + 0
                BY <4>1, <4>2, TurnsWillBe
            <4> QED BY <4>3
        <3> QED BY <1>1, <1>3, <2>2, <3>1, <3>3 DEF TurnsInv, DownloadSound
    <2> QED BY <2>3, <2>4, <2>5 DEF TurnsInv
<1> QED BY <1>5, <1>6

\* A block that carries no work runs, and the socket's claims are untouched.
LEMMA KeepDataTurns ==
    ASSUME TunnelInv, TypeOK', TurnsInv, queue # <<>>, Head(queue).type = "data",
           KeepData(Head(queue).data)
    PROVE  TurnsInv'
<1> DEFINE data == Head(queue).data
<1>1. /\ TypeOK /\ Dispatch(CheckReadData(sock')) /\ data \in Seq(1..UpLen)
      /\ UNCHANGED <<delayed, inflight, tunnel, conn, unanswered>>
      /\ sock' = [sock EXCEPT !.pending = sock.pending \o data]
    BY HeadSound DEF TunnelInv, KeepData
<1> HIDE DEF data
<1>2. /\ sock'.reading = sock.reading /\ sock'.valid = sock.valid /\ sock'.remain = sock.remain
      /\ sock'.pending = sock.pending \o data /\ sock.pending \in Seq(1..UpLen)
    BY <1>1 DEF TypeOK
<1>3. /\ Count(queue', "connected") = Count(queue, "connected")
      /\ Count(queue', "adapterWrote") = Count(queue, "adapterWrote")
      /\ Count(queue', "adapterRead") = Count(queue, "adapterRead")
      /\ Count(queue', "readAdapter") = Count(queue, "readAdapter")
      /\ ToBeAcknowledged' = ToBeAcknowledged
    BY <1>1, RunsIdle, ReadIdle
<1>4. StageSound'
    BY <1>1, <1>3, StageKept DEF TurnsInv
<1>5. UploadSound'
    <2> SUFFICES ASSUME ~tunnel.cancelled, conn.state # "gone"
                 PROVE  /\ UploadTurns' = IF tunnel.forwarding THEN 1 ELSE 0
                        /\ sock'.pending = <<>> => NoHandOn(queue', sock.reading)
        BY <1>1, <1>2 DEF UploadSound
    <2>1. UploadTurns' = UploadTurns
        BY <1>1, <1>2, <1>3, TurnsAre, TurnsWillBe
    <2>2. ASSUME sock'.pending = <<>> PROVE NoHandOn(queue', sock.reading)
        <3>1. sock.pending = <<>>
            <4>1. sock.pending \o data = <<>> /\ sock.pending \in Seq(1..UpLen)
                BY <1>2, <2>2
            <4>2. Len(sock.pending \o data) = Len(sock.pending) + Len(data)
                BY <1>1, <4>1
            <4> QED BY <1>1, <4>1, <4>2
        <3>2. Dispatch(<<>>)
            BY <1>1, <2>2 DEF CheckReadData
        <3>3. NoHandOn(queue, sock.reading)
            BY <3>1 DEF TurnsInv, UploadSound
        <3> QED BY <1>1, <3>2, <3>3, RunsHandOn
    <2> QED BY <2>1, <2>2 DEF TurnsInv, UploadSound
<1>6. DownloadTurns' = DownloadTurns
    BY <1>1, <1>2, <1>3, TurnsAre, TurnsWillBe
<1>7. DownloadSound'
    BY <1>1, <1>2, <1>3, <1>6, DownloadKept DEF TurnsInv
<1> QED BY <1>4, <1>5, <1>7 DEF TurnsInv

\* A waiting read gets all data, and there is some.
LEMMA HandOnTurns ==
    ASSUME TunnelInv, TypeOK', TurnsInv, queue # <<>>, Head(queue).type = "read", HandOn
    PROVE  TurnsInv'
<1>1. /\ TypeOK /\ Dispatch(<<>>)
      /\ UNCHANGED <<delayed, inflight, tunnel, unanswered>>
    BY DEF TunnelInv, HandOn
<1>2. /\ Count(queue', "connected") = Count(queue, "connected")
      /\ Count(queue', "adapterWrote") = Count(queue, "adapterWrote")
      /\ Count(queue', "adapterRead") = Count(queue, "adapterRead")
      /\ Count(queue', "readAdapter") = Count(queue, "readAdapter")
      /\ ToBeAcknowledged' = ToBeAcknowledged
    BY <1>1, RunsIdle, NoneIdle
<1>3. /\ sock'.valid = sock.valid /\ sock'.remain = sock.remain
      /\ conn'.state = conn.state /\ conn'.reading = conn.reading /\ conn'.closing = conn.closing
    <2>1. /\ sock' = sock \/ sock' = [sock EXCEPT !.pending = <<>>, !.reading = FALSE]
          /\ conn' = conn \/ conn' = [conn EXCEPT !.writing = conn.writing \o sock.pending]
        BY DEF HandOn
    <2>2. sock'.valid = sock.valid /\ sock'.remain = sock.remain
        BY <1>1, <2>1 DEF TypeOK
    <2>3. conn'.state = conn.state /\ conn'.reading = conn.reading /\ conn'.closing = conn.closing
        BY <1>1, <2>1 DEF TypeOK
    <2> QED BY <2>2, <2>3
<1>4. StageSound'
    BY <1>1, <1>2, <1>3, TurnsNat, StageKept DEF TurnsInv
<1>5. DownloadTurns' = DownloadTurns
    BY <1>1, <1>2, <1>3, TurnsAre, TurnsWillBe
<1>6. DownloadSound'
    BY <1>1, <1>2, <1>3, <1>5, DownloadKept DEF TurnsInv
<1>7. UploadSound'
    <2> SUFFICES ASSUME ~tunnel.cancelled, conn.state # "gone" PROVE UploadSound'
        BY <1>1, <1>3, UploadOver
    <2>1. /\ UploadTurns = IF tunnel.forwarding THEN 1 ELSE 0
          /\ sock.pending = <<>> => NoHandOn(queue, sock.reading)
        BY DEF TurnsInv, UploadSound
    <2>2. CASE ~sock.reading
        <3>1. UNCHANGED <<sock, conn>>
            BY <2>2 DEF HandOn
        <3> QED BY <1>1, <1>2, <3>1, UploadKept, RunsHandOn DEF TurnsInv
    <2>3. CASE sock.reading
        <3>1. /\ tunnel.forwarding /\ conn.writing = <<>> /\ Count(queue, "adapterWrote") = 0
            BY <1>1, <2>1, <2>3, UploadHeld
        <3>2. conn.state = "open" /\ Count(queue, "connected") = 0
            BY <1>1, <3>1, TurnsNat DEF TurnsInv, StageSound, TypeOK
        <3>3. sock.pending # <<>>
            <4>1. queue \in Seq(QueueBlock)
                BY <1>1 DEF TypeOK
            <4>2. 1 \in 1..Len(queue) /\ queue[1].type = "read"
                BY <4>1
            <4> QED BY <2>1, <2>3, <4>2 DEF NoHandOn
        <3>4. /\ sock' = [sock EXCEPT !.pending = <<>>, !.reading = FALSE]
              /\ conn' = [conn EXCEPT !.writing = conn.writing \o sock.pending]
            BY <2>3, <3>2 DEF HandOn
        <3>5. /\ ~sock'.reading /\ conn'.writing = conn.writing \o sock.pending
              /\ sock.pending \in Seq(1..UpLen) /\ conn.writing \in Seq(1..UpLen)
            BY <1>1, <3>4 DEF TypeOK
        <3>6. conn'.writing # <<>>
            BY <3>1, <3>3, <3>5
        <3>7. UploadTurns' = 1
            BY <1>2, <3>1, <3>5, <3>6, TurnsWillBe
        <3>8. queue' \in Seq(QueueBlock) /\ Count(queue', "connected") = 0 /\ Count(queue', "adapterWrote") = 0
            BY <1>2, <3>1, <3>2 DEF TypeOK
        <3>9. NoHandOn(queue', FALSE)
            BY <3>8, NoneHandOn
        <3>10. NoHandOn(queue', sock'.reading)
            <4>1. sock'.reading = FALSE
                BY <1>1, <3>4 DEF TypeOK
            <4> QED BY <3>9, <4>1
        <3> QED BY <1>1, <3>1, <3>7, <3>10 DEF UploadSound
    <2> QED BY <2>2, <2>3
<1> QED BY <1>4, <1>6, <1>7 DEF TurnsInv

\* The data is written: the local side is read again.
LEMMA AdapterWroteTurns ==
    ASSUME TunnelInv, TypeOK', TurnsInv, queue # <<>>, Head(queue).type = "adapterWrote",
           AdapterWrote
    PROVE  TurnsInv'
<1>1. TypeOK /\ UNCHANGED <<delayed, inflight, tunnel, conn, unanswered>>
    BY DEF TunnelInv, AdapterWrote
<1>2. PICK bs : Dispatch(bs) /\ IdleBlocks(bs)
    BY ReadIdle, NoneIdle DEF AdapterWrote
<1>3. /\ Count(queue', "connected") = Count(queue, "connected")
      /\ Count(queue, "adapterWrote") = Count(queue', "adapterWrote") + 1
      /\ Count(queue', "adapterRead") = Count(queue, "adapterRead")
      /\ Count(queue', "readAdapter") = Count(queue, "readAdapter")
      /\ ToBeAcknowledged' = ToBeAcknowledged
      /\ Count(queue', "adapterWrote") \in Nat
    <2>1. /\ Count(queue, "connected") = Count(queue', "connected") + 0
          /\ Count(queue, "adapterWrote") = Count(queue', "adapterWrote") + 1
          /\ Count(queue, "adapterRead") = Count(queue', "adapterRead") + 0
          /\ Count(queue, "readAdapter") = Count(queue', "readAdapter") + 0
          /\ Acknowledged(queue) = Acknowledged(queue') + 0
        BY <1>1, <1>2, RunsWork, Zenon
    <2>2. /\ Count(queue', "connected") \in Nat /\ Count(queue', "adapterWrote") \in Nat
          /\ Count(queue', "adapterRead") \in Nat /\ Count(queue', "readAdapter") \in Nat
          /\ Acknowledged(queue') \in Nat
        BY <1>1, <1>2, RunsWork
    <2>3. ToBeAcknowledged' = ToBeAcknowledged
        BY <1>1, <2>1, <2>2 DEF ToBeAcknowledged
    <2> QED BY <2>1, <2>2, <2>3
<1>4. /\ sock'.valid = sock.valid /\ sock'.remain = sock.remain /\ sock'.pending = sock.pending
    BY <1>1 DEF AdapterWrote, ReadsLocal, TypeOK
<1>5. StageSound'
    BY <1>1, <1>3, TurnsNat, StageKept DEF TurnsInv
<1>6. DownloadTurns' = DownloadTurns
    BY <1>1, <1>3, TurnsAre, TurnsWillBe
<1>7. DownloadSound'
    BY <1>1, <1>3, <1>4, <1>6, DownloadKept DEF TurnsInv
<1>8. UploadSound'
    <2> SUFFICES ASSUME ~tunnel.cancelled, conn.state # "gone" PROVE UploadSound'
        BY <1>1, UploadOver
    <2>1. /\ UploadTurns = IF tunnel.forwarding THEN 1 ELSE 0
          /\ sock.pending = <<>> => NoHandOn(queue, sock.reading)
        BY DEF TurnsInv, UploadSound
    <2>2. /\ tunnel.forwarding /\ conn.writing = <<>> /\ ~sock.reading
          /\ Count(queue', "adapterWrote") = 0
        BY <1>1, <1>3, <2>1, UploadHeld
    <2>3. sock' = [sock EXCEPT !.reading = TRUE] /\ Dispatch(CheckReadData(sock))
        BY DEF AdapterWrote, ReadsLocal
    <2>4. sock'.reading = TRUE
        BY <1>1, <2>3 DEF TypeOK
    <2>5. UploadTurns' = 1
        BY <1>1, <2>2, <2>4, TurnsWillBe
    <2>6. ASSUME sock.pending = <<>> PROVE NoHandOn(queue', TRUE)
        <3>1. Dispatch(<<>>)
            BY <2>3, <2>6 DEF CheckReadData
        <3> QED BY <1>1, <2>1, <2>6, <3>1, RunsHandOn
    <2> QED BY <1>1, <1>4, <2>2, <2>4, <2>5, <2>6 DEF UploadSound
<1> QED BY <1>5, <1>7, <1>8 DEF TurnsInv


\* Data is written to the local side: its acknowledgement takes the turn over,
\* unless there will be none.
LEMMA WriteLocalTurns ==
    ASSUME TunnelInv, TypeOK', TurnsInv, queue # <<>>, Head(queue).type = "adapterRead",
           WriteLocal(Head(queue).n)
    PROVE  TurnsInv'
<1> DEFINE n == Head(queue).n
<1>1. TypeOK /\ UNCHANGED <<delayed, tunnel, conn>> /\ n \in Nat
    <2>1. UNCHANGED <<delayed, tunnel, conn>>
        BY DEF WriteLocal
    <2>2. n \in Nat
        BY HeadSound, TunnelAssumption DEF TunnelAssumption
    <2> QED BY <2>1, <2>2 DEF TunnelInv
<1> HIDE DEF n
<1>2. PICK bs : Dispatch(bs) /\ IdleBlocks(bs) /\ (bs = <<>> \/ bs = <<Block("gone")>>)
    <2>1. Dispatch(<<>>) \/ Dispatch(Gone(sock, sock'))
        BY DEF WriteLocal
    <2>2. LET bs == Gone(sock, sock') IN IdleBlocks(bs) /\ (bs = <<>> \/ bs = <<Block("gone")>>)
        BY GoneIdle DEF Gone
    <2> QED BY <2>1, <2>2, NoneIdle
<1>3. /\ Count(queue', "connected") = Count(queue, "connected")
      /\ Count(queue', "adapterWrote") = Count(queue, "adapterWrote")
      /\ Count(queue, "adapterRead") = Count(queue', "adapterRead") + 1
      /\ Count(queue', "readAdapter") = Count(queue, "readAdapter")
      /\ Acknowledged(queue') = Acknowledged(queue)
      /\ Count(queue', "adapterRead") \in Nat
    <2>1. /\ Count(queue, "connected") = Count(queue', "connected") + 0
          /\ Count(queue, "adapterWrote") = Count(queue', "adapterWrote") + 0
          /\ Count(queue, "adapterRead") = Count(queue', "adapterRead") + 1
          /\ Count(queue, "readAdapter") = Count(queue', "readAdapter") + 0
          /\ Acknowledged(queue) = Acknowledged(queue') + 0
        BY <1>1, <1>2, RunsWork, Zenon
    <2>2. /\ Count(queue', "connected") \in Nat /\ Count(queue', "adapterWrote") \in Nat
          /\ Count(queue', "adapterRead") \in Nat /\ Count(queue', "readAdapter") \in Nat
          /\ Acknowledged(queue') \in Nat
        BY <1>1, <1>2, RunsWork
    <2> QED BY <2>1, <2>2
<1>4. StageSound'
    BY <1>1, <1>3, StageKept DEF TurnsInv
<1>5. sock'.reading = sock.reading /\ sock'.pending = sock.pending
    BY <1>1 DEF WriteLocal, TypeOK
<1>6. UploadSound'
    BY <1>1, <1>2, <1>3, <1>5, RunsHandOn, UploadKept DEF TurnsInv
<1>7. CASE tunnel.cancelled
    <2>1. UNCHANGED <<sock, inflight, unanswered>>
        BY <1>7 DEF WriteLocal
    <2>2. ToBeAcknowledged' = ToBeAcknowledged
        BY <1>3, <2>1 DEF ToBeAcknowledged
    <2>3. DownloadSound'
        BY <1>1, <1>7, <2>1, <2>2, DownloadKept DEF TurnsInv
    <2> QED BY <1>4, <1>6, <2>3 DEF TurnsInv
<1>8. CASE ~tunnel.cancelled
    <2> SUFFICES ASSUME sock'.valid PROVE DownloadSound'
        BY <1>4, <1>6, DownloadOver DEF TurnsInv
    <2>1. PICK accepted \in BOOLEAN :
            /\ sock' = [sock EXCEPT !.remain = n, !.valid = sock.valid /\ accepted]
            /\ inflight' = IF sock'.valid /\ n < WriteLimit THEN inflight + n ELSE inflight
            /\ unanswered' = (unanswered \/ n = 0 \/ n >= WriteLimit)
        BY <1>8 DEF WriteLocal, n
    <2>2. PICK valid \in BOOLEAN :
            sock' = [sock EXCEPT !.remain = n, !.valid = valid] /\ (valid => sock.valid)
        <3>1. (sock.valid /\ accepted) \in BOOLEAN
            OBVIOUS
        <3> QED BY <2>1, <3>1, Zenon
    <2>3. sock'.valid = valid /\ sock'.remain = n
        BY <1>1, <2>2 DEF TypeOK
    <2>4. sock.valid
        BY <2>2, <2>3, Zenon
    <2>5. /\ DownloadTurns <= (IF unanswered THEN 0 ELSE 1)
          /\ ~tunnel.forwarding => DownloadTurns = 0
        BY <1>8, <2>4 DEF TurnsInv, DownloadSound
    <2>6. DownloadTurns \in Nat /\ DownloadTurns <= 1 /\ Count(queue, "adapterRead") > 0
        <3>1. DownloadTurns \in Nat
            BY <1>1, DownloadHeld
        <3> QED BY <1>3, <2>5, <3>1
    <2>7. /\ DownloadTurns = 1 /\ ~conn.reading /\ Count(queue, "adapterRead") = 1
          /\ ToBeAcknowledged = 0 /\ delayed = 0 /\ Count(queue, "readAdapter") = 0
        BY <1>1, <2>6, DownloadHeld
    <2>8. ~unanswered /\ tunnel.forwarding
        BY <2>5, <2>7
    <2>9. /\ inflight = 0 /\ Acknowledged(queue') = 0 /\ Count(queue', "adapterRead") = 0
        BY <1>1, <1>3, <2>7, TurnsNat DEF ToBeAcknowledged
    <2>10. inflight' = IF n < WriteLimit THEN n ELSE 0
        BY <1>1, <2>1, <2>9
    <2>11. ToBeAcknowledged' = IF n < WriteLimit THEN n ELSE 0
        BY <1>1, <2>9, <2>10, TunnelAssumption DEF TunnelAssumption, ToBeAcknowledged
    <2>12. unanswered' <=> n = 0 \/ n >= WriteLimit
        BY <2>1, <2>8
    <2>13. WriteLimit \in Nat \ {0}
        BY TunnelAssumption DEF TunnelAssumption
    <2>14. ~unanswered' => ToBeAcknowledged' = n /\ n > 0
        BY <1>1, <2>11, <2>12, <2>13
    <2>15. unanswered' => ToBeAcknowledged' = 0
        BY <1>1, <2>11, <2>12, <2>13
    <2>16. DownloadTurns' = IF ToBeAcknowledged' > 0 THEN 1 ELSE 0
        <3>1. ~conn'.reading /\ delayed' = 0 /\ Count(queue', "readAdapter") = 0
            BY <1>1, <1>3, <2>7
        <3>2. DownloadTurns' = 0 + 0 + (IF ToBeAcknowledged' > 0 THEN 1 ELSE 0) + 0 + 0
            BY <2>9, <3>1, TurnsWillBe
        <3> QED BY <3>2
    <2>17. CASE unanswered'
        <3>1. DownloadTurns' = 0
            BY <2>15, <2>16, <2>17
        <3> QED BY <1>1, <2>8, <2>15, <2>17, <3>1 DEF DownloadSound
    <2>18. CASE ~unanswered'
        <3>1. DownloadTurns' = 1
            BY <1>1, <2>14, <2>16, <2>18
        <3>2. sock'.remain = ToBeAcknowledged'
            BY <2>3, <2>14, <2>18
        <3> QED BY <1>1, <2>8, <2>18, <3>1, <3>2 DEF DownloadSound
    <2> QED BY <2>17, <2>18
<1> QED BY <1>7, <1>8

\* Bytes are acknowledged: after the last the adapter may read again.
LEMMA WroteTurns ==
    ASSUME TunnelInv, TypeOK', TurnsInv, queue # <<>>, Head(queue).type = "wrote",
           Wrote(Head(queue).n)
    PROVE  TurnsInv'
<1> DEFINE n == Head(queue).n
           left == sock.remain - n
           ends == left = 0 /\ sock.closing
           closes == ends /\ ~sock.valid
<1>1. TypeOK /\ n \in Nat /\ n > 0 /\ sock.remain \in Int
    BY HeadSound, TunnelAssumption DEF TunnelAssumption, TunnelInv, TypeOK, Fits
<1>2. UNCHANGED <<inflight, unanswered>> /\ Dispatch(Gone(sock, sock'))
    BY DEF Wrote
<1>3. /\ [sock EXCEPT !.remain = left].closing = sock.closing
      /\ [sock EXCEPT !.remain = left].valid = sock.valid
    BY <1>1 DEF TypeOK
<1>4. sock' = IF ends THEN [[sock EXCEPT !.remain = left] EXCEPT !.valid = FALSE]
              ELSE [sock EXCEPT !.remain = left]
    BY <1>3 DEF Wrote
<1>5. IF closes THEN ProxyGone ELSE UNCHANGED <<tunnel, adapter, conn>>
    BY <1>3 DEF Wrote
<1>6. delayed' = IF left <= 0 /\ ~tunnel.cancelled THEN delayed + 1 ELSE delayed
    BY DEF Wrote
<1>7. /\ Count(queue', "connected") = Count(queue, "connected")
      /\ Count(queue', "adapterWrote") = Count(queue, "adapterWrote")
      /\ Count(queue', "adapterRead") = Count(queue, "adapterRead")
      /\ Count(queue', "readAdapter") = Count(queue, "readAdapter")
      /\ ToBeAcknowledged = ToBeAcknowledged' + n
      /\ ToBeAcknowledged' \in Nat
    <2>1. /\ Count(queue, "connected") = Count(queue', "connected") + 0
          /\ Count(queue, "adapterWrote") = Count(queue', "adapterWrote") + 0
          /\ Count(queue, "adapterRead") = Count(queue', "adapterRead") + 0
          /\ Count(queue, "readAdapter") = Count(queue', "readAdapter") + 0
          /\ Acknowledged(queue) = Acknowledged(queue') + n
        BY <1>1, <1>2, GoneIdle, RunsWork, Zenon
    <2>2. /\ Count(queue', "connected") \in Nat /\ Count(queue', "adapterWrote") \in Nat
          /\ Count(queue', "adapterRead") \in Nat /\ Count(queue', "readAdapter") \in Nat
          /\ Acknowledged(queue') \in Nat
        BY <1>1, <1>2, GoneIdle, RunsWork
    <2>3. ToBeAcknowledged = inflight + Acknowledged(queue)
          /\ ToBeAcknowledged' = inflight + Acknowledged(queue') /\ inflight \in Nat
        BY <1>1, <1>2, TurnsNat DEF ToBeAcknowledged
    <2> HIDE DEF n
    <2> QED BY <1>1, <2>1, <2>2, <2>3
<1> HIDE DEF n, left, ends, closes
<1>8. /\ sock'.reading = sock.reading /\ sock'.pending = sock.pending /\ sock'.remain = left
      /\ sock'.valid => sock.valid
    BY <1>1, <1>4 DEF TypeOK, left
<1>9. CASE closes
    <2>1. ProxyGone /\ ~sock.valid
        BY <1>5, <1>9 DEF closes
    <2>2. /\ tunnel'.cancelled /\ tunnel'.forwarding = tunnel.forwarding
          /\ conn'.state = conn.state
        BY <1>1, <2>1, ProxyGoneSound DEF ProxyGone, TypeOK
    <2>3. StageSound'
        BY <1>1, <1>7, <2>2, StageKept DEF TurnsInv
    <2> QED BY <1>8, <2>1, <2>2, <2>3, UploadOver, DownloadOver DEF TurnsInv
<1>10. CASE ~closes
    <2>1. UNCHANGED <<tunnel, conn>>
        BY <1>5, <1>10
    <2>2. StageSound'
        BY <1>1, <1>7, <2>1, StageKept DEF TurnsInv
    <2>3. UploadSound'
        <3>1. NoHandOn(queue, sock.reading) => NoHandOn(queue', sock.reading)
            BY <1>1, <1>2, RunsHandOn DEF Gone
        <3> QED BY <1>7, <1>8, <2>1, <3>1, UploadKept DEF TurnsInv
    <2>4. DownloadSound'
        <3> SUFFICES ASSUME sock'.valid PROVE DownloadSound'
            BY DownloadOver
        <3>1. sock.valid
            BY <1>8
        <3>2. ToBeAcknowledged > 0 /\ ToBeAcknowledged # 0
            <4> DEFINE after == ToBeAcknowledged'
            <4>1. after \in Nat /\ ToBeAcknowledged = after + n
                BY <1>7
            <4> HIDE DEF after
            <4> QED BY <1>1, <4>1
        <3>3. sock.remain = ToBeAcknowledged
            BY <3>1, <3>2 DEF TurnsInv, DownloadSound
        <3>4. sock'.remain = ToBeAcknowledged' /\ (left <= 0 <=> ToBeAcknowledged' = 0)
            BY <1>1, <1>7, <1>8, <3>3 DEF left
        <3>5. CASE tunnel.cancelled
            BY <2>1, <3>4, <3>5 DEF DownloadSound
        <3>6. CASE ~tunnel.cancelled
            <4>1. /\ DownloadTurns <= (IF unanswered THEN 0 ELSE 1)
                  /\ ~tunnel.forwarding => DownloadTurns = 0
                BY <3>1, <3>6 DEF TurnsInv, DownloadSound
            <4>2. DownloadTurns \in Nat /\ DownloadTurns <= 1
                <5>1. DownloadTurns \in Nat
                    BY <1>1, DownloadHeld
                <5> QED BY <4>1, <5>1
            <4>3. /\ DownloadTurns = 1 /\ ~conn.reading /\ Count(queue, "adapterRead") = 0
                  /\ delayed = 0 /\ Count(queue, "readAdapter") = 0
                BY <1>1, <3>2, <4>2, DownloadHeld
            <4>4. ~unanswered /\ tunnel.forwarding
                BY <4>1, <4>3
            <4>5. delayed' = IF ToBeAcknowledged' = 0 THEN 1 ELSE 0
                BY <1>6, <3>4, <3>6, <4>3
            <4>6. DownloadTurns' = 1
                <5>1. DownloadTurns' = 0 + 0 + (IF ToBeAcknowledged' > 0 THEN 1 ELSE 0)
                                       + (IF ToBeAcknowledged' = 0 THEN 1 ELSE 0) + 0
                    BY <1>7, <2>1, <4>3, <4>5, TurnsWillBe
                <5> QED BY <1>7, <5>1
            <4> QED BY <1>2, <2>1, <3>4, <4>4, <4>6 DEF DownloadSound
        <3> QED BY <3>5, <3>6
    <2> QED BY <2>2, <2>3, <2>4 DEF TurnsInv
<1> QED BY <1>9, <1>10

\* A delayed read is due.
LEMMA AdapterReadsTurns ==
    ASSUME TunnelInv, TypeOK', TurnsInv, queue # <<>>, Head(queue).type = "readAdapter",
           AdapterReads
    PROVE  TurnsInv'
<1>1. /\ TypeOK /\ Dispatch(<<>>) /\ UNCHANGED <<delayed, sock, inflight, tunnel, unanswered>>
    BY DEF TunnelInv, AdapterReads
<1>2. /\ Count(queue', "connected") = Count(queue, "connected")
      /\ Count(queue', "adapterWrote") = Count(queue, "adapterWrote")
      /\ Count(queue', "adapterRead") = Count(queue, "adapterRead")
      /\ Count(queue, "readAdapter") = Count(queue', "readAdapter") + 1
      /\ ToBeAcknowledged' = ToBeAcknowledged
      /\ Count(queue', "readAdapter") \in Nat
    <2>1. /\ Count(queue, "connected") = Count(queue', "connected") + 0
          /\ Count(queue, "adapterWrote") = Count(queue', "adapterWrote") + 0
          /\ Count(queue, "adapterRead") = Count(queue', "adapterRead") + 0
          /\ Count(queue, "readAdapter") = Count(queue', "readAdapter") + 1
          /\ Acknowledged(queue) = Acknowledged(queue') + 0
        BY <1>1, NoneIdle, RunsWork, Zenon
    <2>2. /\ Count(queue', "connected") \in Nat /\ Count(queue', "adapterWrote") \in Nat
          /\ Count(queue', "adapterRead") \in Nat /\ Count(queue', "readAdapter") \in Nat
          /\ Acknowledged(queue') \in Nat
        BY <1>1, NoneIdle, RunsWork
    <2>3. ToBeAcknowledged' = ToBeAcknowledged
        BY <1>1, <2>1, <2>2 DEF ToBeAcknowledged
    <2> QED BY <2>1, <2>2, <2>3
<1>3. PICK reads \in BOOLEAN :
        /\ conn' = [conn EXCEPT !.reading = reads]
        /\ reads <=> conn.reading \/ (conn.state = "open" /\ ~conn.closing)
    <2>1. (conn.reading \/ (conn.state = "open" /\ ~conn.closing)) \in BOOLEAN
        OBVIOUS
    <2>2. conn' = [conn EXCEPT !.reading = conn.reading \/ (conn.state = "open" /\ ~conn.closing)]
        BY DEF AdapterReads
    <2> QED BY <2>1, <2>2, Zenon
<1>4. /\ conn'.state = conn.state /\ conn'.writing = conn.writing /\ conn'.closing = conn.closing
      /\ conn'.reading = reads
    BY <1>1, <1>3 DEF TypeOK
<1>5. StageSound'
    BY <1>1, <1>2, <1>4, StageKept DEF TurnsInv
<1>6. UploadSound'
    BY <1>1, <1>2, <1>4, RunsHandOn, UploadKept DEF TurnsInv
<1>7. DownloadSound'
    <2> SUFFICES ASSUME sock.valid PROVE DownloadSound'
        BY <1>1, DownloadOver
    <2>1. CASE tunnel.cancelled
        BY <1>1, <1>2, <2>1 DEF TurnsInv, DownloadSound
    <2>2. CASE ~tunnel.cancelled
        <3>1. /\ DownloadTurns <= (IF unanswered THEN 0 ELSE 1)
              /\ ~tunnel.forwarding => DownloadTurns = 0
            BY <2>2 DEF TurnsInv, DownloadSound
        <3>2. DownloadTurns \in Nat /\ DownloadTurns <= 1 /\ Count(queue, "readAdapter") > 0
            <4>1. DownloadTurns \in Nat
                BY <1>1, DownloadHeld
            <4> QED BY <1>2, <3>1, <4>1
        <3>3. /\ DownloadTurns = 1 /\ ~conn.reading /\ Count(queue, "adapterRead") = 0
              /\ ToBeAcknowledged = 0 /\ delayed = 0 /\ Count(queue, "readAdapter") = 1
            BY <1>1, <3>2, DownloadHeld
        <3>4. ~unanswered /\ tunnel.forwarding /\ ~conn.closing
            BY <2>2, <3>1, <3>3 DEF TurnsInv, StageSound
        <3>5. conn'.reading <=> conn.state = "open"
            BY <1>3, <1>4, <3>3, <3>4, Zenon
        <3>6. DownloadTurns' = IF conn.state = "open" THEN 1 ELSE 0
            <4>1. (IF conn'.reading THEN 1 ELSE 0) = IF conn.state = "open" THEN 1 ELSE 0
                BY <3>5, Zenon
            <4>2. Count(queue', "readAdapter") = 0
                BY <1>2, <3>3
            <4>3. DownloadTurns' = (IF conn.state = "open" THEN 1 ELSE 0) + 0
                                   + (IF 0 > 0 THEN 1 ELSE 0) + 0 + 0
                BY <1>1, <1>2, <3>3, <4>1, <4>2, TurnsWillBe
            <4> QED BY <4>3
        <3> QED BY <1>1, <1>2, <1>4, <3>4, <3>6 DEF TurnsInv, DownloadSound
    <2> QED BY <2>1, <2>2
<1> QED BY <1>5, <1>6, <1>7 DEF TurnsInv

\* The local side is gone.
LEMMA GoneTurns ==
    ASSUME TunnelInv, TypeOK', TurnsInv, queue # <<>>, Head(queue).type = "gone", ProxyGone,
           Dispatch(<<>>), UNCHANGED <<sock, inflight>>
    PROVE  TurnsInv'
<1>1. TypeOK /\ ~sock.valid
    BY HeadSound DEF TunnelInv, Fits
<1>2. Count(queue', "connected") = Count(queue, "connected")
    BY <1>1, NoneIdle, RunsIdle
<1>3. /\ tunnel'.cancelled /\ tunnel'.forwarding = tunnel.forwarding
      /\ conn'.state = conn.state
    BY <1>1, ProxyGoneSound DEF ProxyGone, TypeOK
<1>4. StageSound'
    BY <1>1, <1>2, <1>3, StageKept DEF TurnsInv
<1> QED BY <1>1, <1>3, <1>4, UploadOver, DownloadOver DEF TurnsInv

\* The connection is gone.
LEMMA AdapterGoneTurns ==
    ASSUME TunnelInv, TypeOK', TurnsInv, queue # <<>>, Head(queue).type = "adapterGone",
           AdapterGone, UNCHANGED <<delayed, inflight, unanswered>>
    PROVE  TurnsInv'
<1>1. TypeOK /\ conn' = conn /\ Dispatch(Gone(sock, sock'))
    BY DEF TunnelInv, AdapterGone
<1>2. /\ Count(queue', "connected") = Count(queue, "connected")
      /\ Count(queue', "adapterWrote") = Count(queue, "adapterWrote")
      /\ Count(queue', "adapterRead") = Count(queue, "adapterRead")
      /\ Count(queue', "readAdapter") = Count(queue, "readAdapter")
      /\ ToBeAcknowledged' = ToBeAcknowledged
    BY <1>1, GoneIdle, RunsIdle
<1>3. tunnel'.cancelled /\ tunnel'.forwarding = tunnel.forwarding
    BY <1>1 DEF AdapterGone, TypeOK
<1>4. sock'.remain = sock.remain /\ (sock'.valid => sock.valid)
    <2>1. sock' = sock \/ (sock.valid /\ sock' = Disconnects(sock))
        BY DEF AdapterGone
    <2>2. Disconnects(sock).remain = sock.remain
        BY <1>1 DEF Disconnects, TypeOK
    <2> QED BY <2>1, <2>2
<1>5. StageSound'
    BY <1>1, <1>2, <1>3, StageKept DEF TurnsInv
<1>6. DownloadSound'
    BY <1>1, <1>2, <1>3, <1>4, DownloadKept DEF TurnsInv
<1> QED BY <1>3, <1>5, <1>6, UploadOver DEF TurnsInv


LEMMA TurnTurns == TunnelInv /\ TypeOK' /\ TurnsInv /\ Turn => TurnsInv'
<1> SUFFICES ASSUME TunnelInv, TypeOK', TurnsInv, Turn PROVE TurnsInv'
    OBVIOUS
<1>1. queue # <<>>
    BY DEF Turn
<1>2. CASE Head(queue).type = "open" /\ OpenAdapter
    BY <1>1, <1>2, OpenAdapterTurns
<1>3. CASE Head(queue).type = "connected" /\ DidConnect
    BY <1>1, <1>3, DidConnectTurns
<1>4. CASE Head(queue).type = "data" /\ KeepData(Head(queue).data)
    BY <1>1, <1>4, KeepDataTurns
<1>5. CASE Head(queue).type = "read" /\ HandOn
    BY <1>1, <1>5, HandOnTurns
<1>6. CASE Head(queue).type = "adapterWrote" /\ AdapterWrote
    BY <1>1, <1>6, AdapterWroteTurns
<1>7. CASE Head(queue).type = "adapterRead" /\ WriteLocal(Head(queue).n)
    BY <1>1, <1>7, WriteLocalTurns
<1>8. CASE Head(queue).type = "wrote" /\ Wrote(Head(queue).n)
    BY <1>1, <1>8, WroteTurns
<1>9. CASE Head(queue).type = "readAdapter" /\ AdapterReads
    BY <1>1, <1>9, AdapterReadsTurns
<1>10. CASE /\ Head(queue).type = "gone" /\ ProxyGone /\ Dispatch(<<>>)
            /\ UNCHANGED <<delayed, sock, inflight, forwarded, unanswered>>
    BY <1>1, <1>10, GoneTurns
<1>11. CASE /\ Head(queue).type = "adapterGone" /\ AdapterGone
            /\ UNCHANGED <<delayed, inflight, forwarded, unanswered>>
    BY <1>1, <1>11, AdapterGoneTurns
<1> QED
    BY <1>2, <1>3, <1>4, <1>5, <1>6, <1>7, <1>8, <1>9, <1>10, <1>11 DEF Turn

-----------------------------------------------------------------------------
(* What reaches the queue from outside *)

\* An arrival that is no work and touches nobody's turn.
LEMMA IdleArrival ==
    ASSUME TypeOK, TypeOK', TurnsInv, NEW b, Idle(b), b.type # "read", Enqueue(b),
           UNCHANGED <<delayed, inflight, tunnel, conn, unanswered>>,
           sock'.reading = sock.reading, sock'.pending = sock.pending,
           sock'.remain = sock.remain, sock'.valid => sock.valid
    PROVE  TurnsInv'
<1>1. b \in QueueBlock /\ b.type \notin {"connected", "adapterWrote", "adapterRead", "readAdapter", "wrote"}
    BY DEF Idle
<1>2. /\ Count(queue', "connected") = Count(queue, "connected") + 0
      /\ Count(queue', "adapterWrote") = Count(queue, "adapterWrote") + 0
      /\ Count(queue', "adapterRead") = Count(queue, "adapterRead") + 0
      /\ Count(queue', "readAdapter") = Count(queue, "readAdapter") + 0
      /\ Acknowledged(queue') = Acknowledged(queue) + 0
    BY <1>1, ArrivesWork
<1>3. /\ Count(queue', "connected") = Count(queue, "connected")
      /\ Count(queue', "adapterWrote") = Count(queue, "adapterWrote")
      /\ Count(queue', "adapterRead") = Count(queue, "adapterRead")
      /\ Count(queue', "readAdapter") = Count(queue, "readAdapter")
      /\ Acknowledged(queue') = Acknowledged(queue)
    BY <1>2, TurnsNat
<1>4. ToBeAcknowledged' = ToBeAcknowledged
    BY <1>3 DEF ToBeAcknowledged
<1>5. StageSound'
    BY <1>3, StageKept DEF TurnsInv
<1>6. NoHandOn(queue, sock.reading) => NoHandOn(queue', sock.reading)
    BY <1>1, ArrivesHandOn
<1>7. UploadSound'
    BY <1>3, <1>6, UploadKept DEF TurnsInv
<1>8. DownloadTurns' = DownloadTurns
    BY <1>3, <1>4, TurnsAre, TurnsWillBe
<1>9. DownloadSound'
    BY <1>4, <1>8, DownloadKept DEF TurnsInv
<1> QED BY <1>5, <1>7, <1>9 DEF TurnsInv

LEMMA ResolvedTurns ==
    ASSUME TypeOK, TypeOK', TurnsInv, Resolved
    PROVE  TurnsInv'
<1> DEFINE b == Block("open")
<1>1. Idle(b) /\ b.type # "read"
    BY BlockTyped DEF Idle
<1>2. Enqueue(b) /\ UNCHANGED <<delayed, sock, inflight, tunnel, conn, unanswered>>
    BY DEF Resolved
<1> HIDE DEF b
<1> QED BY <1>1, <1>2, IdleArrival

LEMMA LocalResetsTurns ==
    ASSUME TypeOK, TypeOK', TurnsInv, LocalResets
    PROVE  TurnsInv'
<1> DEFINE b == Block("gone")
<1>1. Idle(b) /\ b.type # "read"
    BY BlockTyped DEF Idle
<1>2. Enqueue(b) /\ UNCHANGED <<delayed, inflight, tunnel, conn, unanswered>>
    BY DEF LocalResets
<1>3. /\ sock'.reading = sock.reading /\ sock'.pending = sock.pending
      /\ sock'.remain = sock.remain /\ sock.valid
    BY DEF LocalResets, TypeOK
<1> HIDE DEF b
<1> QED BY <1>1, <1>2, <1>3, IdleArrival

\* A delay is over: the read is due.
LEMMA DelayEndsTurns ==
    ASSUME TypeOK, TypeOK', TurnsInv, DelayEnds
    PROVE  TurnsInv'
<1> DEFINE b == Block("readAdapter")
<1>1. b \in QueueBlock /\ b.type = "readAdapter"
    BY BlockTyped
<1>2. /\ Enqueue(b) /\ delayed > 0 /\ delayed' = delayed - 1
      /\ UNCHANGED <<sock, inflight, tunnel, conn, unanswered>>
    BY DEF DelayEnds
<1> HIDE DEF b
<1>3. /\ Count(queue', "connected") = Count(queue, "connected") + 0
      /\ Count(queue', "adapterWrote") = Count(queue, "adapterWrote") + 0
      /\ Count(queue', "adapterRead") = Count(queue, "adapterRead") + 0
      /\ Count(queue', "readAdapter") = Count(queue, "readAdapter") + 1
      /\ Acknowledged(queue') = Acknowledged(queue) + 0
    BY <1>1, <1>2, ArrivesWork
<1>4. /\ Count(queue', "connected") = Count(queue, "connected")
      /\ Count(queue', "adapterWrote") = Count(queue, "adapterWrote")
      /\ Count(queue', "adapterRead") = Count(queue, "adapterRead")
      /\ Acknowledged(queue') = Acknowledged(queue)
    BY <1>3, TurnsNat
<1>5. ToBeAcknowledged' = ToBeAcknowledged
    BY <1>2, <1>4 DEF ToBeAcknowledged
<1>6. StageSound'
    BY <1>2, <1>4, StageKept DEF TurnsInv
<1>7. NoHandOn(queue, sock.reading) => NoHandOn(queue', sock.reading)
    BY <1>1, <1>2, ArrivesHandOn
<1>8. UploadSound'
    BY <1>2, <1>4, <1>7, UploadKept DEF TurnsInv
<1>9. DownloadTurns' = DownloadTurns
    <2> DEFINE r == IF conn.reading THEN 1 ELSE 0
               w == IF ToBeAcknowledged > 0 THEN 1 ELSE 0
    <2>1. DownloadTurns = r + Count(queue, "adapterRead") + w + delayed + Count(queue, "readAdapter")
        BY TurnsAre
    <2>2. DownloadTurns' = r + Count(queue, "adapterRead") + w + (delayed - 1)
                           + (Count(queue, "readAdapter") + 1)
        BY <1>2, <1>3, <1>4, <1>5, TurnsWillBe
    <2>3. r \in Nat /\ w \in Nat
        OBVIOUS
    <2> HIDE DEF r, w
    <2> QED BY <2>1, <2>2, <2>3, TurnsNat
<1>10. DownloadSound'
    BY <1>2, <1>5, <1>9, DownloadKept DEF TurnsInv
<1> QED BY <1>6, <1>8, <1>10 DEF TurnsInv

\* Bytes are acknowledged: the block that tells of them takes them over.
LEMMA LocalAcksTurns ==
    ASSUME TypeOK, TypeOK', TurnsInv, NEW n \in 1..DownLen, LocalAcks(n)
    PROVE  TurnsInv'
<1> DEFINE b == [Block("wrote") EXCEPT !.n = n]
<1>1. b \in QueueBlock /\ b.type = "wrote" /\ b.n = n
    <2>1. n \in 0..DownLen /\ <<>> \in Seq(1..UpLen)
        BY TunnelAssumption DEF TunnelAssumption
    <2>2. b = [type |-> "wrote", data |-> <<>>, n |-> n]
        BY DEF Block
    <2> HIDE DEF b
    <2> QED BY <2>1, <2>2 DEF QueueBlock
<1>2. /\ Enqueue(b) /\ inflight' = inflight - n
      /\ UNCHANGED <<delayed, sock, tunnel, conn, unanswered>>
    BY DEF LocalAcks
<1> HIDE DEF b
<1>3. /\ Count(queue', "connected") = Count(queue, "connected") + 0
      /\ Count(queue', "adapterWrote") = Count(queue, "adapterWrote") + 0
      /\ Count(queue', "adapterRead") = Count(queue, "adapterRead") + 0
      /\ Count(queue', "readAdapter") = Count(queue, "readAdapter") + 0
      /\ Acknowledged(queue') = Acknowledged(queue) + n
    BY <1>1, <1>2, ArrivesWork
<1>4. /\ Count(queue', "connected") = Count(queue, "connected")
      /\ Count(queue', "adapterWrote") = Count(queue, "adapterWrote")
      /\ Count(queue', "adapterRead") = Count(queue, "adapterRead")
      /\ Count(queue', "readAdapter") = Count(queue, "readAdapter")
    BY <1>3, TurnsNat
<1>5. ToBeAcknowledged' = ToBeAcknowledged
    <2>1. ToBeAcknowledged = inflight + Acknowledged(queue)
          /\ ToBeAcknowledged' = (inflight - n) + (Acknowledged(queue) + n)
        BY <1>2, <1>3 DEF ToBeAcknowledged
    <2> QED BY <2>1, TurnsNat
<1>6. StageSound'
    BY <1>2, <1>4, StageKept DEF TurnsInv
<1>7. NoHandOn(queue, sock.reading) => NoHandOn(queue', sock.reading)
    BY <1>1, <1>2, ArrivesHandOn
<1>8. UploadSound'
    BY <1>2, <1>4, <1>7, UploadKept DEF TurnsInv
<1>9. DownloadTurns' = DownloadTurns
    BY <1>2, <1>4, <1>5, TurnsAre, TurnsWillBe
<1>10. DownloadSound'
    BY <1>2, <1>5, <1>9, DownloadKept DEF TurnsInv
<1> QED BY <1>6, <1>8, <1>10 DEF TurnsInv

\* A segment of the device touches nobody's turn.
LEMMA LocalSendsTurns ==
    ASSUME TypeOK, TypeOK', TurnsInv, NEW n \in 0..UpLen, NEW last \in BOOLEAN, LocalSends(n, last)
    PROVE  TurnsInv'
<1> DEFINE data == [i \in 1..n |-> up + i]
           b == [Block("data") EXCEPT !.data = data]
           bs == IF n > 0 THEN <<b>> ELSE <<>>
           cs == Gone(sock, sock')
<1>1. /\ up + n <= UpLen /\ queue' = queue \o bs \o cs
      /\ sock' = IF last THEN Disconnects(sock) ELSE sock
      /\ UNCHANGED <<delayed, inflight, tunnel, conn, unanswered>>
    BY DEF LocalSends
<1>2. b \in QueueBlock /\ b.type = "data"
    <2>1. up \in 0..UpLen /\ UpLen \in Nat
        BY TunnelAssumption DEF TunnelAssumption, TypeOK
    <2>2. n \in Nat /\ \A i \in 1..n : up + i \in 1..UpLen
        BY <1>1, <2>1
    <2>3. data \in Seq(1..UpLen)
        BY <2>2
    <2>4. b = [type |-> "data", data |-> data, n |-> 0]
        BY DEF Block
    <2>5. 0 \in 0..DownLen
        BY TunnelAssumption DEF TunnelAssumption
    <2> HIDE DEF b, data
    <2> QED BY <2>3, <2>4, <2>5 DEF QueueBlock
<1>3. /\ sock'.reading = sock.reading /\ sock'.pending = sock.pending
      /\ sock'.remain = sock.remain /\ (sock'.valid => sock.valid)
    <2>1. sock.valid
        BY DEF LocalSends
    <2>2. /\ Disconnects(sock).reading = sock.reading /\ Disconnects(sock).pending = sock.pending
          /\ Disconnects(sock).remain = sock.remain
        BY DEF Disconnects, TypeOK
    <2> QED BY <1>1, <2>1, <2>2
<1>4. IdleBlocks(bs) /\ (bs = <<>> \/ bs = <<b>>)
    BY <1>2 DEF Idle, IdleBlocks
<1>5. IdleBlocks(cs) /\ (cs = <<>> \/ cs = <<Block("gone")>>)
    BY GoneIdle DEF Gone
<1> HIDE DEF b, bs, cs
<1>6. SameWork(queue', queue)
    BY <1>1, <1>4, <1>5, ArrivalWork
<1>7. /\ Count(queue', "connected") = Count(queue, "connected")
      /\ Count(queue', "adapterWrote") = Count(queue, "adapterWrote")
      /\ Count(queue', "adapterRead") = Count(queue, "adapterRead")
      /\ Count(queue', "readAdapter") = Count(queue, "readAdapter")
      /\ ToBeAcknowledged' = ToBeAcknowledged
    BY <1>1, <1>6 DEF SameWork, Work, ToBeAcknowledged
<1>8. NoHandOn(queue, sock.reading) => NoHandOn(queue', sock.reading)
    <2> SUFFICES ASSUME NoHandOn(queue, sock.reading) PROVE NoHandOn(queue', sock.reading)
        OBVIOUS
    <2> DEFINE r == queue \o bs
               g == Block("gone")
    <2>1. queue \in Seq(QueueBlock) /\ g \in QueueBlock /\ g.type # "read"
        BY BlockTyped DEF TypeOK
    <2>2. r = queue \/ r = Append(queue, b)
        <3>1. CASE bs = <<>>
            <4>1. queue \o <<>> = queue
                BY <2>1
            <4> QED BY <3>1, <4>1
        <3>2. CASE bs = <<b>>
            <4>1. queue \o <<b>> = Append(queue, b)
                BY <1>2, <2>1
            <4> QED BY <3>2, <4>1
        <3> QED BY <1>4, <3>1, <3>2
    <2>3. r \in Seq(QueueBlock) /\ NoHandOn(r, sock.reading)
        <3> HIDE DEF r
        <3>1. Append(queue, b) \in Seq(QueueBlock) /\ b.type # "read"
            BY <1>2, <2>1
        <3>2. NoHandOn(Append(queue, b), sock.reading)
            BY <2>1, <3>1, HandOnAppend
        <3> QED BY <2>1, <2>2, <3>1, <3>2
    <2>4. queue' = r \o cs /\ (cs = <<>> \/ cs = <<g>>)
        BY <1>1, <1>5
    <2> HIDE DEF r, g
    <2>5. queue' = r \/ queue' = Append(r, g)
        <3>1. r \o <<>> = r /\ r \o <<g>> = Append(r, g)
            BY <2>1, <2>3
        <3> QED BY <2>4, <3>1
    <2> QED BY <2>1, <2>3, <2>5, HandOnAppend
<1>9. StageSound'
    BY <1>1, <1>7, StageKept DEF TurnsInv
<1>10. UploadSound'
    BY <1>1, <1>3, <1>7, <1>8, UploadKept DEF TurnsInv
<1>11. DownloadTurns' = DownloadTurns
    BY <1>1, <1>7, TurnsAre, TurnsWillBe
<1>12. DownloadSound'
    BY <1>1, <1>3, <1>7, <1>11, DownloadKept DEF TurnsInv
<1> QED BY <1>9, <1>10, <1>12 DEF TurnsInv


\* The connection is made, once.
LEMMA ConnectsTurns ==
    ASSUME TypeOK, TypeOK', TurnsInv, Connects
    PROVE  TurnsInv'
<1> DEFINE b == Block("connected")
<1>1. b \in QueueBlock /\ b.type = "connected"
    BY BlockTyped
<1>2. /\ Enqueue(b) /\ conn.state = "connecting" /\ conn' = [conn EXCEPT !.state = "open"]
      /\ UNCHANGED <<delayed, sock, inflight, tunnel, unanswered>>
    BY DEF Connects
<1> HIDE DEF b
<1>3. /\ conn'.state = "open" /\ conn'.reading = conn.reading /\ conn'.writing = conn.writing
      /\ conn'.closing = conn.closing
    BY <1>2 DEF TypeOK
<1>4. /\ Count(queue', "connected") = Count(queue, "connected") + 1
      /\ Count(queue', "adapterWrote") = Count(queue, "adapterWrote") + 0
      /\ Count(queue', "adapterRead") = Count(queue, "adapterRead") + 0
      /\ Count(queue', "readAdapter") = Count(queue, "readAdapter") + 0
      /\ Acknowledged(queue') = Acknowledged(queue) + 0
    BY <1>1, <1>2, ArrivesWork
<1>5. /\ Count(queue', "adapterWrote") = Count(queue, "adapterWrote")
      /\ Count(queue', "adapterRead") = Count(queue, "adapterRead")
      /\ Count(queue', "readAdapter") = Count(queue, "readAdapter")
      /\ Acknowledged(queue') = Acknowledged(queue)
    BY <1>4, TurnsNat
<1>6. ToBeAcknowledged' = ToBeAcknowledged
    BY <1>2, <1>5 DEF ToBeAcknowledged
<1>7. Count(queue, "connected") = 0 /\ ~tunnel.forwarding
    BY <1>2, TurnsNat DEF TurnsInv, StageSound
<1>8. Count(queue', "connected") = 1
    BY <1>4, <1>7
<1>9. StageSound'
    BY <1>2, <1>3, <1>7, <1>8 DEF TurnsInv, StageSound
<1>10. NoHandOn(queue, sock.reading) => NoHandOn(queue', sock.reading)
    BY <1>1, <1>2, ArrivesHandOn
<1>11. UploadSound'
    BY <1>2, <1>3, <1>5, <1>10, UploadKept DEF TurnsInv
<1>12. DownloadTurns' = DownloadTurns
    BY <1>2, <1>3, <1>5, <1>6, TurnsAre, TurnsWillBe
<1>13. DownloadSound'
    BY <1>2, <1>3, <1>6, <1>7, <1>12 DEF TurnsInv, DownloadSound
<1> QED BY <1>9, <1>11, <1>13 DEF TurnsInv

\* The remote side's data takes the turn of the read it answers.
LEMMA RemoteSendsTurns ==
    ASSUME TypeOK, TypeOK', TurnsInv, NEW n \in 0..DownLen, RemoteSends(n)
    PROVE  TurnsInv'
<1> DEFINE b == [Block("adapterRead") EXCEPT !.n = n]
<1>1. b \in QueueBlock /\ b.type = "adapterRead"
    <2>1. <<>> \in Seq(1..UpLen)
        OBVIOUS
    <2>2. b = [type |-> "adapterRead", data |-> <<>>, n |-> n]
        BY DEF Block
    <2> HIDE DEF b
    <2> QED BY <2>1, <2>2 DEF QueueBlock
<1>2. /\ Enqueue(b) /\ conn.reading /\ conn' = [conn EXCEPT !.reading = FALSE]
      /\ UNCHANGED <<delayed, sock, inflight, tunnel, unanswered>>
    BY DEF RemoteSends
<1> HIDE DEF b
<1>3. /\ conn'.state = conn.state /\ ~conn'.reading /\ conn'.writing = conn.writing
      /\ conn'.closing = conn.closing
    BY <1>2 DEF TypeOK
<1>4. /\ Count(queue', "connected") = Count(queue, "connected") + 0
      /\ Count(queue', "adapterWrote") = Count(queue, "adapterWrote") + 0
      /\ Count(queue', "adapterRead") = Count(queue, "adapterRead") + 1
      /\ Count(queue', "readAdapter") = Count(queue, "readAdapter") + 0
      /\ Acknowledged(queue') = Acknowledged(queue) + 0
    BY <1>1, <1>2, ArrivesWork
<1>5. /\ Count(queue', "connected") = Count(queue, "connected")
      /\ Count(queue', "adapterWrote") = Count(queue, "adapterWrote")
      /\ Count(queue', "readAdapter") = Count(queue, "readAdapter")
      /\ Acknowledged(queue') = Acknowledged(queue)
    BY <1>4, TurnsNat
<1>6. ToBeAcknowledged' = ToBeAcknowledged
    BY <1>2, <1>5 DEF ToBeAcknowledged
<1>7. StageSound'
    BY <1>2, <1>3, <1>5, StageKept DEF TurnsInv
<1>8. NoHandOn(queue, sock.reading) => NoHandOn(queue', sock.reading)
    BY <1>1, <1>2, ArrivesHandOn
<1>9. UploadSound'
    BY <1>2, <1>3, <1>5, <1>8, UploadKept DEF TurnsInv
<1>10. DownloadTurns' = DownloadTurns
    <2> DEFINE w == IF ToBeAcknowledged > 0 THEN 1 ELSE 0
    <2>1. DownloadTurns = 1 + Count(queue, "adapterRead") + w + delayed + Count(queue, "readAdapter")
        BY <1>2, TurnsAre
    <2>2. DownloadTurns' = 0 + (Count(queue, "adapterRead") + 1) + w + delayed
                           + Count(queue, "readAdapter")
        BY <1>2, <1>3, <1>4, <1>5, <1>6, TurnsWillBe
    <2>3. w \in Nat
        OBVIOUS
    <2> HIDE DEF w
    <2> QED BY <2>1, <2>2, <2>3, TurnsNat
<1>11. DownloadSound'
    BY <1>2, <1>3, <1>6, <1>10, DownloadKept DEF TurnsInv
<1> QED BY <1>7, <1>9, <1>11 DEF TurnsInv

\* The device's data has left for the remote side.
LEMMA ConnWritesTurns ==
    ASSUME TypeOK, TypeOK', TurnsInv, ConnWrites
    PROVE  TurnsInv'
<1> DEFINE b == Block("adapterWrote")
<1>1. b \in QueueBlock /\ b.type = "adapterWrote"
    BY BlockTyped
<1>2. /\ Enqueue(b) /\ conn.state = "open" /\ conn.writing # <<>>
      /\ conn' = [conn EXCEPT !.writing = <<>>]
      /\ UNCHANGED <<delayed, sock, inflight, tunnel, unanswered>>
    BY DEF ConnWrites
<1> HIDE DEF b
<1>3. /\ conn'.state = conn.state /\ conn'.reading = conn.reading /\ conn'.writing = <<>>
      /\ conn'.closing = conn.closing
    BY <1>2 DEF TypeOK
<1>4. /\ Count(queue', "connected") = Count(queue, "connected") + 0
      /\ Count(queue', "adapterWrote") = Count(queue, "adapterWrote") + 1
      /\ Count(queue', "adapterRead") = Count(queue, "adapterRead") + 0
      /\ Count(queue', "readAdapter") = Count(queue, "readAdapter") + 0
      /\ Acknowledged(queue') = Acknowledged(queue) + 0
    BY <1>1, <1>2, ArrivesWork
<1>5. /\ Count(queue', "connected") = Count(queue, "connected")
      /\ Count(queue', "adapterRead") = Count(queue, "adapterRead")
      /\ Count(queue', "readAdapter") = Count(queue, "readAdapter")
      /\ Acknowledged(queue') = Acknowledged(queue)
    BY <1>4, TurnsNat
<1>6. ToBeAcknowledged' = ToBeAcknowledged
    BY <1>2, <1>5 DEF ToBeAcknowledged
<1>7. StageSound'
    BY <1>2, <1>3, <1>5, StageKept DEF TurnsInv
<1>8. NoHandOn(queue, sock.reading) => NoHandOn(queue', sock.reading)
    BY <1>1, <1>2, ArrivesHandOn
<1>9. UploadTurns' = UploadTurns
    <2> DEFINE r == IF sock.reading THEN 1 ELSE 0
    <2>1. UploadTurns = r + 1 + Count(queue, "adapterWrote")
        BY <1>2, TurnsAre
    <2>2. UploadTurns' = r + 0 + (Count(queue, "adapterWrote") + 1)
        BY <1>2, <1>3, <1>4, TurnsWillBe
    <2>3. r \in Nat
        OBVIOUS
    <2> HIDE DEF r
    <2> QED BY <2>1, <2>2, <2>3, TurnsNat
<1>10. UploadSound'
    BY <1>2, <1>3, <1>8, <1>9 DEF TurnsInv, UploadSound
<1>11. DownloadTurns' = DownloadTurns
    BY <1>2, <1>3, <1>5, <1>6, TurnsAre, TurnsWillBe
<1>12. DownloadSound'
    BY <1>2, <1>3, <1>6, <1>11, DownloadKept DEF TurnsInv
<1> QED BY <1>7, <1>10, <1>12 DEF TurnsInv

\* The connection ends: its read ends with it.
LEMMA ConnGoneTurns ==
    ASSUME TypeOK, TypeOK', TurnsInv, ConnGone
    PROVE  TurnsInv'
<1> DEFINE b == Block("adapterGone")
<1>1. b \in QueueBlock /\ b.type = "adapterGone"
    BY BlockTyped
<1>2. /\ Enqueue(b)
      /\ conn' = [conn EXCEPT !.state = "gone", !.reading = FALSE, !.writing = <<>>]
      /\ UNCHANGED <<delayed, sock, inflight, tunnel, unanswered>>
    BY DEF ConnGone
<1> HIDE DEF b
<1>3. conn'.state = "gone" /\ ~conn'.reading /\ conn'.closing = conn.closing
    BY <1>2 DEF TypeOK
<1>4. /\ Count(queue', "connected") = Count(queue, "connected") + 0
      /\ Count(queue', "adapterRead") = Count(queue, "adapterRead") + 0
      /\ Count(queue', "readAdapter") = Count(queue, "readAdapter") + 0
      /\ Acknowledged(queue') = Acknowledged(queue) + 0
    BY <1>1, <1>2, ArrivesWork
<1>5. /\ Count(queue', "connected") = Count(queue, "connected")
      /\ Count(queue', "adapterRead") = Count(queue, "adapterRead")
      /\ Count(queue', "readAdapter") = Count(queue, "readAdapter")
      /\ Acknowledged(queue') = Acknowledged(queue)
    BY <1>4, TurnsNat
<1>6. ToBeAcknowledged' = ToBeAcknowledged
    BY <1>2, <1>5 DEF ToBeAcknowledged
<1>7. StageSound'
    BY <1>2, <1>3, <1>5, StageKept DEF TurnsInv
<1>8. DownloadTurns' \in Nat /\ DownloadTurns' <= DownloadTurns
    <2> DEFINE r == IF conn.reading THEN 1 ELSE 0
               w == IF ToBeAcknowledged > 0 THEN 1 ELSE 0
    <2>1. DownloadTurns = r + Count(queue, "adapterRead") + w + delayed + Count(queue, "readAdapter")
        BY TurnsAre
    <2>2. DownloadTurns' = 0 + Count(queue, "adapterRead") + w + delayed
                           + Count(queue, "readAdapter")
        BY <1>2, <1>3, <1>5, <1>6, TurnsWillBe
    <2>3. r \in Nat /\ w \in Nat
        OBVIOUS
    <2> HIDE DEF r, w
    <2> QED BY <2>1, <2>2, <2>3, TurnsNat
<1>9. DownloadSound'
    <2> SUFFICES ASSUME sock.valid PROVE DownloadSound'
        BY <1>2, DownloadOver
    <2>1. DownloadTurns \in Nat
        BY DownloadHeld
    <2>2. CASE tunnel.cancelled
        BY <1>2, <1>6, <2>2 DEF TurnsInv, DownloadSound
    <2>3. CASE ~tunnel.cancelled
        <3>1. /\ ~tunnel.forwarding => DownloadTurns = 0 /\ ~unanswered
              /\ DownloadTurns <= (IF unanswered THEN 0 ELSE 1)
            BY <2>3 DEF TurnsInv, DownloadSound
        <3>2. /\ ~tunnel.forwarding => DownloadTurns' = 0
              /\ DownloadTurns' <= (IF unanswered THEN 0 ELSE 1)
            <4> DEFINE d == DownloadTurns
                       e == DownloadTurns'
            <4>1. d \in Nat /\ e \in Nat /\ e <= d
                BY <1>8, <2>1
            <4>2. (~tunnel.forwarding => d = 0) /\ (d <= (IF unanswered THEN 0 ELSE 1))
                BY <3>1
            <4> HIDE DEF d, e
            <4>3. (~tunnel.forwarding => e = 0) /\ e <= (IF unanswered THEN 0 ELSE 1)
                BY <4>1, <4>2
            <4> QED BY <4>3 DEF e
        <3> QED BY <1>2, <1>3, <1>6, <3>1, <3>2 DEF TurnsInv, DownloadSound
    <2> QED BY <2>2, <2>3
<1> QED BY <1>3, <1>7, <1>9, UploadOver DEF TurnsInv

LEMMA ForceCloseTurns ==
    ASSUME TunnelInv, TypeOK', TurnsInv, ForceClose
    PROVE  TurnsInv'
<1> DEFINE bs == Gone(sock, sock')
           cs == IF conn'.state # conn.state THEN <<Block("adapterGone")>> ELSE <<>>
<1>1. TypeOK /\ sock' = [sock EXCEPT !.valid = FALSE] /\ queue' = queue \o bs \o cs
    BY DEF TunnelInv, ForceClose
<1>2. tunnel'.cancelled /\ tunnel'.forwarding = tunnel.forwarding
    BY <1>1 DEF ForceClose, TypeOK
<1>3. ~sock'.valid
    BY <1>1 DEF TypeOK
<1>4. IdleBlocks(bs)
    BY GoneIdle
<1>5. IdleBlocks(cs)
    <2>1. Idle(Block("adapterGone"))
        BY BlockTyped DEF Idle
    <2> QED BY <2>1 DEF IdleBlocks
<1> HIDE DEF bs, cs
<1>6. Count(queue', "connected") = Count(queue, "connected")
    BY <1>1, <1>4, <1>5, ArrivalWork DEF SameWork, Work
<1>7. conn'.state = conn.state \/ conn'.state = "gone"
    BY <1>1 DEF ForceClose, TypeOK
<1>8. StageSound'
    BY <1>1, <1>2, <1>6, <1>7, StageKept DEF TurnsInv
<1> QED BY <1>2, <1>3, <1>8, UploadOver, DownloadOver DEF TurnsInv

LEMMA TurnsInit == Init => TurnsInv
<1> SUFFICES ASSUME Init PROVE TurnsInv
    OBVIOUS
<1>1. TypeOK
    BY TunnelInit DEF TunnelInv
<1>2. /\ queue = <<>> /\ delayed = 0 /\ inflight = 0 /\ ~unanswered
      /\ sock = [valid |-> TRUE, pending |-> <<>>, reading |-> FALSE, remain |-> 0, closing |-> FALSE]
      /\ tunnel = [cancelled |-> FALSE, proxy |-> "open", forwarding |-> FALSE, closed |-> FALSE]
    BY DEF Init
<1>3. ~sock.reading /\ sock.remain = 0 /\ ~tunnel.forwarding
    BY <1>2
<1>4. ~conn.reading /\ conn.writing = <<>> /\ ~conn.closing
    BY DEF Init, NoConn
<1>5. <<>> \in Seq(QueueBlock) /\ \A type : \A i \in 1..Len(<<>>) : <<>>[i].type # type
    OBVIOUS
<1>6. /\ Count(queue, "connected") = 0 /\ Count(queue, "adapterWrote") = 0
      /\ Count(queue, "adapterRead") = 0 /\ Count(queue, "readAdapter") = 0
    BY <1>2, <1>5, CountNat
<1>7. ToBeAcknowledged = 0
    BY <1>2, AcknowledgedNat DEF ToBeAcknowledged
<1>8. UploadTurns = 0 /\ DownloadTurns = 0
    BY <1>2, <1>3, <1>4, <1>6, <1>7, TurnsAre
<1>9. NoHandOn(queue, sock.reading)
    BY <1>2, <1>5 DEF NoHandOn
<1>10. StageSound
    BY <1>3, <1>4, <1>6 DEF StageSound
<1>11. UploadSound
    BY <1>3, <1>8, <1>9 DEF UploadSound
<1>12. DownloadSound
    BY <1>2, <1>3, <1>7, <1>8 DEF DownloadSound
<1> QED BY <1>10, <1>11, <1>12 DEF TurnsInv

\* Every step keeps the turns.
LEMMA TurnsStep == TunnelInv /\ TunnelInv' /\ TurnsInv /\ [Next]_vars => TurnsInv'
<1> SUFFICES ASSUME TunnelInv, TunnelInv', TurnsInv, [Next]_vars PROVE TurnsInv'
    OBVIOUS
<1> TypeOK /\ TypeOK'
    BY DEF TunnelInv
<1>1. CASE Turn
    BY <1>1, TurnTurns
<1>2. CASE Resolved \/ DelayEnds
    BY <1>2, ResolvedTurns, DelayEndsTurns
<1>3. CASE \E n \in 0..UpLen, last \in BOOLEAN : LocalSends(n, last)
    BY <1>3, LocalSendsTurns
<1>4. CASE \E n \in 1..DownLen : LocalAcks(n)
    BY <1>4, LocalAcksTurns
<1>5. CASE LocalResets \/ ForceClose
    BY <1>5, LocalResetsTurns, ForceCloseTurns
<1>6. CASE Connects \/ ConnWrites
    BY <1>6, ConnectsTurns, ConnWritesTurns
<1>7. CASE \E n \in 0..DownLen : RemoteSends(n)
    BY <1>7, RemoteSendsTurns
<1>8. CASE ConnCloses \/ ConnFails
    BY <1>8, ConnGoneTurns DEF ConnCloses, ConnFails
<1>9. CASE UNCHANGED vars
    <2>1. UNCHANGED <<queue, delayed, sock, inflight, tunnel, conn, unanswered>>
        BY <1>9 DEF vars
    <2>2. UploadTurns' = UploadTurns /\ DownloadTurns' = DownloadTurns
          /\ ToBeAcknowledged' = ToBeAcknowledged
        BY <2>1 DEF UploadTurns, DownloadTurns, ToBeAcknowledged, Blocks
    <2> QED BY <2>1, <2>2 DEF TurnsInv, StageSound, UploadSound, DownloadSound
<1> QED
    BY <1>1, <1>2, <1>3, <1>4, <1>5, <1>6, <1>7, <1>8, <1>9 DEF Next

\* The inductive invariant of the data path: the blocks in the queue and the
\* two sockets hold at most one right to read each side.
THEOREM TurnsInvariant == Spec => []TurnsInv
<1>1. Init => TurnsInv
    BY TurnsInit
<1>2. TunnelInv /\ TunnelInv' /\ TurnsInv /\ [Next]_vars => TurnsInv'
    BY TurnsStep
<1> QED BY <1>1, <1>2, TunnelInvariant, PTL DEF Spec

\* Each side is read by exactly one at a time while the tunnel forwards, and
\* remainWriteLength is what is still to be acknowledged
\* (TUNTCPSocket.didWriteData, checkReadData, Tunnel.didRead, didWrite).
THEOREM TunnelOneTurnEach == Spec => []OneTurnEach
<1>1. TunnelInv /\ TurnsInv => OneTurnEach
    <2> SUFFICES ASSUME TunnelInv, TurnsInv, tunnel.forwarding, ~tunnel.cancelled, conn.state = "open"
                 PROVE  /\ UploadTurns = 1
                        /\ sock.valid => DownloadTurns = (IF unanswered THEN 0 ELSE 1)
                        /\ sock.valid /\ ~unanswered => sock.remain = ToBeAcknowledged
        BY DEF OneTurnEach
    <2>1. UploadTurns = 1
        BY DEF TurnsInv, UploadSound
    <2>2. sock.valid => DownloadTurns = (IF unanswered THEN 0 ELSE 1)
        BY DEF TurnsInv, DownloadSound
    <2>3. sock.valid /\ ~unanswered => sock.remain = ToBeAcknowledged
        BY DEF TurnsInv, DownloadSound
    <2> QED BY <2>1, <2>2, <2>3
<1> QED BY <1>1, TunnelInvariant, TurnsInvariant, PTL


-----------------------------------------------------------------------------
(* A close that loses nothing *)

\* The step that gives the pcb up, but for a reset or a forced close, leaves
\* nothing in flight.
ClosesElegantly ==
    sock.valid /\ ~sock'.valid /\ sock'.closing => inflight = 0 \/ LocalResets \/ ForceClose

\* A socket that has nothing left to be acknowledged has nothing in flight.
LEMMA NothingRemains ==
    ASSUME TypeOK, TurnsInv, sock.valid, sock.remain = 0
    PROVE  inflight = 0
<1>1. ToBeAcknowledged = 0
    BY DEF TurnsInv, DownloadSound
<1>2. ToBeAcknowledged = inflight + Acknowledged(queue)
    BY DEF ToBeAcknowledged
<1> QED BY <1>1, <1>2, TurnsNat

LEMMA DisconnectsElegantly ==
    ASSUME TypeOK, TurnsInv, sock.valid, sock' = Disconnects(sock), ~sock'.valid
    PROVE  inflight = 0
<1>1. PICK v \in BOOLEAN :
        sock' = [sock EXCEPT !.closing = TRUE, !.valid = v] /\ (v <=> sock.remain # 0)
    <2>1. (sock.remain # 0) \in BOOLEAN
        OBVIOUS
    <2>2. sock' = [sock EXCEPT !.closing = TRUE, !.valid = (sock.remain # 0)]
        BY DEF Disconnects
    <2> QED BY <2>1, <2>2, Zenon
<1>2. sock'.valid = v
    BY <1>1 DEF TypeOK
<1>3. sock.remain = 0
    BY <1>1, <1>2, Zenon
<1> QED BY <1>3, NothingRemains

\* A write that lwIP refuses finds nothing else in flight.
LEMMA WriteLocalElegantly ==
    ASSUME TypeOK, TurnsInv, queue # <<>>, Head(queue).type = "adapterRead", sock.valid,
           ~tunnel.cancelled
    PROVE  inflight = 0
<1>1. queue \in Seq(QueueBlock) /\ 1 \in 1..Len(queue) /\ queue[1].type = "adapterRead"
    BY DEF TypeOK
<1>2. Count(queue, "adapterRead") # 0 /\ Count(queue, "adapterRead") \in Nat
    BY <1>1, CountNat
<1>3. DownloadTurns <= (IF unanswered THEN 0 ELSE 1)
    BY DEF TurnsInv, DownloadSound
<1>4. DownloadTurns \in Nat
    BY DownloadHeld
<1>5. DownloadTurns <= 1 /\ Count(queue, "adapterRead") > 0
    BY <1>2, <1>3, <1>4
<1>6. ToBeAcknowledged = 0
    BY <1>5, DownloadHeld
<1>7. ToBeAcknowledged = inflight + Acknowledged(queue)
    BY DEF ToBeAcknowledged
<1> QED BY <1>6, <1>7, TurnsNat

\* The last acknowledgement leaves nothing in flight.
LEMMA WroteElegantly ==
    ASSUME TunnelInv, TurnsInv, queue # <<>>, Head(queue).type = "wrote", sock.valid,
           sock.remain - Head(queue).n = 0
    PROVE  inflight = 0
<1> DEFINE n == Head(queue).n
           r == Tail(queue)
<1>1. TypeOK /\ n \in Nat /\ n > 0
    BY HeadSound, TunnelAssumption DEF TunnelAssumption, TunnelInv, Fits
<1>2. queue \in Seq(QueueBlock) /\ r \in Seq(QueueBlock)
    BY <1>1 DEF TypeOK
<1>3. Acknowledged(queue) = n + Acknowledged(r)
    BY <1>2, AcknowledgedTail DEF Acks
<1>4. Acknowledged(r) \in Nat
    BY <1>2, AcknowledgedNat
<1> DEFINE a == Acknowledged(r)
<1>5. sock.remain = ToBeAcknowledged \/ ToBeAcknowledged = 0
    BY DEF TurnsInv, DownloadSound
<1>6. ToBeAcknowledged = inflight + (n + a)
    BY <1>3 DEF ToBeAcknowledged
<1>7. inflight \in Nat /\ sock.remain \in Int /\ sock.remain - n = 0
    BY <1>1, TurnsNat
<1> HIDE DEF n, a
<1> QED BY <1>1, <1>4, <1>5, <1>6, <1>7 DEF a

LEMMA TurnElegantly == TunnelInv /\ TurnsInv /\ Turn => ClosesElegantly
<1> SUFFICES ASSUME TunnelInv, TurnsInv, Turn, sock.valid, ~sock'.valid, sock'.closing
             PROVE  inflight = 0
    BY DEF ClosesElegantly
<1> TypeOK /\ queue # <<>>
    BY DEF TunnelInv, Turn
<1>1. ASSUME OpenAdapter \/ AdapterReads PROVE FALSE
    BY <1>1 DEF OpenAdapter, AdapterReads
<1>2. ASSUME DidConnect \/ AdapterWrote PROVE FALSE
    BY <1>2 DEF DidConnect, AdapterWrote, ReadsLocal, TypeOK
<1>3. ASSUME KeepData(Head(queue).data) \/ HandOn PROVE FALSE
    BY <1>3 DEF KeepData, HandOn, TypeOK
<1>4. CASE Head(queue).type = "adapterRead" /\ WriteLocal(Head(queue).n)
    <2>1. ~tunnel.cancelled
        BY <1>4 DEF WriteLocal
    <2> QED BY <1>4, <2>1, WriteLocalElegantly
<1>5. CASE Head(queue).type = "wrote" /\ Wrote(Head(queue).n)
    <2> DEFINE left == sock.remain - Head(queue).n
    <2>1. sock' = IF left = 0 /\ [sock EXCEPT !.remain = left].closing
                  THEN [[sock EXCEPT !.remain = left] EXCEPT !.valid = FALSE]
                  ELSE [sock EXCEPT !.remain = left]
        BY <1>5 DEF Wrote
    <2>2. left = 0
        BY <2>1 DEF TypeOK
    <2> QED BY <1>5, <2>2, WroteElegantly
<1>6. ASSUME UNCHANGED sock PROVE FALSE
    BY <1>6
<1>7. CASE AdapterGone
    <2>1. sock' = Disconnects(sock)
        BY <1>6, <1>7 DEF AdapterGone
    <2> QED BY <2>1, DisconnectsElegantly
<1> QED BY <1>1, <1>2, <1>3, <1>4, <1>5, <1>6, <1>7 DEF Turn

\* Every step but a reset or a forced close gives the pcb up elegantly.
LEMMA StepElegantly == TunnelInv /\ TurnsInv /\ [Next]_vars => ClosesElegantly
<1> SUFFICES ASSUME TunnelInv, TurnsInv, [Next]_vars PROVE ClosesElegantly
    OBVIOUS
<1>1. CASE Turn
    BY <1>1, TurnElegantly
<1>2. ASSUME UNCHANGED sock PROVE ClosesElegantly
    BY <1>2 DEF ClosesElegantly
<1>3. CASE Resolved \/ DelayEnds \/ Connects \/ ConnWrites
    BY <1>2, <1>3 DEF Resolved, DelayEnds, Connects, ConnWrites
<1>4. CASE \E n \in 0..UpLen, last \in BOOLEAN : LocalSends(n, last)
    <2>1. sock' = Disconnects(sock) \/ UNCHANGED sock
        BY <1>4 DEF LocalSends
    <2> QED BY <1>2, <2>1, DisconnectsElegantly DEF ClosesElegantly, TunnelInv
<1>5. CASE \E n \in 1..DownLen : LocalAcks(n)
    BY <1>2, <1>5 DEF LocalAcks
<1>6. CASE LocalResets \/ ForceClose
    BY <1>6 DEF ClosesElegantly
<1>7. CASE \E n \in 0..DownLen : RemoteSends(n)
    BY <1>2, <1>7 DEF RemoteSends
<1>8. CASE ConnCloses \/ ConnFails
    BY <1>2, <1>8 DEF ConnCloses, ConnFails, ConnGone
<1>9. CASE UNCHANGED vars
    BY <1>2, <1>9 DEF vars
<1> QED
    BY <1>1, <1>3, <1>4, <1>5, <1>6, <1>7, <1>8, <1>9 DEF Next

\* "The socket will disconnect elegantly after any queued writing data are
\* successfully sent" (TUNTCPSocket.disconnect, checkStatus): but for a reset
\* or a forced close, the pcb is given up with nothing in flight.
THEOREM TunnelElegantClose == Spec => ElegantClose
<1>1. TunnelInv /\ TurnsInv /\ [Next]_vars
      => [sock.valid /\ ~sock'.valid /\ sock'.closing
          => inflight = 0 \/ LocalResets \/ ForceClose]_vars
    BY StepElegantly DEF ClosesElegantly
<1> QED BY <1>1, TunnelInvariant, TurnsInvariant, PTL DEF Spec, ElegantClose


-----------------------------------------------------------------------------
(* The bytes in the queue *)

\* c is a followed by b.
Joins(a, b, c) == c = a \o b

\* v[i] is what the first i of the sequences d make when put together.
Concats(v, d, n) ==
    /\ n > 0 => v[1] = d[1]
    /\ \A i \in 1..n : i # 1 => Joins(v[i - 1], d[i], v[i])

\* Two ways to put them together make the same.
LEMMA ConcatsAgree ==
    ASSUME NEW n \in Nat, NEW d, NEW v, NEW w, Concats(v, d, n), Concats(w, d, n)
    PROVE  n > 0 => v[n] = w[n]
<1> DEFINE S == {k \in Nat : k + 1 <= n => v[k + 1] = w[k + 1]}
<1>1. 0 \in S
    <2>1. ASSUME 0 + 1 <= n PROVE v[0 + 1] = w[0 + 1]
        BY <2>1 DEF Concats
    <2> QED BY <2>1
<1>2. ASSUME NEW k \in Nat, k \in S PROVE k + 1 \in S
    <2> SUFFICES ASSUME (k + 1) + 1 <= n PROVE v[(k + 1) + 1] = w[(k + 1) + 1]
        OBVIOUS
    <2>1. (k + 1) + 1 \in 1..n /\ (k + 1) + 1 # 1 /\ ((k + 1) + 1) - 1 = k + 1 /\ k + 1 <= n /\ n > 0
        OBVIOUS
    <2>2. v[k + 1] = w[k + 1]
        BY <1>2, <2>1
    <2> DEFINE m == (k + 1) + 1
    <2>3. m \in 1..n /\ m # 1 /\ m - 1 = k + 1
        BY <2>1
    <2> HIDE DEF m
    <2>4. Joins(v[m - 1], d[m], v[m]) /\ Joins(w[m - 1], d[m], w[m])
        BY <2>3, Zenon DEF Concats
    <2>5. v[m] = w[m]
        BY <2>2, <2>3, <2>4, Zenon DEF Joins
    <2> QED BY <2>5 DEF m
<1>3. \A k \in Nat : k \in S
    <2> HIDE DEF S
    <2> QED BY <1>1, <1>2, Induction
<1> SUFFICES ASSUME n > 0 PROVE v[n] = w[n]
    OBVIOUS
<1>4. PICK k \in Nat : n = k + 1
    <2>1. n - 1 \in Nat /\ n = (n - 1) + 1
        OBVIOUS
    <2> QED BY <2>1
<1> QED BY <1>3, <1>4

LEMMA ConcatsExist ==
    ASSUME NEW T, NEW n \in Nat, NEW d \in [1..n -> Seq(T)]
    PROVE  \E v \in [1..n -> Seq(T)] : Concats(v, d, n)
<1> DEFINE S == {k \in Nat : k <= n => \E v \in [1..k -> Seq(T)] : Concats(v, d, k)}
<1>1. 0 \in S
    <2> DEFINE v == [i \in 1..0 |-> <<>>]
    <2>1. v \in [1..0 -> Seq(T)]
        OBVIOUS
    <2>2. Concats(v, d, 0)
        BY DEF Concats
    <2> QED BY <2>1, <2>2
<1>2. ASSUME NEW k \in Nat, k \in S PROVE k + 1 \in S
    <2> SUFFICES ASSUME k + 1 <= n
                 PROVE  \E v \in [1..(k + 1) -> Seq(T)] : Concats(v, d, k + 1)
        OBVIOUS
    <2>1. k <= n /\ k + 1 \in 1..n /\ d[k + 1] \in Seq(T)
        OBVIOUS
    <2>2. PICK v \in [1..k -> Seq(T)] : Concats(v, d, k)
        BY <1>2, <2>1
    <2>3. CASE k = 0
        <3> DEFINE u == [i \in 1..(k + 1) |-> d[k + 1]]
        <3>1. u \in [1..(k + 1) -> Seq(T)]
            BY <2>1
        <3>2. Concats(u, d, k + 1)
            BY <2>3 DEF Concats
        <3> QED BY <3>1, <3>2
    <2>4. CASE k # 0
        <3>1. v[k] \in Seq(T)
            BY <2>4
        <3> DEFINE c == v[k] \o d[k + 1]
                   u == [i \in 1..(k + 1) |-> IF i = k + 1 THEN c ELSE v[i]]
        <3>2. c \in Seq(T) /\ Joins(v[k], d[k + 1], c)
            BY <2>1, <3>1 DEF Joins
        <3> HIDE DEF c
        <3>3. u \in [1..(k + 1) -> Seq(T)]
            BY <3>2
        <3>4. u[1] = d[1]
            BY <2>2, <2>4 DEF Concats
        <3>5. ASSUME NEW i \in 1..(k + 1), i # 1 PROVE Joins(u[i - 1], d[i], u[i])
            <4>1. CASE i = k + 1
                <5>1. u[i] = c /\ u[i - 1] = v[k]
                    BY <2>4, <4>1
                <5> QED BY <3>2, <4>1, <5>1
            <4>2. CASE i # k + 1
                <5>1. i \in 1..k /\ i - 1 \in 1..k /\ i - 1 \in 1..(k + 1) /\ i - 1 # k + 1
                    BY <3>5, <4>2
                <5>2. u[i] = v[i] /\ u[i - 1] = v[i - 1]
                    BY <4>2, <5>1
                <5>3. Joins(v[i - 1], d[i], v[i])
                    BY <2>2, <3>5, <5>1, Zenon DEF Concats
                <5> QED BY <5>2, <5>3
            <4> QED BY <4>1, <4>2
        <3> HIDE DEF u
        <3>6. Concats(u, d, k + 1)
            BY <3>4, <3>5 DEF Concats
        <3> QED BY <3>3, <3>6
    <2> QED BY <2>3, <2>4
<1>3. n \in S
    <2> HIDE DEF S
    <2> QED BY <1>1, <1>2, Induction
<1> QED BY <1>3

\* FlattenSeq puts them together.
LEMMA FlattenIs ==
    ASSUME NEW n \in Nat, n > 0, NEW d, Len(d) = n, NEW v, Concats(v, d, n)
    PROVE  FlattenSeq(d) = v[n]
<1> DEFINE Def(g) == g = [i \in 1..n |-> IF i = 1 THEN d[i] ELSE g[i - 1] \o d[i]]
           u == [i \in 1..n |-> v[i]]
<1>1. Def(u)
    <2>1. ASSUME NEW i \in 1..n
          PROVE v[i] = IF i = 1 THEN d[i] ELSE u[i - 1] \o d[i]
        <3>1. CASE i = 1
            BY <3>1 DEF Concats
        <3>2. CASE i # 1
            <4>1. i - 1 \in 1..n
                BY <3>2
            <4>2. u[i - 1] = v[i - 1] /\ Joins(v[i - 1], d[i], v[i])
                BY <3>2, <4>1 DEF Concats
            <4>3. v[i] = u[i - 1] \o d[i]
                BY <4>2 DEF Joins
            <4> QED BY <3>2, <4>3
        <3> QED BY <3>1, <3>2
    <2> QED BY <2>1
<1> DEFINE g == CHOOSE g : Def(g)
<1>2. Def(g)
    <2> HIDE DEF Def
    <2> QED BY <1>1
<1>3. FlattenSeq(d) = g[n]
    BY DEF FlattenSeq
<1>4. Concats(g, d, n)
    <2> HIDE DEF g
    <2>1. \A i \in 1..n : g[i] = IF i = 1 THEN d[i] ELSE g[i - 1] \o d[i]
        BY <1>2, Zenon
    <2>2. 1 \in 1..n
        OBVIOUS
    <2>3. g[1] = d[1]
        BY <2>1, <2>2, Zenon
    <2>4. \A i \in 1..n : i # 1 => Joins(g[i - 1], d[i], g[i])
        BY <2>1, Zenon DEF Joins
    <2> QED BY <2>3, <2>4 DEF Concats
<1> HIDE DEF g
<1>5. g[n] = v[n]
    BY <1>4, ConcatsAgree
<1> QED BY <1>3, <1>5


\* The bytes that the blocks of a queue carry.
Carried(q) == FlattenSeq([i \in 1..Len(q) |-> q[i].data])

\* Joining is associative.
LEMMA JoinsAssociative ==
    ASSUME NEW S, NEW s \in Seq(S), NEW t \in Seq(S), NEW u \in Seq(S), NEW st, NEW tu, NEW stu,
           Joins(s, t, st), Joins(t, u, tu), Joins(s, tu, stu)
    PROVE  Joins(st, u, stu)
<1>1. (s \o t) \o u = s \o (t \o u)
    BY ConcatAssociative
<1>2. st = s \o t /\ tu = t \o u /\ stu = s \o tu
    BY DEF Joins
<1> QED BY <1>1, <1>2, Zenon DEF Joins

LEMMA CarriedConcats ==
    ASSUME NEW q \in Seq(QueueBlock)
    PROVE  \E v \in [1..Len(q) -> Seq(1..UpLen)] :
              /\ Concats(v, [i \in 1..Len(q) |-> q[i].data], Len(q))
              /\ q # <<>> => Carried(q) = v[Len(q)]
              /\ q = <<>> => Carried(q) = <<>>
<1> DEFINE n == Len(q)
           d == [i \in 1..Len(q) |-> q[i].data]
<1>1. n \in Nat /\ d \in [1..n -> Seq(1..UpLen)] /\ Len(d) = n /\ (q = <<>> <=> n = 0)
    <2>1. \A i \in 1..Len(q) : q[i].data \in Seq(1..UpLen)
        <3>1. \A i \in 1..Len(q) : q[i] \in QueueBlock
            OBVIOUS
        <3> QED BY <3>1 DEF QueueBlock
    <2>2. Len(q) \in Nat
        OBVIOUS
    <2>3. d \in Seq(Seq(1..UpLen))
        BY <2>1, <2>2
    <2>4. Len(d) = Len(q)
        BY <2>2
    <2>5. q = <<>> <=> n = 0
        OBVIOUS
    <2> QED BY <2>1, <2>2, <2>4, <2>5
<1>2. PICK v \in [1..n -> Seq(1..UpLen)] : Concats(v, d, n)
    <2> HIDE DEF n, d
    <2> QED BY <1>1, ConcatsExist
<1>3. ASSUME q # <<>> PROVE Carried(q) = v[n]
    <2>1. n > 0
        BY <1>1, <1>3
    <2> HIDE DEF n, d
    <2>2. FlattenSeq(d) = v[n]
        BY <1>1, <1>2, <2>1, FlattenIs
    <2> QED BY <2>2 DEF Carried, d
<1>4. ASSUME q = <<>> PROVE Carried(q) = <<>>
    <2>1. Len(d) = 0
        BY <1>1, <1>4
    <2>2. FlattenSeq(d) = d
        BY <2>1 DEF FlattenSeq
    <2>3. d = <<>>
        BY <1>4
    <2> QED BY <2>2, <2>3 DEF Carried
<1> QED BY <1>2, <1>3, <1>4

LEMMA CarriedTyped ==
    ASSUME NEW q \in Seq(QueueBlock)
    PROVE  Carried(q) \in Seq(1..UpLen) /\ (q = <<>> => Carried(q) = <<>>)
<1>1. PICK v \in [1..Len(q) -> Seq(1..UpLen)] :
        (q # <<>> => Carried(q) = v[Len(q)]) /\ (q = <<>> => Carried(q) = <<>>)
    BY CarriedConcats
<1>2. q # <<>> => Len(q) \in 1..Len(q)
    OBVIOUS
<1>3. <<>> \in Seq(1..UpLen)
    OBVIOUS
<1> QED BY <1>1, <1>2, <1>3

\* A block is put behind the others.
LEMMA CarriedAppend ==
    ASSUME NEW q \in Seq(QueueBlock), NEW b \in QueueBlock
    PROVE  Carried(Append(q, b)) = Carried(q) \o b.data
<1> DEFINE n == Len(q)
           r == Append(q, b)
           d == [i \in 1..Len(q) |-> q[i].data]
           e == [i \in 1..Len(r) |-> r[i].data]
<1>1. /\ n \in Nat /\ Len(r) = n + 1 /\ r[n + 1] = b /\ \A i \in 1..n : r[i] = q[i]
      /\ r \in Seq(QueueBlock)
    BY AppendProperties
<1>2. b.data \in Seq(1..UpLen)
    BY DEF QueueBlock
<1> HIDE DEF r
<1>3. /\ Len(e) = n + 1 /\ e[n + 1] = b.data /\ \A i \in 1..n : e[i] = d[i]
    BY <1>1
<1>4. PICK v \in [1..n -> Seq(1..UpLen)] :
        /\ Concats(v, d, n)
        /\ q # <<>> => Carried(q) = v[n]
        /\ q = <<>> => Carried(q) = <<>>
    BY CarriedConcats
<1>5. Carried(r) = FlattenSeq(e)
    BY DEF Carried
<1> HIDE DEF d, e
<1>6. CASE q = <<>>
    <2> DEFINE u == [i \in 1..1 |-> e[1]]
    <2>1. n = 0
        BY <1>6
    <2> HIDE DEF n
    <2>2. Concats(u, e, 1)
        <3>1. u[1] = e[1] /\ \A i \in 1..1 : i = 1
            OBVIOUS
        <3> HIDE DEF u
        <3> QED BY <3>1 DEF Concats
    <2>3. Len(e) = 1 /\ u[1] = b.data
        BY <1>3, <2>1
    <2> HIDE DEF u
    <2>4. FlattenSeq(e) = u[1]
        <3>1. 1 \in Nat /\ 1 > 0
            OBVIOUS
        <3> QED BY <2>2, <2>3, <3>1, FlattenIs, Zenon
    <2>5. <<>> \o b.data = b.data
        BY <1>2
    <2> QED BY <1>4, <1>5, <1>6, <2>3, <2>4, <2>5 DEF r
<1>7. CASE q # <<>>
    <2>1. n > 0
        BY <1>7
    <2> HIDE DEF n
    <2> DEFINE c == v[n] \o b.data
               u == [i \in 1..(n + 1) |-> IF i = n + 1 THEN c ELSE v[i]]
    <2>2. Joins(v[n], e[n + 1], c)
        BY <1>3 DEF Joins
    <2> HIDE DEF c
    <2>3. u[1] = e[1]
        <3>1. 1 \in 1..n /\ 1 # n + 1 /\ 1 \in 1..(n + 1)
            BY <1>1, <2>1
        <3>2. v[1] = d[1] /\ e[1] = d[1]
            BY <1>3, <1>4, <2>1, <3>1 DEF Concats
        <3> QED BY <3>1, <3>2
    <2>4. ASSUME NEW i \in 1..(n + 1), i # 1 PROVE Joins(u[i - 1], e[i], u[i])
        <3>1. CASE i = n + 1
            <4>1. u[i] = c /\ u[i - 1] = v[n]
                BY <1>1, <2>1, <3>1
            <4> QED BY <2>2, <3>1, <4>1
        <3>2. CASE i # n + 1
            <4>1. i \in 1..n /\ i - 1 \in 1..n /\ i - 1 \in 1..(n + 1) /\ i - 1 # n + 1
                BY <1>1, <2>4, <3>2
            <4>2. u[i] = v[i] /\ u[i - 1] = v[i - 1] /\ e[i] = d[i]
                BY <1>3, <3>2, <4>1
            <4>3. Joins(v[i - 1], d[i], v[i])
                BY <1>4, <2>4, <4>1, Zenon DEF Concats
            <4> QED BY <4>2, <4>3
        <3> QED BY <3>1, <3>2
    <2>5. u[n + 1] = c
        BY <1>1
    <2> HIDE DEF u
    <2>6. Concats(u, e, n + 1)
        BY <2>3, <2>4 DEF Concats
    <2>7. FlattenSeq(e) = u[n + 1]
        BY <1>1, <1>3, <2>6, FlattenIs
    <2> QED BY <1>4, <1>5, <1>7, <2>5, <2>7 DEF c, r
<1> QED BY <1>6, <1>7

\* The first block carries the first bytes.
LEMMA CarriedTail ==
    ASSUME NEW q \in Seq(QueueBlock), q # <<>>
    PROVE  Carried(q) = Head(q).data \o Carried(Tail(q))
<1> DEFINE r == Tail(q)
           n == Len(r)
           d == [i \in 1..Len(r) |-> r[i].data]
           e == [i \in 1..Len(q) |-> q[i].data]
           h == Head(q).data
<1>1. /\ r \in Seq(QueueBlock) /\ Len(q) = n + 1 /\ n \in Nat /\ Head(q) = q[1]
      /\ \A i \in 1..n : r[i] = q[i + 1]
      /\ Head(q) \in QueueBlock
    OBVIOUS
<1>2. h \in Seq(1..UpLen)
    BY <1>1 DEF QueueBlock
<1>3. Len(e) = n + 1 /\ e[1] = h /\ \A i \in 1..n : e[i + 1] = d[i]
    BY <1>1
<1> HIDE DEF r
<1>4. PICK v \in [1..n -> Seq(1..UpLen)] :
        /\ Concats(v, d, n)
        /\ r # <<>> => Carried(r) = v[n]
        /\ r = <<>> => Carried(r) = <<>>
    BY <1>1, CarriedConcats
<1>5. Carried(q) = FlattenSeq(e)
    BY DEF Carried
<1>6. \A i \in 1..n : d[i] \in Seq(1..UpLen)
    <2>1. \A i \in 1..n : r[i] \in QueueBlock
        BY <1>1
    <2> QED BY <2>1 DEF QueueBlock
<1>7. r = <<>> <=> n = 0
    BY <1>1
<1> HIDE DEF d, e, h, n
<1> DEFINE u == [i \in 1..(n + 1) |-> IF i = 1 THEN h ELSE h \o v[i - 1]]
<1>8. ASSUME NEW i \in 1..(n + 1), i # 1 PROVE Joins(u[i - 1], e[i], u[i])
    <2>1. PICK k \in 1..n : i = k + 1 /\ i - 1 = k
        <3>1. i - 1 \in 1..n /\ i = (i - 1) + 1
            BY <1>1, <1>8
        <3> QED BY <3>1
    <2>2. u[i] = h \o v[k] /\ e[i] = d[k] /\ n > 0
        BY <1>1, <1>3, <1>8, <2>1
    <2>3. CASE k = 1
        <3>1. u[k] = h
            BY <1>1, <2>3
        <3>2. v[k] = d[k]
            BY <1>4, <2>2, <2>3 DEF Concats
        <3> QED BY <2>1, <2>2, <3>1, <3>2 DEF Joins
    <2>4. CASE k # 1
        <3>1. k - 1 \in 1..n /\ k \in 1..(n + 1)
            BY <1>1, <2>1, <2>4
        <3>2. u[k] = h \o v[k - 1]
            BY <2>4, <3>1
        <3>3. Joins(v[k - 1], d[k], v[k])
            BY <1>4, <2>1, <2>4, Zenon DEF Concats
        <3>4. Joins(h, v[k - 1], u[k]) /\ Joins(h, v[k], u[i])
            BY <2>2, <3>2, Zenon DEF Joins
        <3> DEFINE T == 1..UpLen
        <3>5. h \in Seq(T) /\ v[k - 1] \in Seq(T) /\ d[k] \in Seq(T)
            BY <1>2, <1>4, <1>6, <2>1, <3>1
        <3> HIDE DEF T
        <3>6. Joins(u[k], d[k], u[i])
            BY <3>3, <3>4, <3>5, JoinsAssociative
        <3> QED BY <2>1, <2>2, <3>6
    <2> QED BY <2>3, <2>4
<1>9. u[1] = e[1] /\ u[n + 1] = IF n = 0 THEN h ELSE h \o v[n]
    <2>1. 1 \in 1..(n + 1) /\ n + 1 \in 1..(n + 1) /\ (n + 1) - 1 = n /\ (n + 1 = 1 <=> n = 0)
        BY <1>1
    <2> QED BY <1>3, <2>1
<1> HIDE DEF u
<1>10. Concats(u, e, n + 1)
    BY <1>8, <1>9 DEF Concats
<1>11. FlattenSeq(e) = u[n + 1]
    BY <1>1, <1>3, <1>10, FlattenIs
<1>12. h \o <<>> = h
    BY <1>2
<1>13. FlattenSeq(e) = h \o Carried(r)
    <2>1. CASE n = 0
        BY <1>4, <1>7, <1>9, <1>11, <1>12, <2>1, Zenon
    <2>2. CASE n # 0
        BY <1>4, <1>7, <1>9, <1>11, <2>2, Zenon
    <2> QED BY <2>1, <2>2
<1> QED BY <1>5, <1>13 DEF h, r


-----------------------------------------------------------------------------
(* The bytes of the device *)

Numbers(n) == [i \in 1..n |-> i]

\* Where the bytes may be, from the first to the last.
Places(f, w, p, c) == f \o w \o p \o c
Sent(f, w) == f \o w

\* s is the beginning of what was sent.
Starts(s, n) == Len(s) <= n /\ \A i \in 1..Len(s) : s[i] = i

BytesInv ==
    /\ forwarded \in Seq(1..UpLen)
    /\ Starts(Sent(forwarded, conn.writing), up)
    /\ ~tunnel.cancelled /\ conn.state # "gone" =>
          Places(forwarded, conn.writing, sock.pending, Carried(queue)) = Numbers(up)

LEMMA JoinsTyped ==
    ASSUME NEW S, NEW s \in Seq(S), NEW t \in Seq(S)
    PROVE  \E st \in Seq(S) : Joins(s, t, st)
<1>1. s \o t \in Seq(S)
    OBVIOUS
<1>2. Joins(s, t, s \o t)
    BY Zenon DEF Joins
<1> QED BY <1>1, <1>2, Zenon

LEMMA JoinsOne ==
    ASSUME NEW s, NEW t, NEW a, NEW b, Joins(s, t, a), Joins(s, t, b)
    PROVE  a = b
BY Zenon DEF Joins

LEMMA PlacesJoin ==
    ASSUME NEW f, NEW w, NEW p, NEW c, NEW fw, NEW fwp, Joins(f, w, fw), Joins(fw, p, fwp)
    PROVE  Joins(fwp, c, Places(f, w, p, c))
BY Zenon DEF Joins, Places

\* A block is taken from the queue and its bytes are kept.
LEMMA PlacesKeep ==
    ASSUME NEW S, NEW f \in Seq(S), NEW w \in Seq(S), NEW p \in Seq(S), NEW d \in Seq(S),
           NEW c \in Seq(S), NEW pd, NEW dc, Joins(p, d, pd), Joins(d, c, dc)
    PROVE  Places(f, w, p, dc) = Places(f, w, pd, c)
<1>1. PICK x \in Seq(S) : Joins(f, w, x)
    BY JoinsTyped
<1>2. PICK y \in Seq(S) : Joins(x, p, y)
    BY JoinsTyped
<1>3. PICK z : Joins(x, pd, z)
    BY Zenon DEF Joins
<1>4. Joins(y, dc, Places(f, w, p, dc)) /\ Joins(z, c, Places(f, w, pd, c))
    BY <1>1, <1>2, <1>3, PlacesJoin
<1>5. Joins(y, d, z)
    BY <1>2, <1>3, JoinsAssociative
<1>6. Joins(z, c, Places(f, w, p, dc))
    BY <1>4, <1>5, JoinsAssociative
<1> QED BY <1>4, <1>6, JoinsOne

\* What was kept is handed on.
LEMMA PlacesHandOn ==
    ASSUME NEW S, NEW f \in Seq(S), NEW w \in Seq(S), NEW p \in Seq(S), NEW c \in Seq(S),
           NEW wp, Joins(w, p, wp)
    PROVE  Places(f, w, p, c) = Places(f, wp, <<>>, c)
<1>1. PICK x \in Seq(S) : Joins(f, w, x)
    BY JoinsTyped
<1>2. PICK y \in Seq(S) : Joins(x, p, y)
    BY JoinsTyped
<1>3. Joins(f, wp, y)
    <2>1. PICK z : Joins(f, wp, z)
        BY Zenon DEF Joins
    <2>2. Joins(x, p, z)
        BY <1>1, <2>1, JoinsAssociative
    <2>3. z = y
        BY <1>2, <2>2, JoinsOne
    <2> QED BY <2>1, <2>3
<1>4. Joins(y, <<>>, y)
    BY ConcatEmptySeq DEF Joins
<1>5. Joins(y, c, Places(f, w, p, c)) /\ Joins(y, c, Places(f, wp, <<>>, c))
    BY <1>1, <1>2, <1>3, <1>4, PlacesJoin
<1> QED BY <1>5, JoinsOne

\* What was handed on is forwarded.
LEMMA PlacesForward ==
    ASSUME NEW S, NEW f \in Seq(S), NEW w \in Seq(S), NEW fw, Joins(f, w, fw)
    PROVE  /\ fw \in Seq(S) /\ Sent(fw, <<>>) = Sent(f, w)
           /\ \A p, c : Places(f, w, p, c) = Places(fw, <<>>, p, c)
<1>1. fw = f \o w /\ f \o w \in Seq(S)
    BY DEF Joins
<1>2. fw \o <<>> = fw
    BY <1>1, ConcatEmptySeq
<1>5. ASSUME NEW p, NEW c PROVE Places(f, w, p, c) = Places(fw, <<>>, p, c)
    <2>1. Places(f, w, p, c) = ((f \o w) \o p) \o c
        BY DEF Places
    <2>2. Places(fw, <<>>, p, c) = ((fw \o <<>>) \o p) \o c
        BY DEF Places
    <2> QED BY <1>1, <1>2, <2>1, <2>2, Zenon
<1> QED BY <1>1, <1>2, <1>5, Zenon DEF Sent

\* More is put behind all.
LEMMA PlacesBehind ==
    ASSUME NEW S, NEW f \in Seq(S), NEW w \in Seq(S), NEW p \in Seq(S), NEW c \in Seq(S),
           NEW d \in Seq(S), NEW cd, Joins(c, d, cd)
    PROVE  Joins(Places(f, w, p, c), d, Places(f, w, p, cd))
<1>1. PICK x \in Seq(S) : Joins(f, w, x)
    BY JoinsTyped
<1>2. PICK y \in Seq(S) : Joins(x, p, y)
    BY JoinsTyped
<1>3. Joins(y, c, Places(f, w, p, c)) /\ Joins(y, cd, Places(f, w, p, cd))
    BY <1>1, <1>2, PlacesJoin
<1> QED BY <1>2, <1>3, JoinsAssociative

\* The n bytes that come after the first m.
LEMMA NumbersFollow ==
    ASSUME NEW m \in Nat, NEW n \in Nat
    PROVE  Numbers(m) \o [i \in 1..n |-> m + i] = Numbers(m + n)
BY DEF Numbers

\* All that is there is what was sent: so is what was handed on.
LEMMA PlacesStart ==
    ASSUME NEW S, NEW f \in Seq(S), NEW w \in Seq(S), NEW p \in Seq(S), NEW c \in Seq(S),
           NEW n \in Nat, Places(f, w, p, c) = Numbers(n)
    PROVE  Starts(Sent(f, w), n)
<1> DEFINE x == f \o w
           y == p \o c
<1>1. x \in Seq(S) /\ y \in Seq(S)
    OBVIOUS
<1>2. PICK z \in Seq(S) : Joins(x, p, z)
    BY <1>1, JoinsTyped
<1>3. Joins(f, w, x) /\ Joins(p, c, y)
    BY Zenon DEF Joins
<1>4. Sent(f, w) = x
    BY DEF Sent
<1> HIDE DEF x, y
<1>5. x \o y = Numbers(n)
    <2>1. PICK r : Joins(x, y, r)
        BY Zenon DEF Joins
    <2>2. Joins(z, c, r)
        BY <1>1, <1>2, <1>3, <2>1, JoinsAssociative
    <2>3. Joins(z, c, Numbers(n))
        BY <1>2, <1>3, PlacesJoin
    <2>4. r = Numbers(n)
        BY <2>2, <2>3, JoinsOne
    <2> QED BY <2>1, <2>4, Zenon DEF Joins
<1>6. Len(x \o y) = n /\ \A i \in 1..n : (x \o y)[i] = i
    BY <1>5 DEF Numbers
<1>7. Len(x) <= n /\ \A i \in 1..Len(x) : x[i] = i
    <2>1. Len(x \o y) = Len(x) + Len(y) /\ Len(x) \in Nat /\ Len(y) \in Nat
          /\ \A i \in 1..Len(x) : (x \o y)[i] = x[i]
        BY <1>1
    <2> QED BY <1>6, <2>1
<1> QED BY <1>4, <1>7 DEF Starts

\* A beginning of a beginning, and of what grows.
LEMMA StartsLess ==
    ASSUME NEW S, NEW f \in Seq(S), NEW w \in Seq(S), NEW n \in Nat, NEW m \in Nat, n <= m,
           Starts(Sent(f, w), n)
    PROVE  Starts(Sent(f, w), m) /\ Starts(Sent(f, <<>>), m)
<1>1. Starts(Sent(f, w), m)
    <2>1. f \o w \in Seq(S)
        OBVIOUS
    <2>2. Len(Sent(f, w)) \in Nat
        BY <2>1 DEF Sent
    <2> QED BY <2>2 DEF Starts
<1>2. Starts(Sent(f, <<>>), m)
    <2>1. Sent(f, <<>>) = f
        BY ConcatEmptySeq DEF Sent
    <2>2. Len(f \o w) = Len(f) + Len(w) /\ Len(f) \in Nat /\ Len(w) \in Nat
          /\ \A i \in 1..Len(f) : (f \o w)[i] = f[i]
        OBVIOUS
    <2>3. Len(f \o w) <= n /\ \A i \in 1..Len(f \o w) : (f \o w)[i] = i
        BY DEF Starts, Sent
    <2>4. Len(f) <= m /\ \A i \in 1..Len(f) : f[i] = i
        BY <2>2, <2>3
    <2> QED BY <2>1, <2>4 DEF Starts
<1> QED BY <1>1, <1>2


\* Blocks without bytes.
Bare(bs) == bs = <<>> \/ \E b \in QueueBlock : b.data = <<>> /\ bs = <<b>>

LEMMA NoneBare == Bare(<<>>)
BY DEF Bare

LEMMA ReadBare == \A s : Bare(CheckReadData(s))
<1>1. Block("read") \in QueueBlock /\ Block("read").data = <<>>
    BY BlockTyped
<1> QED BY <1>1 DEF CheckReadData, Bare

LEMMA GoneBare == \A s, t : Bare(Gone(s, t))
<1>1. Block("gone") \in QueueBlock /\ Block("gone").data = <<>>
    BY BlockTyped
<1> QED BY <1>1 DEF Gone, Bare

LEMMA CarriedBare ==
    ASSUME NEW q \in Seq(QueueBlock), NEW bs, Bare(bs)
    PROVE  q \o bs \in Seq(QueueBlock) /\ Carried(q \o bs) = Carried(q)
<1>1. CASE bs = <<>>
    <2>1. q \o <<>> = q
        OBVIOUS
    <2> QED BY <1>1, <2>1
<1>2. CASE \E b \in QueueBlock : b.data = <<>> /\ bs = <<b>>
    <2>1. PICK b \in QueueBlock : b.data = <<>> /\ bs = <<b>>
        BY <1>2
    <2>2. q \o <<b>> = Append(q, b) /\ Append(q, b) \in Seq(QueueBlock)
        OBVIOUS
    <2>3. Carried(Append(q, b)) = Carried(q) \o <<>>
        BY <2>1, CarriedAppend
    <2>4. Carried(q) \o <<>> = Carried(q)
        BY CarriedTyped, ConcatEmptySeq
    <2> QED BY <2>1, <2>2, <2>3, <2>4, Zenon
<1> QED BY <1>1, <1>2 DEF Bare

\* A block has run: its bytes have left the queue.
LEMMA CarriedRuns ==
    ASSUME TypeOK, queue # <<>>, NEW bs, Bare(bs), Dispatch(bs)
    PROVE  /\ queue' \in Seq(QueueBlock) /\ Head(queue).data \in Seq(1..UpLen)
           /\ Joins(Head(queue).data, Carried(queue'), Carried(queue))
           /\ Head(queue).data = <<>> => Carried(queue') = Carried(queue)
<1> DEFINE r == Tail(queue)
           d == Head(queue).data
<1>1. queue \in Seq(QueueBlock) /\ r \in Seq(QueueBlock) /\ Head(queue) \in QueueBlock
    BY DEF TypeOK
<1>2. d \in Seq(1..UpLen)
    BY <1>1 DEF QueueBlock
<1>3. Carried(queue) = d \o Carried(r)
    BY <1>1, CarriedTail
<1>4. queue' = r \o bs
    BY DEF Dispatch
<1> HIDE DEF r, d
<1>5. queue' \in Seq(QueueBlock) /\ Carried(queue') = Carried(r)
    BY <1>1, <1>4, CarriedBare
<1>6. <<>> \o Carried(r) = Carried(r)
    BY <1>1, CarriedTyped, ConcatEmptySeq
<1>7. Joins(d, Carried(queue'), Carried(queue))
    BY <1>3, <1>5, Zenon DEF Joins
<1>8. d = <<>> => Carried(queue') = Carried(queue)
    BY <1>3, <1>5, <1>6, Zenon
<1> QED BY <1>2, <1>5, <1>7, <1>8 DEF d

-----------------------------------------------------------------------------
(* Steps that move no byte, and steps that end the connection *)

LEMMA BytesTyped ==
    ASSUME TypeOK
    PROVE  /\ conn.writing \in Seq(1..UpLen) /\ sock.pending \in Seq(1..UpLen)
           /\ Carried(queue) \in Seq(1..UpLen) /\ up \in Nat /\ up <= UpLen
           /\ conn.state \in {"none", "connecting", "open", "gone"}
<1>1. conn.writing \in Seq(1..UpLen) /\ conn.state \in {"none", "connecting", "open", "gone"}
    BY DEF TypeOK
<1>2. sock.pending \in Seq(1..UpLen)
    BY DEF TypeOK
<1>3. Carried(queue) \in Seq(1..UpLen)
    BY CarriedTyped DEF TypeOK
<1>4. up \in Nat /\ up <= UpLen
    BY TunnelAssumption DEF TypeOK, TunnelAssumption
<1> QED BY <1>1, <1>2, <1>3, <1>4

LEMMA BytesKept ==
    ASSUME BytesInv, forwarded' = forwarded, up' = up, conn'.writing = conn.writing,
           sock'.pending = sock.pending, Carried(queue') = Carried(queue),
           tunnel.cancelled => tunnel'.cancelled, conn.state = "gone" => conn'.state = "gone"
    PROVE  BytesInv'
<1>1. /\ forwarded' \in Seq(1..UpLen)
      /\ Starts(Sent(forwarded', conn'.writing), up')
    BY Zenon DEF BytesInv
<1>2. ~tunnel'.cancelled /\ conn'.state # "gone" =>
        Places(forwarded', conn'.writing, sock'.pending, Carried(queue')) = Numbers(up')
    BY Zenon DEF BytesInv
<1>3. Carried(queue)' = Carried(queue')
    BY DEF Carried
<1> QED BY <1>1, <1>2, <1>3, Zenon DEF BytesInv, Starts, Sent, Places, Numbers

LEMMA BytesOver ==
    ASSUME TypeOK, TypeOK', BytesInv, forwarded' = forwarded, up <= up',
           conn'.writing = conn.writing \/ conn'.writing = <<>>,
           tunnel'.cancelled \/ conn'.state = "gone"
    PROVE  BytesInv'
<1> DEFINE w == conn.writing
           w2 == conn'.writing
<1>1. w \in Seq(1..UpLen) /\ up \in Nat /\ up' \in Nat /\ forwarded \in Seq(1..UpLen)
    BY BytesTyped, TunnelAssumption DEF BytesInv, TypeOK, TunnelAssumption
<1>2. Starts(Sent(forwarded, w), up)
    BY DEF BytesInv
<1>3. w2 = w \/ w2 = <<>>
    OBVIOUS
<1> HIDE DEF w, w2
<1>4. Starts(Sent(forwarded, w), up') /\ Starts(Sent(forwarded, <<>>), up')
    BY <1>1, <1>2, StartsLess
<1>5. Starts(Sent(forwarded', w2), up')
    BY <1>3, <1>4
<1> QED BY <1>1, <1>5 DEF BytesInv, w2


-----------------------------------------------------------------------------
(* The blocks *)

\* What the blocks without data change.
Unmoved ==
    /\ forwarded' = forwarded /\ up' = up
    /\ conn'.writing = conn.writing /\ sock'.pending = sock.pending
    /\ tunnel.cancelled => tunnel'.cancelled
    /\ conn.state = "gone" => conn'.state = "gone"
    /\ \E bs : Bare(bs) /\ Dispatch(bs)

LEMMA DisconnectUnmoved ==
    ASSUME TypeOK, AdapterDisconnect
    PROVE  conn'.writing = conn.writing /\ conn'.state = conn.state
BY DEF TypeOK, AdapterDisconnect

LEMMA ProxyGoneUnmoved ==
    ASSUME TypeOK, ProxyGone
    PROVE  /\ conn'.writing = conn.writing /\ conn'.state = conn.state
           /\ tunnel'.cancelled
<1>1. conn'.writing = conn.writing /\ conn'.state = conn.state
    BY DisconnectUnmoved DEF ProxyGone
<1>2. tunnel'.cancelled
    BY DEF ProxyGone, TypeOK
<1> QED BY <1>1, <1>2

LEMMA OpenAdapterUnmoved ==
    ASSUME TunnelInv, queue # <<>>, Head(queue).type = "open", OpenAdapter, UNCHANGED up
    PROVE  Unmoved
<1>1. TypeOK /\ conn.state = "none"
    BY HeadSound DEF Fits, TunnelInv
<1>2. conn'.writing = conn.writing
    BY <1>1 DEF OpenAdapter, TypeOK
<1>3. UNCHANGED <<forwarded, sock, tunnel>> /\ Dispatch(<<>>)
    BY DEF OpenAdapter
<1> QED BY <1>1, <1>2, <1>3, NoneBare DEF Unmoved

LEMMA DidConnectUnmoved ==
    ASSUME TypeOK, DidConnect, UNCHANGED up
    PROVE  Unmoved
<1>1. \E bs : Bare(bs) /\ Dispatch(bs)
    BY NoneBare, ReadBare DEF DidConnect
<1>2. conn'.writing = conn.writing /\ conn'.state = conn.state /\ forwarded' = forwarded
    BY DEF DidConnect, TypeOK
<1>3. sock'.pending = sock.pending
    BY DEF DidConnect, ReadsLocal, TypeOK
<1>4. tunnel.cancelled => tunnel'.cancelled
    BY DEF DidConnect
<1> QED BY <1>1, <1>2, <1>3, <1>4 DEF Unmoved

LEMMA AdapterWroteUnmoved ==
    ASSUME TypeOK, AdapterWrote, UNCHANGED up
    PROVE  Unmoved
<1>1. \E bs : Bare(bs) /\ Dispatch(bs)
    BY NoneBare, ReadBare DEF AdapterWrote
<1>2. sock'.pending = sock.pending
    BY DEF AdapterWrote, ReadsLocal, TypeOK
<1>3. UNCHANGED <<tunnel, conn, forwarded>>
    BY DEF AdapterWrote
<1> QED BY <1>1, <1>2, <1>3 DEF Unmoved

LEMMA WriteLocalUnmoved ==
    ASSUME TypeOK, NEW n, WriteLocal(n), UNCHANGED up
    PROVE  Unmoved
<1>1. \E bs : Bare(bs) /\ Dispatch(bs)
    BY NoneBare, GoneBare DEF WriteLocal
<1>2. sock'.pending = sock.pending
    BY DEF WriteLocal, TypeOK
<1>3. UNCHANGED <<tunnel, conn, forwarded>>
    BY DEF WriteLocal
<1> QED BY <1>1, <1>2, <1>3 DEF Unmoved

LEMMA WroteUnmoved ==
    ASSUME TypeOK, NEW n, Wrote(n), UNCHANGED up
    PROVE  Unmoved
<1>1. \E bs : Bare(bs) /\ Dispatch(bs)
    BY GoneBare DEF Wrote
<1>2. sock'.pending = sock.pending
    BY DEF Wrote, TypeOK
<1>3. forwarded' = forwarded
    BY DEF Wrote
<1>4. ProxyGone \/ UNCHANGED <<tunnel, conn>>
    BY DEF Wrote
<1>5. /\ conn'.writing = conn.writing /\ conn'.state = conn.state
      /\ tunnel.cancelled => tunnel'.cancelled
    BY <1>4, ProxyGoneUnmoved
<1> QED BY <1>1, <1>2, <1>3, <1>5 DEF Unmoved

LEMMA AdapterReadsUnmoved ==
    ASSUME TypeOK, AdapterReads, UNCHANGED up
    PROVE  Unmoved
<1>1. UNCHANGED <<sock, tunnel, forwarded>> /\ Dispatch(<<>>)
    BY DEF AdapterReads
<1>2. conn'.writing = conn.writing /\ conn'.state = conn.state
    BY DEF AdapterReads, TypeOK
<1> QED BY <1>1, <1>2, NoneBare DEF Unmoved

LEMMA GoneUnmoved ==
    ASSUME TypeOK, ProxyGone, Dispatch(<<>>), UNCHANGED <<sock, forwarded, up>>
    PROVE  Unmoved
BY ProxyGoneUnmoved, NoneBare DEF Unmoved

LEMMA AdapterGoneUnmoved ==
    ASSUME TypeOK, AdapterGone, UNCHANGED <<forwarded, up>>
    PROVE  Unmoved
<1>1. \E bs : Bare(bs) /\ Dispatch(bs)
    BY GoneBare DEF AdapterGone
<1>2. sock'.pending = sock.pending
    BY DEF AdapterGone, Disconnects, TypeOK
<1>3. conn' = conn
    BY DEF AdapterGone
<1>4. tunnel'.cancelled
    BY DEF AdapterGone, TypeOK
<1> QED BY <1>1, <1>2, <1>3, <1>4 DEF Unmoved

LEMMA UnmovedBytes ==
    ASSUME TunnelInv, BytesInv, queue # <<>>, Head(queue).type # "data", Unmoved
    PROVE  BytesInv'
<1>1. TypeOK /\ Head(queue).data = <<>>
    BY HeadSound DEF Fits, TunnelInv
<1>2. Carried(queue') = Carried(queue)
    BY <1>1, CarriedRuns DEF Unmoved
<1> QED BY <1>2, BytesKept DEF Unmoved

\* Data of the device is kept behind what was kept already.
LEMMA KeepDataBytes ==
    ASSUME TunnelInv, BytesInv, queue # <<>>, KeepData(Head(queue).data), UNCHANGED up
    PROVE  BytesInv'
<1> DEFINE d == Head(queue).data
           p == sock.pending
           p2 == sock'.pending
           c == Carried(queue)
           c2 == Carried(queue')
<1>1. TypeOK /\ UNCHANGED <<tunnel, conn, forwarded>>
    BY DEF TunnelInv, KeepData
<1>2. PICK bs : Bare(bs) /\ Dispatch(bs)
    BY ReadBare DEF KeepData
<1>3. /\ d \in Seq(1..UpLen) /\ Joins(d, c2, c) /\ queue' \in Seq(QueueBlock)
    BY <1>1, <1>2, CarriedRuns
<1>4. Joins(p, d, p2)
    <2>1. sock' = [sock EXCEPT !.pending = @ \o d]
        BY DEF KeepData
    <2>2. sock'.pending = sock.pending \o d
        BY <1>1, <2>1 DEF TypeOK
    <2> HIDE DEF d
    <2> QED BY <2>2, Zenon DEF Joins
<1>5. c2 \in Seq(1..UpLen)
    BY <1>3, CarriedTyped
<1>6. /\ p \in Seq(1..UpLen) /\ conn.writing \in Seq(1..UpLen) /\ forwarded \in Seq(1..UpLen)
    BY <1>1, BytesTyped DEF BytesInv
<1> HIDE DEF d, p, p2, c, c2
<1>7. Places(forwarded, conn.writing, p, c) = Places(forwarded, conn.writing, p2, c2)
    BY <1>3, <1>4, <1>5, <1>6, PlacesKeep
<1>8. /\ forwarded' \in Seq(1..UpLen)
      /\ Starts(Sent(forwarded', conn'.writing), up')
    BY <1>1, Zenon DEF BytesInv
<1>9. ~tunnel'.cancelled /\ conn'.state # "gone" =>
        Places(forwarded', conn'.writing, sock'.pending, Carried(queue')) = Numbers(up')
    BY <1>1, <1>7, Zenon DEF BytesInv, p, p2, c, c2
<1>10. Carried(queue)' = Carried(queue')
    BY DEF Carried
<1> QED BY <1>8, <1>9, <1>10, Zenon DEF BytesInv, Starts, Sent, Places, Numbers

\* All that was kept is handed to the connection: whoever waits for it is
\* the tunnel, and it forwards.
LEMMA HandOnBytes ==
    ASSUME TunnelInv, TypeOK', TurnsInv, BytesInv, queue # <<>>, Head(queue).type = "read", HandOn, UNCHANGED up
    PROVE  BytesInv'
<1>1. TypeOK /\ Dispatch(<<>>) /\ UNCHANGED <<tunnel, forwarded, up>>
    BY DEF TunnelInv, HandOn
<1>2. Head(queue).data = <<>>
    BY HeadSound DEF Fits
<1>3. Carried(queue') = Carried(queue)
    BY <1>1, <1>2, CarriedRuns, NoneBare
<1>4. CASE ~sock.reading
    <2>1. UNCHANGED <<sock, conn>>
        BY <1>4 DEF HandOn
    <2> QED BY <1>1, <1>3, <2>1, BytesKept
<1>5. CASE sock.reading
    <2>1. /\ sock' = [sock EXCEPT !.pending = <<>>, !.reading = FALSE]
          /\ conn' = IF tunnel.cancelled \/ conn.state # "open" THEN conn
                     ELSE [conn EXCEPT !.writing = @ \o sock.pending]
        BY <1>5 DEF HandOn
    <2>2. CASE tunnel.cancelled \/ conn.state = "gone"
        <3>1. conn' = conn
            BY <2>1, <2>2
        <3>2. up \in Nat
            BY <1>1, BytesTyped
        <3> QED BY <1>1, <2>2, <3>1, <3>2, BytesOver
    <2>3. CASE ~tunnel.cancelled /\ conn.state # "gone"
        <3>1. UploadTurns = IF tunnel.forwarding THEN 1 ELSE 0
            BY <2>3 DEF TurnsInv, UploadSound
        <3>2. tunnel.forwarding
            BY <1>1, <1>5, <3>1, UploadHeld
        <3>3. conn.state = "open"
            BY <1>1, <2>3, <3>2 DEF TurnsInv, StageSound, TypeOK
        <3> DEFINE w == conn.writing
                   w2 == conn'.writing
                   p == sock.pending
                   c == Carried(queue)
        <3>4. Joins(w, p, w2) /\ sock'.pending = <<>> /\ conn'.state = conn.state
            <4>1. conn' = [conn EXCEPT !.writing = @ \o sock.pending]
                BY <2>1, <2>3, <3>3
            <4>2. conn'.writing = conn.writing \o sock.pending /\ conn'.state = conn.state
                BY <1>1, <4>1 DEF TypeOK
            <4>3. sock'.pending = <<>>
                BY <1>1, <2>1 DEF TypeOK
            <4> QED BY <4>2, <4>3, Zenon DEF Joins
        <3>5. /\ w \in Seq(1..UpLen) /\ p \in Seq(1..UpLen) /\ c \in Seq(1..UpLen)
              /\ w2 \in Seq(1..UpLen) /\ forwarded \in Seq(1..UpLen) /\ up \in Nat
              /\ <<>> \in Seq(1..UpLen)
            BY <1>1, BytesTyped DEF BytesInv, TypeOK
        <3>6. Places(forwarded, w, p, c) = Numbers(up)
            BY <2>3 DEF BytesInv
        <3> HIDE DEF w, w2, p, c
        <3>7. Places(forwarded, w2, <<>>, c) = Numbers(up)
            BY <3>4, <3>5, <3>6, PlacesHandOn
        <3>8. Starts(Sent(forwarded, w2), up)
            BY <3>5, <3>7, PlacesStart
        <3>9. /\ forwarded' \in Seq(1..UpLen) /\ Starts(Sent(forwarded', conn'.writing), up')
              /\ Places(forwarded', conn'.writing, sock'.pending, Carried(queue')) = Numbers(up')
            BY <1>1, <1>3, <3>4, <3>5, <3>7, <3>8, Zenon DEF w2, c
        <3>10. Carried(queue)' = Carried(queue')
            BY DEF Carried
        <3> QED BY <3>9, <3>10, Zenon DEF BytesInv, Starts, Sent, Places, Numbers
    <2> QED BY <2>2, <2>3
<1> QED BY <1>4, <1>5


LEMMA TurnBytes == TunnelInv /\ TypeOK' /\ TurnsInv /\ BytesInv /\ Turn => BytesInv'
<1> SUFFICES ASSUME TunnelInv, TypeOK', TurnsInv, BytesInv, Turn PROVE BytesInv'
    OBVIOUS
<1>1. queue # <<>> /\ TypeOK /\ UNCHANGED up
    BY DEF Turn, TunnelInv
<1>2. CASE Head(queue).type = "open" /\ OpenAdapter
    BY <1>1, <1>2, OpenAdapterUnmoved, UnmovedBytes
<1>3. CASE Head(queue).type = "connected" /\ DidConnect
    BY <1>1, <1>3, DidConnectUnmoved, UnmovedBytes
<1>4. CASE Head(queue).type = "data" /\ KeepData(Head(queue).data)
    BY <1>1, <1>4, KeepDataBytes
<1>5. CASE Head(queue).type = "read" /\ HandOn
    BY <1>1, <1>5, HandOnBytes
<1>6. CASE Head(queue).type = "adapterWrote" /\ AdapterWrote
    BY <1>1, <1>6, AdapterWroteUnmoved, UnmovedBytes
<1>7. CASE Head(queue).type = "adapterRead" /\ WriteLocal(Head(queue).n)
    BY <1>1, <1>7, WriteLocalUnmoved, UnmovedBytes
<1>8. CASE Head(queue).type = "wrote" /\ Wrote(Head(queue).n)
    BY <1>1, <1>8, WroteUnmoved, UnmovedBytes
<1>9. CASE Head(queue).type = "readAdapter" /\ AdapterReads
    BY <1>1, <1>9, AdapterReadsUnmoved, UnmovedBytes
<1>10. CASE /\ Head(queue).type = "gone" /\ ProxyGone /\ Dispatch(<<>>)
            /\ UNCHANGED <<delayed, sock, inflight, forwarded, unanswered>>
    BY <1>1, <1>10, GoneUnmoved, UnmovedBytes
<1>11. CASE /\ Head(queue).type = "adapterGone" /\ AdapterGone
            /\ UNCHANGED <<delayed, inflight, forwarded, unanswered>>
    BY <1>1, <1>11, AdapterGoneUnmoved, UnmovedBytes
<1> QED
    BY <1>2, <1>3, <1>4, <1>5, <1>6, <1>7, <1>8, <1>9, <1>10, <1>11 DEF Turn

-----------------------------------------------------------------------------
(* What reaches the queue from outside *)

\* A block without bytes arrives, and nothing moves.
LEMMA BareArrival ==
    ASSUME TypeOK, BytesInv, NEW b \in QueueBlock, b.data = <<>>, Enqueue(b),
           forwarded' = forwarded, up' = up, conn'.writing = conn.writing,
           sock'.pending = sock.pending, tunnel' = tunnel,
           conn.state = "gone" => conn'.state = "gone"
    PROVE  BytesInv'
<1>1. queue \in Seq(QueueBlock) /\ Bare(<<b>>)
    BY DEF TypeOK, Bare
<1>2. queue' = queue \o <<b>>
    BY <1>1 DEF Enqueue
<1>3. Carried(queue') = Carried(queue)
    BY <1>1, <1>2, CarriedBare
<1> QED BY <1>3, BytesKept

LEMMA ResolvedBytes == TypeOK /\ BytesInv /\ Resolved => BytesInv'
BY BareArrival, BlockTyped DEF Resolved

LEMMA DelayEndsBytes == TypeOK /\ BytesInv /\ DelayEnds => BytesInv'
BY BareArrival, BlockTyped DEF DelayEnds

LEMMA NumberedBlock ==
    ASSUME NEW type \in {"wrote", "adapterRead"}, NEW n \in 0..DownLen
    PROVE  /\ [Block(type) EXCEPT !.n = n] \in QueueBlock
           /\ [Block(type) EXCEPT !.n = n].data = <<>>
<1>1. [Block(type) EXCEPT !.n = n] = [type |-> type, data |-> <<>>, n |-> n]
    BY DEF Block
<1>2. <<>> \in Seq(1..UpLen)
    OBVIOUS
<1> QED BY <1>1, <1>2 DEF QueueBlock

LEMMA LocalAcksBytes == ASSUME TypeOK, BytesInv, NEW n \in 1..DownLen, LocalAcks(n) PROVE BytesInv'
<1>1. n \in 0..DownLen
    BY TunnelAssumption DEF TunnelAssumption
<1> QED BY <1>1, NumberedBlock, BareArrival DEF LocalAcks

LEMMA LocalResetsBytes == TypeOK /\ BytesInv /\ LocalResets => BytesInv'
<1> SUFFICES ASSUME TypeOK, BytesInv, LocalResets PROVE BytesInv'
    OBVIOUS
<1>1. sock'.pending = sock.pending
    BY DEF LocalResets, TypeOK
<1> QED BY <1>1, BareArrival, BlockTyped DEF LocalResets

LEMMA ConnectsBytes == TypeOK /\ BytesInv /\ Connects => BytesInv'
<1> SUFFICES ASSUME TypeOK, BytesInv, Connects PROVE BytesInv'
    OBVIOUS
<1>1. conn'.writing = conn.writing /\ conn.state # "gone"
    BY DEF Connects, TypeOK
<1> QED BY <1>1, BareArrival, BlockTyped DEF Connects

LEMMA RemoteSendsBytes ==
    ASSUME TypeOK, BytesInv, NEW n \in 0..DownLen, RemoteSends(n) PROVE BytesInv'
<1>1. conn'.writing = conn.writing /\ conn.state # "gone"
    BY DEF RemoteSends, TypeOK
<1> QED BY <1>1, NumberedBlock, BareArrival DEF RemoteSends

\* What was handed to the connection leaves for the remote side.
LEMMA ConnWritesBytes == TypeOK /\ BytesInv /\ ConnWrites => BytesInv'
<1> SUFFICES ASSUME TypeOK, BytesInv, ConnWrites PROVE BytesInv'
    OBVIOUS
<1> DEFINE b == Block("adapterWrote")
           w == conn.writing
           f2 == forwarded'
           c == Carried(queue)
<1>1. b \in QueueBlock /\ b.data = <<>> /\ Enqueue(b) /\ UNCHANGED <<sock, tunnel, up>>
    BY BlockTyped DEF ConnWrites
<1>2. Carried(queue') = c
    <2>1. queue \in Seq(QueueBlock) /\ Bare(<<b>>)
        BY <1>1 DEF TypeOK, Bare
    <2> HIDE DEF b
    <2>2. queue' = queue \o <<b>>
        BY <1>1, <2>1 DEF Enqueue
    <2> QED BY <2>1, <2>2, CarriedBare
<1>3. conn'.writing = <<>> /\ conn'.state = conn.state
    BY DEF ConnWrites, TypeOK
<1>4. Joins(forwarded, w, f2)
    BY Zenon DEF ConnWrites, Joins
<1>5. w \in Seq(1..UpLen) /\ forwarded \in Seq(1..UpLen)
    BY BytesTyped DEF BytesInv
<1> HIDE DEF w, f2, c
<1>6. f2 \in Seq(1..UpLen) /\ Sent(f2, <<>>) = Sent(forwarded, w)
    BY <1>4, <1>5, PlacesForward
<1>7. Places(forwarded, w, sock.pending, c) = Places(f2, <<>>, sock.pending, c)
    BY <1>4, <1>5, PlacesForward
<1>8. Starts(Sent(f2, <<>>), up)
    BY <1>6, Zenon DEF BytesInv, w
<1>9. ~tunnel.cancelled /\ conn.state # "gone" => Places(f2, <<>>, sock.pending, c) = Numbers(up)
    BY <1>7, Zenon DEF BytesInv, w, c
<1>10. /\ forwarded' \in Seq(1..UpLen) /\ Starts(Sent(forwarded', conn'.writing), up')
       /\ ~tunnel'.cancelled /\ conn'.state # "gone" =>
            Places(forwarded', conn'.writing, sock'.pending, Carried(queue')) = Numbers(up')
    BY <1>1, <1>2, <1>3, <1>6, <1>8, <1>9, Zenon DEF f2
<1>11. Carried(queue)' = Carried(queue')
    BY DEF Carried
<1> QED BY <1>10, <1>11, Zenon DEF BytesInv, Starts, Sent, Places, Numbers

LEMMA ConnGoneBytes == TypeOK /\ TypeOK' /\ BytesInv /\ ConnGone => BytesInv'
<1> SUFFICES ASSUME TypeOK, TypeOK', BytesInv, ConnGone PROVE BytesInv'
    OBVIOUS
<1>1. conn'.state = "gone" /\ conn'.writing = <<>> /\ UNCHANGED <<forwarded, up>>
    BY DEF ConnGone, TypeOK
<1>2. up \in Nat
    BY BytesTyped
<1> QED BY <1>1, <1>2, BytesOver

LEMMA ForceCloseBytes == TypeOK /\ TypeOK' /\ BytesInv /\ ForceClose => BytesInv'
<1> SUFFICES ASSUME TypeOK, TypeOK', BytesInv, ForceClose PROVE BytesInv'
    OBVIOUS
<1>1. /\ tunnel'.cancelled /\ UNCHANGED <<forwarded, up>>
      /\ conn'.writing = conn.writing \/ conn'.writing = <<>>
    BY DEF ForceClose, TypeOK
<1>2. up \in Nat
    BY BytesTyped
<1> QED BY <1>1, <1>2, BytesOver

\* The device's next bytes are behind all others.
LEMMA LocalSendsBytes ==
    ASSUME TypeOK, BytesInv, NEW n \in 0..UpLen, NEW last \in BOOLEAN, LocalSends(n, last)
    PROVE  BytesInv'
<1> DEFINE data == [i \in 1..n |-> up + i]
           b == [Block("data") EXCEPT !.data = data]
           bs == IF n > 0 THEN <<b>> ELSE <<>>
           cs == Gone(sock, sock')
           c == Carried(queue)
           c2 == Carried(queue')
<1>1. /\ up + n <= UpLen /\ queue' = queue \o bs \o cs /\ up' = up + n
      /\ sock' = IF last THEN Disconnects(sock) ELSE sock
      /\ UNCHANGED <<tunnel, conn, forwarded>>
    BY DEF LocalSends
<1>2. /\ n \in Nat /\ up \in Nat /\ conn.writing \in Seq(1..UpLen) /\ sock.pending \in Seq(1..UpLen)
      /\ c \in Seq(1..UpLen) /\ forwarded \in Seq(1..UpLen)
    BY BytesTyped DEF BytesInv
<1>3. data \in Seq(1..UpLen)
    BY <1>1, <1>2, TunnelAssumption DEF TunnelAssumption
<1>4. b \in QueueBlock /\ b.data = data
    <2>1. b = [type |-> "data", data |-> data, n |-> 0]
        BY DEF Block
    <2>2. 0 \in 0..DownLen
        BY TunnelAssumption DEF TunnelAssumption
    <2> HIDE DEF b, data
    <2> QED BY <1>3, <2>1, <2>2 DEF QueueBlock
<1>5. Joins(c, data, c2)
    <2> DEFINE r == queue \o bs
    <2>1. queue \in Seq(QueueBlock) /\ Bare(cs)
        BY GoneBare DEF TypeOK
    <2>2. r \in Seq(QueueBlock) /\ Joins(c, data, Carried(r))
        <3>1. CASE n > 0
            <4>1. bs = <<b>>
                BY <3>1
            <4> HIDE DEF b, bs, data
            <4>2. r = Append(queue, b) /\ Append(queue, b) \in Seq(QueueBlock)
                BY <1>4, <2>1, <4>1
            <4> HIDE DEF r
            <4>3. Carried(r) = c \o data
                BY <1>4, <2>1, <4>2, CarriedAppend
            <4> QED BY <4>2, <4>3, Zenon DEF Joins
        <3>2. CASE ~(n > 0)
            <4>1. bs = <<>> /\ data = <<>>
                BY <1>2, <3>2
            <4> HIDE DEF b, bs, data
            <4>2. r = queue
                BY <2>1, <4>1
            <4>3. c \o <<>> = c
                BY <1>2, ConcatEmptySeq
            <4> HIDE DEF r
            <4> QED BY <2>1, <4>1, <4>2, <4>3, Zenon DEF Joins, c
        <3> QED BY <3>1, <3>2
    <2>3. queue' = r \o cs
        BY <1>1
    <2> HIDE DEF r, cs, data, c
    <2>4. Carried(queue') = Carried(r)
        BY <2>1, <2>2, <2>3, CarriedBare
    <2> QED BY <2>2, <2>4
<1>6. sock'.pending = sock.pending
    BY <1>1 DEF Disconnects, TypeOK
<1>7. Starts(Sent(forwarded, conn.writing), up + n)
    <2> DEFINE w == conn.writing
               m == up + n
    <2>1. Starts(Sent(forwarded, w), up) /\ w \in Seq(1..UpLen)
        BY <1>2 DEF BytesInv
    <2>2. m \in Nat /\ up <= m
        BY <1>2
    <2> HIDE DEF w, m
    <2>3. Starts(Sent(forwarded, w), m)
        BY <1>2, <2>1, <2>2, StartsLess
    <2> QED BY <2>3 DEF w, m
<1>8. ASSUME ~tunnel.cancelled, conn.state # "gone"
      PROVE  Places(forwarded, conn.writing, sock.pending, c2) = Numbers(up + n)
    <2> DEFINE w == conn.writing
               p == sock.pending
    <2>1. Places(forwarded, w, p, c) = Numbers(up)
        BY <1>8 DEF BytesInv
    <2> DEFINE T == 1..UpLen
    <2>2. /\ w \in Seq(T) /\ p \in Seq(T) /\ c \in Seq(T) /\ forwarded \in Seq(T)
          /\ data \in Seq(T)
        BY <1>2, <1>3
    <2> HIDE DEF w, p, c, c2, data, T
    <2>3. Places(forwarded, w, p, c2) = Numbers(up + n)
        <3>1. Joins(c, data, c2)
            BY <1>5
        <3>2. Joins(Places(forwarded, w, p, c), data, Places(forwarded, w, p, c2))
            BY <2>2, <3>1, PlacesBehind
        <3>3. Places(forwarded, w, p, c2) = Numbers(up) \o data
            BY <2>1, <3>2, Zenon DEF Joins
        <3>4. Numbers(up) \o data = Numbers(up + n)
            BY <1>2, NumbersFollow DEF data
        <3> QED BY <3>3, <3>4, Zenon
    <2> QED BY <2>3 DEF w, p
<1>9. /\ forwarded' \in Seq(1..UpLen) /\ Starts(Sent(forwarded', conn'.writing), up')
      /\ ~tunnel'.cancelled /\ conn'.state # "gone" =>
           Places(forwarded', conn'.writing, sock'.pending, Carried(queue')) = Numbers(up')
    BY <1>1, <1>2, <1>6, <1>7, <1>8, Zenon
<1>10. Carried(queue)' = Carried(queue')
    BY DEF Carried
<1> QED BY <1>9, <1>10, Zenon DEF BytesInv, Starts, Sent, Places, Numbers


LEMMA BytesInit == Init => BytesInv
<1> SUFFICES ASSUME Init PROVE BytesInv
    OBVIOUS
<1>1. queue = <<>> /\ forwarded = <<>> /\ up = 0
    BY DEF Init
<1>2. sock.pending = <<>>
    BY DEF Init
<1>3. conn.writing = <<>>
    BY DEF Init, NoConn
<1>4. Carried(queue) = <<>>
    <2>1. queue \in Seq(QueueBlock)
        BY <1>1
    <2> QED BY <1>1, <2>1, CarriedTyped
<1>5. <<>> \in Seq(1..UpLen) /\ <<>> \o <<>> = <<>> /\ Len(<<>>) = 0 /\ Numbers(0) = <<>>
    BY DEF Numbers
<1>6. Starts(<<>>, 0)
    BY DEF Starts
<1>7. Sent(forwarded, conn.writing) = <<>>
    BY <1>1, <1>3, <1>5, Zenon DEF Sent
<1>8. Places(forwarded, conn.writing, sock.pending, Carried(queue)) = <<>>
    BY <1>1, <1>2, <1>3, <1>4, <1>5, Zenon DEF Places
<1> QED BY <1>1, <1>5, <1>6, <1>7, <1>8, Zenon DEF BytesInv

\* Every step keeps the bytes.
LEMMA BytesStep == TunnelInv /\ TunnelInv' /\ TurnsInv /\ BytesInv /\ [Next]_vars => BytesInv'
<1> SUFFICES ASSUME TunnelInv, TunnelInv', TurnsInv, BytesInv, [Next]_vars PROVE BytesInv'
    OBVIOUS
<1> TypeOK /\ TypeOK'
    BY DEF TunnelInv
<1>1. CASE Turn
    BY <1>1, TurnBytes
<1>2. CASE Resolved \/ DelayEnds
    BY <1>2, ResolvedBytes, DelayEndsBytes
<1>3. CASE \E n \in 0..UpLen, last \in BOOLEAN : LocalSends(n, last)
    BY <1>3, LocalSendsBytes
<1>4. CASE \E n \in 1..DownLen : LocalAcks(n)
    BY <1>4, LocalAcksBytes
<1>5. CASE LocalResets \/ ForceClose
    BY <1>5, LocalResetsBytes, ForceCloseBytes
<1>6. CASE Connects \/ ConnWrites
    BY <1>6, ConnectsBytes, ConnWritesBytes
<1>7. CASE \E n \in 0..DownLen : RemoteSends(n)
    BY <1>7, RemoteSendsBytes
<1>8. CASE ConnCloses \/ ConnFails
    BY <1>8, ConnGoneBytes DEF ConnCloses, ConnFails
<1>9. CASE UNCHANGED vars
    <2>1. UNCHANGED <<queue, sock, tunnel, conn, up, forwarded>>
        BY <1>9 DEF vars
    <2> QED BY <2>1, BytesKept
<1> QED
    BY <1>1, <1>2, <1>3, <1>4, <1>5, <1>6, <1>7, <1>8, <1>9 DEF Next

\* The inductive invariant of the upload: what the device has sent is in
\* these places, in this order, until the connection is closed.
THEOREM BytesInvariant == Spec => []BytesInv
<1>1. Init => BytesInv
    BY BytesInit
<1>2. TunnelInv /\ TunnelInv' /\ TurnsInv /\ BytesInv /\ [Next]_vars => BytesInv'
    BY BytesStep
<1> QED BY <1>1, <1>2, TunnelInvariant, TurnsInvariant, PTL DEF Spec

\* A beginning is a prefix.
LEMMA StartsPrefix ==
    ASSUME NEW S, NEW f \in Seq(S), NEW n \in Nat, Starts(f, n)
    PROVE  IsPrefix(f, Numbers(n))
<1>1. Len(f) \in Nat /\ Len(f) <= n /\ \A i \in 1..Len(f) : f[i] = i
    BY DEF Starts
<1>2. Len(Numbers(n)) = n
    BY DEF Numbers
<1>3. SubSeq(f, 1, Len(f)) = SubSeq(Numbers(n), 1, Len(f))
    BY <1>1 DEF Numbers
<1> QED BY <1>1, <1>2, <1>3 DEF IsPrefix

\* No byte that the device sends is lost, doubled or out of order on its way
\* to the remote side (TUNTCPSocket.didReadData, checkReadData, Tunnel.didRead,
\* GCDTCPSocket.write), however the blocks of the queue interleave.
THEOREM TunnelUploadIntact == Spec => []UploadIntact
<1>1. TunnelInv /\ BytesInv => UploadIntact
    <2> SUFFICES ASSUME TunnelInv, BytesInv PROVE UploadIntact
        OBVIOUS
    <2>1. TypeOK
        BY DEF TunnelInv
    <2>2. up \in Nat /\ conn.writing \in Seq(1..UpLen) /\ forwarded \in Seq(1..UpLen)
        BY <2>1, BytesTyped DEF BytesInv
    <2>3. Starts(Sent(forwarded, <<>>), up)
        BY <2>2, StartsLess DEF BytesInv
    <2>4. Sent(forwarded, <<>>) = forwarded
        BY <2>2, ConcatEmptySeq DEF Sent
    <2>5. IsPrefix(forwarded, Numbers(up))
        BY <2>2, <2>3, <2>4, StartsPrefix
    <2> QED BY <2>5, Zenon DEF UploadIntact, BytesInv, Places, Numbers, Carried
<1> QED BY <1>1, TunnelInvariant, BytesInvariant, PTL
================================================================================
