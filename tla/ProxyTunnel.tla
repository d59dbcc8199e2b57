---------------------------- MODULE ProxyTunnel ----------------------------
(***************************************************************************)
(* One proxied connection in the extension: TSTCPSocket and TUNTCPSocket   *)
(* on the local side, DirectProxySocket, Tunnel, and an adapter with its   *)
(* GCDTCPSocket on the remote side.                                        *)
(*                                                                         *)
(* Everything runs on the one serial queue of QueueFactory.  A block that  *)
(* is dispatched to it, by TUNTCPSocket or by CocoaAsyncSocket, is a       *)
(* record of queue, and Turn runs the first one.  lwIP's callbacks come    *)
(* from packets, in turns between the blocks.  Reading and writing go by   *)
(* turns: whoever has read hands the data on, and may read again when the  *)
(* other side has written it.                                              *)
(***************************************************************************)
EXTENDS Integers, Sequences, FiniteSets, SequencesExt

CONSTANTS
    UpLen,       \* bound: the bytes the device sends on the connection
    DownLen,     \* bound: the bytes the remote side sends
    WriteLimit   \* TSTCPSocket.writeData refuses data of this size: 65535

ASSUME TunnelAssumption == UpLen \in Nat /\ DownLen \in Nat /\ WriteLimit \in Nat \ {0}

VARIABLES
    queue,       \* the blocks dispatched to the queue
    delayed,     \* reads waiting for Opt.forwardReadInterval
    sock,        \* TUNTCPSocket, and whether its TSTCPSocket has a pcb
    inflight,    \* the bytes given to lwIP and not yet acknowledged
    tunnel,      \* Tunnel, and the status of its ProxySocket
    adapter,     \* the AdapterSocket: its status
    conn,        \* the GCDAsyncSocket below it
    up,          \* how many bytes the device has sent
    fin,         \* whether the device has sent its FIN
    forwarded,   \* the bytes that left for the remote side
    down,        \* how many bytes were read from the remote side
    unanswered   \* history: a write that no sent event will follow

vars == <<queue, delayed, sock, inflight, tunnel, adapter, conn, up, fin, forwarded, down, unanswered>>

-----------------------------------------------------------------------------
Block(type) == [type |-> type, data |-> <<>>, n |-> 0]

Enqueue(b) == queue' = Append(queue, b)

\* Turn runs the first block, and a block may dispatch another.
Dispatch(bs) == queue' = Tail(queue) \o bs

NoConn == [state |-> "none", reading |-> FALSE, writing |-> <<>>, closing |-> FALSE]

\* A connection was accepted and its tunnel opened.  A session with a name
\* waits for the resolver, one with an address has its adapter at once.
Init ==
    /\ \E named \in BOOLEAN :
          /\ adapter = IF named THEN "none" ELSE "connecting"
          /\ conn = [NoConn EXCEPT !.state = IF named THEN "none" ELSE "connecting"]
    /\ queue = <<>> /\ delayed = 0 /\ inflight = 0
    /\ sock = [valid |-> TRUE, pending |-> <<>>, reading |-> FALSE, remain |-> 0,
               closing |-> FALSE]
    /\ tunnel = [cancelled |-> FALSE, proxy |-> "open", forwarding |-> FALSE, closed |-> FALSE]
    /\ up = 0 /\ fin = FALSE /\ forwarded = <<>> /\ down = 0 /\ unanswered = FALSE

-----------------------------------------------------------------------------
(* Closing *)

\* Mutant: the tunnel counts as closed with its local side.
IsClosedLocal(proxy, ad) == proxy = "closed"

\* Tunnel.isClosed
IsClosed(proxy, ad) == proxy = "closed" /\ ad \in {"none", "closed"}

AdapterOpen == adapter \notin {"none", "closed"}

\* AdapterSocket.disconnect: disconnectAfterWriting.
AdapterDisconnect ==
    IF AdapterOpen
    THEN adapter' = "disconnecting" /\ conn' = [conn EXCEPT !.closing = TRUE, !.reading = FALSE]
    ELSE UNCHANGED <<adapter, conn>>

\* Mutant: the pcb is closed whatever is still to be sent.
DisconnectsAtOnce(s) == [s EXCEPT !.closing = TRUE, !.valid = FALSE]

\* TUNTCPSocket.disconnect, while TSTCPSocket has its pcb, and checkStatus:
\* with all data sent the pcb is closed, and a block will tell the delegate.
Disconnects(s) ==
    [s EXCEPT !.closing = TRUE, !.valid = (s.remain # 0)]

Gone(s, t) == IF s.valid /\ ~t.valid THEN <<Block("gone")>> ELSE <<>>

\* ProxySocket.didDisconnectWith: the tunnel closes, its adapter too.
ProxyGone ==
    /\ IF tunnel.cancelled THEN UNCHANGED <<adapter, conn>> ELSE AdapterDisconnect
    /\ tunnel' = [tunnel EXCEPT !.cancelled = TRUE, !.proxy = "closed",
                                !.closed = @ \/ IsClosed("closed", adapter')]

\* AdapterSocket.didDisconnectWith: the tunnel closes, its local side too,
\* which without a pcb is gone at once.
AdapterGone ==
    LET proxy == IF tunnel.cancelled THEN tunnel.proxy
                 ELSE IF sock.valid THEN "disconnecting" ELSE "closed"
    IN  /\ adapter' = "closed"
        /\ sock' = IF ~tunnel.cancelled /\ sock.valid THEN Disconnects(sock) ELSE sock
        /\ tunnel' = [tunnel EXCEPT !.cancelled = TRUE, !.proxy = proxy,
                                    !.closed = @ \/ IsClosed(proxy, "closed")]
        /\ Dispatch(Gone(sock, sock'))
        /\ UNCHANGED conn

-----------------------------------------------------------------------------
(* The blocks of the queue *)

\* The resolver's answer: openAdapter.  The catch of openSocketWith is left out:
\* connecting throws only for an empty host, which no session has, and an answer
\* without an IPv4 address ends the process and every tunnel with it.
OpenAdapter ==
    /\ IF tunnel.cancelled THEN UNCHANGED <<adapter, conn>>
       ELSE adapter' = "connecting" /\ conn' = [conn EXCEPT !.state = "connecting"]
    /\ Dispatch(<<>>)
    /\ UNCHANGED <<delayed, sock, inflight, tunnel, forwarded, unanswered>>

\* readData of the local side, of a socket s: if there is data a block will
\* hand it on.
ReadsLocal(s) == [s EXCEPT !.reading = TRUE]
CheckReadData(s) == IF s.pending # <<>> THEN <<Block("read")>> ELSE <<>>

\* The adapter is connected and ready, and so is the local side: both read.
DidConnect ==
    /\ adapter' = "established"
    /\ IF tunnel.cancelled
       THEN UNCHANGED <<sock, tunnel, conn>> /\ Dispatch(<<>>)
       ELSE /\ tunnel' = [tunnel EXCEPT !.forwarding = TRUE]
            /\ sock' = ReadsLocal(sock)
            /\ conn' = [conn EXCEPT !.reading = (conn.state = "open")]
            /\ Dispatch(CheckReadData(sock))
    /\ UNCHANGED <<delayed, inflight, forwarded, unanswered>>

\* Mutant: nobody is asked whether a read is waiting.
KeepDataOnly(data) ==
    /\ sock' = [sock EXCEPT !.pending = @ \o data]
    /\ Dispatch(<<>>)
    /\ UNCHANGED <<delayed, inflight, tunnel, adapter, conn, forwarded, unanswered>>

\* didReadData: the device's data is kept.
KeepData(data) ==
    /\ sock' = [sock EXCEPT !.pending = @ \o data]
    /\ Dispatch(CheckReadData(sock'))
    /\ UNCHANGED <<delayed, inflight, tunnel, adapter, conn, forwarded, unanswered>>

\* Mutant: what was handed on is kept for the next read.
HandOnKeeps ==
    /\ IF sock.reading
       THEN /\ sock' = [sock EXCEPT !.reading = FALSE]
            /\ conn' = IF tunnel.cancelled \/ conn.state # "open" THEN conn
                       ELSE [conn EXCEPT !.writing = @ \o sock.pending]
       ELSE UNCHANGED <<sock, conn>>
    /\ Dispatch(<<>>)
    /\ UNCHANGED <<delayed, inflight, tunnel, adapter, forwarded, unanswered>>

\* checkReadData's block: a waiting read gets all data, and the tunnel
\* writes it to the adapter.
HandOn ==
    /\ IF sock.reading
       THEN /\ sock' = [sock EXCEPT !.pending = <<>>, !.reading = FALSE]
            /\ conn' = IF tunnel.cancelled \/ conn.state # "open" THEN conn
                       ELSE [conn EXCEPT !.writing = @ \o sock.pending]
       ELSE UNCHANGED <<sock, conn>>
    /\ Dispatch(<<>>)
    /\ UNCHANGED <<delayed, inflight, tunnel, adapter, forwarded, unanswered>>

\* The adapter has written: the local side may read again.
AdapterWrote ==
    /\ IF tunnel.cancelled THEN sock' = sock /\ Dispatch(<<>>)
       ELSE sock' = ReadsLocal(sock) /\ Dispatch(CheckReadData(sock))
    /\ UNCHANGED <<delayed, inflight, tunnel, adapter, conn, forwarded, unanswered>>

\* The adapter has read n bytes, none if they were part of the IV: the
\* tunnel writes them to the local side.  lwIP may refuse them, and then
\* the pcb is closed; data that is too long is dropped without a word.
WriteLocal(n) ==
    /\ IF tunnel.cancelled
       THEN UNCHANGED <<sock, inflight, unanswered>> /\ Dispatch(<<>>)
       ELSE \E accepted \in BOOLEAN :
              /\ n >= WriteLimit \/ ~sock.valid => accepted
              /\ sock' = [sock EXCEPT !.remain = n, !.valid = @ /\ accepted]
              /\ inflight' = IF sock'.valid /\ n < WriteLimit THEN inflight + n ELSE inflight
              /\ unanswered' = (unanswered \/ n = 0 \/ n >= WriteLimit)
              /\ Dispatch(Gone(sock, sock'))
    /\ UNCHANGED <<delayed, tunnel, adapter, conn, forwarded>>

\* Mutant: the adapter reads again after any acknowledgement.
WroteAny(n) ==
    LET left == sock.remain - n
        s == [sock EXCEPT !.remain = left]
    IN  /\ delayed' = IF ~tunnel.cancelled THEN delayed + 1 ELSE delayed
        /\ sock' = IF left = 0 /\ s.closing THEN [s EXCEPT !.valid = FALSE] ELSE s
        /\ IF left = 0 /\ s.closing /\ ~s.valid THEN ProxyGone ELSE UNCHANGED <<tunnel, adapter, conn>>
        /\ Dispatch(Gone(sock, sock'))
        /\ UNCHANGED <<inflight, forwarded, unanswered>>

\* Mutant: checkStatus is forgotten.
WroteStays(n) ==
    /\ delayed' = IF sock.remain <= n /\ ~tunnel.cancelled THEN delayed + 1 ELSE delayed
    /\ sock' = [sock EXCEPT !.remain = @ - n]
    /\ Dispatch(<<>>)
    /\ UNCHANGED <<inflight, tunnel, adapter, conn, forwarded, unanswered>>

\* didWriteData: n bytes are acknowledged.  After the last one the adapter
\* may read again, and a socket that waited for it to close is closed.
Wrote(n) ==
    LET left == sock.remain - n
        s == [sock EXCEPT !.remain = left]
    IN  /\ delayed' = IF left <= 0 /\ ~tunnel.cancelled THEN delayed + 1 ELSE delayed
        /\ sock' = IF left = 0 /\ s.closing THEN [s EXCEPT !.valid = FALSE] ELSE s
        /\ IF left = 0 /\ s.closing /\ ~s.valid THEN ProxyGone ELSE UNCHANGED <<tunnel, adapter, conn>>
        /\ Dispatch(Gone(sock, sock'))
        /\ UNCHANGED <<inflight, forwarded, unanswered>>

\* The delay after a write is over: the adapter reads, unless it was told
\* to disconnect.
AdapterReads ==
    /\ conn' = [conn EXCEPT !.reading = @ \/ (conn.state = "open" /\ ~conn.closing)]
    /\ Dispatch(<<>>)
    /\ UNCHANGED <<delayed, sock, inflight, tunnel, adapter, forwarded, unanswered>>

\* The first block of the queue runs.
Turn ==
    /\ queue # <<>>
    /\ LET b == Head(queue)
       IN  \/ b.type = "open" /\ OpenAdapter
           \/ b.type = "connected" /\ DidConnect
           \/ b.type = "data" /\ KeepData(b.data)
           \/ b.type = "read" /\ HandOn
           \/ b.type = "adapterWrote" /\ AdapterWrote
           \/ b.type = "adapterRead" /\ WriteLocal(b.n)
           \/ b.type = "wrote" /\ Wrote(b.n)
           \/ b.type = "readAdapter" /\ AdapterReads
           \/ b.type = "gone" /\ ProxyGone /\ Dispatch(<<>>)
              /\ UNCHANGED <<delayed, sock, inflight, forwarded, unanswered>>
           \/ b.type = "adapterGone" /\ AdapterGone
              /\ UNCHANGED <<delayed, inflight, forwarded, unanswered>>
    /\ UNCHANGED <<up, fin, down>>

-----------------------------------------------------------------------------
(* What reaches the queue from outside *)

Resolved ==
    /\ adapter = "none" /\ conn.state = "none"
    /\ \A i \in 1..Len(queue) : queue[i].type # "open"
    /\ ~tunnel.cancelled
    /\ Enqueue(Block("open"))
    /\ UNCHANGED <<delayed, sock, inflight, tunnel, adapter, conn, up, fin, forwarded, down, unanswered>>

DelayEnds ==
    /\ delayed > 0
    /\ delayed' = delayed - 1 /\ Enqueue(Block("readAdapter"))
    /\ UNCHANGED <<sock, inflight, tunnel, adapter, conn, up, fin, forwarded, down, unanswered>>

\* A segment of the device: data, which TSTCPSocket passes on to be kept, and
\* possibly the FIN, on which TUNTCPSocket disconnects at once.
LocalSends(n, last) ==
    /\ sock.valid /\ ~fin /\ up + n <= UpLen
    /\ up' = up + n /\ fin' = last
    /\ sock' = IF last THEN Disconnects(sock) ELSE sock
    /\ queue' = queue \o (IF n > 0 THEN <<[Block("data") EXCEPT !.data = [i \in 1..n |-> up + i]]>>
                          ELSE <<>>) \o Gone(sock, sock')
    /\ UNCHANGED <<delayed, inflight, tunnel, adapter, conn, forwarded, down, unanswered>>

\* tcp_sent: the device acknowledges n bytes.
LocalAcks(n) ==
    /\ sock.valid /\ n <= inflight
    /\ inflight' = inflight - n
    /\ Enqueue([Block("wrote") EXCEPT !.n = n])
    /\ UNCHANGED <<delayed, sock, tunnel, adapter, conn, up, fin, forwarded, down, unanswered>>

\* tcp_err: the device resets the connection, or lwIP takes the pcb.
LocalResets ==
    /\ sock.valid
    /\ sock' = [sock EXCEPT !.valid = FALSE]
    /\ Enqueue(Block("gone"))
    /\ UNCHANGED <<delayed, inflight, tunnel, adapter, conn, up, fin, forwarded, down, unanswered>>

Connects ==
    /\ conn.state = "connecting" /\ ~conn.closing
    /\ conn' = [conn EXCEPT !.state = "open"]
    /\ Enqueue(Block("connected"))
    /\ UNCHANGED <<delayed, sock, inflight, tunnel, adapter, up, fin, forwarded, down, unanswered>>

\* Data for a waiting read; none is left of a first piece shorter than the IV.
RemoteSends(n) ==
    /\ conn.state = "open" /\ conn.reading
    /\ n = 0 => down = 0
    /\ down + n <= DownLen
    /\ down' = down + n
    /\ conn' = [conn EXCEPT !.reading = FALSE]
    /\ Enqueue([Block("adapterRead") EXCEPT !.n = n])
    /\ UNCHANGED <<delayed, sock, inflight, tunnel, adapter, up, fin, forwarded, unanswered>>

ConnWrites ==
    /\ conn.state = "open" /\ conn.writing # <<>>
    /\ forwarded' = forwarded \o conn.writing
    /\ conn' = [conn EXCEPT !.writing = <<>>]
    /\ Enqueue(Block("adapterWrote"))
    /\ UNCHANGED <<delayed, sock, inflight, tunnel, adapter, up, fin, down, unanswered>>

ConnGone ==
    /\ conn' = [conn EXCEPT !.state = "gone", !.reading = FALSE, !.writing = <<>>]
    /\ Enqueue(Block("adapterGone"))
    /\ UNCHANGED <<delayed, sock, inflight, tunnel, adapter, up, fin, forwarded, down, unanswered>>

\* disconnectAfterWriting is done, or the remote side or an error ends it.
ConnCloses == conn.state \in {"connecting", "open"} /\ conn.closing /\ conn.writing = <<>> /\ ConnGone

ConnFails == conn.state \in {"connecting", "open"} /\ ConnGone

\* ProxyServer.stop: Tunnel.forceClose, nothing for a tunnel that is closing.
ForceClose ==
    /\ ~tunnel.cancelled
    /\ sock' = [sock EXCEPT !.valid = FALSE]
    /\ LET proxy == IF sock.valid THEN "disconnecting" ELSE "closed"
       IN  tunnel' = [tunnel EXCEPT !.cancelled = TRUE, !.proxy = proxy,
                                    !.closed = IsClosed(proxy, adapter)]
    /\ adapter' = IF AdapterOpen THEN "disconnecting" ELSE adapter
    /\ conn' = IF AdapterOpen /\ conn.state # "gone"
               THEN [conn EXCEPT !.state = "gone", !.reading = FALSE, !.writing = <<>>, !.closing = TRUE]
               ELSE conn
    /\ queue' = queue \o Gone(sock, sock')
                \o (IF conn'.state # conn.state THEN <<Block("adapterGone")>> ELSE <<>>)
    /\ UNCHANGED <<delayed, inflight, up, fin, forwarded, down, unanswered>>

Next ==
    \/ Turn \/ Resolved \/ DelayEnds \/ LocalResets \/ Connects
    \/ ConnWrites \/ ConnCloses \/ ConnFails \/ ForceClose
    \/ \E n \in 0..UpLen, last \in BOOLEAN : (n > 0 \/ last) /\ LocalSends(n, last)
    \/ \E n \in 1..DownLen : LocalAcks(n)
    \/ \E n \in 0..DownLen : RemoteSends(n)

Spec == Init /\ [][Next]_vars

\* The queue runs its blocks, delays end, the resolver answers, a connection
\* attempt ends, CocoaAsyncSocket writes what it is given and disconnects
\* after it, and the device acknowledges what it is sent.  Nothing more is
\* asked of the remote side.
FairSpec ==
    /\ Spec
    /\ WF_vars(Turn) /\ WF_vars(DelayEnds) /\ WF_vars(Resolved) /\ WF_vars(Connects)
    /\ WF_vars(ConnWrites) /\ WF_vars(ConnCloses)
    /\ WF_vars(\E n \in 1..DownLen : LocalAcks(n))

-----------------------------------------------------------------------------
(* Properties *)

Blocks(type) == {i \in 1..Len(queue) : queue[i].type = type}

QueueBlock ==
    [type : {"open", "connected", "data", "read", "adapterWrote", "adapterRead", "wrote",
             "readAdapter", "gone", "adapterGone"},
     data : Seq(1..UpLen), n : 0..DownLen]

TypeOK ==
    /\ queue \in Seq(QueueBlock)
    /\ sock \in [valid : BOOLEAN, pending : Seq(1..UpLen), reading : BOOLEAN,
                 remain : Int, closing : BOOLEAN]
    /\ tunnel \in [cancelled : BOOLEAN, proxy : {"open", "disconnecting", "closed"},
                   forwarding : BOOLEAN, closed : BOOLEAN]
    /\ adapter \in {"none", "connecting", "established", "disconnecting", "closed"}
    /\ conn \in [state : {"none", "connecting", "open", "gone"}, reading : BOOLEAN,
                 writing : Seq(1..UpLen), closing : BOOLEAN]
    /\ delayed \in Nat /\ inflight \in Nat /\ up \in 0..UpLen

\* What the acknowledgements in queue q add up to, and with those to come.
Acknowledged(q) ==
    LET sum[i \in 0..Len(q)] ==
            IF i = 0 THEN 0 ELSE sum[i - 1] + (IF q[i].type = "wrote" THEN q[i].n ELSE 0)
    IN  sum[Len(q)]

ToBeAcknowledged == inflight + Acknowledged(queue)

\* The right to read the remote side and write to the local one is a read
\* under way, data on its way, data not yet acknowledged, or a read to come.
DownloadTurns ==
    (IF conn.reading THEN 1 ELSE 0) + Cardinality(Blocks("adapterRead"))
    + (IF ToBeAcknowledged > 0 THEN 1 ELSE 0)
    + delayed + Cardinality(Blocks("readAdapter"))

\* The right to read the local side is a waiting read, or data being written
\* to the remote one.
UploadTurns ==
    (IF sock.reading THEN 1 ELSE 0) + (IF conn.writing # <<>> THEN 1 ELSE 0)
    + Cardinality(Blocks("adapterWrote"))

\* Of each right there is exactly one while the tunnel forwards, and
\* remainWriteLength is what is still to be acknowledged.  The first is lost
\* only with a write of nothing or of too much, which no sent event follows
\* (TUNTCPSocket.didWriteData, checkReadData, Tunnel.didRead, didWrite).
OneTurnEach ==
    tunnel.forwarding /\ ~tunnel.cancelled /\ conn.state = "open" =>
        /\ UploadTurns = 1
        /\ sock.valid => DownloadTurns = (IF unanswered THEN 0 ELSE 1)
        /\ sock.valid /\ ~unanswered => sock.remain = ToBeAcknowledged

\* Until the connection is closed no byte of the device is lost, doubled or
\* out of order, wherever it is; afterwards what was forwarded is the
\* beginning of what the device sent.
UploadIntact ==
    /\ IsPrefix(forwarded, [i \in 1..up |-> i])
    /\ ~tunnel.cancelled /\ conn.state # "gone" =>
          forwarded \o conn.writing \o sock.pending
          \o FlattenSeq([i \in 1..Len(queue) |-> queue[i].data]) = [i \in 1..up |-> i]

\* A tunnel its server was told to forget holds neither a pcb nor a socket,
\* whichever side ended first and in whatever order the blocks ran.
ClosedReleased == tunnel.closed => ~sock.valid /\ conn.state \in {"none", "gone"}

\* "The socket will disconnect elegantly after any queued writing data are
\* successfully sent": but for a reset or a forced close, TUNTCPSocket gives
\* its pcb up with nothing in flight.
ElegantClose ==
    [][sock.valid /\ ~sock'.valid /\ sock'.closing
       => inflight = 0 \/ LocalResets \/ ForceClose]_vars

\* What the device has sent is handed to the remote side, or the connection
\* ends.
UploadForwarded == (Len(forwarded) < up) ~> (Len(forwarded) = up \/ tunnel.cancelled)

\* A connection that either side ends is closed on both and forgotten,
\* except when data too long for one write was dropped: remainWriteLength
\* then waits for an acknowledgement that nobody sends.
TunnelEnds ==
    (sock.closing \/ ~sock.valid \/ conn.state = "gone") ~> (tunnel.closed \/ sock.remain >= WriteLimit)
=============================================================================
