----------------------------- MODULE ByteStream -----------------------------
(***************************************************************************)
(* What a TCP connection promises to the application that reads it: the    *)
(* bytes 1..StreamLen of the peer, each once and in order, in pieces of    *)
(* any size, and the end of the stream after the last of them.             *)
(***************************************************************************)
EXTENDS Integers, Sequences

CONSTANT StreamLen      \* the number of bytes the peer sends

VARIABLES
    delivered,          \* the bytes the application has been given
    eof                 \* whether it has been told of the end

streamVars == <<delivered, eof>>

StreamInit == delivered = <<>> /\ eof = FALSE

\* The next bytes, if any, and with the last ones possibly the end.
StreamStep ==
    /\ ~eof
    /\ \E n \in Len(delivered)..StreamLen :
          /\ delivered' = [i \in 1..n |-> i]
          /\ eof' \in {FALSE, n = StreamLen}

StreamSpec == StreamInit /\ [][StreamStep]_streamVars
=============================================================================
