---------------------------- MODULE MCConnection -----------------------------
(* Instances of Connection for TLC: what clients send.                      *)
EXTENDS Connection

Req(p, h, b, l, a) == [post |-> p, hdr |-> h, body |-> b, length |-> l, answer |-> a]

Download == Req(FALSE, 1, 0, NoLength, "stream")
Missing == Req(FALSE, 1, 0, NoLength, "write")
BadRange == Req(FALSE, 1, 0, NoLength, "nothing")
Post(b) == Req(TRUE, 1, b, b, "write")
PostStream(b) == Req(TRUE, 1, b, b, "stream")

(* Headers that arrive in one piece, bodies that fit the buffer.            *)
Browsing == <<Download, PostStream(3), Download, Post(2), Missing>>

(* A body that does not fit, a range without an answer, a header in two.    *)
Mixed == <<PostStream(2), BadRange, PostStream(7), Download, Req(TRUE, 2, 1, 1, "stream"), Post(1)>>
SplitHeader == <<Req(FALSE, 2, 0, NoLength, "stream")>>

AllClients ==
    <<[requests |-> Browsing, pipelined |-> FALSE], [requests |-> Browsing, pipelined |-> TRUE],
      [requests |-> Mixed, pipelined |-> TRUE]>>
OneHeader == <<[requests |-> SplitHeader, pipelined |-> FALSE]>>

Uninitialised == 0 .. 2
=============================================================================
