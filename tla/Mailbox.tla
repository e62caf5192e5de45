------------------------------- MODULE Mailbox -------------------------------
(***************************************************************************)
(* What the chat mailbox promises its clients, without locks, cursors or    *)
(* threads: messages are posted in an order, each session receives every    *)
(* message once and in that order, and a message may only be missed when    *)
(* the mailbox forgot it (it keeps the newest) or was cleared before the    *)
(* session polled.                                                          *)
(***************************************************************************)
EXTENDS Integers, Sequences

CONSTANTS
    Sids,        \* the sessions
    MaxKeep,     \* the mailbox forgets nothing until it holds more than this
    Drop,        \* and then at most this many of the oldest messages
    First        \* the first message sessions receive

VARIABLES box, next, delivered

Init == box = <<>> /\ next = 0 /\ delivered = [s \in Sids |-> <<>>]

Post == box' = Append(box, next) /\ next' = next + 1 /\ UNCHANGED delivered

Forget ==
    /\ Len(box) > MaxKeep
    /\ \E d \in 1 .. Drop : box' = SubSeq(box, d + 1, Len(box))
    /\ UNCHANGED <<next, delivered>>

Clear == box' = <<>> /\ UNCHANGED <<next, delivered>>

(* The places in the box of what s has not received.                        *)
UnreadAt(s) ==
    {j \in DOMAIN box : box[j] >= First /\ \A a \in DOMAIN delivered[s] : delivered[s][a] # box[j]}

(* A poll leaves nothing out, so these are always the newest messages.      *)
Unread(s) ==
    LET d == CHOOSE d \in 0 .. Len(box) : UnreadAt(s) = d + 1 .. Len(box)
    IN  SubSeq(box, d + 1, Len(box))

Poll(s) ==
    /\ delivered' = [delivered EXCEPT ![s] = @ \o Unread(s)]
    /\ UNCHANGED <<box, next>>

Next == Post \/ Forget \/ Clear \/ \E s \in Sids : Poll(s)

Spec == Init /\ [][Next]_<<box, next, delivered>>
=============================================================================
