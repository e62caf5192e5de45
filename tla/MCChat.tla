-------------------------------- MODULE MCChat --------------------------------
(* Two windows, of one browser or of two.                                   *)
EXTENDS Chat

CONSTANTS w1, w2, b1, b2

TwoWindows == {w1, w2}
Same == [w \in TwoWindows |-> b1]
Apart == [w \in TwoWindows |-> IF w = w1 THEN b1 ELSE b2]
SameOrNot == {Same, Apart}

(* One io thread and a command that brings the browser of both windows a    *)
(* cookie or clears the mailbox; two, whose polls share the empty session,  *)
(* with enough messages to trim; four, and two browsers of which one has    *)
(* the id of an earlier run.                                                *)
NoCookie == [b \in {b1, b2} |-> NoSid]
OldCookie == [b \in {b1, b2} |-> IF b = b2 THEN w1 ELSE NoSid]
ThreeLoads ==
    [n \in {1, 2, 4} |->
        CASE n = 1 -> Load(2, 1, {<<Same, NoCookie>>})
          [] n = 2 -> Load(3, 0, {<<Same, NoCookie>>})
          [] n = 4 -> Load(2, 0, {<<Apart, OldCookie>>})]
=============================================================================
