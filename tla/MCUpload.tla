------------------------------- MODULE MCUpload -------------------------------
(* Instances of Upload for TLC: what clients send.                          *)
EXTENDS Upload

Up(db, h, d, c, ep, ex) ==
    [db |-> db, hdr |-> h, dashes |-> d, content |-> c, epilogue |-> ep, extra |-> ex]

Contents == {<<>>, <<"-">>, <<"x">>, <<"x", "-", "-">>, <<"-", "x", "x", "-">>}

(* Every content with the dashes a boundary may have; a closing line that   *)
(* is not the end, bytes of a next request, a header that fills the buffer. *)
AnyUpload ==
    {Up(db, 1, d, c, 0, 0) : db \in BOOLEAN, d \in {2, 4, 5}, c \in Contents}
    \cup {Up(db, 1, 4, <<"x", "-">>, ep, ex) : db \in BOOLEAN, ep \in {0, 6}, ex \in {0, 1}}
    \cup {Up(db, 18, 2, <<"x">>, 0, 0) : db \in BOOLEAN}
    \cup {Up(db, 1, 2, <<>>, 5, 0) : db \in BOOLEAN}
=============================================================================
