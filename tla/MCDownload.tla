----------------------------- MODULE MCDownload ------------------------------
(* Instances of Download for TLC: what clients ask for.                     *)
EXTENDS Download

(* Before, at and behind the edges of chunks, of the shorter file and of an *)
(* int; the longer file does not fit an int.                                *)
Edges == {None, 0, 2, 6, 7, 9, MaxInt - 1, MaxInt}

(* Whole files, and ranges between the edges.                               *)
AnyRange ==
    {[NoAsk EXCEPT !.db = d] : d \in BOOLEAN}
    \cup {[db |-> d, range |-> TRUE, first |-> a, last |-> b] :
            d \in BOOLEAN, a \in Edges, b \in Edges}

Few == 0 .. 2
=============================================================================
