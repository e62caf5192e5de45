----------------------------- MODULE SeqHelpers ------------------------------
(***************************************************************************)
(* Bytes; sums and selections, written as recursive functions over          *)
(* positions so that they can be proved about.                              *)
(***************************************************************************)
EXTENDS Integers, Sequences

(* What a char holds.                                                       *)
Bytes == 0 .. 255

(* The sum of a sequence of numbers.                                        *)
SumOf(s) ==
    LET upto[k \in 0 .. Len(s)] == IF k = 0 THEN 0 ELSE upto[k - 1] + s[k]
    IN  upto[Len(s)]

(* The numbers in S from 1 to n, in their order.                            *)
Ascending(S, n) ==
    LET upto[k \in 0 .. n] ==
            IF k = 0 THEN <<>>
            ELSE IF k \in S THEN Append(upto[k - 1], k) ELSE upto[k - 1]
    IN  upto[n]
=============================================================================
