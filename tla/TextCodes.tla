------------------------------ MODULE TextCodes ------------------------------
(***************************************************************************)
(* The conversions of utf8.cpp that walk over a text of bytes: isutf8,      *)
(* isgbk, isgbk1 and convert, which turns the GBK characters of a mixed     *)
(* text into UTF-8, and utojson and sutojson, which escape a text.          *)
(***************************************************************************)
EXTENDS Integers, Sequences, SequencesExt, SeqHelpers

(* Operators named Mutant... are plausible slips in the definition behind   *)
(* them.  No specification uses them: they show that the properties notice. *)

(* The lead bytes of a character of n bytes: the bits of 255 << (8 - n).    *)
LeadMask(n) == <<128, 192, 224, 240, 248, 252, 254>>[n]

(* isutf8: the number of bytes of the character s begins with, or 0.  The   *)
(* test of the bytes behind the first is never met, so any byte will do.    *)
IsUtf8(s) == Max({0} \cup {n \in 2 .. 7 : s[1] >= LeadMask(n) /\ n <= Len(s)})

(* isgbk: of the two ranges for the second byte, the lower one is empty.    *)
IsGbk(s) == Len(s) > 2 /\ s[1] \in 129 .. 254 /\ s[2] \in 161 .. 254

(* What convert takes from the front of s: that many bytes, and whether     *)
(* they are one GBK character.                                              *)
Piece(s) ==
    IF IsUtf8(s) > 0 THEN [length |-> IsUtf8(s), gbk |-> FALSE]
    ELSE IF IsGbk(s) THEN [length |-> 2, gbk |-> TRUE]
    ELSE [length |-> 1, gbk |-> FALSE]

(* iconv from GBK, for one character: its number.                           *)
Transcoded(s) == <<256 * s[1] + s[2]>>

(* convert, and isgbk1.                                                     *)
Convert(s) ==
    LET from[i \in 1 .. Len(s) + 1] ==
            IF i > Len(s) THEN <<>>
            ELSE LET f == Piece(SubSeq(s, i, Len(s)))
                     c == SubSeq(s, i, i + f.length - 1)
                 IN  (IF f.gbk THEN Transcoded(c) ELSE c) \o from[i + f.length]
    IN  from[1]
IsGbk1(s) ==
    LET from[i \in 1 .. Len(s) + 1] ==
            /\ i <= Len(s)
            /\ LET f == Piece(SubSeq(s, i, Len(s))) IN f.gbk \/ from[i + f.length]
    IN  from[1]

(* utojson escapes with a backslash and drops the other control characters; *)
(* bytes above 127 are negative chars and stay, and a NUL stays too: Escape *)
(* is what the buffer holds.                                                *)
Backslash == 92
JsonEscaped == {34, Backslash, 47, 8, 12, 13, 10, 9}
Dropped(c) == c \in 1 .. 31 /\ c \notin JsonEscaped
Escape(s, escaped) ==
    FlattenSeq([i \in DOMAIN s |->
        CASE s[i] \in escaped -> <<Backslash, s[i]>>
          [] s[i] \notin escaped /\ Dropped(s[i]) -> <<>>
          [] OTHER -> <<s[i]>>])

(* What is returned is the buffer up to its first NUL.                      *)
Nul == 0
Nuls(s) == {i \in DOMAIN s : s[i] = Nul}
CString(s) == IF Nuls(s) = {} THEN s ELSE SubSeq(s, 1, Min(Nuls(s)) - 1)

MutantUtojson(s) == CString(Escape(s, JsonEscaped \ {Backslash}))
Utojson(s) == CString(Escape(s, JsonEscaped))

(* sutojson: without the blanks at both ends, and the white space inside    *)
(* stays as it is.                                                          *)
Visible(s) == {i \in DOMAIN s : s[i] \notin 9 .. 13 \cup {32}}
BoostTrim(s) == IF Visible(s) = {} THEN <<>> ELSE SubSeq(s, Min(Visible(s)), Max(Visible(s)))
Sutojson(s) == CString(Escape(BoostTrim(s), {34, Backslash, 47}))

-----------------------------------------------------------------------------
(***************************************************************************)
(* Properties of a text.                                                    *)
(***************************************************************************)
(* UTF-8 text: every character as long as its lead byte says.               *)
Tail1 == 128 .. 191
CharLength(c) ==
    CASE c < 128 -> 1 [] c \in 194 .. 223 -> 2 [] c \in 224 .. 239 -> 3
      [] c \in 240 .. 244 -> 4 [] OTHER -> 0
WellFormed(s) ==
    LET from[i \in 1 .. Len(s) + 1] ==
            \/ i = Len(s) + 1
            \/ /\ CharLength(s[i]) > 0 /\ i + CharLength(s[i]) <= Len(s) + 1
               /\ \A j \in i + 1 .. i + CharLength(s[i]) - 1 : s[j] \in Tail1
               /\ from[i + CharLength(s[i])]
    IN  from[1]

(* What a reader of the escaped text sees.                                  *)
Unescape(s) ==
    LET from[i \in 1 .. Len(s) + 1] ==
            CASE i > Len(s) -> <<>>
              [] s[i] = Backslash /\ i < Len(s) -> <<s[i + 1]>> \o from[i + 2]
              [] OTHER -> <<s[i]>> \o from[i + 1]
    IN  from[1]

(* Text that is UTF-8 already is never taken for GBK and passes convert     *)
(* unchanged, although lead bytes, second bytes and GBK bytes overlap and   *)
(* nothing behind a lead byte is looked at.                                 *)
Utf8Passes(s) == WellFormed(s) => Convert(s) = s /\ ~IsGbk1(s)

(* A text without the control characters that are dropped.                  *)
Undropped(s) == FlattenSeq([i \in DOMAIN s |-> IF Dropped(s[i]) THEN <<>> ELSE <<s[i]>>])

(* Escaping is undone by reading, up to the first NUL of the text and but   *)
(* for the control characters that are dropped; what is behind a NUL is     *)
(* lost.  The buffer of 2 * len + 1 bytes holds the escaped text.           *)
EscapesUndone(s) ==
    /\ Unescape(Utojson(s)) = Undropped(CString(s))
    /\ Unescape(Sutojson(s)) = Undropped(CString(BoostTrim(s)))
    /\ Len(Escape(s, JsonEscaped)) <= 2 * Len(s)
=============================================================================
