----------------------------- MODULE Conversion ------------------------------
(***************************************************************************)
(* The character set conversions of utf8.cpp, loops and single calls around *)
(* iconv with a buffer that may be too small: cconvert, z_convert with its  *)
(* callers strgb_to_utf8str and strutf8_to_gbstr, charconv, utf8_to_gb and  *)
(* gb_to_utf8.  A text is a sequence of characters with the bytes they take *)
(* before and after the conversion; what is converted is their number.      *)
(***************************************************************************)
EXTENDS Integers, Sequences, FiniteSetsExt, SeqHelpers

CONSTANTS
    Inputs,      \* the texts, see CharType
    Room         \* what callers of utf8_to_gb and gb_to_utf8 provide

(* A character, an illegal sequence, or one that is cut off by the end.  No *)
(* conversion the program asks for more than doubles a character or leaves  *)
(* nothing of it.                                                           *)
CharType == [kind : {"good", "bad", "cut"}, in : Nat \ {0}, out : Nat]

ConversionAssumption ==
    /\ Room \subseteq Nat
    /\ \A s \in Inputs :
          /\ s \in Seq(CharType)
          /\ \A i \in DOMAIN s :
                /\ s[i].out <= 2 * s[i].in
                /\ s[i].kind = "good" => s[i].out > 0
                /\ s[i].kind = "cut" => i = Len(s)

VARIABLES
    fn,          \* the function that runs, or "none"
    input,       \* its text
    taken,       \* characters of it that iconv has consumed
    out,         \* what the buffer holds: the numbers of the converted characters
    size,        \* the buffer's size, outlen
    cd,          \* whether the iconv descriptor is open
    owned,       \* whether the function holds a buffer of its own
    discard,     \* ICONV_SET_DISCARD_ILSEQ
    rounds,      \* history: calls of iconv
    result       \* none, text (the buffer), source (the text as it came) or error

vars == <<fn, input, taken, out, size, cd, owned, discard, rounds, result>>

Init ==
    /\ fn = "none" /\ input = <<>> /\ taken = 0 /\ out = <<>> /\ size = 0
    /\ cd = FALSE /\ owned = FALSE /\ discard = FALSE /\ rounds = 0 /\ result = "none"

(* Operators named Mutant... are plausible slips in the definition behind   *)
(* them.  No specification uses them: they show that the properties notice. *)

BytesIn(s) == SumOf([i \in DOMAIN s |-> s[i].in])
BytesOut(nums) == SumOf([i \in DOMAIN nums |-> input[nums[i]].out])
InLeft(k) == BytesIn(SubSeq(input, k + 1, Len(input)))

-----------------------------------------------------------------------------
(* iconv converts up to an illegal sequence, the end, a character that is   *)
(* cut off, or one that does not fit.                                       *)
Good(from, upto) == {i \in from .. upto : input[i].kind = "good"}
Numbers(k) == Ascending(Good(taken + 1, k), k)
Reaches(k) ==
    /\ \A i \in taken + 1 .. k : input[i].kind = "good" \/ (input[i].kind = "bad" /\ discard)
    /\ BytesOut(out \o Numbers(k)) <= size
Reached == Max({k \in taken .. Len(input) : Reaches(k)})
Errno ==
    IF Reached = Len(input) THEN "none"
    ELSE [good |-> "E2BIG", bad |-> "EILSEQ", cut |-> "EINVAL"][input[Reached + 1].kind]

Iconv ==
    /\ taken' = Reached
    /\ out' = out \o Numbers(Reached)
    /\ rounds' = rounds + 1

(* A function opens its descriptor and provides its buffer.                 *)
Begin(f, s, bytes, own) ==
    /\ fn = "none"
    /\ fn' = f /\ input' = s /\ size' = bytes /\ owned' = own /\ cd' = TRUE
    /\ UNCHANGED <<taken, out, discard, rounds, result>>

(* It returns: r is what it returns, closed and freed what it gives back.   *)
Return(r, closed, freed) ==
    /\ result' = r
    /\ cd' = ~closed /\ owned' = (owned /\ ~freed)
    /\ UNCHANGED <<fn, input, size, discard>>

Running(f) == fn = f /\ result = "none"

-----------------------------------------------------------------------------
(* cconvert: a buffer of the size of the text, made larger when iconv asks. *)
(* It ends with four NULs, for which malloc is asked beyond outlen.         *)
CConvert(s) == Begin("cconvert", s, BytesIn(s), TRUE)

MutantGrown == size + InLeft(taken')
Grown == size + InLeft(taken') * 2 + 8
CConvertGrows ==
    /\ Running("cconvert") /\ Errno = "E2BIG"
    /\ Iconv
    /\ \/ size' = Grown /\ UNCHANGED <<fn, input, cd, owned, discard, result>>
       \/ Return("error", TRUE, TRUE)       \* realloc failed

CConvertEnds ==
    /\ Running("cconvert") /\ Errno # "E2BIG"
    /\ Iconv
    /\ \/ Errno \in {"none", "EINVAL"} /\ Return("text", TRUE, FALSE)
       \/ Errno = "EILSEQ" /\ Return("error", TRUE, TRUE)

(* strgb_to_utf8str and strutf8_to_gbstr: four times the text; the text as  *)
(* it came is returned when nothing was converted.  Both free the buffer.   *)
ZConvert(s) == s # <<>> /\ Begin("z_convert", s, 4 * BytesIn(s), TRUE)

(* An illegal sequence: iconv goes on without it.                           *)
ZConvertSkips ==
    /\ Running("z_convert") /\ Errno = "EILSEQ"
    /\ Iconv
    /\ discard' = TRUE
    /\ UNCHANGED <<fn, input, size, cd, owned, result>>

Status == BytesOut(out')                   \* strlen(save)
ZConvertEnds ==
    /\ Running("z_convert") /\ Errno # "EILSEQ"
    /\ Iconv
    /\ Return(IF Errno # "E2BIG" /\ Status > 0 THEN "text" ELSE "source", TRUE, TRUE)

(* charconv: one call with four times the text, and a NUL behind the end of *)
(* what was written, wherever that is.  The buffer is the caller's then.    *)
CharConv(s) == Begin("charconv", s, 4 * BytesIn(s), TRUE)
CharConvEnds ==
    /\ Running("charconv") /\ Iconv
    /\ Return("text", TRUE, FALSE)

(* utf8_to_gb, and gb_to_utf8: one call with the caller's buffer; the       *)
(* descriptor stays open when the call fails.                               *)
Utf8ToGb(s) == \E bytes \in Room : Begin("utf8_to_gb", s, bytes, FALSE)
Utf8ToGbEnds ==
    /\ Running("utf8_to_gb") /\ Iconv
    /\ \/ Errno = "none" /\ Return("text", TRUE, FALSE)
       \/ Errno # "none" /\ Return("error", FALSE, FALSE)

Next ==
    \/ \E s \in Inputs : CConvert(s) \/ ZConvert(s) \/ CharConv(s) \/ Utf8ToGb(s)
    \/ CConvertGrows \/ CConvertEnds \/ ZConvertSkips \/ ZConvertEnds
    \/ CharConvEnds \/ Utf8ToGbEnds

-----------------------------------------------------------------------------
(***************************************************************************)
(* Properties.                                                              *)
(***************************************************************************)
(* The good characters in front of the first one that stops a conversion.   *)
GoodNumbers(stops) ==
    LET ends == {i \in DOMAIN input : input[i].kind \in stops}
        upto == IF ends = {} THEN Len(input) ELSE Min(ends) - 1
    IN  Ascending(Good(1, upto), upto)

(* A conversion that returns a text returns all of it: each character once, *)
(* in order, up to one that is cut off, over any number of calls of iconv   *)
(* (charconv and the callers' buffers make no such promise beyond what the  *)
(* single call takes); cconvert needs one larger buffer at most, and the    *)
(* NULs behind the text lie within what was allocated, but for charconv of  *)
(* an empty text: it allocates nothing and writes a NUL behind that.        *)
ConvertedWhole ==
    /\ result = "text" /\ fn = "cconvert" => out = GoodNumbers({"bad", "cut"})
    /\ result = "text" /\ fn = "z_convert" => out = GoodNumbers({"cut"})
    /\ result = "source" => GoodNumbers({"cut"}) = <<>>
    /\ result = "text" /\ fn = "utf8_to_gb" => out = GoodNumbers({}) /\ Len(out) = Len(input)
    /\ fn = "cconvert" => rounds <= 2 /\ BytesOut(out) <= size
    /\ fn \in {"z_convert", "charconv"} => BytesOut(out) < size \/ (fn = "charconv" /\ input = <<>>)
    /\ result # "none" /\ fn # "utf8_to_gb" => ~cd
    /\ result = "error" \/ (result # "none" /\ fn = "z_convert") => ~owned
=============================================================================
