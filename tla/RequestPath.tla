----------------------------- MODULE RequestPath -----------------------------
(***************************************************************************)
(* From the uri of a request to the file it names: url_decode and           *)
(* get_fullpath of web/request_handler.cpp.  Beside them the url coders of  *)
(* utf8.cpp, of which url_encode serves as the client's encoding.  A text   *)
(* is a sequence of bytes.                                                  *)
(***************************************************************************)
EXTENDS Integers, Sequences, SequencesExt, SeqHelpers

CONSTANTS
    DocRoot,     \* doc_root_
    Index        \* "index.html"

Slash == 47
Dot == 46
Percent == 37
Plus == 43
Minus == 45
Blank == 32

(* Operators named Mutant... are plausible slips in the definition behind   *)
(* them.  No specification uses them: they show that the properties notice. *)

Digit == 48 .. 57
Lower == 97 .. 122
Upper == 65 .. 90
IsHex(c) == c \in Digit \cup 97 .. 102 \cup 65 .. 70

(* to_hex, and from_hex for hexadecimal digits.                             *)
ToHex(n) == IF n < 10 THEN 48 + n ELSE 87 + n
FromHex(c) == IF c \in Digit THEN c - 48 ELSE IF c \in Lower THEN c - 87 ELSE c - 55

(* url_encode.                                                              *)
Kept == Digit \cup Lower \cup Upper \cup {Minus, 95, Dot, 126}
EncodedByte(c) == IF c \in Kept THEN <<c>> ELSE IF c = Blank THEN <<Plus>>
                  ELSE <<Percent, ToHex(c \div 16), ToHex(c % 16)>>
UrlEncode(s) == FlattenSeq([i \in DOMAIN s |-> EncodedByte(s[i])])

(* utf8.cpp's url_decode: a percent sign without two bytes behind it is     *)
(* left out.                                                                *)
LaxDecode(s) ==
    LET from[i \in 1 .. Len(s) + 1] ==
            IF i > Len(s) THEN <<>>
            ELSE IF s[i] = Percent
                 THEN IF i + 2 > Len(s) THEN from[i + 1]
                      ELSE <<16 * FromHex(s[i + 1]) + FromHex(s[i + 2])>> \o from[i + 3]
            ELSE <<IF s[i] = Plus THEN Blank ELSE s[i]>> \o from[i + 1]
    IN  from[1]

(* What a stream of two bytes yields as a hexadecimal int: it may begin     *)
(* with a sign, and a byte that does not belong to the number is ignored.   *)
NoNumber == -256
HexNumber(c, d) ==
    CASE IsHex(c) /\ IsHex(d) -> 16 * FromHex(c) + FromHex(d)
      [] IsHex(c) /\ ~IsHex(d) /\ ~(c = 48 /\ d \in {88, 120}) -> FromHex(c)
      [] c = Plus /\ IsHex(d) -> FromHex(d)
      [] c = Minus /\ IsHex(d) -> -FromHex(d)
      [] OTHER -> NoNumber

(* request_handler::url_decode.                                             *)
Failed == [ok |-> FALSE, out |-> <<>>]
UrlDecode(s) ==
    LET behind(c, rest) == IF rest.ok THEN [ok |-> TRUE, out |-> <<c>> \o rest.out] ELSE Failed
        from[i \in 1 .. Len(s) + 1] ==
            IF i > Len(s) THEN [ok |-> TRUE, out |-> <<>>]
            ELSE IF s[i] = Percent
                 THEN IF i + 2 > Len(s) \/ HexNumber(s[i + 1], s[i + 2]) = NoNumber THEN Failed
                      ELSE behind(HexNumber(s[i + 1], s[i + 2]) % 256, from[i + 3])
            ELSE behind(IF s[i] = Plus THEN Blank ELSE s[i], from[i + 1])
    IN  from[1]

DotDot(p) == \E i \in 1 .. Len(p) - 1 : p[i] = Dot /\ p[i + 1] = Dot
LastOf(c, p) == SelectLastInSeq(p, LAMBDA b : b = c)
Behind(i, p) == SubSeq(p, i + 1, Len(p))

RequestPathAssumption == DocRoot \in Seq(Bytes) /\ Index \in Seq(Bytes) /\ ~DotDot(Index)

MutantAbsolute(p) == p # <<>> /\ p[1] = Slash
Absolute(p) == p # <<>> /\ p[1] = Slash /\ ~DotDot(p)
WithIndex(p) == IF Last(p) = Slash THEN p \o Index ELSE p
UnderRoot(p) == IF IsPrefix(DocRoot, p) THEN p ELSE DocRoot \o p

(* get_fullpath: ok is FALSE where it returns an empty path, with a 400 in  *)
(* the reply that its caller does not look at (Replies).                    *)
FullPath(uri) ==
    LET decoded == UrlDecode(uri)
        p == WithIndex(decoded.out)
        slash == LastOf(Slash, p)
        dot == LastOf(Dot, p)
    IN  IF ~decoded.ok \/ ~Absolute(decoded.out) THEN [ok |-> FALSE]
        ELSE [ok |-> TRUE, path |-> UnderRoot(p), filename |-> Behind(slash, p),
              extension |-> IF dot > slash THEN Behind(dot, p) ELSE <<>>]

-----------------------------------------------------------------------------
(***************************************************************************)
(* Properties of a text, taken as a uri and as the path of a file.          *)
(***************************************************************************)
(* A path of the file system lies below the root, as text.                  *)
BelowRoot(p) == IsPrefix(DocRoot \o <<Slash>>, p)

(* A file name that the client encoded comes back from both decoders, and   *)
(* names the file: below the root, unless the name itself begins with the   *)
(* text of the root, when it is taken as it is (with the root /a, the name  *)
(* /aa is the file /aa).  Whatever the uri, a path that is accepted lies    *)
(* below the root with the same exception, does not climb (unless the root  *)
(* does), and is split into its file name and what follows the name's last  *)
(* dot.                                                                     *)
PathFound(s) ==
    LET encoded == UrlEncode(s)
        asked == FullPath(encoded)
        raw == FullPath(s)
    IN  /\ UrlDecode(encoded) = [ok |-> TRUE, out |-> s]
        /\ LaxDecode(encoded) = s
        /\ asked.ok <=> s # <<>> /\ s[1] = Slash /\ ~DotDot(s)
        /\ asked.ok =>
              /\ IsSuffix(WithIndex(s), asked.path)
              /\ BelowRoot(asked.path) \/ (asked.path = WithIndex(s) /\ IsPrefix(DocRoot, asked.path))
        /\ raw.ok =>
              /\ BelowRoot(raw.path)
                 \/ (raw.path = WithIndex(UrlDecode(s).out) /\ IsPrefix(DocRoot, raw.path))
              /\ (DotDot(raw.path) => DotDot(DocRoot))
              /\ IsSuffix(raw.filename, raw.path)
              /\ Slash \notin ToSet(raw.filename)
              /\ raw.path[Len(raw.path) - Len(raw.filename)] = Slash
              /\ Dot \in ToSet(raw.filename) =>
                    /\ IsSuffix(<<Dot>> \o raw.extension, raw.filename)
                    /\ Dot \notin ToSet(raw.extension)
=============================================================================
