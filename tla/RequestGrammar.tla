--------------------------- MODULE RequestGrammar ----------------------------
(***************************************************************************)
(* What RequestParser is to accept, written line by line and without its    *)
(* states: a request is a request line, header lines, each perhaps folded   *)
(* over lines that start with a blank, and an empty line.                   *)
(***************************************************************************)
EXTENDS RequestParser, SeqHelpers

Blank == {"sp", "tab"}
Http == <<"H", "T", "T", "P", "/">>
Tokens(s) == \A i \in DOMAIN s : IsToken(s[i])
Printable(s) == \A i \in DOMAIN s : ~IsCtl(s[i])

(* The lines of a text that have ended, without their ends, and what lies   *)
(* behind the last line end.                                                *)
LineEnds(text) == {i \in 1 .. Len(text) - 1 : text[i] = "cr" /\ text[i + 1] = "lf"}
Ends(text) == Ascending(LineEnds(text), Len(text))
Begin(e, i) == IF i = 1 THEN 1 ELSE e[i - 1] + 2
Lines(text) ==
    LET e == Ends(text) IN [i \in 1 .. Len(e) |-> SubSeq(text, Begin(e, i), e[i] - 1)]
Open(text) == LET e == Ends(text) IN SubSeq(text, Begin(e, Len(e) + 1), Len(text))

(* "METHOD uri HTTP/1.1": the ways to read a line as a request line, by the *)
(* places of the blanks before the uri and before the version.              *)
IsVersion(v) ==
    \E dot \in 7 .. Len(v) - 1 :
        /\ \A i \in 1 .. 5 : v[i] = Http[i]
        /\ v[dot] = "."
        /\ \A i \in 6 .. Len(v) : i # dot => IsDigit(v[i])
MethodIn(line, p) == SubSeq(line, 1, p.uri - 1)
UriIn(line, p) == SubSeq(line, p.uri + 1, p.version - 1)
RequestLines(line) ==
    {p \in [uri : 2 .. Len(line), version : DOMAIN line] :
        /\ p.uri < p.version /\ line[p.uri] = "sp" /\ line[p.version] = "sp"
        /\ Tokens(MethodIn(line, p))
        /\ Printable(UriIn(line, p)) /\ \A i \in p.uri + 1 .. p.version - 1 : line[i] # "sp"
        /\ IsVersion(SubSeq(line, p.version + 1, Len(line)))}

(* "Name: value": the place of the colon, or none.                          *)
Colons(line) ==
    {p \in 2 .. Len(line) - 1 :
        /\ line[p] = ":" /\ line[p + 1] = "sp"
        /\ Tokens(SubSeq(line, 1, p - 1))
        /\ Printable(SubSeq(line, p + 2, Len(line)))}
HeaderOf(line) ==
    LET p == CHOOSE p \in Colons(line) : TRUE
    IN  [name |-> SubSeq(line, 1, p - 1), value |-> SubSeq(line, p + 2, Len(line))]

(* A line that starts with a blank continues the value of the header above  *)
(* it, behind its blanks.                                                   *)
IsFolded(line) == line # <<>> /\ line[1] \in Blank
Ink(line) == {i \in DOMAIN line : line[i] \notin Blank}
FoldStart(line) ==
    IF Ink(line) = {} THEN Len(line) + 1
    ELSE CHOOSE i \in Ink(line) : \A j \in Ink(line) : i <= j
FoldText(line) == SubSeq(line, FoldStart(line), Len(line))
Continued(hs, text) ==
    LET h == hs[Len(hs)]
    IN  [hs EXCEPT ![Len(hs)] = [name |-> h.name, value |-> h.value \o text]]

(* The headers in a block of header lines.                                  *)
IsHeaderLine(ls, i) ==
    IF IsFolded(ls[i]) THEN i > 1 /\ Printable(FoldText(ls[i])) ELSE Colons(ls[i]) # {}
HeadersIn(ls) ==
    LET upto[k \in 0 .. Len(ls)] ==
            IF k = 0 THEN <<>>
            ELSE IF IsFolded(ls[k]) THEN Continued(upto[k - 1], FoldText(ls[k]))
            ELSE Append(upto[k - 1], HeaderOf(ls[k]))
    IN  upto[Len(ls)]

HeaderBlock(ls) == SubSeq(ls, 2, Len(ls) - 1)

IsRequest(text) ==
    LET ls == Lines(text) IN
    /\ Len(ls) >= 2 /\ Open(text) = <<>>
    /\ RequestLines(ls[1]) # {}
    /\ \A i \in DOMAIN HeaderBlock(ls) : IsHeaderLine(HeaderBlock(ls), i)
    /\ ls[Len(ls)] = <<>>

(* The fields of a request text.                                            *)
Places(text) == CHOOSE p \in RequestLines(Lines(text)[1]) : TRUE
MethodOf(text) == MethodIn(Lines(text)[1], Places(text))
UriOf(text) == UriIn(Lines(text)[1], Places(text))
HeadersOf(text) == HeadersIn(HeaderBlock(Lines(text)))

(* The parser says good exactly at the end of a request, never before and   *)
(* never to another text, and the fields it collected are the request's     *)
(* (request_parser.cpp:27-283).                                             *)
AgreesWithGrammar ==
    /\ result = "good" <=> IsRequest(input)
    /\ result = "good" =>
         method = MethodOf(input) /\ uri = UriOf(input) /\ headers = HeadersOf(input)

(* For the cfg files.                                                       *)
Nothing == <<>>
=============================================================================
