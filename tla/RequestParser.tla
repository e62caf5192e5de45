---------------------------- MODULE RequestParser ----------------------------
(***************************************************************************)
(* The HTTP request parser: web/request_parser.cpp and .hpp.  parse() feeds *)
(* the bytes of the receive buffer one by one to consume(), a state machine *)
(* that appends to the request's method, uri and headers as it goes, and    *)
(* stops at the first good or bad.  A byte is represented by a member of a  *)
(* small alphabet with one byte of every kind consume() tells apart.  The   *)
(* version numbers are not kept: nothing in the server reads them.          *)
(***************************************************************************)
EXTENDS Naturals, Sequences

CONSTANTS
    Chars,       \* the bytes a buffer may hold, a subset of Alphabet
    Given,       \* bound of the model: how every buffer starts
    MaxField,    \* bound of the model: bytes of the method, uri, a name, a value
    MaxHeaders,  \* bound of the model: headers of a request
    MaxInput     \* bound of the model: bytes fed to one parse

(* "G" is a letter without a role, "@" a tspecial without a role, "nul" a   *)
(* control character and "hi" a byte that is no ASCII character.            *)
Alphabet == {"H", "T", "P", "G", "1", ".", "/", ":", "@", "sp", "tab", "cr", "lf", "nul", "hi"}

ASSUME CharsAssumption == Chars \subseteq Alphabet /\ Given \in Seq(Alphabet)
ASSUME FieldBounds == {MaxField, MaxHeaders, MaxInput} \subseteq Nat

(* Operators named Mutant... are plausible slips in the definition behind   *)
(* them.  No specification uses them: they show that the properties notice. *)

IsChar(c) == c # "hi"
IsCtl(c) == c \in {"tab", "cr", "lf", "nul"}
IsTSpecial(c) == c \in {"/", ":", "@", "sp", "tab"}
IsDigit(c) == c = "1"
IsToken(c) == IsChar(c) /\ ~IsCtl(c) /\ ~IsTSpecial(c)

VARIABLES
    state,       \* state_
    method, uri, \* the request's fields, sequences of bytes
    headers,     \* the request's headers: name and value
    result,      \* what the last consume() returned
    input        \* history: the bytes consumed since parse() began

vars == <<state, method, uri, headers, result, input>>

Empty == [name |-> <<>>, value |-> <<>>]

Init ==
    /\ state = "method_start" /\ method = <<>> /\ uri = <<>> /\ headers = <<>>
    /\ result = "indeterminate" /\ input = <<>>

-----------------------------------------------------------------------------
(* The states that wait for one byte, and the state behind it.              *)
Expected ==
    [http_version_h |-> "H", http_version_t_1 |-> "T", http_version_t_2 |-> "T",
     http_version_p |-> "P", http_version_slash |-> "/",
     expecting_newline_1 |-> "lf", expecting_newline_2 |-> "lf",
     expecting_newline_3 |-> "lf", space_before_header_value |-> "sp"]
Behind ==
    [http_version_h |-> "http_version_t_1", http_version_t_1 |-> "http_version_t_2",
     http_version_t_2 |-> "http_version_p", http_version_p |-> "http_version_slash",
     http_version_slash |-> "http_version_major_start",
     expecting_newline_1 |-> "header_line_start", expecting_newline_2 |-> "header_line_start",
     expecting_newline_3 |-> "good", space_before_header_value |-> "header_value"]

MutantMethodMayEnd == state \in {"method_start", "method"}
MethodMayEnd == state = "method"

MutantMayFold == TRUE
MayFold == headers # <<>>

(* Where the byte c takes the parser.                                       *)
NextState(c) ==
    CASE state \in DOMAIN Expected /\ c = Expected[state] -> Behind[state]
      [] state \in {"method_start", "method"} /\ IsToken(c) -> "method"
      [] MethodMayEnd /\ c = "sp" -> "uri"
      [] state = "uri" /\ c = "sp" -> "http_version_h"
      [] state = "uri" /\ c # "sp" /\ ~IsCtl(c) -> "uri"
      [] state \in {"http_version_major_start", "http_version_major"} /\ IsDigit(c)
            -> "http_version_major"
      [] state = "http_version_major" /\ c = "." -> "http_version_minor_start"
      [] state \in {"http_version_minor_start", "http_version_minor"} /\ IsDigit(c)
            -> "http_version_minor"
      [] state = "http_version_minor" /\ c = "cr" -> "expecting_newline_1"
      [] state = "header_line_start" /\ c = "cr" -> "expecting_newline_3"
      [] state = "header_line_start" /\ MayFold /\ c \in {"sp", "tab"} -> "header_lws"
      [] state \in {"header_line_start", "header_name"} /\ IsToken(c) -> "header_name"
      [] state = "header_lws" /\ c \in {"sp", "tab"} -> "header_lws"
      [] state = "header_name" /\ c = ":" -> "space_before_header_value"
      [] state \in {"header_lws", "header_value"} /\ c = "cr" -> "expecting_newline_2"
      [] state = "header_lws" /\ c # "sp" /\ ~IsCtl(c) -> "header_value"
      [] state = "header_value" /\ ~IsCtl(c) -> "header_value"
      [] OTHER -> "bad"

(* headers.back(): undefined when there is none.                            *)
Back == headers[Len(headers)]
WithBack(h) == [headers EXCEPT ![Len(headers)] = h]

(* What the byte adds to the headers on its way to state n.                 *)
NextHeaders(c, n) ==
    CASE n = "header_name" /\ state = "header_line_start" ->
            Append(headers, [Empty EXCEPT !.name = <<c>>])
      [] n = "header_name" /\ state = "header_name" ->
            WithBack([Back EXCEPT !.name = Append(@, c)])
      [] n = "header_value" /\ state # "space_before_header_value" ->
            WithBack([Back EXCEPT !.value = Append(@, c)])
      [] OTHER -> headers

(* consume(): a byte that is not accepted leaves state_ where it is.        *)
Consume(c) ==
    /\ result = "indeterminate" /\ Len(input) < MaxInput
    /\ LET n == NextState(c) IN
       /\ result' = IF n \in {"good", "bad"} THEN n ELSE "indeterminate"
       /\ state' = IF n \in {"good", "bad"} THEN state ELSE n
       /\ method' = IF n = "method" THEN Append(method, c) ELSE method
       /\ uri' = IF n = "uri" /\ state = "uri" THEN Append(uri, c) ELSE uri
       /\ headers' = NextHeaders(c, n)
       /\ Len(method') <= MaxField /\ Len(uri') <= MaxField /\ Len(headers') <= MaxHeaders
       /\ headers' # <<>> =>
            Len(headers'[Len(headers')].name) <= MaxField /\ Len(headers'[Len(headers')].value) <= MaxField
    /\ input' = Append(input, c)

ClearedHeaders == <<>>

(* do_read's handler clears the fields (connection.cpp:583-585) and calls   *)
(* parse() again on the buffer from its start; parse() resets state_.       *)
Parse ==
    /\ state' = "method_start" /\ result' = "indeterminate" /\ input' = <<>>
    /\ method' = <<>> /\ uri' = <<>> /\ headers' = ClearedHeaders

Offered == IF Len(input) < Len(Given) THEN {Given[Len(input) + 1]} ELSE Chars

Next == Parse \/ \E c \in Offered : Consume(c)

Spec == Init /\ [][Next]_vars

-----------------------------------------------------------------------------
(***************************************************************************)
(* Properties.                                                              *)
(***************************************************************************)
Field == Seq(Alphabet)
States == DOMAIN Expected \cup
    {"method_start", "method", "uri", "http_version_major_start", "http_version_major",
     "http_version_minor_start", "http_version_minor", "header_line_start", "header_lws",
     "header_name", "header_value"}

TypeOK ==
    /\ state \in States /\ result \in {"good", "bad", "indeterminate"}
    /\ method \in Field /\ uri \in Field /\ input \in Field
    /\ headers \in Seq([name : Field, value : Field])

(* consume() calls headers.back() in the states of a header line; there     *)
(* always is a header then (request_parser.cpp:192, 204, 225, 240, 265).    *)
BackIsDefined ==
    state \in {"header_lws", "header_name", "space_before_header_value", "header_value",
               "expecting_newline_2"}
        => headers # <<>> /\ Back.name # <<>>
=============================================================================
