----------------------------- MODULE MCHelpers -------------------------------
(***************************************************************************)
(* What TLC gives the helpers.                                              *)
(***************************************************************************)
EXTENDS Helpers

(* Two dictionaries with words that begin alike and a word of letters only, *)
(* and the same character twice among the frequencies.                      *)
Line(w, c) == [word |-> w, cx |-> c]
FewDictionaries ==
    {<<Line(<<"x">>, "w"), Line(<<"x", "y">>, "m"), Line(<<"y", "z">>, "v"),
       Line(<<"x", "y", "z">>, "u")>>,
     <<Line(<<"x", "y">>, "m"), Line(<<"x">>, "w"), Line(<<"x", "a">>, "k"),
       Line(<<"a", "a">>, "l"), Line(<<"z", "z", "z">>, "l")>>}
FewFrequencies ==
    <<[ch |-> "x", log |-> 1], [ch |-> "z", log |-> 3], [ch |-> "x", log |-> 5]>>
ShortTexts == UNION {[1 .. n -> {"a", "x", "y", "z"}] : n \in 1 .. 5}

FewValues == [host |-> {"h1"}, cmd |-> {"c1"}, sid |-> {"s1"}, result |-> {"r1"}]

(* Up to four characters of any kind, the last one cut off or not.          *)
Char(k, i, o) == [kind |-> k, in |-> i, out |-> o]
WholeChars == {Char("good", 1, 1), Char("good", 2, 3), Char("good", 2, 4), Char("bad", 1, 0)}
ShortInputs ==
    UNION {[1 .. n -> WholeChars] : n \in 0 .. 4}
    \cup {Append(s, Char("cut", 1, 0)) : s \in UNION {[1 .. n -> WholeChars] : n \in 0 .. 3}}

ShortStreams == 0 .. 7
ShortReplies == 0 .. 3

(* The bytes of "/a" and "i.h".                                             *)
RootBytes == <<47, 97>>
IndexBytes == <<105, 46, 104>>

Field(n, f, l) == [name |-> n, length |-> Len(n), file |-> f, lines |-> l]
FewSymbols ==
    [path |-> {47, 46, 97, 50, 37, 43, 228, 45},
     pairs |-> {"a", "b", "=", ";", "&", "?", " "},
     form |-> {Field("files[]", "f1", <<"x">>), Field("filedata", "f2", <<"x", "y">>),
               Field("user", "none", <<"u", "v">>), Field("attachment", "f3", <<"z">>)},
     utf8 |-> {65, 144, 176, 195, 228, 240, 253},
     json |-> {0, 34, 92, 47, 10, 11, 32, 65, 228}]
LongestTexts == [path |-> 5, pairs |-> 5, form |-> 4, utf8 |-> 6, json |-> 4]
=============================================================================
