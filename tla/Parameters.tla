----------------------------- MODULE Parameters ------------------------------
(***************************************************************************)
(* The names and values in a request: web/ParserProcess.cpp takes cookies,  *)
(* query parameters and the parts of a multipart form to pieces.  A         *)
(* character is a symbol.                                                   *)
(***************************************************************************)
EXTENDS Integers, Sequences, SequencesExt, SeqHelpers

(* Operators named Mutant... are plausible slips in the definition behind   *)
(* them.  No specification uses them: they show that the properties notice. *)

(* regex_split with a pattern of one character, and trim2.                  *)
Ends(s, c) == Ascending({i \in 1 .. Len(s) + 1 : i <= Len(s) => s[i] = c}, Len(s) + 1)
Split(s, c) ==
    LET ends == Ends(s, c)
    IN  [k \in DOMAIN ends |-> SubSeq(s, IF k = 1 THEN 1 ELSE ends[k - 1] + 1, ends[k] - 1)]

NoBlank(s) == {i \in DOMAIN s : s[i] # " "}
Trim2(s) == IF NoBlank(s) = {} THEN <<>> ELSE SubSeq(s, Min(NoBlank(s)), Max(NoBlank(s)))

(* A piece with an equals sign is a pair, divided at the first one.         *)
Equals(piece) == SelectInSeq(piece, LAMBDA c : c = "=")
MutantPair(piece) ==
    LET at == SelectLastInSeq(piece, LAMBDA c : c = "=")
    IN  [name |-> SubSeq(piece, 1, at - 1), value |-> SubSeq(piece, at + 1, Len(piece))]
Pair(piece) ==
    [name |-> SubSeq(piece, 1, Equals(piece) - 1),
     value |-> SubSeq(piece, Equals(piece) + 1, Len(piece))]
Pairs(s, c) ==
    LET pieces == Split(s, c)
        found == Ascending({k \in DOMAIN pieces : Equals(pieces[k]) > 0}, Len(pieces))
    IN  [k \in DOMAIN found |-> Pair(pieces[found[k]])]

(* mp[name] = value: a later pair replaces an earlier one of its name.      *)
AsMap(pairs) ==
    LET put(map, name, value) ==
            [n \in DOMAIN map \cup {name} |-> IF n = name THEN value ELSE map[n]]
        upto[k \in 0 .. Len(pairs)] ==
            IF k = 0 THEN <<>> ELSE put(upto[k - 1], Trim2(pairs[k].name), Trim2(pairs[k].value))
    IN  upto[Len(pairs)]

(* getParameterVect, getParameterMap (for the Cookie header) and            *)
(* getUplodParameterMap, which first cuts off what stands before the last   *)
(* question mark.                                                           *)
ParameterVect(s) == Pairs(s, "&")
ParameterMap(s) == AsMap(Pairs(s, ";"))
Query(s) == SubSeq(s, SelectLastInSeq(s, LAMBDA c : c = "?") + 1, Len(s))
UploadMap(s) == AsMap(Pairs(Query(s), "&"))

(* processsdounry, on one part of a form: its field's name and the number   *)
(* of its characters, the name of a file or NoFile, and the lines of its    *)
(* content.  A NUL replaces the quote behind the field's name, and          *)
(* "filename=" is looked for from a fixed place that must lie behind the    *)
(* NUL and not behind the three characters between the two.                 *)
NoFile == "none"
InputLengths(part) ==
    /\ part.name = "files[]" => part.length = 7
    /\ part.name = "filedata" => part.length = 8
SearchFrom(part) == IF part.name = "files[]" THEN 8 ELSE 9
FileSeen(part) ==
    /\ part.file # NoFile
    /\ SearchFrom(part) \in part.length + 1 .. part.length + 3
PartParameter(part) ==
    IF FileSeen(part) THEN [name |-> "filename", value |-> part.file]
    ELSE [name |-> part.name, value |-> part.lines[1]]

(* getUplodParameterVect: one parameter for each part, in their order.      *)
FormVect(parts) == [k \in DOMAIN parts |-> PartParameter(parts[k])]

-----------------------------------------------------------------------------
(***************************************************************************)
(* Properties of a text, and of a form.                                     *)
(***************************************************************************)
(* The stretches of s between two separators c or its ends, with the place  *)
(* of their first equals sign.                                              *)
Stretches(s, c) ==
    {t \in (1 .. Len(s)) \X (1 .. Len(s)) \X (1 .. Len(s)) :
        /\ t[1] <= t[2] /\ t[2] <= t[3]
        /\ s[t[2]] = "=" /\ \A m \in t[1] .. t[2] - 1 : s[m] # "="
        /\ c \notin {s[m] : m \in t[1] .. t[3]}
        /\ t[1] = 1 \/ s[t[1] - 1] = c
        /\ t[3] = Len(s) \/ s[t[3] + 1] = c}
PairIn(s, t) == [name |-> SubSeq(s, t[1], t[2] - 1), value |-> SubSeq(s, t[2] + 1, t[3])]
NameIn(s, t) == Trim2(PairIn(s, t).name)
ValueIn(s, t) == Trim2(PairIn(s, t).value)

(* pairs are those in s, each once and in their order.                      *)
HoldsPairs(pairs, s, c) ==
    \E at \in [DOMAIN pairs -> Stretches(s, c)] :
        /\ \A k \in DOMAIN pairs : pairs[k] = PairIn(s, at[k])
        /\ \A j, k \in DOMAIN pairs : j < k => at[j][3] < at[k][1]
        /\ \A t \in Stretches(s, c) : \E k \in DOMAIN pairs : at[k] = t

(* map holds for each name in s the value that stands last, and no more.    *)
HoldsLast(map, s, c) ==
    /\ DOMAIN map = {NameIn(s, t) : t \in Stretches(s, c)}
    /\ \A t \in Stretches(s, c) :
          (\A u \in Stretches(s, c) : NameIn(s, u) = NameIn(s, t) => u[1] <= t[1])
              => map[NameIn(s, t)] = ValueIn(s, t)

(* Whatever the text, cookies and parameters are found with their values:   *)
(* signs in a value, blanks around, pieces without a sign, names given      *)
(* twice; and the vector holds them all in their order.                     *)
PairsFound(s) ==
    /\ HoldsLast(ParameterMap(s), s, ";")
    /\ HoldsLast(UploadMap(s), Query(s), "&")
    /\ HoldsPairs(ParameterVect(s), s, "&")

(* The fields of a form come back under their names, in their order, with   *)
(* one line of content; the inputs "files[]" and "filedata" of the page     *)
(* bring the name of their file.                                            *)
FormFound(parts) ==
    /\ Len(FormVect(parts)) = Len(parts)
    /\ \A k \in DOMAIN parts :
          LET got == FormVect(parts)[k]
          IN  /\ parts[k].file = NoFile =>
                    got = [name |-> parts[k].name, value |-> parts[k].lines[1]]
              /\ parts[k].file # NoFile /\ parts[k].name \in {"files[]", "filedata"} =>
                    got = [name |-> "filename", value |-> parts[k].file]
=============================================================================
