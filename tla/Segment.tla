------------------------------- MODULE Segment -------------------------------
(***************************************************************************)
(* The word segmenter, mmseg/mmseg.h: load() reads a dictionary into a trie *)
(* and the frequencies of characters into a table; segment() takes one word *)
(* after the other off the front of a text, each time the first word of the *)
(* best chunk of up to three words.  A character is a symbol.               *)
(***************************************************************************)
EXTENDS Integers, Sequences, SeqHelpers

CONSTANTS
    Alnum,        \* the characters match_all takes for letters and digits
    Dictionaries, \* the files that may be loaded, see LineType
    Frequencies,  \* the second file: lines of a character and the logarithm of its frequency
    Texts,        \* the texts to cut
    Depth         \* words of a chunk, 3 unless the caller says otherwise

(* A line of the dictionary: a word and its class.                          *)
LineType == [word : Seq(STRING), cx : STRING]
FreqType == [ch : STRING, log : Nat]

SegmentAssumption ==
    /\ \A d \in Dictionaries : d \in Seq(LineType) /\ \A i \in DOMAIN d : d[i].word # <<>>
    /\ Frequencies \in Seq(FreqType)
    /\ \A s \in Texts : s \in Seq(STRING)
    /\ Depth \in Nat \ {0}

VARIABLES
    dict,         \* the dictionary being loaded
    lines, flines,\* lines of the two files read so far
    nodes,        \* dict_: the node at the end of each path, with its class cx
    words,        \* the paths whose node has val_ set
    freqs,        \* char_freqs_
    text, start,  \* segment(s): the text, and how much of it was taken
    ret           \* the words taken

loadVars == <<dict, lines, flines, nodes, words, freqs>>
vars == <<loadVars, text, start, ret>>

Init ==
    /\ dict \in Dictionaries /\ lines = 0 /\ flines = 0
    /\ nodes = <<>> /\ words = {} /\ freqs = <<>>
    /\ text = <<>> /\ start = 0 /\ ret = <<>>

(* Operators named Mutant... are plausible slips in the definition behind   *)
(* them.  No specification uses them: they show that the properties notice. *)

-----------------------------------------------------------------------------
(* Trie::add: nodes that are missing are made, with the class of this word; *)
(* those that are there keep theirs.                                        *)
Path(word) == {SubSeq(word, 1, n) : n \in 1 .. Len(word)}
MutantAdded(line) ==
    [p \in DOMAIN nodes \cup Path(line.word) |->
        IF p \in Path(line.word) THEN line.cx ELSE nodes[p]]
Added(line) ==
    [p \in DOMAIN nodes \cup Path(line.word) |->
        IF p \in DOMAIN nodes THEN nodes[p] ELSE line.cx]

LoadLine ==
    /\ lines < Len(dict)
    /\ nodes' = Added(dict[lines + 1])
    /\ words' = words \cup {dict[lines + 1].word}
    /\ lines' = lines + 1
    /\ UNCHANGED <<dict, flines, freqs, text, start, ret>>

(* emplace keeps the first frequency of a character.                        *)
LoadFrequency ==
    /\ lines = Len(dict) /\ flines < Len(Frequencies)
    /\ LET line == Frequencies[flines + 1]
       IN  freqs' = [c \in DOMAIN freqs \cup {line.ch} |->
                        IF c \in DOMAIN freqs THEN freqs[c] ELSE line.log]
    /\ flines' = flines + 1
    /\ UNCHANGED <<dict, lines, nodes, words, text, start, ret>>

Loaded == lines = Len(dict) /\ flines = Len(Frequencies)

(* Trie::find_cx: the class of the last node on the path.                   *)
FindCx(word) ==
    LET known == Path(word) \cap DOMAIN nodes
    IN  IF known = {} THEN ""
        ELSE nodes[CHOOSE p \in known : \A q \in known : Len(q) <= Len(p)]

-----------------------------------------------------------------------------
(* Trie::match_all: every beginning of a run of letters and digits is a     *)
(* word; elsewhere the words of the dictionary are.  Positions count the    *)
(* characters in front.                                                     *)
Word(at, n) == SubSeq(text, at + 1, at + n)
Matches(at) ==
    {n \in 1 .. Len(text) - at :
        IF text[at + 1] \in Alnum THEN Word(at, n) \in Seq(Alnum)
        ELSE Word(at, n) \in words}

(* get_chunks: up to Depth words in a row, as their lengths; the single     *)
(* character comes behind the words that match.                             *)
Total(chunk) == SumOf(chunk)
Longer(at, chunk) ==
    IF at + Total(chunk) = Len(text) THEN {chunk}
    ELSE {Append(chunk, n) : n \in Matches(at + Total(chunk)) \cup {1}}
Chunks(at) ==
    LET upto[n \in 0 .. Depth] ==
            IF n = 0 THEN {<<>>} ELSE UNION {Longer(at, c) : c \in upto[n - 1]}
    IN  upto[Depth]

(* Chunk::Chunk.  The accumulator of the variance passes through a size_t,  *)
(* which drops its fraction before each word; it is multiplied by the       *)
(* square of the number of words here.                                      *)
Deviation(chunk) ==
    LET k == Len(chunk)
        off(i) == k * chunk[i] - Total(chunk)
        upto[i \in 0 .. k] ==
            IF i = 0 THEN 0 ELSE (k * k) * (upto[i - 1] \div (k * k)) + off(i) * off(i)
    IN  upto[k]
Log(ch) == IF ch \in DOMAIN freqs THEN freqs[ch] ELSE 0
Degree(at, chunk) ==
    SumOf([i \in DOMAIN chunk |->
              IF chunk[i] # 1 THEN 0 ELSE Log(text[at + Total(SubSeq(chunk, 1, i))])])

(* The order of max_element: length, mean, variance, degree.                *)
MutantWorse(at, x, y) == Total(x) < Total(y)
Worse(at, x, y) ==
    \/ Total(x) < Total(y)
    \/ /\ Total(x) = Total(y)
       /\ \/ Len(x) > Len(y)
          \/ /\ Len(x) = Len(y)
             /\ \/ Deviation(x) > Deviation(y)
                \/ /\ Deviation(x) = Deviation(y)
                   /\ Degree(at, x) < Degree(at, y)

(* The first of the best chunks: their first words come in the order of     *)
(* their lengths, a single character that is no word of its own last.       *)
Rank(at, n) == IF n \in Matches(at) THEN n ELSE Len(text) + 1
FirstWord(at) ==
    LET chunks == Chunks(at)
        best == {x \in chunks : \A y \in chunks : ~Worse(at, x, y)}
        firsts == {x[1] : x \in best}
    IN  CHOOSE n \in firsts : \A m \in firsts : Rank(at, n) <= Rank(at, m)

(* segment(), with the dictionary loaded: one call, as it keeps nothing ... *)
Segment(s) ==
    /\ Loaded /\ text = <<>>
    /\ text' = s
    /\ UNCHANGED <<loadVars, start, ret>>

(* ... and its loop.                                                        *)
TakeWord ==
    /\ start < Len(text)
    /\ start' = start + FirstWord(start)
    /\ ret' = Append(ret, Word(start, FirstWord(start)))
    /\ UNCHANGED <<loadVars, text>>

Next == LoadLine \/ LoadFrequency \/ (\E s \in Texts : Segment(s)) \/ TakeWord

-----------------------------------------------------------------------------
(***************************************************************************)
(* Properties.                                                              *)
(***************************************************************************)
(* The words lie end to end in the text.  One that begins with a letter or  *)
(* digit goes on until no other follows, although match_all offers every    *)
(* beginning of it and the dictionary may hold parts of it.  A run may be   *)
(* cut all the same, but only behind a word of the dictionary that begins   *)
(* in front of it: where a is a letter and x is not, a dictionary with x,   *)
(* xa and aa cuts xaaa into xa and aa.                                      *)
Reach(i) == SumOf([k \in 1 .. i |-> Len(ret[k])])
RunsTakenWhole ==
    /\ Reach(Len(ret)) = start
    /\ \A i \in DOMAIN ret :
          /\ ret[i] = Word(Reach(i - 1), Len(ret[i]))
          /\ ret[i][1] \in Alnum =>
                /\ ret[i] \in Seq(Alnum)
                /\ Reach(i) < Len(text) => text[Reach(i) + 1] \notin Alnum
          /\ ret[i][1] \notin Alnum => Len(ret[i]) = 1 \/ ret[i] \in words

(* Where no word of the file stands behind a longer one that begins with it *)
(* (as in a sorted file), every word is found with the class of its line;   *)
(* words that share nodes do not take each other's class.  A word that      *)
(* stands in the file twice counts as behind itself.                        *)
PrefixesFirst ==
    \A i, j \in DOMAIN dict : i < j =>
        dict[j].word \notin Path(dict[i].word)
ClassesAsLoaded ==
    Loaded /\ PrefixesFirst =>
        \A i \in DOMAIN dict : FindCx(dict[i].word) = dict[i].cx
=============================================================================
