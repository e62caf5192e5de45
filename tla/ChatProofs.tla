------------------------------ MODULE ChatProofs ------------------------------
(***************************************************************************)
(* Proofs about the chat console, for any windows and browsers, any number  *)
(* of connections and threads, and any limits: whatever is given up, asked  *)
(* again, overtaken or lost on the way, a session misses nothing, and one   *)
(* whose polls did not overlap is shown its messages once and in order.     *)
(***************************************************************************)
EXTENDS Chat, SequenceTheorems, FiniteSetTheorems, TLAPS

InOrder(q) == \A i, j \in DOMAIN q : i < j => q[i] < q[j]

(* What connection c holds of session s, in a poll that runs or in a reply, *)
(* and what window w was shown of it.                                       *)
Held(c, s) == IF conn[c].phase # "free" /\ conn[c].sid = s THEN Elems(conn[c].msgs) ELSE {}
Seen(w, s) == Elems(shown[w][s])

(* n is newer than all that any poll of session s returned, as far as it is *)
(* not lost; m was returned to session s.                                   *)
Above(n, s) ==
    /\ \A w \in Windows : \A m \in Seen(w, s) : m < n
    /\ \A c \in 1 .. Conns : \A m \in Held(c, s) : m < n
Returned(m, s) ==
    \/ m \in lost[s]
    \/ \E w \in Windows : m \in Seen(w, s)
    \/ \E c \in 1 .. Conns : m \in Held(c, s)

(* Messages are heard in the order of their numbers.                        *)
BoxInv ==
    /\ InOrder(box)
    /\ \A m \in Elems(box) : m < next
    /\ \A s \in Sids : Above(next, s)

(* A poll has read nothing before it has its record, and does not run past  *)
(* the end of the box.  A window has one request open.                      *)
RequestInv ==
    /\ \A c \in 1 .. Conns : conn[c].phase \in {"asked", "insert"}
            => conn[c].msgs = <<>> /\ conn[c].id = 0 /\ conn[c].at = 0
    /\ \A c \in 1 .. Conns : conn[c].phase = "running" => conn[c].at <= Len(box)
    /\ \A c, d \in 1 .. Conns :
          /\ conn[c].phase # "free" /\ conn[c].open
          /\ conn[d].phase # "free" /\ conn[d].open
          /\ conn[c].window = conn[d].window
          => c = d

(* What a cursor covers was returned, and what a poll has read or started   *)
(* behind: this is kept whatever the cursor does while polls overlap.       *)
CoverInv ==
    /\ \A s \in Sids : cursor[s] = 0 \/ cursor[s] < next
    /\ \A s \in Sids : \A n \in Elems(box) \ {0} : n <= cursor[s] => Returned(n, s)
    /\ \A c \in 1 .. Conns : conn[c].phase = "running" =>
          \A i \in 1 .. Len(box) :
              box[i] # 0 /\ (i <= conn[c].at \/ box[i] <= conn[c].id) => Returned(box[i], conn[c].sid)

(* A session that is not in raced has one poll that runs, and that one      *)
(* moves its cursor.                                                        *)
AloneInv ==
    /\ \A s \in Sids \ known : cursor[s] = 0
    /\ \A c, d \in 1 .. Conns :
          Polling(c) /\ Polling(d) /\ conn[c].sid = conn[d].sid /\ conn[c].sid \notin raced => c = d
    /\ \A c \in 1 .. Conns :
          conn[c].phase = "insert" /\ conn[c].sid \notin raced => conn[c].sid \notin known
    /\ \A c \in 1 .. Conns : conn[c].phase = "running" /\ conn[c].sid \notin raced =>
          \/ cursor[conn[c].sid] = conn[c].id
          \/ \E k \in 1 .. conn[c].at : box[k] = cursor[conn[c].sid]

(* What it has not taken is newer than what it has,                         *)
FreshInv == \A s \in Sids \ raced : \A n \in Elems(box) : n > cursor[s] => Above(n, s)

(* what it has taken is in one place,                                       *)
InOnePlace(s) ==
    /\ \A w, v \in Windows : w # v => Seen(w, s) \cap Seen(v, s) = {}
    /\ \A c, d \in 1 .. Conns : c # d => Held(c, s) \cap Held(d, s) = {}
    /\ \A c \in 1 .. Conns, w \in Windows : Held(c, s) \cap Seen(w, s) = {}
PlaceInv == \A s \in Sids \ raced : InOnePlace(s)

(* and the reply a window waits for is newer than all it was shown.         *)
OrderInv ==
    /\ \A c \in 1 .. Conns : conn[c].phase # "free" /\ conn[c].sid \notin raced => InOrder(conn[c].msgs)
    /\ \A w \in Windows, s \in Sids \ raced : InOrder(shown[w][s])
    /\ \A c \in 1 .. Conns, w \in Windows, s \in Sids \ raced :
          conn[c].phase # "free" /\ conn[c].open /\ conn[c].window = w
              => \A m \in Seen(w, s), n \in Held(c, s) : m < n

Inductive ==
    TypeOK /\ BoxInv /\ RequestInv /\ CoverInv /\ AloneInv /\ FreshInv /\ PlaceInv /\ OrderInv

-----------------------------------------------------------------------------
(***************************************************************************)
(* Sequences of messages.                                                   *)
(***************************************************************************)
LEMMA ElemsFacts ==
    ASSUME NEW q \in Seq(Nat)
    PROVE  /\ Len(q) \in Nat /\ DOMAIN q = 1 .. Len(q)
           /\ \A i \in DOMAIN q : q[i] \in Nat /\ q[i] \in Elems(q)
           /\ \A m : m \in Elems(q) <=> \E i \in DOMAIN q : q[i] = m
           /\ Elems(q) \subseteq Nat
<1>1. Len(q) \in Nat /\ DOMAIN q = 1 .. Len(q) BY LenProperties
<1>2. \A i \in DOMAIN q : q[i] \in Nat BY <1>1, ElementOfSeq
<1> QED BY <1>1, <1>2 DEF Elems

LEMMA EmptyElems == Elems(<<>>) = {} /\ InOrder(<<>>) /\ <<>> \in Seq(Nat)
<1>1. <<>> \in Seq(Nat) /\ Len(<<>>) = 0 BY EmptySeq
<1>2. DOMAIN <<>> = {} BY <1>1, LenProperties
<1> QED BY <1>1, <1>2 DEF Elems, InOrder

LEMMA ConcatElems ==
    ASSUME NEW q \in Seq(Nat), NEW r \in Seq(Nat)
    PROVE  /\ q \o r \in Seq(Nat)
           /\ Elems(q \o r) = Elems(q) \cup Elems(r)
           /\ InOrder(q) /\ InOrder(r) /\ (\A m \in Elems(q), n \in Elems(r) : m < n)
                => InOrder(q \o r)
<1>p. PICK k \in Nat, l \in Nat : k = Len(q) /\ l = Len(r) BY LenProperties
<1>1. /\ q \o r \in Seq(Nat)
      /\ DOMAIN q = 1 .. k /\ DOMAIN r = 1 .. l /\ DOMAIN (q \o r) = 1 .. k + l
      /\ \A i \in 1 .. k + l : (q \o r)[i] = IF i <= k THEN q[i] ELSE r[i - k]
  BY <1>p, LenProperties, ConcatProperties
<1>2. Elems(q \o r) \subseteq Elems(q) \cup Elems(r)
  BY <1>1 DEF Elems
<1>3. ASSUME NEW i \in DOMAIN q PROVE q[i] \in Elems(q \o r)
  <2>1. i \in 1 .. k + l /\ (q \o r)[i] = q[i] BY <1>1
  <2> QED BY <1>1, <2>1 DEF Elems
<1>4. ASSUME NEW i \in DOMAIN r PROVE r[i] \in Elems(q \o r)
  <2>1. i + k \in 1 .. k + l /\ (q \o r)[i + k] = r[i] BY <1>1
  <2> QED BY <1>1, <2>1 DEF Elems
<1>5. ASSUME InOrder(q), InOrder(r), \A m \in Elems(q), n \in Elems(r) : m < n
      PROVE  InOrder(q \o r)
  <2> SUFFICES ASSUME NEW i \in 1 .. k + l, NEW j \in 1 .. k + l, i < j
               PROVE  (q \o r)[i] < (q \o r)[j]
    <3>1. \A i, j \in DOMAIN (q \o r) : i \in 1 .. k + l /\ j \in 1 .. k + l BY <1>1
    <3> QED BY <3>1 DEF InOrder
  <2>a. /\ (q \o r)[i] = IF i <= k THEN q[i] ELSE r[i - k]
        /\ (q \o r)[j] = IF j <= k THEN q[j] ELSE r[j - k]
    BY <1>1
  <2>1. CASE j <= k
    <3>1. i \in DOMAIN q /\ j \in DOMAIN q /\ i <= k BY <1>1, <2>1
    <3> QED BY <1>5, <2>a, <2>1, <3>1 DEF InOrder
  <2>2. CASE i > k
    <3>1. i - k \in DOMAIN r /\ j - k \in DOMAIN r /\ i - k < j - k /\ ~(i <= k) /\ ~(j <= k)
      BY <1>1, <2>2
    <3> QED BY <1>5, <2>a, <3>1 DEF InOrder
  <2>3. CASE i <= k /\ j > k
    <3>1. i \in DOMAIN q /\ j - k \in DOMAIN r /\ ~(j <= k) BY <1>1, <2>3
    <3>2. (q \o r)[i] \in Elems(q) /\ (q \o r)[j] \in Elems(r) BY <2>a, <2>3, <3>1 DEF Elems
    <3> QED BY <1>5, <3>2
  <2>4. i \in Int /\ j \in Int /\ k \in Int BY <1>p
  <2>5. j <= k \/ i > k \/ (i <= k /\ j > k) BY <2>4
  <2> QED BY <2>1, <2>2, <2>3, <2>5
<1> QED BY <1>1, <1>2, <1>3, <1>4, <1>5 DEF Elems

LEMMA SingleElems ==
    ASSUME NEW q \in Seq(Nat), NEW m \in Nat
    PROVE  /\ Append(q, m) \in Seq(Nat) /\ Len(Append(q, m)) = Len(q) + 1
           /\ Elems(Append(q, m)) = Elems(q) \cup {m}
           /\ InOrder(q) /\ (\A n \in Elems(q) : n < m) => InOrder(Append(q, m))
<1>p. PICK k \in Nat : k = Len(q) BY LenProperties
<1>1. /\ Append(q, m) \in Seq(Nat) /\ Len(Append(q, m)) = k + 1
      /\ DOMAIN q = 1 .. k /\ DOMAIN Append(q, m) = 1 .. k + 1
      /\ \A i \in 1 .. k : Append(q, m)[i] = q[i]
      /\ Append(q, m)[k + 1] = m
  BY <1>p, LenProperties, AppendProperties
<1>2. Elems(Append(q, m)) = Elems(q) \cup {m}
  BY <1>1 DEF Elems
<1>3. ASSUME InOrder(q), \A n \in Elems(q) : n < m
      PROVE  InOrder(Append(q, m))
  <2>1. \A i \in 1 .. k : q[i] < m BY <1>1, <1>3 DEF Elems
  <2> QED BY <1>1, <1>3, <2>1 DEF InOrder
<1> QED BY <1>p, <1>1, <1>2, <1>3

(* The end of a sequence.                                                   *)
LEMMA SuffixElems ==
    ASSUME NEW q \in Seq(Nat), NEW d \in 0 .. Len(q)
    PROVE  LET r == SubSeq(q, d + 1, Len(q)) IN
           /\ r \in Seq(Nat) /\ Len(r) = Len(q) - d
           /\ Elems(r) = {q[i] : i \in d + 1 .. Len(q)}
           /\ InOrder(q) => InOrder(r)
<1> DEFINE r == SubSeq(q, d + 1, Len(q))
<1>p. PICK k \in Nat : k = Len(q) BY LenProperties
<1>1. DOMAIN q = 1 .. k /\ \A i \in d + 1 .. k : q[i] \in Nat BY <1>p, ElemsFacts
<1>2. /\ r \in Seq(Nat) /\ Len(r) = k - d
      /\ \A i \in 1 .. k - d : r[i] = q[d + i]
  <2>1. /\ r \in Seq(Nat)
        /\ Len(r) = IF d + 1 <= k THEN k - (d + 1) + 1 ELSE 0
        /\ \A i \in 1 .. k - (d + 1) + 1 : r[i] = q[d + 1 + i - 1]
    BY <1>p, <1>1, SubSeqProperties
  <2> QED BY <1>p, <2>1
<1> HIDE DEF r
<1>3. DOMAIN r = 1 .. k - d BY <1>2, LenProperties
<1>4. Elems(r) \subseteq {q[i] : i \in d + 1 .. k}
  <2>1. \A i \in 1 .. k - d : d + i \in d + 1 .. k BY <1>p
  <2> QED BY <1>2, <1>3, <2>1 DEF Elems
<1>5. ASSUME NEW i \in d + 1 .. k PROVE q[i] \in Elems(r)
  <2>1. i - d \in 1 .. k - d /\ r[i - d] = q[i] BY <1>p, <1>2
  <2> QED BY <1>3, <2>1 DEF Elems
<1>6. InOrder(q) => InOrder(r)
  <2> SUFFICES ASSUME InOrder(q), NEW i \in 1 .. k - d, NEW j \in 1 .. k - d, i < j
               PROVE  r[i] < r[j]
    BY <1>3 DEF InOrder
  <2>1. d + i \in DOMAIN q /\ d + j \in DOMAIN q /\ d + i < d + j BY <1>p, <1>1
  <2>2. r[i] = q[d + i] /\ r[j] = q[d + j] BY <1>2
  <2> QED BY <2>1, <2>2 DEF InOrder
<1> QED BY <1>p, <1>2, <1>4, <1>5, <1>6 DEF r

(* Trimming keeps the newest, and leaves room for one more.                 *)
LEMMA TrimmedFacts ==
    ASSUME NEW q \in Seq(Nat), Len(q) <= MaxKeep + 1
    PROVE  /\ Trimmed(q) \in Seq(Nat) /\ Len(Trimmed(q)) <= MaxKeep
           /\ Elems(Trimmed(q)) \subseteq Elems(q)
           /\ InOrder(q) => InOrder(Trimmed(q))
<1>1. Len(q) \in Nat /\ DOMAIN q = 1 .. Len(q) BY LenProperties
<1>2. MaxKeep \in Nat \ {0} /\ Drop \in 1 .. MaxKeep BY ChatAssumption
<1>3. CASE Len(q) > MaxKeep
  <2>1. Trimmed(q) = SubSeq(q, Drop + 1, Len(q)) BY <1>3 DEF Trimmed
  <2>2. Drop \in 0 .. Len(q) BY <1>1, <1>2, <1>3
  <2>3. /\ Trimmed(q) \in Seq(Nat) /\ Len(Trimmed(q)) = Len(q) - Drop
        /\ Elems(Trimmed(q)) = {q[i] : i \in Drop + 1 .. Len(q)}
        /\ InOrder(q) => InOrder(Trimmed(q))
    BY <2>1, <2>2, SuffixElems
  <2>4. Elems(Trimmed(q)) \subseteq Elems(q)
    <3>1. Drop + 1 .. Len(q) \subseteq DOMAIN q BY <1>1, <2>2
    <3> QED BY <2>3, <3>1 DEF Elems
  <2> QED BY <1>1, <1>2, <2>3, <2>4
<1>4. CASE ~(Len(q) > MaxKeep)
  BY <1>1, <1>2, <1>4 DEF Trimmed
<1> QED BY <1>3, <1>4

-----------------------------------------------------------------------------
(***************************************************************************)
(* Types.                                                                   *)
(***************************************************************************)
LEMMA RequestFacts ==
    ASSUME TypeOK, NEW c \in 1 .. Conns
    PROVE  /\ conn[c].phase = "free" <=> conn[c] = Free
           /\ conn[c].phase # "free" =>
                 /\ conn[c] \in Request
                 /\ conn[c].phase \in {"asked", "insert", "running", "reply"} /\ conn[c].kind \in Kinds
                 /\ conn[c].window \in Windows /\ conn[c].sid \in Sids
                 /\ conn[c].open \in BOOLEAN /\ conn[c].msgs \in Seq(Nat)
                 /\ conn[c].id \in Nat /\ conn[c].at \in Nat
<1>1. conn[c] \in Request \/ conn[c] = Free BY DEF TypeOK
<1>2. Free.phase = "free" BY DEF Free
<1>3. conn[c] \in Request =>
          /\ conn[c].phase \in {"asked", "insert", "running", "reply"} /\ conn[c].kind \in Kinds
          /\ conn[c].window \in Windows /\ conn[c].sid \in Sids
          /\ conn[c].open \in BOOLEAN /\ conn[c].msgs \in Seq(Nat)
          /\ conn[c].id \in Nat /\ conn[c].at \in Nat
  BY DEF Request
<1> QED BY <1>1, <1>2, <1>3

LEMMA InitInductive == Init => Inductive
<1> SUFFICES ASSUME Init PROVE Inductive
  OBVIOUS
<1> USE EmptyElems
<1>1. MaxKeep \in Nat /\ Loads[threads].posts \in Nat /\ Loads[threads].commands \in Nat
      /\ home \in Homes /\ cookie \in [Browsers -> Sids]
  <2>1. PICK s \in Loads[threads].starts : home = s[1] /\ cookie = s[2] BY DEF Init
  <2>2. s \in Homes \X [Browsers -> Sids] BY <2>1, ChatAssumption DEF Init
  <2> QED BY <2>1, <2>2, ChatAssumption DEF Init
<1>2. TypeOK
  <2>1. Len(<<>>) = 0 BY EmptySeq
  <2> QED BY <1>1, <2>1 DEF Init, TypeOK
<1>3. \A c \in 1 .. Conns : conn[c].phase = "free" BY DEF Init, Free
<1>4. \A s \in Sids : \A w \in Windows : shown[w][s] = <<>>
  BY DEF Init
<1>5. \A s \in Sids : \A w \in Windows : Seen(w, s) = {}
  BY <1>4 DEF Seen
<1>6. \A s \in Sids, c \in 1 .. Conns : Held(c, s) = {}
  BY <1>3 DEF Held
<1>7. \A s \in Sids, n \in Nat : Above(n, s) BY <1>5, <1>6 DEF Above
<1>8. BoxInv BY <1>7 DEF BoxInv, Init
<1>9. RequestInv BY <1>3 DEF RequestInv
<1>10. CoverInv BY <1>3 DEF CoverInv, Init
<1>11. AloneInv BY <1>3 DEF AloneInv, Init, Polling
<1>12. FreshInv BY DEF FreshInv, Init
<1>13. PlaceInv BY <1>5, <1>6 DEF PlaceInv, InOnePlace
<1>14. OrderInv BY <1>3, <1>4 DEF OrderInv
<1> QED BY <1>2, <1>8, <1>9, <1>10, <1>11, <1>12, <1>13, <1>14 DEF Inductive

(* What a step of a poll does to the connections: it runs on, and others    *)
(* that insert at the same time may do so too.                              *)
Same(d) ==
    /\ conn'[d] \in Request /\ conn[d] \in Request
    /\ conn'[d].window = conn[d].window /\ conn'[d].sid = conn[d].sid /\ conn'[d].open = conn[d].open

LEMMA StartFacts ==
    ASSUME TypeOK, NEW c \in 1 .. Conns, StartPoll(c)
    PROVE  LET s == conn[c].sid IN
           /\ Same(c) /\ s \in Sids /\ conn[c].phase = "asked"
           /\ conn'[c].phase = (IF s \in known THEN "running" ELSE "insert")
           /\ conn'[c].id = (IF s \in known THEN cursor[s] ELSE 0)
           /\ conn'[c].at = conn[c].at /\ conn'[c].msgs = conn[c].msgs
           /\ \A d \in 1 .. Conns : d # c => conn'[d] = conn[d]
           /\ conn' \in [1 .. Conns -> Request \cup {Free}]
<1>1. conn[c].phase = "asked" /\ conn[c].phase # "free" BY DEF StartPoll, Asked
<1>2. PICK s \in Sids : s = conn[c].sid BY <1>1, RequestFacts
<1>3. conn[c] \in Request BY <1>1, RequestFacts
<1>4. PICK p \in {"running", "insert"}, i \in Nat :
        /\ p = (IF s \in known THEN "running" ELSE "insert") /\ i = (IF s \in known THEN cursor[s] ELSE 0)
  BY DEF TypeOK
<1>5. conn' = [conn EXCEPT ![c] = [conn[c] EXCEPT !.phase = p, !.id = i]]
  BY <1>2, <1>4 DEF StartPoll, TypeOK
<1>6. /\ [conn[c] EXCEPT !.phase = p, !.id = i] \in Request
      /\ [conn[c] EXCEPT !.phase = p, !.id = i].phase = p /\ [conn[c] EXCEPT !.phase = p, !.id = i].id = i
      /\ [conn[c] EXCEPT !.phase = p, !.id = i].at = conn[c].at
      /\ [conn[c] EXCEPT !.phase = p, !.id = i].msgs = conn[c].msgs
      /\ [conn[c] EXCEPT !.phase = p, !.id = i].window = conn[c].window
      /\ [conn[c] EXCEPT !.phase = p, !.id = i].sid = conn[c].sid
      /\ [conn[c] EXCEPT !.phase = p, !.id = i].open = conn[c].open
  BY <1>3 DEF Request
<1>7. /\ conn'[c] = [conn[c] EXCEPT !.phase = p, !.id = i]
      /\ \A d \in 1 .. Conns : d # c => conn'[d] = conn[d]
      /\ conn' \in [1 .. Conns -> Request \cup {Free}]
  BY <1>5, <1>6 DEF TypeOK
<1> QED BY <1>1, <1>2, <1>3, <1>4, <1>6, <1>7 DEF Same

(* d is one of those whose insertion goes together with that of c.          *)
LEMMA InsertFacts ==
    ASSUME TypeOK, NEW c \in 1 .. Conns, Insert(c)
    PROVE  LET s == conn[c].sid IN
           /\ s \in Sids /\ conn[c].phase = "insert" /\ conn'[c].phase = "running"
           /\ \A d \in 1 .. Conns :
                 \/ d # c /\ conn'[d] = conn[d]
                 \/ /\ conn[d].phase = "insert" /\ conn'[d].phase = "running" /\ Same(d)
                    /\ conn'[d].id = conn[d].id /\ conn'[d].at = conn[d].at /\ conn'[d].msgs = conn[d].msgs
                    /\ d # c => conn[d].sid \in raced'
           /\ conn' \in [1 .. Conns -> Request \cup {Free}]
           /\ raced \subseteq raced' /\ raced' \subseteq Sids
<1>1. conn[c].phase = "insert" /\ conn[c].phase # "free" BY DEF Insert
<1>2. conn[c].sid \in Sids /\ conn[c] \in Request BY <1>1, RequestFacts
<1>3. PICK L \in SUBSET {d \in 1 .. Conns \ {c} : conn[d].phase = "insert"} :
          /\ conn' = [d \in 1 .. Conns |-> IF d \in L \cup {c} THEN [conn[d] EXCEPT !.phase = "running"]
                                                               ELSE conn[d]]
          /\ raced' = raced \cup {conn[d].sid : d \in L}
  BY DEF Insert
<1>4. ASSUME NEW d \in L \cup {c}
      PROVE  /\ d \in 1 .. Conns /\ conn[d].phase = "insert" /\ conn'[d].phase = "running" /\ Same(d)
             /\ conn'[d].id = conn[d].id /\ conn'[d].at = conn[d].at /\ conn'[d].msgs = conn[d].msgs
             /\ conn[d].sid \in Sids
  <2>1. d \in 1 .. Conns /\ conn[d].phase = "insert" BY <1>1, <1>3
  <2>2. conn[d] \in Request BY <2>1, RequestFacts
  <2>3. conn'[d] = [conn[d] EXCEPT !.phase = "running"] BY <1>3, <2>1
  <2> QED BY <2>1, <2>2, <2>3 DEF Request, Same
<1>5. \A d \in 1 .. Conns : d \notin L \cup {c} => conn'[d] = conn[d] BY <1>3
<1>6. conn' \in [1 .. Conns -> Request \cup {Free}]
  <2>1. \A d \in 1 .. Conns : conn'[d] \in Request \cup {Free} BY <1>4, <1>5 DEF Same, TypeOK
  <2> QED BY <1>3, <2>1
<1>7. raced \subseteq raced' /\ raced' \subseteq Sids
  <2>1. raced \subseteq Sids BY DEF TypeOK
  <2>2. \A d \in L : conn[d].sid \in Sids BY <1>4
  <2> QED BY <1>3, <2>1, <2>2
<1>8. \A d \in L : conn[d].sid \in raced' BY <1>3
<1>9. \A d \in 1 .. Conns : d # c => d \in L \/ conn'[d] = conn[d] BY <1>5
<1> QED BY <1>1, <1>2, <1>4, <1>6, <1>7, <1>8, <1>9

LEMMA ReadFacts ==
    ASSUME TypeOK, NEW c \in 1 .. Conns, ReadNext(c)
    PROVE  LET s == conn[c].sid
               m == box[conn[c].at + 1]
           IN
           /\ Same(c) /\ s \in Sids /\ m \in Nat /\ m \in Elems(box)
           /\ conn[c].phase = "running" /\ conn'[c].phase = "running"
           /\ conn'[c].id = conn[c].id /\ conn'[c].at = conn[c].at + 1 /\ conn'[c].at \in 1 .. Len(box)
           /\ \/ m <= conn[c].id /\ conn'[c].msgs = conn[c].msgs /\ UNCHANGED <<known, cursor>>
              \/ /\ ~(m <= conn[c].id) /\ conn'[c].msgs = Append(conn[c].msgs, m)
                 /\ known' = known \cup {s} /\ cursor' = [cursor EXCEPT ![s] = m]
           /\ \A d \in 1 .. Conns : d # c => conn'[d] = conn[d]
           /\ conn' \in [1 .. Conns -> Request \cup {Free}]
<1>1. conn[c].phase = "running" /\ conn[c].phase # "free" /\ conn[c].at < Len(box) BY DEF ReadNext
<1>2. conn[c] \in Request /\ conn[c].sid \in Sids /\ conn[c].at \in Nat /\ conn[c].msgs \in Seq(Nat)
  BY <1>1, RequestFacts
<1>3. PICK l \in Nat : l = Len(box) /\ box \in Seq(Nat) BY LenProperties DEF TypeOK
<1>4. conn[c].at + 1 \in 1 .. l BY <1>1, <1>2, <1>3
<1>5. PICK m \in Nat : m = box[conn[c].at + 1] /\ m \in Elems(box)
  BY <1>3, <1>4, ElemsFacts
<1>6. PICK q \in Seq(Nat) :
        /\ q = (IF m <= conn[c].id THEN conn[c].msgs ELSE Append(conn[c].msgs, m))
  BY <1>2, SingleElems
<1>7. conn' = [conn EXCEPT ![c] = [conn[c] EXCEPT !.at = conn[c].at + 1, !.msgs = q]]
  <2>1. [conn[c] EXCEPT !.at = conn[c].at + 1] = [conn[c] EXCEPT !.at = conn[c].at + 1, !.msgs = conn[c].msgs]
    BY <1>2 DEF Request
  <2>2. CASE m <= conn[c].id
    <3>1. conn' = [conn EXCEPT ![c] = [conn[c] EXCEPT !.at = conn[c].at + 1]]
      BY <1>5, <2>2 DEF ReadNext, Covered, TypeOK
    <3> QED BY <1>6, <2>1, <2>2, <3>1
  <2>3. CASE ~(m <= conn[c].id)
    BY <1>5, <1>6, <2>3 DEF ReadNext, Covered, Collected, TypeOK
  <2> QED BY <2>2, <2>3
<1>8. /\ conn[c].at + 1 \in Nat => [conn[c] EXCEPT !.at = conn[c].at + 1, !.msgs = q] \in Request
      /\ [conn[c] EXCEPT !.at = conn[c].at + 1, !.msgs = q].at = conn[c].at + 1
      /\ [conn[c] EXCEPT !.at = conn[c].at + 1, !.msgs = q].msgs = q
      /\ [conn[c] EXCEPT !.at = conn[c].at + 1, !.msgs = q].phase = conn[c].phase
      /\ [conn[c] EXCEPT !.at = conn[c].at + 1, !.msgs = q].id = conn[c].id
      /\ [conn[c] EXCEPT !.at = conn[c].at + 1, !.msgs = q].window = conn[c].window
      /\ [conn[c] EXCEPT !.at = conn[c].at + 1, !.msgs = q].sid = conn[c].sid
      /\ [conn[c] EXCEPT !.at = conn[c].at + 1, !.msgs = q].open = conn[c].open
  BY <1>2 DEF Request
<1>9. /\ conn'[c] = [conn[c] EXCEPT !.at = conn[c].at + 1, !.msgs = q]
      /\ \A d \in 1 .. Conns : d # c => conn'[d] = conn[d]
      /\ conn' \in [1 .. Conns -> Request \cup {Free}]
  BY <1>2, <1>7, <1>8 DEF TypeOK
<1>10. \/ m <= conn[c].id /\ UNCHANGED <<known, cursor>>
       \/ /\ ~(m <= conn[c].id)
          /\ known' = known \cup {conn[c].sid} /\ cursor' = [cursor EXCEPT ![conn[c].sid] = m]
  BY <1>5 DEF ReadNext, Covered, Stored, recordVars
<1>11. conn'[c] \in Request BY <1>2, <1>8, <1>9
<1> QED BY <1>1, <1>2, <1>3, <1>4, <1>5, <1>6, <1>8, <1>9, <1>10, <1>11 DEF Same

LEMMA EndFacts ==
    ASSUME TypeOK, NEW c \in 1 .. Conns, EndPoll(c)
    PROVE  /\ Same(c) /\ conn[c].phase = "running" /\ conn'[c].phase = "reply"
           /\ conn'[c].msgs = conn[c].msgs
           /\ \A d \in 1 .. Conns : d # c => conn'[d] = conn[d]
           /\ conn' \in [1 .. Conns -> Request \cup {Free}]
<1>1. conn[c].phase = "running" /\ conn[c].phase # "free" BY DEF EndPoll
<1>2. conn[c] \in Request BY <1>1, RequestFacts
<1>3. conn' = [conn EXCEPT ![c] = [conn[c] EXCEPT !.phase = "reply", !.id = 0, !.at = 0]]
  BY DEF EndPoll, TypeOK
<1>4. /\ [conn[c] EXCEPT !.phase = "reply", !.id = 0, !.at = 0] \in Request
      /\ [conn[c] EXCEPT !.phase = "reply", !.id = 0, !.at = 0].phase = "reply"
      /\ [conn[c] EXCEPT !.phase = "reply", !.id = 0, !.at = 0].msgs = conn[c].msgs
      /\ [conn[c] EXCEPT !.phase = "reply", !.id = 0, !.at = 0].window = conn[c].window
      /\ [conn[c] EXCEPT !.phase = "reply", !.id = 0, !.at = 0].sid = conn[c].sid
      /\ [conn[c] EXCEPT !.phase = "reply", !.id = 0, !.at = 0].open = conn[c].open
  BY <1>2 DEF Request
<1>5. /\ conn'[c] = [conn[c] EXCEPT !.phase = "reply", !.id = 0, !.at = 0]
      /\ \A d \in 1 .. Conns : d # c => conn'[d] = conn[d]
      /\ conn' \in [1 .. Conns -> Request \cup {Free}]
  BY <1>3, <1>4 DEF TypeOK
<1> QED BY <1>1, <1>2, <1>4, <1>5 DEF Same

LEMMA CommandFacts ==
    ASSUME TypeOK, NEW c \in 1 .. Conns, RunCommand(c)
    PROVE  /\ Same(c) /\ conn[c].phase = "asked" /\ conn'[c].phase = "reply"
           /\ conn'[c].msgs = conn[c].msgs /\ conn[c].sid \in Sids
           /\ \A d \in 1 .. Conns : d # c => conn'[d] = conn[d]
           /\ conn' \in [1 .. Conns -> Request \cup {Free}]
<1>1. conn[c].phase = "asked" /\ conn[c].phase # "free" BY DEF RunCommand, Asked
<1>2. conn[c] \in Request /\ conn[c].sid \in Sids BY <1>1, RequestFacts
<1>3. conn' = [conn EXCEPT ![c] = [conn[c] EXCEPT !.phase = "reply"]]
  BY DEF RunCommand, TypeOK
<1>4. /\ [conn[c] EXCEPT !.phase = "reply"] \in Request
      /\ [conn[c] EXCEPT !.phase = "reply"].phase = "reply"
      /\ [conn[c] EXCEPT !.phase = "reply"].msgs = conn[c].msgs
      /\ [conn[c] EXCEPT !.phase = "reply"].window = conn[c].window
      /\ [conn[c] EXCEPT !.phase = "reply"].sid = conn[c].sid
      /\ [conn[c] EXCEPT !.phase = "reply"].open = conn[c].open
  BY <1>2 DEF Request
<1>5. /\ conn'[c] = [conn[c] EXCEPT !.phase = "reply"]
      /\ \A d \in 1 .. Conns : d # c => conn'[d] = conn[d]
      /\ conn' \in [1 .. Conns -> Request \cup {Free}]
  BY <1>3, <1>4 DEF TypeOK
<1> QED BY <1>1, <1>2, <1>4, <1>5 DEF Same

LEMMA GiveUpFacts ==
    ASSUME TypeOK, NEW c \in 1 .. Conns, GiveUp(c)
    PROVE  /\ conn[c] \in Request /\ conn'[c] \in Request /\ conn[c].phase # "free" /\ ~conn'[c].open
           /\ conn'[c].phase = conn[c].phase /\ conn'[c].window = conn[c].window
           /\ conn'[c].sid = conn[c].sid /\ conn'[c].msgs = conn[c].msgs
           /\ conn'[c].id = conn[c].id /\ conn'[c].at = conn[c].at
           /\ \A d \in 1 .. Conns : d # c => conn'[d] = conn[d]
           /\ conn' \in [1 .. Conns -> Request \cup {Free}]
<1>1. conn[c].phase # "free" BY DEF GiveUp
<1>2. conn[c] \in Request BY <1>1, RequestFacts
<1>3. conn' = [conn EXCEPT ![c] = [conn[c] EXCEPT !.open = FALSE]]
  BY DEF GiveUp, TypeOK
<1>4. /\ [conn[c] EXCEPT !.open = FALSE] \in Request
      /\ [conn[c] EXCEPT !.open = FALSE].phase = conn[c].phase
      /\ [conn[c] EXCEPT !.open = FALSE].window = conn[c].window
      /\ [conn[c] EXCEPT !.open = FALSE].sid = conn[c].sid
      /\ [conn[c] EXCEPT !.open = FALSE].msgs = conn[c].msgs
      /\ [conn[c] EXCEPT !.open = FALSE].id = conn[c].id
      /\ [conn[c] EXCEPT !.open = FALSE].at = conn[c].at
      /\ ~[conn[c] EXCEPT !.open = FALSE].open
  BY <1>2 DEF Request
<1>5. /\ conn'[c] = [conn[c] EXCEPT !.open = FALSE]
      /\ \A d \in 1 .. Conns : d # c => conn'[d] = conn[d]
      /\ conn' \in [1 .. Conns -> Request \cup {Free}]
  BY <1>3, <1>4 DEF TypeOK
<1> QED BY <1>1, <1>2, <1>4, <1>5

LEMMA AskFacts ==
    ASSUME TypeOK, NEW w \in Windows, NEW kind \in Kinds, Ask(w, kind)
    PROVE  \E c \in 1 .. Conns :
           /\ conn[c].phase = "free" /\ conn'[c] \in Request
           /\ conn'[c].phase = "asked" /\ conn'[c].window = w
           /\ conn'[c].msgs = <<>> /\ conn'[c].id = 0 /\ conn'[c].at = 0
           /\ \A d \in 1 .. Conns : d # c => conn'[d] = conn[d]
           /\ conn' \in [1 .. Conns -> Request \cup {Free}]
<1>1. PICK c \in 1 .. Conns : conn[c] = Free /\ conn' = [conn EXCEPT ![c] = Asking(w, kind)]
  BY DEF Ask
<1>2. SessionOf(w) \in Sids
  <2>1. home[w] \in Browsers BY DEF TypeOK, Browsers
  <2> QED BY <2>1 DEF SessionOf, TypeOK
<1>3. /\ Asking(w, kind) \in Request /\ Asking(w, kind).phase = "asked" /\ Asking(w, kind).window = w
      /\ Asking(w, kind).msgs = <<>> /\ Asking(w, kind).id = 0 /\ Asking(w, kind).at = 0
  BY <1>2, EmptyElems DEF Asking, Request
<1>4. /\ conn'[c] = Asking(w, kind) /\ \A d \in 1 .. Conns : d # c => conn'[d] = conn[d]
      /\ conn' \in [1 .. Conns -> Request \cup {Free}]
  BY <1>1, <1>3 DEF TypeOK
<1>5. conn[c].phase = "free" BY <1>1 DEF Free
<1> QED BY <1>3, <1>4, <1>5

LEMMA FreeFacts ==
    ASSUME TypeOK, NEW c \in 1 .. Conns, conn' = [conn EXCEPT ![c] = Free]
    PROVE  /\ conn'[c].phase = "free"
           /\ \A d \in 1 .. Conns : d # c => conn'[d] = conn[d]
           /\ conn' \in [1 .. Conns -> Request \cup {Free}]
BY DEF TypeOK, Free

(* How the mailbox changes.                                                 *)
LEMMA MailFacts ==
    ASSUME TypeOK, [Next]_vars
    PROVE  /\ raced \subseteq raced' /\ raced' \subseteq Sids
           /\ known' \subseteq Sids /\ cursor' \in [Sids -> Nat]
           /\ \/ Heard
              \/ Quiet /\ (\E c \in 1 .. Conns : RunCommand(c)) /\ Clear
              \/ box' = box /\ next' = next
           /\ \/ UNCHANGED recordVars
              \/ Quiet /\ (\E c \in 1 .. Conns : RunCommand(c)) /\ Clear
              \/ Quiet /\ (\E c \in 1 .. Conns : RunCommand(c)) /\ known \subseteq known' /\ cursor' = cursor
              \/ \E c \in 1 .. Conns :
                    /\ Insert(c)
                    /\ known' = known \cup {conn[c].sid} /\ cursor' = [cursor EXCEPT ![conn[c].sid] = 0]
              \/ \E c \in 1 .. Conns :
                    /\ ReadNext(c) /\ ~(box[conn[c].at + 1] <= conn[c].id)
                    /\ known' = known \cup {conn[c].sid}
                    /\ cursor' = [cursor EXCEPT ![conn[c].sid] = box[conn[c].at + 1]]
           /\ UNCHANGED recordVars \/ UNCHANGED raced \/ \E c \in 1 .. Conns : Insert(c)
<1>t. raced \subseteq Sids /\ known \subseteq Sids /\ cursor \in [Sids -> Nat] BY DEF TypeOK
<1>1. ASSUME UNCHANGED <<recordVars, raced>>, Heard \/ UNCHANGED boxVars
      PROVE  /\ raced \subseteq raced' /\ raced' \subseteq Sids
             /\ known' \subseteq Sids /\ cursor' \in [Sids -> Nat]
             /\ Heard \/ (box' = box /\ next' = next)
             /\ UNCHANGED recordVars
  <2>1. known' = known /\ cursor' = cursor /\ raced' = raced BY <1>1 DEF recordVars
  <2>2. Heard \/ (box' = box /\ next' = next) BY <1>1 DEF boxVars
  <2> QED BY <1>t, <2>1, <2>2 DEF recordVars
<1>2. ASSUME NEW c \in 1 .. Conns, StartPoll(c)
      PROVE  /\ raced \subseteq raced' /\ raced' \subseteq Sids /\ UNCHANGED <<boxVars, recordVars>>
  <2>1. conn[c].sid \in Sids BY <1>2, StartFacts
  <2>2. raced' = raced \cup {conn[c].sid} \/ raced' = raced BY <1>2 DEF StartPoll
  <2> QED BY <1>t, <1>2, <2>1, <2>2 DEF StartPoll, mailVars
<1>3. ASSUME NEW c \in 1 .. Conns, Insert(c)
      PROVE  /\ raced \subseteq raced' /\ raced' \subseteq Sids /\ UNCHANGED boxVars
             /\ known' = known \cup {conn[c].sid} /\ cursor' = [cursor EXCEPT ![conn[c].sid] = 0]
             /\ known' \subseteq Sids /\ cursor' \in [Sids -> Nat]
  <2>1. conn[c].sid \in Sids /\ raced \subseteq raced' /\ raced' \subseteq Sids BY <1>3, InsertFacts
  <2>2. known' = known \cup {conn[c].sid} /\ cursor' = [cursor EXCEPT ![conn[c].sid] = 0] /\ UNCHANGED boxVars
    BY <1>3 DEF Insert, Stored
  <2> QED BY <1>t, <2>1, <2>2
<1>4. ASSUME NEW c \in 1 .. Conns, ReadNext(c)
      PROVE  /\ UNCHANGED boxVars /\ raced' = raced
             /\ \/ UNCHANGED recordVars
                \/ /\ ~(box[conn[c].at + 1] <= conn[c].id)
                   /\ known' = known \cup {conn[c].sid}
                   /\ cursor' = [cursor EXCEPT ![conn[c].sid] = box[conn[c].at + 1]]
             /\ known' \subseteq Sids /\ cursor' \in [Sids -> Nat]
  <2>1. PICK s \in Sids, m \in Nat : s = conn[c].sid /\ m = box[conn[c].at + 1] BY <1>4, ReadFacts
  <2>2. \/ UNCHANGED <<known, cursor>>
        \/ ~(m <= conn[c].id) /\ known' = known \cup {s} /\ cursor' = [cursor EXCEPT ![s] = m]
    BY <1>4, <2>1, ReadFacts
  <2>3. UNCHANGED boxVars /\ raced' = raced BY <1>4 DEF ReadNext, historyVars
  <2> QED BY <1>t, <2>1, <2>2, <2>3 DEF recordVars
<1>5. ASSUME NEW c \in 1 .. Conns, RunCommand(c)
      PROVE  /\ raced' = raced /\ known' \subseteq Sids /\ cursor' \in [Sids -> Nat]
             /\ \/ Quiet /\ Clear
                \/ /\ UNCHANGED boxVars
                   /\ UNCHANGED recordVars \/ (Quiet /\ known \subseteq known' /\ cursor' = cursor)
  <2>1. conn[c].sid \in Sids BY <1>5, CommandFacts
  <2>2. raced' = raced BY <1>5 DEF RunCommand, historyVars
  <2>3. Clear \/ EditHosts(conn[c].sid) \/ UNCHANGED mailVars BY <1>5 DEF RunCommand
  <2>4. CASE Clear BY <2>2, <2>4 DEF Clear
  <2>5. CASE EditHosts(conn[c].sid)
    BY <1>t, <2>1, <2>2, <2>5 DEF EditHosts
  <2>6. CASE UNCHANGED mailVars
    BY <1>t, <2>2, <2>6 DEF mailVars, recordVars
  <2> QED BY <2>3, <2>4, <2>5, <2>6
<1>6. CASE Heard BY <1>1, <1>6 DEF Heard, historyVars
<1>7. CASE \E w \in Windows, kind \in Kinds : Ask(w, kind)
  BY <1>1, <1>7 DEF Ask, mailVars, historyVars, boxVars
<1>8. ASSUME NEW c \in 1 .. Conns, GiveUp(c) \/ EndPoll(c) \/ NotRun(c) \/ ReplyArrives(c) \/ ReplyFails(c) \/ ProcessDies(c)
      PROVE  UNCHANGED <<boxVars, recordVars, raced>>
  BY <1>8 DEF GiveUp, EndPoll, NotRun, ReplyArrives, ReplyFails, ProcessDies, mailVars, historyVars
<1>9. CASE UNCHANGED vars
  BY <1>1, <1>9 DEF vars, mailVars, historyVars
<1>10. ASSUME UNCHANGED boxVars PROVE box' = box /\ next' = next BY <1>10 DEF boxVars
<1>11. CASE \E c \in 1 .. Conns : StartPoll(c) BY <1>t, <1>2, <1>10, <1>11 DEF recordVars
<1>12. CASE \E c \in 1 .. Conns : Insert(c) BY <1>3, <1>10, <1>12
<1>13. CASE \E c \in 1 .. Conns : ReadNext(c) BY <1>t, <1>4, <1>10, <1>13
<1>14. CASE \E c \in 1 .. Conns : RunCommand(c) BY <1>t, <1>5, <1>10, <1>14
<1>15. CASE \E c \in 1 .. Conns : \/ GiveUp(c) \/ EndPoll(c) \/ NotRun(c)
                                   \/ ReplyArrives(c) \/ ReplyFails(c) \/ ProcessDies(c)
  BY <1>1, <1>8, <1>15
<1> QED BY <1>6, <1>7, <1>9, <1>11, <1>12, <1>13, <1>14, <1>15 DEF Next, Serve, Poll

(* What a step does to the connections, whatever else it does.              *)
LEMMA ConnType ==
    ASSUME TypeOK, [Next]_vars
    PROVE  conn' \in [1 .. Conns -> Request \cup {Free}]
<1>1. CASE \E w \in Windows, kind \in Kinds : Ask(w, kind) BY <1>1, AskFacts
<1>2. CASE \E c \in 1 .. Conns : StartPoll(c) BY <1>2, StartFacts
<1>3. CASE \E c \in 1 .. Conns : Insert(c) BY <1>3, InsertFacts
<1>4. CASE \E c \in 1 .. Conns : ReadNext(c) BY <1>4, ReadFacts
<1>5. CASE \E c \in 1 .. Conns : EndPoll(c) BY <1>5, EndFacts
<1>6. CASE \E c \in 1 .. Conns : RunCommand(c) BY <1>6, CommandFacts
<1>7. CASE \E c \in 1 .. Conns : GiveUp(c) BY <1>7, GiveUpFacts
<1>8. CASE \E c \in 1 .. Conns : NotRun(c) \/ ReplyArrives(c) \/ ReplyFails(c)
  BY <1>8, FreeFacts DEF NotRun, ReplyArrives, ReplyFails
<1>9. CASE Heard \/ UNCHANGED vars \/ \E c \in 1 .. Conns : ProcessDies(c)
  BY <1>9 DEF Heard, vars, ProcessDies, TypeOK
<1> QED BY <1>1, <1>2, <1>3, <1>4, <1>5, <1>6, <1>7, <1>8, <1>9 DEF Next, Serve, Poll

LEMMA NextType == TypeOK /\ [Next]_vars => TypeOK'
<1> SUFFICES ASSUME TypeOK, [Next]_vars PROVE TypeOK'
  OBVIOUS
<1>a. Loads[threads].posts \in Nat /\ Loads[threads].commands \in Nat /\ MaxKeep \in Nat \ {0}
  BY ChatAssumption DEF TypeOK
<1>h. \A w \in Windows : home[w] \in Browsers BY DEF TypeOK, Browsers
<1>c. conn' \in [1 .. Conns -> Request \cup {Free}] BY ConnType
<1>m. known' \in SUBSET Sids /\ cursor' \in [Sids -> Nat] /\ raced' \in SUBSET Sids
  BY MailFacts
<1>b. box' \in Seq(Nat) /\ Len(box') <= MaxKeep + 1 /\ next' \in 0 .. Loads[threads].posts
  <2>1. CASE Heard
    <3>1. /\ Trimmed(box) \in Seq(Nat) /\ Len(Trimmed(box)) <= MaxKeep
          /\ next \in Nat /\ Len(Trimmed(box)) \in Nat
      <4>1. Trimmed(box) \in Seq(Nat) /\ Len(Trimmed(box)) <= MaxKeep BY TrimmedFacts DEF TypeOK
      <4> QED BY <1>a, <4>1, LenProperties DEF TypeOK
    <3>2. box' = Append(Trimmed(box), next) BY <2>1 DEF Heard
    <3>3. box' \in Seq(Nat) /\ Len(box') = Len(Trimmed(box)) + 1 BY <3>1, <3>2, SingleElems
    <3>4. next' \in 0 .. Loads[threads].posts BY <1>a, <2>1 DEF Heard, TypeOK
    <3> QED BY <1>a, <3>1, <3>3, <3>4
  <2>2. CASE Clear
    <3>1. Len(<<>>) = 0 /\ <<>> \in Seq(Nat) BY EmptySeq
    <3> QED BY <1>a, <2>2, <3>1 DEF Clear, TypeOK
  <2>3. CASE box' = box /\ next' = next BY <2>3 DEF TypeOK
  <2> QED BY <2>1, <2>2, <2>3, MailFacts
<1>s. shown' \in [Windows -> [Sids -> Seq(Nat)]] /\ lost' \in [Sids -> SUBSET Nat]
  <2>1. ASSUME NEW c \in 1 .. Conns, ReplyArrives(c) PROVE shown' \in [Windows -> [Sids -> Seq(Nat)]]
    <3>1. conn[c].phase # "free" BY <2>1 DEF ReplyArrives
    <3>2. PICK w \in Windows, s \in Sids : w = conn[c].window /\ s = conn[c].sid BY <3>1, RequestFacts
    <3>3. shown[w][s] \o conn[c].msgs \in Seq(Nat)
      BY <3>1, RequestFacts, ConcatElems DEF TypeOK
    <3>4. shown' = [shown EXCEPT ![w][s] = shown[w][s] \o conn[c].msgs]
      BY <2>1, <3>2 DEF ReplyArrives
    <3> QED BY <3>3, <3>4 DEF TypeOK
  <2>2. ASSUME NEW c \in 1 .. Conns, ReplyFails(c) PROVE lost' \in [Sids -> SUBSET Nat]
    <3>1. conn[c].phase # "free" BY <2>2 DEF ReplyFails
    <3>2. Elems(conn[c].msgs) \in SUBSET Nat BY <3>1, RequestFacts, ElemsFacts
    <3> QED BY <2>2, <3>1, <3>2, RequestFacts DEF ReplyFails, TypeOK
  <2>3. shown' = shown \/ \E c \in 1 .. Conns : ReplyArrives(c)
    BY DEF Next, Serve, Poll, Heard, Ask, GiveUp, StartPoll, Insert, ReadNext, EndPoll, RunCommand, NotRun,
       ReplyFails, ProcessDies, historyVars, vars
  <2>4. lost' = lost \/ \E c \in 1 .. Conns : ReplyFails(c)
    BY DEF Next, Serve, Poll, Heard, Ask, GiveUp, StartPoll, Insert, ReadNext, EndPoll, RunCommand, NotRun,
       ReplyArrives, ProcessDies, historyVars, vars
  <2> QED BY <2>1, <2>2, <2>3, <2>4 DEF TypeOK
<1>k. cookie' \in [Browsers -> Sids]
  <2>1. ASSUME NEW c \in 1 .. Conns, ReplyArrives(c) PROVE cookie' \in [Browsers -> Sids]
    <3>1. conn[c].phase # "free" BY <2>1 DEF ReplyArrives
    <3>2. PICK w \in Windows : w = conn[c].window BY <3>1, RequestFacts
    <3>3. NewId(c) \in Sids BY <3>1, RequestFacts DEF NewId, Sids
    <3> QED BY <1>h, <2>1, <3>2, <3>3 DEF ReplyArrives, TypeOK
  <2>2. cookie' = cookie \/ \E c \in 1 .. Conns : ReplyArrives(c)
    BY DEF Next, Serve, Poll, Heard, Ask, GiveUp, StartPoll, Insert, ReadNext, EndPoll, RunCommand, NotRun,
       ReplyFails, ProcessDies, pageVars, vars
  <2> QED BY <2>1, <2>2 DEF TypeOK
<1>n. commands' \in 0 .. Loads[threads].commands
  <2>1. ASSUME NEW w \in Windows, NEW kind \in Kinds, Ask(w, kind)
        PROVE  commands' \in 0 .. Loads[threads].commands
    <3>1. commands' = commands \/ commands' = commands + 1 BY <2>1 DEF Ask, TypeOK
    <3>2. commands' <= Loads[threads].commands BY <2>1 DEF Ask
    <3> QED BY <1>a, <3>1, <3>2 DEF TypeOK
  <2>2. commands' = commands \/ \E w \in Windows, kind \in Kinds : Ask(w, kind)
    BY DEF Next, Serve, Poll, Heard, GiveUp, StartPoll, Insert, ReadNext, EndPoll, RunCommand, NotRun,
       ReplyArrives, ReplyFails, ProcessDies, pageVars, vars
  <2> QED BY <2>1, <2>2 DEF TypeOK
<1>r. threads' = threads /\ home' = home /\ alive' \in BOOLEAN
  BY DEF Next, Serve, Poll, Heard, Ask, GiveUp, StartPoll, Insert, ReadNext, EndPoll, RunCommand, NotRun,
     ReplyArrives, ReplyFails, ProcessDies, pageVars, vars, TypeOK
<1> QED BY <1>c, <1>m, <1>b, <1>s, <1>k, <1>n, <1>r DEF TypeOK

-----------------------------------------------------------------------------
(***************************************************************************)
(* How a step moves the messages of a session: not at all, from the mailbox *)
(* to a poll, from a reply to a window, or away with a reply that failed.   *)
(***************************************************************************)
SeenStays(s) == \A w \in Windows : Seen(w, s)' = Seen(w, s)
HeldStays(s, c) == \A d \in 1 .. Conns : d # c => Held(d, s)' = Held(d, s)

Still(s) ==
    /\ lost'[s] = lost[s] /\ SeenStays(s)
    /\ \A c \in 1 .. Conns : Held(c, s)' = Held(c, s)

Taking(s, c, m) ==
    /\ lost'[s] = lost[s] /\ SeenStays(s)
    /\ Held(c, s)' = Held(c, s) \cup {m} /\ HeldStays(s, c)

Arriving(s, c, w) ==
    /\ lost'[s] = lost[s]
    /\ Seen(w, s)' = Seen(w, s) \cup Held(c, s)
    /\ \A v \in Windows : v # w => Seen(v, s)' = Seen(v, s)
    /\ Held(c, s)' = {} /\ HeldStays(s, c)

Failing(s, c) ==
    /\ lost'[s] = lost[s] \cup Held(c, s) /\ SeenStays(s)
    /\ Held(c, s)' = {} /\ HeldStays(s, c)

LEMMA Primed ==
    /\ \A s \in Sids, w \in Windows : Seen(w, s)' = Elems(shown'[w][s])
    /\ \A s \in Sids, c \in 1 .. Conns :
          Held(c, s)' = IF conn'[c].phase # "free" /\ conn'[c].sid = s THEN Elems(conn'[c].msgs) ELSE {}
<1>1. \A s \in Sids, w \in Windows : Seen(w, s)' = Elems(shown'[w][s]) BY DEF Seen, Elems
<1>2. \A s \in Sids, c \in 1 .. Conns :
        Held(c, s)' = IF conn'[c].phase # "free" /\ conn'[c].sid = s THEN Elems(conn'[c].msgs) ELSE {}
  BY DEF Held, Elems
<1> QED BY <1>1, <1>2

LEMMA ArrivalMoves ==
    ASSUME TypeOK, NEW c \in 1 .. Conns, ReplyArrives(c),
           NEW s \in Sids, s = conn[c].sid, NEW w \in Windows, w = conn[c].window
    PROVE  /\ Arriving(s, c, w) /\ \A r \in Sids \ {s} : Still(r)
           /\ shown'[w][s] = shown[w][s] \o conn[c].msgs
           /\ \A v \in Windows, r \in Sids : v # w \/ r # s => shown'[v][r] = shown[v][r]
           /\ shown[w][s] \in Seq(Nat) /\ conn[c].msgs \in Seq(Nat)
<1>c. conn \in [1 .. Conns -> Request \cup {Free}] /\ conn[c].msgs \in Seq(Nat) /\ conn[c].phase = "reply"
  BY RequestFacts DEF ReplyArrives, TypeOK
<1>1. /\ conn'[c] = Free /\ \A d \in 1 .. Conns : d # c => conn'[d] = conn[d]
      /\ lost' = lost
      /\ shown' = [shown EXCEPT ![w][s] = shown[w][s] \o conn[c].msgs]
  BY <1>c DEF ReplyArrives
<1>2. /\ shown'[w][s] = shown[w][s] \o conn[c].msgs
      /\ \A v \in Windows, r \in Sids : v # w \/ r # s => shown'[v][r] = shown[v][r]
      /\ shown[w][s] \in Seq(Nat)
  BY <1>1 DEF TypeOK
<1>3. Seen(w, s)' = Seen(w, s) \cup Elems(conn[c].msgs)
  <2>1. Elems(shown[w][s] \o conn[c].msgs) = Elems(shown[w][s]) \cup Elems(conn[c].msgs)
    BY <1>c, <1>2, ConcatElems
  <2> QED BY <1>2, <2>1, Primed DEF Seen
<1>4. \A v \in Windows, r \in Sids : v # w \/ r # s => Seen(v, r)' = Seen(v, r)
  BY <1>2, Primed DEF Seen
<1>5. \A r \in Sids : Held(c, r)' = {} /\ HeldStays(r, c) /\ Held(c, r) = IF r = s THEN Elems(conn[c].msgs) ELSE {}
  <2>1. Free.phase = "free" BY DEF Free
  <2> QED BY <1>c, <1>1, <2>1, Primed DEF Held, HeldStays
<1>7. Arriving(s, c, w) BY <1>1, <1>3, <1>4, <1>5 DEF Arriving
<1>8. \A r \in Sids \ {s} : Still(r)
  BY <1>1, <1>4, <1>5 DEF Still, SeenStays, HeldStays
<1> QED BY <1>c, <1>2, <1>7, <1>8

LEMMA FailureMoves ==
    ASSUME TypeOK, NEW c \in 1 .. Conns, ReplyFails(c), NEW s \in Sids, s = conn[c].sid
    PROVE  Failing(s, c) /\ \A r \in Sids \ {s} : Still(r)
<1>c. conn \in [1 .. Conns -> Request \cup {Free}] /\ conn[c].phase = "reply"
  BY DEF ReplyFails, TypeOK
<1>1. /\ conn'[c] = Free /\ \A d \in 1 .. Conns : d # c => conn'[d] = conn[d]
      /\ shown' = shown
      /\ lost' = [lost EXCEPT ![s] = lost[s] \cup Elems(conn[c].msgs)]
  BY <1>c DEF ReplyFails
<1>2. /\ lost'[s] = lost[s] \cup Elems(conn[c].msgs)
      /\ \A r \in Sids : r # s => lost'[r] = lost[r]
  BY <1>1 DEF TypeOK
<1>3. \A r \in Sids : Held(c, r)' = {} /\ HeldStays(r, c) /\ Held(c, r) = IF r = s THEN Elems(conn[c].msgs) ELSE {}
  <2>1. Free.phase = "free" BY DEF Free
  <2> QED BY <1>c, <1>1, <2>1, Primed DEF Held, HeldStays
<1>4. \A r \in Sids : SeenStays(r)
  BY <1>1 DEF Seen, SeenStays, Elems
<1>5. Failing(s, c) BY <1>2, <1>3, <1>4 DEF Failing
<1>6. \A r \in Sids \ {s} : Still(r)
  BY <1>2, <1>3, <1>4 DEF Still, HeldStays
<1> QED BY <1>5, <1>6

LEMMA ReadMoves ==
    ASSUME TypeOK, NEW c \in 1 .. Conns, ReadNext(c), NEW s \in Sids, s = conn[c].sid,
           NEW m, m = box[conn[c].at + 1]
    PROVE  /\ \A r \in Sids \ {s} : Still(r)
           /\ m <= conn[c].id => Still(s)
           /\ ~(m <= conn[c].id) => Taking(s, c, m)
<1>1. /\ conn[c].phase = "running" /\ conn'[c].phase = "running" /\ conn'[c].sid = s
      /\ conn[c].msgs \in Seq(Nat) /\ m \in Nat
      /\ \/ m <= conn[c].id /\ conn'[c].msgs = conn[c].msgs
         \/ ~(m <= conn[c].id) /\ conn'[c].msgs = Append(conn[c].msgs, m)
      /\ \A d \in 1 .. Conns : d # c => conn'[d] = conn[d]
  BY ReadFacts, RequestFacts DEF Same
<1>2. shown' = shown /\ lost' = lost BY DEF ReadNext, historyVars
<1>3. \A r \in Sids : SeenStays(r) /\ lost'[r] = lost[r] BY <1>2 DEF SeenStays, Seen
<1>4. \A r \in Sids, d \in 1 .. Conns : d # c \/ r # s => Held(d, r)' = Held(d, r)
  BY <1>1, Primed DEF Held
<1>5. Held(c, s)' = Elems(conn'[c].msgs) /\ Held(c, s) = Elems(conn[c].msgs)
  BY <1>1, Primed DEF Held
<1>6. \A r \in Sids \ {s} : Still(r) BY <1>3, <1>4 DEF Still
<1>7. CASE m <= conn[c].id /\ conn'[c].msgs = conn[c].msgs BY <1>3, <1>4, <1>5, <1>6, <1>7 DEF Still
<1>8. CASE ~(m <= conn[c].id) /\ conn'[c].msgs = Append(conn[c].msgs, m)
  <2>1. Held(c, s)' = Held(c, s) \cup {m} BY <1>1, <1>5, <1>8, SingleElems
  <2> QED BY <1>3, <1>4, <1>6, <1>8, <2>1 DEF Taking, HeldStays
<1> QED BY <1>1, <1>7, <1>8

(* Every other step leaves the messages where they are.                     *)
LEMMA OtherMoves ==
    ASSUME TypeOK, RequestInv, [Next]_vars,
           \A c \in 1 .. Conns : ~ReadNext(c) /\ ~ReplyArrives(c) /\ ~ReplyFails(c),
           NEW s \in Sids
    PROVE  Still(s)
<1>1. shown' = shown /\ lost' = lost
  BY DEF Next, Heard, Ask, GiveUp, Serve, Poll, StartPoll, Insert, EndPoll, RunCommand, NotRun, ProcessDies,
     historyVars, vars
<1>2. SeenStays(s) /\ lost'[s] = lost[s] BY <1>1 DEF SeenStays, Seen
<1>3. ASSUME \A c \in 1 .. Conns :
                \/ conn'[c] = conn[c]
                \/ conn'[c].phase # "free" /\ conn[c].phase # "free" /\ conn'[c].sid = conn[c].sid /\ conn'[c].msgs = conn[c].msgs
                \/ /\ conn[c].phase = "free" \/ conn[c].msgs = <<>>
                   /\ conn'[c].phase = "free" \/ conn'[c].msgs = <<>>
      PROVE  Still(s)
  <2>1. ASSUME NEW c \in 1 .. Conns PROVE Held(c, s)' = Held(c, s)
    BY <1>3, <2>1, Primed, EmptyElems DEF Held
  <2> QED BY <1>2, <2>1 DEF Still
<1>4. CASE \E w \in Windows, kind \in Kinds : Ask(w, kind) BY <1>3, <1>4, AskFacts
<1>5. CASE \E c \in 1 .. Conns : StartPoll(c)
  <2>1. PICK c \in 1 .. Conns : StartPoll(c) BY <1>5
  <2>2. /\ Same(c) /\ conn[c].phase # "free" /\ conn'[c].phase # "free" /\ conn'[c].msgs = conn[c].msgs
        /\ \A d \in 1 .. Conns : d # c => conn'[d] = conn[d]
    BY <2>1, StartFacts
  <2> QED BY <1>3, <2>2 DEF Same
<1>6. CASE \E c \in 1 .. Conns : Insert(c)
  <2>1. PICK c \in 1 .. Conns : Insert(c) BY <1>6
  <2>2. \A d \in 1 .. Conns :
           \/ conn'[d] = conn[d]
           \/ /\ conn[d].phase = "insert" /\ conn'[d].phase = "running" /\ Same(d)
              /\ conn'[d].msgs = conn[d].msgs
    BY <2>1, InsertFacts
  <2> QED BY <1>3, <2>2 DEF Same
<1>7. CASE \E c \in 1 .. Conns : EndPoll(c) BY <1>3, <1>7, EndFacts DEF Same
<1>8. CASE \E c \in 1 .. Conns : RunCommand(c) BY <1>3, <1>8, CommandFacts DEF Same
<1>9. CASE \E c \in 1 .. Conns : GiveUp(c)
  <2>1. PICK c \in 1 .. Conns : GiveUp(c) BY <1>9
  <2>2. /\ conn[c].phase # "free" /\ conn'[c].phase = conn[c].phase
        /\ conn'[c].sid = conn[c].sid /\ conn'[c].msgs = conn[c].msgs
        /\ \A d \in 1 .. Conns : d # c => conn'[d] = conn[d]
    BY <2>1, GiveUpFacts
  <2> QED BY <1>3, <2>2
<1>10. CASE \E c \in 1 .. Conns : NotRun(c)
  <2>1. PICK c \in 1 .. Conns : NotRun(c) BY <1>10
  <2>2. conn[c].msgs = <<>> BY <2>1 DEF NotRun, Asked, RequestInv
  <2>3. conn'[c].phase = "free" /\ \A d \in 1 .. Conns : d # c => conn'[d] = conn[d]
    BY <2>1, FreeFacts DEF NotRun
  <2> QED BY <1>3, <2>2, <2>3
<1>11. CASE Heard \/ UNCHANGED vars \/ \E c \in 1 .. Conns : ProcessDies(c)
  <2>1. conn' = conn BY <1>11 DEF Heard, vars, ProcessDies
  <2> QED BY <1>3, <2>1
<1> QED BY <1>4, <1>5, <1>6, <1>7, <1>8, <1>9, <1>10, <1>11 DEF Next, Serve, Poll

LEMMA NextMoves ==
    ASSUME TypeOK, RequestInv, [Next]_vars, NEW s \in Sids
    PROVE  \/ Still(s)
           \/ \E c \in 1 .. Conns :
                 /\ ReadNext(c) /\ conn[c].sid = s /\ ~(box[conn[c].at + 1] <= conn[c].id)
                 /\ Taking(s, c, box[conn[c].at + 1])
           \/ \E c \in 1 .. Conns, w \in Windows :
                 ReplyArrives(c) /\ conn[c].sid = s /\ conn[c].window = w /\ Arriving(s, c, w)
           \/ \E c \in 1 .. Conns : ReplyFails(c) /\ conn[c].sid = s /\ Failing(s, c)
<1>1. ASSUME NEW c \in 1 .. Conns, ReadNext(c)
      PROVE  Still(s) \/ /\ conn[c].sid = s /\ ~(box[conn[c].at + 1] <= conn[c].id)
                         /\ Taking(s, c, box[conn[c].at + 1])
  <2>1. PICK r \in Sids : r = conn[c].sid BY <1>1, ReadFacts
  <2> QED BY <1>1, <2>1, ReadMoves
<1>2. ASSUME NEW c \in 1 .. Conns, ReplyArrives(c)
      PROVE  Still(s) \/ (conn[c].sid = s /\ \E w \in Windows : conn[c].window = w /\ Arriving(s, c, w))
  <2>1. PICK r \in Sids, w \in Windows : r = conn[c].sid /\ w = conn[c].window
    BY <1>2, RequestFacts DEF ReplyArrives
  <2> QED BY <1>2, <2>1, ArrivalMoves
<1>3. ASSUME NEW c \in 1 .. Conns, ReplyFails(c)
      PROVE  Still(s) \/ (conn[c].sid = s /\ Failing(s, c))
  <2>1. PICK r \in Sids : r = conn[c].sid BY <1>3, RequestFacts DEF ReplyFails
  <2> QED BY <1>3, <2>1, FailureMoves
<1> QED BY <1>1, <1>2, <1>3, OtherMoves

(* Nothing that was returned gets lost without being noted, ...             *)
LEMMA ReturnedStays ==
    ASSUME TypeOK, RequestInv, [Next]_vars, NEW s \in Sids, NEW m, Returned(m, s)
    PROVE  Returned(m, s)'
<1>1. CASE Still(s) BY <1>1 DEF Still, SeenStays, Returned
<1>2. ASSUME NEW c \in 1 .. Conns, NEW n, Taking(s, c, n) PROVE Returned(m, s)'
  BY <1>2 DEF Taking, SeenStays, HeldStays, Returned
<1>3. ASSUME NEW c \in 1 .. Conns, NEW w \in Windows, Arriving(s, c, w) PROVE Returned(m, s)'
  BY <1>3 DEF Arriving, HeldStays, Returned
<1>4. ASSUME NEW c \in 1 .. Conns, Failing(s, c) PROVE Returned(m, s)'
  BY <1>4 DEF Failing, SeenStays, HeldStays, Returned
<1> QED BY <1>1, <1>2, <1>3, <1>4, NextMoves

(* ... and nothing newer comes to be there than what was taken.             *)
LEMMA AboveStays ==
    ASSUME TypeOK, RequestInv, [Next]_vars, NEW s \in Sids, NEW n, Above(n, s),
           \A c \in 1 .. Conns :
               ReadNext(c) /\ conn[c].sid = s /\ ~(box[conn[c].at + 1] <= conn[c].id) => box[conn[c].at + 1] < n
    PROVE  Above(n, s)'
<1>1. CASE Still(s) BY <1>1 DEF Still, SeenStays, Above
<1>2. ASSUME NEW c \in 1 .. Conns, NEW m, m < n, Taking(s, c, m) PROVE Above(n, s)'
  BY <1>2 DEF Taking, SeenStays, HeldStays, Above
<1>3. ASSUME NEW c \in 1 .. Conns, NEW w \in Windows, Arriving(s, c, w) PROVE Above(n, s)'
  BY <1>3 DEF Arriving, HeldStays, Above
<1>4. ASSUME NEW c \in 1 .. Conns, Failing(s, c) PROVE Above(n, s)'
  BY <1>4 DEF Failing, SeenStays, HeldStays, Above
<1> QED BY <1>1, <1>2, <1>3, <1>4, NextMoves

LEMMA MessagesAreNumbers ==
    ASSUME TypeOK
    PROVE  /\ Elems(box) \subseteq Nat /\ next \in Nat /\ box \in Seq(Nat)
           /\ \A s \in Sids, w \in Windows : Seen(w, s) \subseteq Nat
           /\ \A s \in Sids, c \in 1 .. Conns : Held(c, s) \subseteq Nat
<1>1. box \in Seq(Nat) /\ next \in Nat
  <2>1. Loads[threads].posts \in Nat BY ChatAssumption DEF TypeOK
  <2> QED BY <2>1 DEF TypeOK
<1>2. \A s \in Sids, w \in Windows : shown[w][s] \in Seq(Nat) BY DEF TypeOK
<1>3. \A s \in Sids, c \in 1 .. Conns : Held(c, s) \subseteq Nat
  BY RequestFacts, ElemsFacts DEF Held
<1> QED BY <1>1, <1>2, <1>3, ElemsFacts DEF Seen

(* A message that a poll takes is one that the box keeps.                   *)
LEMMA TakenIsKept ==
    ASSUME TypeOK, NEW c \in 1 .. Conns, ReadNext(c)
    PROVE  box[conn[c].at + 1] \in Elems(box) /\ box[conn[c].at + 1] \in Nat
BY ReadFacts

-----------------------------------------------------------------------------
(***************************************************************************)
(* The invariant.                                                           *)
(***************************************************************************)
LEMMA HeardFacts ==
    ASSUME TypeOK, BoxInv, Heard
    PROVE  /\ box' \in Seq(Nat) /\ InOrder(box')
           /\ \A n \in Elems(box') : n \in Elems(box) \/ n = next
           /\ next' = next + 1 /\ Quiet /\ UNCHANGED <<recordVars, conn, raced, shown>>
<1>1. /\ Trimmed(box) \in Seq(Nat) /\ Elems(Trimmed(box)) \subseteq Elems(box)
      /\ InOrder(Trimmed(box)) /\ next \in Nat
  BY TrimmedFacts, MessagesAreNumbers DEF TypeOK, BoxInv
<1>2. box' = Append(Trimmed(box), next) BY DEF Heard
<1>3. Elems(box') = Elems(Trimmed(box)) \cup {next} /\ box' \in Seq(Nat)
  BY <1>1, <1>2, SingleElems
<1>4. InOrder(box')
  <2>1. \A m \in Elems(Trimmed(box)) : m < next BY <1>1 DEF BoxInv
  <2> QED BY <1>1, <1>2, <2>1, SingleElems
<1> QED BY <1>1, <1>3, <1>4 DEF Heard, historyVars

LEMMA NextBox == TypeOK /\ BoxInv /\ RequestInv /\ [Next]_vars => BoxInv'
<1> SUFFICES ASSUME TypeOK, BoxInv, RequestInv, [Next]_vars PROVE BoxInv'
  OBVIOUS
<1>t. next \in Nat /\ Elems(box) \subseteq Nat BY MessagesAreNumbers
<1>p. BoxInv' <=>
           /\ InOrder(box')
           /\ \A m \in Elems(box') : m < next'
           /\ \A s \in Sids : /\ \A w \in Windows : \A m \in Seen(w, s)' : m < next'
                              /\ \A c \in 1 .. Conns : \A m \in Held(c, s)' : m < next'
  BY DEF BoxInv, Above, InOrder, Elems
<1>1. ASSUME NEW s \in Sids
      PROVE  /\ \A w \in Windows : \A m \in Seen(w, s)' : m < next
             /\ \A c \in 1 .. Conns : \A m \in Held(c, s)' : m < next
  <2>1. \A c \in 1 .. Conns : ReadNext(c) => box[conn[c].at + 1] < next BY TakenIsKept DEF BoxInv
  <2>n. PICK n : n = next OBVIOUS
  <2>2. Above(n, s)' BY <2>1, <2>n, AboveStays DEF BoxInv
  <2> QED BY <2>2, <2>n DEF Above
<1>2. TypeOK' BY NextType
<1>3. \A s \in Sids : /\ \A w \in Windows : Seen(w, s)' \subseteq Nat
                      /\ \A c \in 1 .. Conns : Held(c, s)' \subseteq Nat
  <2>1. \A s \in Sids, w \in Windows : shown'[w][s] \in Seq(Nat) BY <1>2 DEF TypeOK
  <2>2. \A c \in 1 .. Conns : conn'[c].phase # "free" => conn'[c].msgs \in Seq(Nat)
    <3>1. \A c \in 1 .. Conns : conn'[c] \in Request \/ conn'[c] = Free BY ConnType
    <3>2. Free.phase = "free" BY DEF Free
    <3>3. \A r \in Request : r.msgs \in Seq(Nat) BY DEF Request
    <3> QED BY <3>1, <3>2, <3>3
  <2> QED BY <2>1, <2>2, Primed, ElemsFacts
<1>4. CASE Heard
  <2>1. /\ InOrder(box') /\ next' = next + 1
        /\ \A n \in Elems(box') : n \in Elems(box) \/ n = next
    BY <1>4, HeardFacts
  <2>2. \A m \in Elems(box') : m < next' BY <1>t, <2>1 DEF BoxInv
  <2>3. \A m \in Nat : m < next => m < next' BY <1>t, <2>1
  <2>4. \A s \in Sids : /\ \A w \in Windows : \A m \in Seen(w, s)' : m < next'
                        /\ \A c \in 1 .. Conns : \A m \in Held(c, s)' : m < next'
    BY <1>1, <1>3, <2>3
  <2> QED BY <1>p, <2>1, <2>2, <2>4
<1>5. CASE Clear
  <2>1. Elems(box') = {} /\ InOrder(box') /\ next' = next BY <1>5, EmptyElems DEF Clear
  <2> QED BY <1>p, <1>1, <2>1
<1>6. CASE box' = box /\ next' = next
  BY <1>p, <1>1, <1>6 DEF BoxInv
<1> QED BY <1>4, <1>5, <1>6, MailFacts

LEMMA NextRequest == TypeOK /\ BoxInv /\ RequestInv /\ [Next]_vars => RequestInv'
<1> SUFFICES ASSUME TypeOK, BoxInv, RequestInv, [Next]_vars PROVE RequestInv'
  OBVIOUS
<1>p. RequestInv' <=>
        /\ \A c \in 1 .. Conns : conn'[c].phase \in {"asked", "insert"}
                => conn'[c].msgs = <<>> /\ conn'[c].id = 0 /\ conn'[c].at = 0
        /\ \A c \in 1 .. Conns : conn'[c].phase = "running" => conn'[c].at <= Len(box')
        /\ \A c, d \in 1 .. Conns :
              /\ conn'[c].phase # "free" /\ conn'[c].open
              /\ conn'[d].phase # "free" /\ conn'[d].open
              /\ conn'[c].window = conn'[d].window
              => c = d
  BY DEF RequestInv
<1>b. Len(box) \in Nat /\ Len(box') \in Nat
  <2>1. TypeOK' BY NextType
  <2>2. box \in Seq(Nat) /\ box' \in Seq(Nat) BY <2>1 DEF TypeOK
  <2> QED BY <2>2, LenProperties
<1>1. ASSUME \A c \in 1 .. Conns : conn'[c].phase \in {"asked", "insert"}
                => conn'[c].msgs = <<>> /\ conn'[c].id = 0 /\ conn'[c].at = 0,
             \A c \in 1 .. Conns : conn'[c].phase = "running" => conn'[c].at <= Len(box'),
             \A c \in 1 .. Conns : conn'[c].phase # "free" /\ conn'[c].open
                => conn[c].phase # "free" /\ conn[c].open /\ conn'[c].window = conn[c].window
      PROVE  RequestInv'
  BY <1>1, <1>p DEF RequestInv
<1>2. ASSUME conn' = conn, box' = box \/ Quiet PROVE RequestInv'
  BY <1>1, <1>2 DEF RequestInv, Quiet, Polling
<1>3. ASSUME NEW c \in 1 .. Conns, conn' = [conn EXCEPT ![c] = Free], box' = box PROVE RequestInv'
  <2>1. conn'[c].phase = "free" /\ \A d \in 1 .. Conns : d # c => conn'[d] = conn[d]
    BY <1>3, FreeFacts
  <2> QED BY <1>1, <1>3, <2>1 DEF RequestInv
<1>4. ASSUME NEW w \in Windows, NEW kind \in Kinds, Ask(w, kind) PROVE RequestInv'
  <2>1. PICK c \in 1 .. Conns :
           /\ conn'[c].phase = "asked" /\ conn'[c].window = w
           /\ conn'[c].msgs = <<>> /\ conn'[c].id = 0 /\ conn'[c].at = 0
           /\ \A d \in 1 .. Conns : d # c => conn'[d] = conn[d]
    BY <1>4, AskFacts
  <2>2. box' = box BY <1>4 DEF Ask, mailVars, boxVars
  <2>3. \A d \in 1 .. Conns : ~(conn[d].phase # "free" /\ conn[d].window = w /\ conn[d].open)
    BY <1>4 DEF Ask, Waiting
  <2> QED BY <1>p, <2>1, <2>2, <2>3 DEF RequestInv
<1>5. ASSUME NEW c \in 1 .. Conns, GiveUp(c) PROVE RequestInv'
  <2>1. box' = box BY <1>5 DEF GiveUp, mailVars, boxVars
  <2> QED BY <1>1, <1>5, <2>1, GiveUpFacts DEF RequestInv
<1>6. ASSUME NEW c \in 1 .. Conns, StartPoll(c) PROVE RequestInv'
  <2>1. /\ Same(c) /\ conn[c].phase = "asked" /\ conn'[c].phase \in {"running", "insert"}
        /\ conn'[c].phase = "insert" => conn'[c].id = 0
        /\ conn'[c].at = conn[c].at /\ conn'[c].msgs = conn[c].msgs
        /\ \A d \in 1 .. Conns : d # c => conn'[d] = conn[d]
    BY <1>6, StartFacts
  <2>2. conn[c].at = 0 /\ conn[c].msgs = <<>> BY <2>1 DEF RequestInv
  <2>3. box' = box BY <1>6 DEF StartPoll, mailVars, boxVars
  <2>4. conn'[c].at <= Len(box') BY <1>b, <2>1, <2>2
  <2> QED BY <1>1, <2>1, <2>2, <2>3, <2>4 DEF RequestInv, Same
<1>7. ASSUME NEW c \in 1 .. Conns, Insert(c) PROVE RequestInv'
  <2>1. \A d \in 1 .. Conns :
           \/ conn'[d] = conn[d]
           \/ /\ conn[d].phase = "insert" /\ conn'[d].phase = "running" /\ Same(d)
              /\ conn'[d].at = conn[d].at
    BY <1>7, InsertFacts
  <2>2. box' = box BY <1>7 DEF Insert, boxVars
  <2>3. \A d \in 1 .. Conns : conn[d].phase = "insert" => conn[d].at <= Len(box')
    BY <1>b DEF RequestInv
  <2> QED BY <1>1, <2>1, <2>2, <2>3 DEF RequestInv, Same
<1>8. ASSUME NEW c \in 1 .. Conns, ReadNext(c) PROVE RequestInv'
  <2>1. /\ Same(c) /\ conn[c].phase = "running" /\ conn'[c].phase = "running"
        /\ conn'[c].at \in 1 .. Len(box)
        /\ \A d \in 1 .. Conns : d # c => conn'[d] = conn[d]
    BY <1>8, ReadFacts
  <2>2. box' = box BY <1>8 DEF ReadNext, boxVars
  <2>3. conn'[c].at <= Len(box') BY <1>b, <2>1, <2>2
  <2> QED BY <1>1, <2>1, <2>2, <2>3 DEF RequestInv, Same
<1>9. ASSUME NEW c \in 1 .. Conns, EndPoll(c) PROVE RequestInv'
  <2>1. box' = box BY <1>9 DEF EndPoll, mailVars, boxVars
  <2>2. /\ Same(c) /\ conn[c].phase = "running" /\ conn'[c].phase = "reply"
        /\ \A d \in 1 .. Conns : d # c => conn'[d] = conn[d]
    BY <1>9, EndFacts
  <2> QED BY <1>1, <2>1, <2>2 DEF RequestInv, Same
<1>10. ASSUME NEW c \in 1 .. Conns, RunCommand(c) PROVE RequestInv'
  <2>1. box' = box \/ Quiet BY <1>10 DEF RunCommand, Clear, EditHosts, mailVars, boxVars
  <2>2. /\ Same(c) /\ conn[c].phase = "asked" /\ conn'[c].phase = "reply"
        /\ \A d \in 1 .. Conns : d # c => conn'[d] = conn[d]
    BY <1>10, CommandFacts
  <2> QED BY <1>1, <2>1, <2>2 DEF RequestInv, Same, Quiet, Polling
<1>11. ASSUME NEW c \in 1 .. Conns, NotRun(c) \/ ReplyArrives(c) \/ ReplyFails(c) PROVE RequestInv'
  BY <1>3, <1>11 DEF NotRun, ReplyArrives, ReplyFails, mailVars, boxVars
<1>12. CASE Heard BY <1>2, <1>12, HeardFacts
<1>13. CASE UNCHANGED vars \/ \E c \in 1 .. Conns : ProcessDies(c)
  <2>1. conn' = conn /\ box' = box BY <1>13 DEF vars, ProcessDies, mailVars, boxVars
  <2> QED BY <1>2, <2>1
<1> QED BY <1>4, <1>5, <1>6, <1>7, <1>8, <1>9, <1>10, <1>11, <1>12, <1>13 DEF Next, Serve, Poll

(* How a poll comes to run, or runs on; the box stays as it is meanwhile.   *)
Unmoved(c) ==
    /\ conn[c].phase = "running" /\ conn'[c].id = conn[c].id /\ conn'[c].at = conn[c].at
    /\ conn'[c].sid = conn[c].sid

LEMMA RunningFacts ==
    ASSUME TypeOK, BoxInv, [Next]_vars, NEW c \in 1 .. Conns, conn'[c].phase = "running"
    PROVE  /\ box' = box /\ conn[c].phase # "free" /\ conn'[c].sid = conn[c].sid /\ conn[c].sid \in Sids
           /\ \/ Unmoved(c)
              \/ /\ StartPoll(c) /\ conn'[c].id = cursor[conn[c].sid] /\ conn'[c].at = conn[c].at
                 /\ conn[c].phase = "asked"
              \/ /\ conn[c].phase = "insert" /\ conn'[c].id = conn[c].id /\ conn'[c].at = conn[c].at
                 /\ Insert(c) \/ conn[c].sid \in raced'
              \/ ReadNext(c)
<1>1. ASSUME conn'[c] = conn[c] PROVE conn[c].phase # "free" /\ conn[c].sid \in Sids /\ Unmoved(c)
  BY <1>1, RequestFacts DEF Unmoved
<1>2. ASSUME conn'[c] = conn[c] PROVE ~Quiet BY <1>2 DEF Quiet, Polling
<1>3. CASE Heard BY <1>2, <1>3, HeardFacts
<1>4. ASSUME NEW w \in Windows, NEW kind \in Kinds, Ask(w, kind) PROVE box' = box /\ conn'[c] = conn[c]
  BY <1>4, AskFacts DEF Ask, mailVars, boxVars
<1>5. ASSUME NEW d \in 1 .. Conns, GiveUp(d)
      PROVE  box' = box /\ conn[c].phase # "free" /\ conn[c].sid \in Sids /\ Unmoved(c)
  <2>1. box' = box BY <1>5 DEF GiveUp, mailVars, boxVars
  <2> QED BY <1>1, <1>5, <2>1, GiveUpFacts, RequestFacts DEF Unmoved
<1>6. ASSUME NEW d \in 1 .. Conns, StartPoll(d)
      PROVE  /\ box' = box /\ conn[c].phase # "free" /\ conn[c].sid \in Sids /\ conn'[c].sid = conn[c].sid
             /\ \/ Unmoved(c)
                \/ /\ StartPoll(c) /\ conn'[c].id = cursor[conn[c].sid] /\ conn'[c].at = conn[c].at
                   /\ conn[c].phase = "asked"
  <2>1. box' = box BY <1>6 DEF StartPoll, mailVars, boxVars
  <2>2. CASE c # d BY <1>1, <1>6, <2>1, <2>2, StartFacts
  <2>3. CASE c = d BY <1>6, <2>1, <2>3, StartFacts DEF Same
  <2> QED BY <2>2, <2>3
<1>7. ASSUME NEW d \in 1 .. Conns, Insert(d)
      PROVE  /\ box' = box /\ conn[c].phase # "free" /\ conn[c].sid \in Sids /\ conn'[c].sid = conn[c].sid
             /\ \/ Unmoved(c)
                \/ /\ conn[c].phase = "insert" /\ conn'[c].id = conn[c].id /\ conn'[c].at = conn[c].at
                   /\ Insert(c) \/ conn[c].sid \in raced'
  <2>1. box' = box BY <1>7 DEF Insert, boxVars
  <2>2. CASE c # d /\ conn'[c] = conn[c] BY <1>1, <2>1, <2>2
  <2>3. CASE /\ conn[c].phase = "insert" /\ conn'[c].phase = "running" /\ Same(c)
             /\ conn'[c].id = conn[c].id /\ conn'[c].at = conn[c].at /\ conn'[c].msgs = conn[c].msgs
             /\ c # d => conn[c].sid \in raced'
    BY <1>7, <2>1, <2>3, RequestFacts DEF Same
  <2> QED BY <1>7, <2>2, <2>3, InsertFacts
<1>8. ASSUME NEW d \in 1 .. Conns, ReadNext(d)
      PROVE  /\ box' = box /\ conn[c].phase # "free" /\ conn[c].sid \in Sids /\ conn'[c].sid = conn[c].sid
             /\ Unmoved(c) \/ ReadNext(c)
  <2>1. box' = box BY <1>8 DEF ReadNext, boxVars
  <2>2. CASE c # d BY <1>1, <1>8, <2>1, <2>2, ReadFacts DEF Unmoved
  <2>3. CASE c = d BY <1>8, <2>1, <2>3, ReadFacts DEF Same
  <2> QED BY <2>2, <2>3
<1>9. ASSUME NEW d \in 1 .. Conns, EndPoll(d) PROVE box' = box /\ conn'[c] = conn[c]
  <2>1. box' = box BY <1>9 DEF EndPoll, mailVars, boxVars
  <2> QED BY <1>9, <2>1, EndFacts
<1>10. ASSUME NEW d \in 1 .. Conns, RunCommand(d) PROVE box' = box /\ conn'[c] = conn[c]
  <2>1. conn'[c] = conn[c] BY <1>10, CommandFacts
  <2>2. box' = box \/ Quiet BY <1>10 DEF RunCommand, Clear, EditHosts, mailVars, boxVars
  <2> QED BY <1>2, <2>1, <2>2
<1>11. ASSUME NEW d \in 1 .. Conns, NotRun(d) \/ ReplyArrives(d) \/ ReplyFails(d)
       PROVE  box' = box /\ conn'[c] = conn[c]
  <2>1. box' = box /\ conn' = [conn EXCEPT ![d] = Free]
    BY <1>11 DEF NotRun, ReplyArrives, ReplyFails, mailVars, boxVars
  <2> QED BY <2>1, FreeFacts
<1>12. CASE UNCHANGED vars \/ \E d \in 1 .. Conns : ProcessDies(d)
  BY <1>1, <1>12 DEF vars, ProcessDies, mailVars, boxVars, Unmoved
<1>13. Unmoved(c) => conn'[c].sid = conn[c].sid BY DEF Unmoved
<1> QED BY <1>1, <1>2, <1>3, <1>4, <1>5, <1>6, <1>7, <1>8, <1>9, <1>10, <1>11, <1>12, <1>13
        DEF Next, Serve, Poll

LEMMA NextCover == TypeOK /\ BoxInv /\ RequestInv /\ CoverInv /\ [Next]_vars => CoverInv'
<1> SUFFICES ASSUME TypeOK, BoxInv, RequestInv, CoverInv, [Next]_vars PROVE CoverInv'
  OBVIOUS
<1>t. /\ next \in Nat /\ Elems(box) \subseteq Nat /\ box \in Seq(Nat) /\ Len(box) \in Nat
      /\ DOMAIN box = 1 .. Len(box) /\ \A i \in 1 .. Len(box) : box[i] \in Elems(box)
  BY MessagesAreNumbers, ElemsFacts
<1>p. CoverInv' <=>
         /\ \A s \in Sids : cursor'[s] = 0 \/ cursor'[s] < next'
         /\ \A s \in Sids : \A n \in Elems(box') \ {0} : n <= cursor'[s] => Returned(n, s)'
         /\ \A c \in 1 .. Conns : conn'[c].phase = "running" =>
              \A i \in 1 .. Len(box') :
                 box'[i] # 0 /\ (i <= conn'[c].at \/ box'[i] <= conn'[c].id) => Returned(box[i], conn[c].sid)'
  BY DEF CoverInv, Elems, Returned, Seen, Held
<1>r. \A s \in Sids : \A m : Returned(m, s) => Returned(m, s)' BY ReturnedStays
<1>1. ASSUME NEW c \in 1 .. Conns, conn'[c].phase = "running", NEW i \in 1 .. Len(box),
             box[i] # 0, i <= conn'[c].at \/ box[i] <= conn'[c].id,
             NEW s \in Sids, s = conn[c].sid, NEW m, m = box[i]
      PROVE  Returned(m, s)'
  <2>1. CASE Unmoved(c) BY <1>r, <1>1, <2>1 DEF CoverInv, Unmoved
  <2>2. CASE conn[c].phase = "asked" /\ conn'[c].id = cursor[s] /\ conn'[c].at = conn[c].at
    <3>1. conn[c].at = 0 BY <2>2 DEF RequestInv
    <3>2. m <= cursor[s] /\ m \in Elems(box) \ {0} BY <1>t, <1>1, <2>2, <3>1
    <3> QED BY <1>r, <3>2 DEF CoverInv
  <2>3. CASE conn[c].phase = "insert" /\ conn'[c].id = conn[c].id /\ conn'[c].at = conn[c].at
    <3>1. conn[c].at = 0 /\ conn[c].id = 0 BY <2>3 DEF RequestInv
    <3>2. box[i] \in Nat BY <1>t
    <3> QED BY <1>1, <2>3, <3>1, <3>2
  <2>4. CASE ReadNext(c)
    <3>1. /\ conn[c].phase = "running" /\ conn[c].at \in Nat /\ conn'[c].id = conn[c].id
          /\ conn'[c].at = conn[c].at + 1
      BY <2>4, ReadFacts, RequestFacts
    <3>2. CASE i <= conn[c].at \/ m <= conn[c].id BY <1>r, <1>1, <3>1, <3>2 DEF CoverInv
    <3>3. CASE ~(i <= conn[c].at) /\ ~(m <= conn[c].id)
      <4>1. i = conn[c].at + 1 BY <1>1, <3>1, <3>3
      <4>2. Taking(s, c, m) BY <1>1, <2>4, <3>3, <4>1, ReadMoves
      <4> QED BY <4>2 DEF Taking, Returned
    <3> QED BY <3>2, <3>3
  <2> QED BY <1>1, <2>1, <2>2, <2>3, <2>4, RunningFacts
<1>2. ASSUME NEW c \in 1 .. Conns, conn'[c].phase = "running", NEW i \in 1 .. Len(box'),
             box'[i] # 0, i <= conn'[c].at \/ box'[i] <= conn'[c].id
      PROVE  Returned(box[i], conn[c].sid)'
  <2>1. box' = box /\ conn'[c].sid = conn[c].sid /\ conn[c].sid \in Sids BY <1>2, RunningFacts
  <2>2. PICK s \in Sids : s = conn[c].sid BY <2>1
  <2>m. PICK m : m = box[i] OBVIOUS
  <2>3. Returned(m, s)' BY <1>1, <1>2, <2>1, <2>2, <2>m
  <2> QED BY <2>1, <2>2, <2>3, <2>m DEF Returned, Seen, Held, Elems
<1>3. ASSUME NEW s \in Sids, NEW n \in Elems(box') \ {0}, n <= cursor'[s]
      PROVE  Returned(n, s)'
  <2>1. CASE cursor'[s] = cursor[s] /\ n \in Elems(box) BY <1>r, <1>3, <2>1 DEF CoverInv
  <2>2. CASE Heard
    <3>1. cursor' = cursor BY <2>2, HeardFacts DEF recordVars
    <3>2. n # next
      <4>1. cursor[s] \in Nat BY DEF TypeOK
      <4> QED BY <1>t, <1>3, <3>1, <4>1 DEF CoverInv
    <3> QED BY <1>3, <2>1, <2>2, <3>1, <3>2, HeardFacts
  <2>3. CASE Clear BY <1>3, <2>3, EmptyElems DEF Clear
  <2>4. CASE box' = box
    <3>1. CASE UNCHANGED recordVars BY <1>3, <2>1, <2>4, <3>1 DEF recordVars
    <3>2. CASE cursor' = cursor BY <1>3, <2>1, <2>4, <3>2
    <3>3. ASSUME NEW c \in 1 .. Conns, cursor' = [cursor EXCEPT ![conn[c].sid] = 0] PROVE Returned(n, s)'
      <4>1. n \in Nat BY <1>t, <1>3, <2>4
      <4>2. s # conn[c].sid BY <1>3, <3>3, <4>1 DEF TypeOK
      <4> QED BY <1>3, <2>1, <2>4, <3>3, <4>2 DEF TypeOK
    <3>4. ASSUME NEW c \in 1 .. Conns, ReadNext(c),
                 cursor' = [cursor EXCEPT ![conn[c].sid] = box[conn[c].at + 1]]
          PROVE  Returned(n, s)'
      <4>1. CASE s # conn[c].sid BY <1>3, <2>1, <2>4, <3>4, <4>1 DEF TypeOK
      <4>2. CASE s = conn[c].sid
        <5>1. conn[c].at \in Nat /\ conn[c].at + 1 \in 1 .. Len(box) /\ conn'[c].at = conn[c].at + 1
              /\ conn'[c].phase = "running"
          BY <3>4, ReadFacts, RequestFacts
        <5>2. n <= box[conn[c].at + 1] BY <1>3, <3>4, <4>2 DEF TypeOK
        <5>3. PICK i \in 1 .. Len(box) : n = box[i] BY <1>t, <1>3, <2>4 DEF Elems
        <5>4. i <= conn[c].at + 1
          <6>1. CASE conn[c].at + 1 < i
            <7>1. box[conn[c].at + 1] < box[i] BY <1>t, <5>1, <6>1 DEF BoxInv, InOrder
            <7>2. box[conn[c].at + 1] \in Nat /\ box[i] \in Nat BY <1>t, <5>1
            <7> QED BY <5>2, <5>3, <7>1, <7>2
          <6> QED BY <5>1, <6>1
        <5> QED BY <1>1, <1>3, <4>2, <5>1, <5>3, <5>4
      <4> QED BY <4>1, <4>2
    <3> QED BY <2>3, <3>1, <3>2, <3>3, <3>4, MailFacts
  <2> QED BY <2>2, <2>3, <2>4, MailFacts
<1>4. \A s \in Sids : cursor'[s] = 0 \/ cursor'[s] < next'
  <2> SUFFICES ASSUME NEW s \in Sids PROVE cursor'[s] = 0 \/ cursor'[s] < next'
    OBVIOUS
  <2>t. cursor[s] \in Nat /\ (cursor[s] = 0 \/ cursor[s] < next) BY DEF TypeOK, CoverInv
  <2>1. CASE Heard
    <3>1. cursor' = cursor /\ next' = next + 1 BY <2>1, HeardFacts DEF recordVars
    <3> QED BY <1>t, <2>t, <3>1
  <2>2. CASE Clear BY <2>2 DEF Clear
  <2>3. CASE box' = box /\ next' = next
    <3>1. CASE cursor' = cursor BY <2>t, <2>3, <3>1
    <3>2. ASSUME NEW c \in 1 .. Conns, cursor' = [cursor EXCEPT ![conn[c].sid] = 0]
          PROVE  cursor'[s] = 0 \/ cursor'[s] < next'
      BY <2>t, <2>3, <3>2 DEF TypeOK
    <3>3. ASSUME NEW c \in 1 .. Conns, ReadNext(c),
                 cursor' = [cursor EXCEPT ![conn[c].sid] = box[conn[c].at + 1]]
          PROVE  cursor'[s] = 0 \/ cursor'[s] < next'
      <4>1. box[conn[c].at + 1] < next BY <3>3, TakenIsKept DEF BoxInv
      <4> QED BY <2>t, <2>3, <3>3, <4>1 DEF TypeOK
    <3> QED BY <2>2, <3>1, <3>2, <3>3, MailFacts DEF recordVars
  <2> QED BY <2>1, <2>2, <2>3, MailFacts
<1> QED BY <1>p, <1>2, <1>3, <1>4

(* Which poll a connection is at, and what it holds, from step to step.     *)
LEMMA HoldingFacts ==
    ASSUME TypeOK, [Next]_vars, NEW c \in 1 .. Conns, conn'[c].phase # "free"
    PROVE  \/ conn'[c].phase = "asked" /\ conn'[c].msgs = <<>>
           \/ /\ conn[c].phase # "free" /\ conn'[c].sid = conn[c].sid /\ conn'[c].window = conn[c].window
              /\ conn'[c].open => conn[c].open
              /\ conn'[c].msgs = conn[c].msgs \/ ReadNext(c)
              /\ Polling(c)' => Polling(c) \/ StartPoll(c)
              /\ conn'[c].phase = "insert" => conn[c].phase = "insert" \/ StartPoll(c)
<1>p. Polling(c)' <=> conn'[c].phase \in {"insert", "running"} BY DEF Polling
<1>1. CASE conn'[c] = conn[c] BY <1>p, <1>1 DEF Polling
<1>2. ASSUME NEW w \in Windows, NEW kind \in Kinds, Ask(w, kind)
      PROVE  conn'[c] = conn[c] \/ (conn'[c].phase = "asked" /\ conn'[c].msgs = <<>>)
  BY <1>2, AskFacts
<1>3. ASSUME NEW d \in 1 .. Conns, GiveUp(d)
      PROVE  \/ conn'[c] = conn[c]
             \/ /\ conn'[c].phase = conn[c].phase /\ conn'[c].sid = conn[c].sid
                /\ conn'[c].window = conn[c].window /\ ~conn'[c].open /\ conn'[c].msgs = conn[c].msgs
  BY <1>3, GiveUpFacts
<1>4. ASSUME NEW d \in 1 .. Conns, StartPoll(d)
      PROVE  \/ conn'[c] = conn[c]
             \/ StartPoll(c) /\ Same(c) /\ conn[c].phase # "free" /\ conn'[c].msgs = conn[c].msgs
  <2>1. CASE c = d BY <1>4, <2>1, StartFacts
  <2>2. CASE c # d BY <1>4, <2>2, StartFacts
  <2> QED BY <2>1, <2>2
<1>5. ASSUME NEW d \in 1 .. Conns, Insert(d)
      PROVE  \/ conn'[c] = conn[c]
             \/ /\ Same(c) /\ conn[c].phase = "insert" /\ conn'[c].phase = "running"
                /\ conn'[c].msgs = conn[c].msgs
  BY <1>5, InsertFacts
<1>6. ASSUME NEW d \in 1 .. Conns, ReadNext(d)
      PROVE  \/ conn'[c] = conn[c]
             \/ ReadNext(c) /\ Same(c) /\ conn[c].phase = "running" /\ conn'[c].phase = "running"
  <2>1. CASE c = d BY <1>6, <2>1, ReadFacts
  <2>2. CASE c # d BY <1>6, <2>2, ReadFacts
  <2> QED BY <2>1, <2>2
<1>7. ASSUME NEW d \in 1 .. Conns, EndPoll(d) \/ RunCommand(d)
      PROVE  \/ conn'[c] = conn[c]
             \/ /\ Same(c) /\ conn[c].phase # "free" /\ conn'[c].phase = "reply"
                /\ conn'[c].msgs = conn[c].msgs
  <2>1. CASE EndPoll(d) BY <2>1, EndFacts
  <2>2. CASE RunCommand(d) BY <2>2, CommandFacts
  <2> QED BY <1>7, <2>1, <2>2
<1>8. ASSUME NEW d \in 1 .. Conns, NotRun(d) \/ ReplyArrives(d) \/ ReplyFails(d)
      PROVE  conn'[c] = conn[c]
  BY <1>8, FreeFacts DEF NotRun, ReplyArrives, ReplyFails
<1>9. CASE Heard \/ UNCHANGED vars \/ \E d \in 1 .. Conns : ProcessDies(d)
  BY <1>1, <1>9 DEF Heard, vars, ProcessDies
<1> QED BY <1>p, <1>1, <1>2, <1>3, <1>4, <1>5, <1>6, <1>7, <1>8, <1>9 DEF Next, Serve, Poll, Polling, Same

(* The cursor of a session that is not in raced is moved by its own poll.   *)
LEMMA CursorStays ==
    ASSUME TypeOK, AloneInv, [Next]_vars, NEW c \in 1 .. Conns, Polling(c), conn[c].sid \notin raced
    PROVE  \/ cursor'[conn[c].sid] = cursor[conn[c].sid] /\ (conn[c].sid \in known' => conn[c].sid \in known)
           \/ Insert(c) \/ ReadNext(c)
<1>1. ~Quiet BY DEF Quiet
<1>2. PICK s \in Sids : s = conn[c].sid BY RequestFacts DEF Polling
<1>3. ASSUME NEW d \in 1 .. Conns, Polling(d), conn[d].sid = s PROVE c = d
  BY <1>2, <1>3 DEF AloneInv
<1>4. ASSUME NEW d \in 1 .. Conns, NEW m, Insert(d) \/ ReadNext(d), known' = known \cup {conn[d].sid},
             cursor' = [cursor EXCEPT ![conn[d].sid] = m]
      PROVE  (cursor'[s] = cursor[s] /\ (s \in known' => s \in known)) \/ Insert(c) \/ ReadNext(c)
  <2>1. Polling(d) BY <1>4 DEF Insert, ReadNext, Polling
  <2>2. CASE conn[d].sid = s BY <1>3, <1>4, <2>1, <2>2
  <2>3. CASE conn[d].sid # s BY <1>4, <2>3 DEF TypeOK
  <2> QED BY <2>2, <2>3
<1>5. CASE UNCHANGED recordVars BY <1>2, <1>5 DEF recordVars
<1> QED BY <1>1, <1>2, <1>4, <1>5, MailFacts

LEMMA NextAlone == TypeOK /\ BoxInv /\ RequestInv /\ AloneInv /\ [Next]_vars => AloneInv'
<1> SUFFICES ASSUME TypeOK, BoxInv, RequestInv, AloneInv, [Next]_vars PROVE AloneInv'
  OBVIOUS
<1>r. raced \subseteq raced' BY MailFacts
<1>1. \A s \in Sids \ known' : cursor'[s] = 0
  <2> SUFFICES ASSUME NEW s \in Sids, s \notin known' PROVE cursor'[s] = 0
    OBVIOUS
  <2>t. s \notin known => cursor[s] = 0 BY DEF AloneInv
  <2>1. CASE UNCHANGED recordVars BY <2>t, <2>1 DEF recordVars
  <2>2. CASE Clear BY <2>2 DEF Clear
  <2>3. CASE known \subseteq known' /\ cursor' = cursor BY <2>t, <2>3
  <2>4. ASSUME NEW c \in 1 .. Conns, NEW m, known' = known \cup {conn[c].sid},
               cursor' = [cursor EXCEPT ![conn[c].sid] = m]
        PROVE  cursor'[s] = 0
    BY <2>t, <2>4 DEF TypeOK
  <2> QED BY <2>1, <2>2, <2>3, <2>4, MailFacts
<1>p. \A c \in 1 .. Conns : Polling(c)' <=> conn'[c].phase \in {"insert", "running"} BY DEF Polling
<1>2. ASSUME NEW c \in 1 .. Conns, Polling(c)'
      PROVE  conn'[c].sid = conn[c].sid /\ (Polling(c) \/ StartPoll(c))
  BY <1>p, <1>2, HoldingFacts
<1>3. ASSUME NEW c \in 1 .. Conns, NEW d \in 1 .. Conns, Polling(c)', Polling(d)',
             conn'[c].sid = conn'[d].sid, conn'[c].sid \notin raced'
      PROVE  c = d
  <2>1. ASSUME NEW e \in 1 .. Conns, NEW f \in 1 .. Conns, e # f, StartPoll(e), Polling(f)',
               conn'[e].sid = conn'[f].sid
        PROVE  conn[e].sid \in raced'
    <3>1. conn'[f] = conn[f] BY <2>1, StartFacts
    <3>2. Polling(f) /\ conn[f].sid = conn[e].sid BY <1>p, <2>1, <3>1, StartFacts DEF Polling, Same
    <3> QED BY <2>1, <3>2 DEF StartPoll
  <2>2. CASE StartPoll(c) BY <1>2, <1>3, <2>1, <2>2
  <2>3. CASE StartPoll(d) BY <1>2, <1>3, <2>1, <2>3
  <2>4. CASE Polling(c) /\ Polling(d) BY <1>r, <1>2, <1>3, <2>4 DEF AloneInv
  <2> QED BY <1>2, <1>3, <2>2, <2>3, <2>4
<1>4. ASSUME NEW c \in 1 .. Conns, conn'[c].phase = "insert", conn'[c].sid \notin raced'
      PROVE  conn'[c].sid \notin known'
  <2>1. conn'[c].sid = conn[c].sid /\ (conn[c].phase = "insert" \/ StartPoll(c)) BY <1>4, HoldingFacts
  <2>2. CASE StartPoll(c)
    <3>1. conn[c].sid \notin known BY <1>4, <2>2, StartFacts
    <3>2. known' = known BY <2>2 DEF StartPoll, mailVars, recordVars
    <3> QED BY <2>1, <3>1, <3>2
  <2>3. CASE conn[c].phase = "insert"
    <3>1. Polling(c) /\ conn[c].sid \notin raced /\ conn[c].sid \notin known
      BY <1>r, <1>4, <2>1, <2>3 DEF Polling, AloneInv
    <3>2. ~Insert(c) /\ ~ReadNext(c) BY <1>4, InsertFacts, ReadFacts
    <3> QED BY <2>1, <3>1, <3>2, CursorStays
  <2> QED BY <2>1, <2>2, <2>3
<1>5. ASSUME NEW c \in 1 .. Conns, conn'[c].phase = "running", NEW s \in Sids, s = conn[c].sid, s \notin raced'
      PROVE  cursor'[s] = conn'[c].id \/ \E k \in 1 .. conn'[c].at : box[k] = cursor'[s]
  <2>s. s \notin raced BY <1>r, <1>5
  <2>1. CASE Unmoved(c)
    <3>1. conn[c].at \in Nat BY <2>1, RequestFacts DEF Unmoved
    <3>2. Polling(c) /\ ~Insert(c) /\ ~ReadNext(c) BY <2>1, <3>1, InsertFacts, ReadFacts DEF Unmoved, Polling
    <3>3. cursor'[s] = cursor[s] BY <1>5, <2>s, <3>2, CursorStays
    <3> QED BY <1>5, <2>s, <2>1, <3>3 DEF AloneInv, Unmoved
  <2>2. CASE StartPoll(c) /\ conn'[c].id = cursor[s] BY <2>2 DEF StartPoll, mailVars, recordVars
  <2>3. CASE Insert(c) /\ conn'[c].id = conn[c].id
    <3>1. conn[c].id = 0 BY <2>3 DEF Insert, RequestInv
    <3>2. cursor'[s] = 0 BY <1>5, <2>3 DEF Insert, Stored, TypeOK
    <3> QED BY <2>3, <3>1, <3>2
  <2>4. CASE ReadNext(c)
    <3>1. /\ conn[c].phase = "running" /\ conn[c].at \in Nat /\ conn'[c].id = conn[c].id
          /\ conn'[c].at = conn[c].at + 1
          /\ cursor' = cursor \/ cursor' = [cursor EXCEPT ![s] = box[conn[c].at + 1]]
      BY <1>5, <2>4, ReadFacts, RequestFacts
    <3>2. CASE cursor' = cursor
      <4>1. \A k \in 1 .. conn[c].at : k \in 1 .. conn'[c].at BY <3>1
      <4> QED BY <1>5, <2>s, <3>1, <3>2, <4>1 DEF AloneInv
    <3>3. CASE cursor' = [cursor EXCEPT ![s] = box[conn[c].at + 1]]
      <4>1. conn[c].at + 1 \in 1 .. conn'[c].at BY <3>1
      <4> QED BY <3>3, <4>1 DEF TypeOK
    <3> QED BY <3>1, <3>2, <3>3
  <2> QED BY <1>5, <2>1, <2>2, <2>3, <2>4, RunningFacts
<1>6. ASSUME NEW c \in 1 .. Conns, conn'[c].phase = "running", conn'[c].sid \notin raced'
      PROVE  cursor'[conn'[c].sid] = conn'[c].id \/ \E k \in 1 .. conn'[c].at : box'[k] = cursor'[conn'[c].sid]
  <2>1. box' = box /\ conn'[c].sid = conn[c].sid /\ conn[c].sid \in Sids BY <1>6, RunningFacts
  <2> QED BY <1>5, <1>6, <2>1
<1> QED BY <1>1, <1>3, <1>4, <1>6 DEF AloneInv

(* What a poll takes is newer than all that its session had.                *)
LEMMA TakenIsNewer ==
    ASSUME TypeOK, BoxInv, RequestInv, AloneInv, FreshInv, NEW c \in 1 .. Conns, ReadNext(c),
           NEW s \in Sids, s = conn[c].sid, s \notin raced, NEW m, m = box[conn[c].at + 1], ~(m <= conn[c].id)
    PROVE  m \in Nat /\ m > cursor[s] /\ Above(m, s)
<1>1. /\ conn[c].phase = "running" /\ conn[c].at \in Nat /\ conn[c].id \in Nat /\ m \in Nat
      /\ m \in Elems(box) /\ conn[c].at + 1 \in 1 .. Len(box)
  BY ReadFacts, RequestFacts
<1>2. cursor[s] \in Nat BY DEF TypeOK
<1>3. m > cursor[s]
  <2>1. CASE cursor[s] = conn[c].id BY <1>1, <1>2, <2>1
  <2>2. ASSUME NEW k \in 1 .. conn[c].at, box[k] = cursor[s] PROVE m > cursor[s]
    <3>1. Len(box) \in Nat /\ DOMAIN box = 1 .. Len(box) BY MessagesAreNumbers, ElemsFacts
    <3>2. k \in DOMAIN box /\ conn[c].at + 1 \in DOMAIN box /\ k < conn[c].at + 1 BY <1>1, <3>1
    <3> QED BY <1>1, <1>2, <2>2, <3>2 DEF BoxInv, InOrder
  <2> QED BY <1>1, <2>1, <2>2 DEF AloneInv
<1> QED BY <1>1, <1>3 DEF FreshInv

LEMMA NextFresh == TypeOK /\ BoxInv /\ RequestInv /\ AloneInv /\ FreshInv /\ [Next]_vars => FreshInv'
<1> SUFFICES ASSUME TypeOK, BoxInv, RequestInv, AloneInv, FreshInv, [Next]_vars PROVE FreshInv'
  OBVIOUS
<1>p. FreshInv' <=>
        \A s \in Sids \ raced' : \A n \in Elems(box') : n > cursor'[s] => Above(n, s)'
  BY DEF FreshInv, Elems, Above, Seen, Held
<1> SUFFICES ASSUME NEW s \in Sids, s \notin raced', NEW n \in Elems(box'), n > cursor'[s]
             PROVE  Above(n, s)'
  BY <1>p
<1>r. s \notin raced BY MailFacts
<1>t. Elems(box) \subseteq Nat /\ cursor[s] \in Nat /\ next \in Nat BY MessagesAreNumbers DEF TypeOK
<1>1. ASSUME Above(n, s), Quiet PROVE Above(n, s)'
  <2>1. \A c \in 1 .. Conns : ~ReadNext(c) BY <1>1 DEF Quiet, Polling, ReadNext
  <2> QED BY <1>1, <2>1, AboveStays
<1>2. CASE Heard
  <2>1. (n \in Elems(box) \/ n = next) /\ Quiet /\ cursor' = cursor BY <1>2, HeardFacts DEF recordVars
  <2>2. n > cursor[s] BY <2>1
  <2>3. Above(n, s) BY <1>r, <2>1, <2>2 DEF FreshInv, BoxInv
  <2> QED BY <1>1, <2>1, <2>3
<1>3. CASE Clear BY <1>3, EmptyElems DEF Clear
<1>4. CASE box' = box
  <2>1. ASSUME NEW c \in 1 .. Conns, ReadNext(c), conn[c].sid = s, NEW m, m = box[conn[c].at + 1], ~(m <= conn[c].id)
        PROVE  m < n /\ n > cursor[s]
    <3>1. m > cursor[s] /\ m \in Nat BY <1>r, <2>1, TakenIsNewer
    <3>2. cursor'[s] = m BY <2>1, ReadFacts DEF TypeOK
    <3> QED BY <1>4, <1>t, <3>1, <3>2
  <2>2. n > cursor[s]
    <3>1. CASE cursor'[s] = cursor[s] BY <3>1
    <3>2. CASE UNCHANGED recordVars BY <3>2 DEF recordVars
    <3>3. ASSUME NEW c \in 1 .. Conns, Insert(c), cursor' = [cursor EXCEPT ![conn[c].sid] = 0]
          PROVE  n > cursor[s]
      <4>1. CASE conn[c].sid = s
        <5>1. s \notin known BY <1>r, <3>3, <4>1 DEF Insert, AloneInv
        <5> QED BY <3>3, <4>1, <5>1 DEF AloneInv, TypeOK
      <4>2. CASE conn[c].sid # s BY <3>3, <4>2 DEF TypeOK
      <4> QED BY <4>1, <4>2
    <3>4. ASSUME NEW c \in 1 .. Conns, ReadNext(c), ~(box[conn[c].at + 1] <= conn[c].id),
                 cursor' = [cursor EXCEPT ![conn[c].sid] = box[conn[c].at + 1]]
          PROVE  n > cursor[s]
      <4>1. CASE conn[c].sid = s BY <2>1, <3>4, <4>1
      <4>2. CASE conn[c].sid # s BY <3>4, <4>2 DEF TypeOK
      <4> QED BY <4>1, <4>2
    <3> QED BY <1>3, <1>4, <3>1, <3>2, <3>3, <3>4, MailFacts, EmptyElems DEF Clear
  <2>3. Above(n, s) BY <1>4, <1>r, <2>2 DEF FreshInv
  <2> QED BY <2>1, <2>3, AboveStays
<1> QED BY <1>2, <1>3, <1>4, MailFacts

LEMMA NextPlace ==
    TypeOK /\ BoxInv /\ RequestInv /\ AloneInv /\ FreshInv /\ PlaceInv /\ [Next]_vars => PlaceInv'
<1> SUFFICES ASSUME TypeOK, BoxInv, RequestInv, AloneInv, FreshInv, PlaceInv, [Next]_vars,
                    NEW s \in Sids, s \notin raced'
             PROVE  InOnePlace(s)'
  BY DEF PlaceInv
<1>r. s \notin raced BY MailFacts
<1>i. InOnePlace(s) BY <1>r DEF PlaceInv
<1>n. \A w \in Windows, c \in 1 .. Conns : Seen(w, s) \subseteq Nat /\ Held(c, s) \subseteq Nat
  BY MessagesAreNumbers
<1>1. CASE Still(s)
  BY <1>i, <1>1 DEF Still, SeenStays, InOnePlace
<1>2. ASSUME NEW c \in 1 .. Conns, ReadNext(c), conn[c].sid = s, NEW m, m = box[conn[c].at + 1],
             ~(m <= conn[c].id), Taking(s, c, m)
      PROVE  InOnePlace(s)'
  <2>1. m \in Nat /\ Above(m, s) BY <1>r, <1>2, TakenIsNewer
  <2>2. (\A w \in Windows : m \notin Seen(w, s)) /\ (\A d \in 1 .. Conns : m \notin Held(d, s))
    BY <2>1 DEF Above
  <2>3. /\ \A w \in Windows : Seen(w, s)' = Seen(w, s)
        /\ \A d \in 1 .. Conns : Held(d, s)' \subseteq Held(d, s) \cup {m}
        /\ \A d \in 1 .. Conns : d # c => Held(d, s)' = Held(d, s)
    BY <1>2 DEF Taking, SeenStays, HeldStays
  <2>4. \A w, v \in Windows : w # v => Seen(w, s)' \cap Seen(v, s)' = {}
    BY <1>i, <2>3 DEF InOnePlace
  <2>i. \A x, y \in 1 .. Conns : x # y => Held(x, s) \cap Held(y, s) = {} BY <1>i DEF InOnePlace
  <2>5. ASSUME NEW d \in 1 .. Conns, NEW e \in 1 .. Conns, d # e
        PROVE  Held(d, s)' \cap Held(e, s)' = {}
    <3>1. Held(d, s) \cap Held(e, s) = {} BY <2>5, <2>i
    <3>2. m \notin Held(d, s) /\ m \notin Held(e, s) BY <2>2
    <3>3. CASE d # c
      <4>1. Held(d, s)' = Held(d, s) /\ Held(e, s)' \subseteq Held(e, s) \cup {m} BY <2>3, <3>3
      <4> QED BY <3>1, <3>2, <4>1
    <3>4. CASE e # c
      <4>1. Held(e, s)' = Held(e, s) /\ Held(d, s)' \subseteq Held(d, s) \cup {m} BY <2>3, <3>4
      <4> QED BY <3>1, <3>2, <4>1
    <3> QED BY <2>5, <3>3, <3>4
  <2>6. ASSUME NEW d \in 1 .. Conns, NEW w \in Windows PROVE Held(d, s)' \cap Seen(w, s)' = {}
    <3>1. Held(d, s) \cap Seen(w, s) = {} /\ m \notin Seen(w, s) BY <1>i, <2>2 DEF InOnePlace
    <3>2. Held(d, s)' \subseteq Held(d, s) \cup {m} /\ Seen(w, s)' = Seen(w, s) BY <2>3
    <3> QED BY <3>1, <3>2
  <2> QED BY <2>4, <2>5, <2>6 DEF InOnePlace
<1>3. ASSUME NEW c \in 1 .. Conns, NEW w \in Windows, Arriving(s, c, w) PROVE InOnePlace(s)'
  BY <1>i, <1>3 DEF Arriving, HeldStays, InOnePlace
<1>4. ASSUME NEW c \in 1 .. Conns, Failing(s, c) PROVE InOnePlace(s)'
  BY <1>i, <1>4 DEF Failing, SeenStays, HeldStays, InOnePlace
<1> QED BY <1>1, <1>2, <1>3, <1>4, NextMoves

LEMMA NextOrder == Inductive /\ [Next]_vars => OrderInv'
<1> SUFFICES ASSUME TypeOK, BoxInv, RequestInv, AloneInv, FreshInv, OrderInv, [Next]_vars PROVE OrderInv'
  BY DEF Inductive
<1>r. raced \subseteq raced' BY MailFacts
<1>p. OrderInv' <=>
        /\ \A c \in 1 .. Conns : conn'[c].phase # "free" /\ conn'[c].sid \notin raced' => InOrder(conn'[c].msgs)
        /\ \A w \in Windows, s \in Sids \ raced' : InOrder(shown'[w][s])
        /\ \A c \in 1 .. Conns, w \in Windows, s \in Sids \ raced' :
              conn'[c].phase # "free" /\ conn'[c].open /\ conn'[c].window = w
                  => \A m \in Seen(w, s)', n \in Held(c, s)' : m < n
  BY DEF OrderInv, InOrder
<1>1. ASSUME NEW c \in 1 .. Conns, conn'[c].phase # "free", conn'[c].sid \notin raced'
      PROVE  InOrder(conn'[c].msgs)
  <2>1. CASE conn'[c].msgs = <<>> BY <2>1, EmptyElems
  <2>2. CASE conn[c].phase # "free" /\ conn'[c].sid = conn[c].sid /\ conn'[c].msgs = conn[c].msgs
    BY <1>r, <1>1, <2>2 DEF OrderInv
  <2>3. CASE conn[c].phase # "free" /\ conn'[c].sid = conn[c].sid /\ ReadNext(c)
    <3>m. PICK m : m = box[conn[c].at + 1] OBVIOUS
    <3>s. PICK s \in Sids : s = conn[c].sid BY <2>3, RequestFacts
    <3>1. m = box[conn[c].at + 1] /\ s = conn[c].sid BY <3>m, <3>s
    <3>2. s \in Sids /\ s = conn[c].sid /\ s \notin raced /\ conn[c].msgs \in Seq(Nat)
      BY <1>r, <1>1, <2>3, <3>1, RequestFacts
    <3>3. CASE ~(m <= conn[c].id)
      <4>1. m \in Nat /\ Above(m, s) BY <2>3, <3>1, <3>2, <3>3, TakenIsNewer
      <4>2. \A n \in Elems(conn[c].msgs) : n < m BY <2>3, <3>2, <4>1 DEF Above, Held
      <4>3. conn'[c].msgs = Append(conn[c].msgs, m) BY <2>3, <3>1, <3>3, ReadFacts
      <4>4. InOrder(conn[c].msgs) BY <2>3, <3>2 DEF OrderInv
      <4> QED BY <3>2, <4>1, <4>2, <4>3, <4>4, SingleElems
    <3>4. CASE m <= conn[c].id BY <2>2, <2>3, <3>1, <3>4, ReadFacts
    <3> QED BY <3>3, <3>4
  <2> QED BY <1>1, <2>1, <2>2, <2>3, HoldingFacts
<1>2. ASSUME NEW w \in Windows, NEW s \in Sids, s \notin raced' PROVE InOrder(shown'[w][s])
  <2>1. CASE shown' = shown BY <1>r, <1>2, <2>1 DEF OrderInv
  <2>2. ASSUME NEW c \in 1 .. Conns, ReplyArrives(c) PROVE InOrder(shown'[w][s])
    <3>1. PICK r \in Sids, v \in Windows : r = conn[c].sid /\ v = conn[c].window
      BY <2>2, RequestFacts DEF ReplyArrives
    <3>2. /\ shown'[v][r] = shown[v][r] \o conn[c].msgs
          /\ v # w \/ r # s => shown'[w][s] = shown[w][s]
          /\ shown[v][r] \in Seq(Nat) /\ conn[c].msgs \in Seq(Nat)
      <4>1. /\ shown'[v][r] = shown[v][r] \o conn[c].msgs
            /\ \A u \in Windows, q \in Sids : u # v \/ q # r => shown'[u][q] = shown[u][q]
            /\ shown[v][r] \in Seq(Nat) /\ conn[c].msgs \in Seq(Nat)
        BY <2>2, <3>1, ArrivalMoves
      <4> QED BY <1>2, <4>1
    <3>3. CASE v # w \/ r # s BY <1>r, <1>2, <3>2, <3>3 DEF OrderInv
    <3>4. CASE v = w /\ r = s
      <4>1. conn[c].phase # "free" /\ conn[c].open BY <2>2 DEF ReplyArrives
      <4>2. s \notin raced BY <1>r, <1>2
      <4>3. Held(c, s) = Elems(conn[c].msgs) BY <3>1, <3>4, <4>1 DEF Held
      <4>4. \A m \in Elems(shown[w][s]), n \in Elems(conn[c].msgs) : m < n
        BY <3>1, <3>4, <4>1, <4>2, <4>3 DEF OrderInv, Seen
      <4>5. InOrder(shown[w][s]) /\ InOrder(conn[c].msgs) BY <3>1, <3>4, <4>1, <4>2 DEF OrderInv
      <4> QED BY <3>2, <3>4, <4>4, <4>5, ConcatElems
    <3> QED BY <3>3, <3>4
  <2>3. shown' = shown \/ \E c \in 1 .. Conns : ReplyArrives(c)
    BY DEF Next, Serve, Poll, Heard, Ask, GiveUp, StartPoll, Insert, ReadNext, EndPoll, RunCommand, NotRun,
       ReplyFails, ProcessDies, historyVars, vars
  <2> QED BY <2>1, <2>2, <2>3
<1>3. ASSUME NEW c \in 1 .. Conns, NEW w \in Windows, NEW s \in Sids, s \notin raced',
             conn'[c].phase # "free", conn'[c].open, conn'[c].window = w
      PROVE  \A m \in Seen(w, s)', n \in Held(c, s)' : m < n
  <2>1. CASE conn'[c].msgs = <<>>
    <3>1. Held(c, s)' = {} BY <2>1, Primed, EmptyElems
    <3> QED BY <3>1
  <2>2. CASE conn[c].phase # "free" /\ conn[c].open /\ conn[c].window = w
    <3>i. \A m \in Seen(w, s), n \in Held(c, s) : m < n BY <1>r, <1>3, <2>2 DEF OrderInv
    <3>1. CASE Still(s) BY <3>i, <3>1 DEF Still, SeenStays
    <3>2. ASSUME NEW d \in 1 .. Conns, ReadNext(d), conn[d].sid = s, NEW m, m = box[conn[d].at + 1],
                 ~(m <= conn[d].id), Taking(s, d, m)
          PROVE  \A k \in Seen(w, s)', n \in Held(c, s)' : k < n
      <4>1. Above(m, s) BY <1>r, <1>3, <3>2, TakenIsNewer
      <4>2. Seen(w, s)' = Seen(w, s) BY <3>2 DEF Taking, SeenStays
      <4>3. Held(c, s)' \subseteq Held(c, s) \cup {m} BY <3>2 DEF Taking, HeldStays
      <4> QED BY <3>i, <4>1, <4>2, <4>3 DEF Above
    <3>3. ASSUME NEW d \in 1 .. Conns, NEW v \in Windows, ReplyArrives(d), conn[d].sid = s,
                 conn[d].window = v, Arriving(s, d, v)
          PROVE  \A m \in Seen(w, s)', n \in Held(c, s)' : m < n
      <4>1. conn'[d].phase = "free" BY <3>3, FreeFacts DEF ReplyArrives
      <4>2. conn[d].phase # "free" /\ conn[d].open BY <3>3 DEF ReplyArrives
      <4>3. v # w BY <1>3, <2>2, <3>3, <4>1, <4>2 DEF RequestInv
      <4> QED BY <1>3, <3>i, <3>3, <4>1, <4>3 DEF Arriving, HeldStays
    <3>4. ASSUME NEW d \in 1 .. Conns, Failing(s, d)
          PROVE  \A m \in Seen(w, s)', n \in Held(c, s)' : m < n
      BY <3>i, <3>4 DEF Failing, SeenStays, HeldStays
    <3> QED BY <3>1, <3>2, <3>3, <3>4, NextMoves
  <2> QED BY <1>3, <2>1, <2>2, HoldingFacts
<1> QED BY <1>p, <1>1, <1>2, <1>3

LEMMA InductiveHolds == Spec => []Inductive
<1>1. Inductive /\ [Next]_vars => Inductive'
  BY NextType, NextBox, NextRequest, NextCover, NextAlone, NextFresh, NextPlace, NextOrder DEF Inductive
<1> QED BY <1>1, InitInductive, PTL DEF Spec

-----------------------------------------------------------------------------
(***************************************************************************)
(* What the windows are shown.                                              *)
(***************************************************************************)

(* For any windows, browsers, connections and threads: a session whose      *)
(* polls did not overlap is shown no message twice, however often windows   *)
(* give up, ask again and share the cookie.                                 *)
THEOREM NothingShownTwice == Spec => []ShownOnce
<1>1. Inductive => ShownOnce
  <2> SUFFICES ASSUME Inductive, NEW s \in Sids \ raced, NEW w \in Windows, NEW v \in Windows,
                      NEW i \in DOMAIN shown[w][s], NEW j \in DOMAIN shown[v][s],
                      shown[w][s][i] = shown[v][s][j]
               PROVE  w = v /\ i = j
    BY DEF ShownOnce
  <2>i. OrderInv /\ InOnePlace(s) BY DEF Inductive, PlaceInv
  <2>t. shown[w][s] \in Seq(Nat) BY DEF Inductive, TypeOK
  <2>1. w = v
    <3>1. shown[w][s][i] \in Seen(w, s) /\ shown[v][s][j] \in Seen(v, s) BY DEF Seen, Elems
    <3> QED BY <2>i, <3>1 DEF InOnePlace
  <2>2. i \in Nat /\ j \in Nat /\ shown[w][s][i] \in Nat BY <2>t, <2>1, ElemsFacts
  <2>3. ~(i < j) /\ ~(j < i) BY <2>i, <2>1, <2>2 DEF OrderInv, InOrder
  <2> QED BY <2>1, <2>2, <2>3
<1> QED BY <1>1, InductiveHolds, PTL

(* ... and each window is shown them in the order they were heard ...       *)
THEOREM ShownAsHeard == Spec => []ShownInOrder
<1>1. Inductive => ShownInOrder
  BY DEF Inductive, OrderInv, InOrder, ShownInOrder
<1> QED BY <1>1, InductiveHolds, PTL

(* ... and no session at all, overlapping or not, missed what the mailbox   *)
(* still keeps, unless a reply that carried it failed.                      *)
THEOREM NothingElseLost == Spec => []OnlyFailureLoses
<1>1. Inductive => OnlyFailureLoses
  <2> SUFFICES ASSUME Inductive, NEW s \in Sids, NEW m \in Elems(box) \ {0}
               PROVE  m \in Unread(s) \cup OnTheWay(s) \cup Shown(s) \cup lost[s]
    BY DEF OnlyFailureLoses
  <2>i. TypeOK /\ CoverInv BY DEF Inductive
  <2>t. m \in Nat /\ cursor[s] \in Nat BY <2>i, ElemsFacts DEF TypeOK
  <2>1. CASE m > cursor[s] BY <2>1 DEF Unread
  <2>2. CASE Returned(m, s)
    <3>1. ASSUME NEW w \in Windows, m \in Seen(w, s) PROVE m \in Shown(s)
      BY <3>1 DEF Shown, Seen
    <3>2. ASSUME NEW c \in 1 .. Conns, m \in Held(c, s) PROVE m \in OnTheWay(s)
      <4>1. conn[c] # Free /\ conn[c].sid = s /\ m \in Elems(conn[c].msgs)
        BY <2>i, <3>2, RequestFacts DEF Held
      <4> QED BY <4>1 DEF OnTheWay
    <3> QED BY <2>2, <3>1, <3>2 DEF Returned
  <2>3. m <= cursor[s] => Returned(m, s) BY <2>i DEF CoverInv
  <2> QED BY <2>t, <2>1, <2>2, <2>3
<1> QED BY <1>1, InductiveHolds, PTL

(* With one io thread polls do not overlap.                                 *)
OneThreadInv ==
    threads = 1 =>
        /\ raced = {}
        /\ \A c, d \in 1 .. Conns : Polling(c) /\ Polling(d) => c = d

LEMMA NextOneThread == TypeOK /\ OneThreadInv /\ [Next]_vars => OneThreadInv'
<1> SUFFICES ASSUME TypeOK, OneThreadInv, [Next]_vars, threads' = 1 PROVE OneThreadInv'
  BY DEF OneThreadInv
<1>t. threads = 1
  BY DEF Next, Serve, Poll, Heard, Ask, GiveUp, StartPoll, Insert, ReadNext, EndPoll, RunCommand, NotRun,
     ReplyArrives, ReplyFails, ProcessDies, pageVars, vars
<1>i. raced = {} /\ \A c, d \in 1 .. Conns : Polling(c) /\ Polling(d) => c = d BY <1>t DEF OneThreadInv
<1>1. ASSUME NEW c \in 1 .. Conns, StartPoll(c), NEW d \in 1 .. Conns PROVE ~Polling(d)
  <2> DEFINE S == {e \in 1 .. Conns : Polling(e)}
  <2>1. IsFiniteSet(S)
    <3>1. IsFiniteSet(1 .. Conns) BY FS_Interval, ChatAssumption
    <3> QED BY <3>1, FS_Subset
  <2>2. Cardinality(S) < 1 BY <1>t, <1>1 DEF StartPoll, Asked
  <2>3. Cardinality(S) \in Nat /\ (Cardinality(S) = 0 <=> S = {}) BY <2>1, FS_CardinalityType, FS_EmptySet
  <2>4. S = {} BY <2>2, <2>3
  <2> QED BY <2>4
<1>2. raced' = {}
  <2>1. ASSUME NEW c \in 1 .. Conns, StartPoll(c) PROVE raced' = {}
    BY <1>i, <1>1, <2>1 DEF StartPoll
  <2>2. ASSUME NEW c \in 1 .. Conns, Insert(c) PROVE raced' = {}
    <3>1. {d \in 1 .. Conns \ {c} : conn[d].phase = "insert"} = {} BY <1>i, <2>2 DEF Insert, Polling
    <3> QED BY <1>i, <2>2, <3>1 DEF Insert
  <2>3. raced' = raced \/ \E c \in 1 .. Conns : StartPoll(c) \/ Insert(c)
    BY DEF Next, Serve, Poll, Heard, Ask, GiveUp, ReadNext, EndPoll, RunCommand, NotRun,
       ReplyArrives, ReplyFails, ProcessDies, historyVars, vars
  <2> QED BY <1>i, <2>1, <2>2, <2>3
<1>3. ASSUME NEW c \in 1 .. Conns, Polling(c)' PROVE Polling(c) \/ StartPoll(c)
  <2>1. conn'[c].phase \in {"insert", "running"} BY <1>3 DEF Polling
  <2> QED BY <1>3, <2>1, HoldingFacts
<1>4. ASSUME NEW c \in 1 .. Conns, NEW d \in 1 .. Conns, StartPoll(c), StartPoll(d) PROVE c = d
  <2>1. conn'[c].phase # conn[c].phase BY <1>4, StartFacts
  <2> QED BY <1>4, <2>1, StartFacts
<1>5. ASSUME NEW c \in 1 .. Conns, NEW d \in 1 .. Conns, Polling(c)', Polling(d)' PROVE c = d
  BY <1>i, <1>1, <1>3, <1>4, <1>5
<1> QED BY <1>2, <1>5 DEF OneThreadInv, Polling

(* ... so with one io thread every session is shown its messages once and   *)
(* in order.                                                                *)
THEOREM OneThreadNeverRaces == Spec => [](threads = 1 => raced = {})
<1>1. Init => OneThreadInv BY DEF Init, OneThreadInv, Polling, Free
<1>2. Inductive => TypeOK BY DEF Inductive
<1>3. OneThreadInv => (threads = 1 => raced = {}) BY DEF OneThreadInv
<1> QED BY <1>1, <1>2, <1>3, NextOneThread, InductiveHolds, PTL DEF Spec
=============================================================================
