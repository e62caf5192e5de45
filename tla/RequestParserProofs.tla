-------------------------- MODULE RequestParserProofs --------------------------
(***************************************************************************)
(* Proofs about the request parser, for any bytes and any bounds: the types *)
(* of its fields, that consume() always has the header it writes to, and    *)
(* that the parser accepts the requests of RequestGrammar and nothing else. *)
(***************************************************************************)
EXTENDS RequestGrammar, SequenceTheorems, WellFoundedInduction, TLAPS

Header == [name : Field, value : Field]
Text == Seq(Alphabet)

(* The states of a header line behind its first byte.                       *)
InHeader == {"header_lws", "header_name", "space_before_header_value", "header_value",
             "expecting_newline_2"}

(* No header is without a name, so that the one a folded line continues has *)
(* one, however many lines lie between.                                     *)
NamedInv ==
    /\ \A i \in DOMAIN headers : headers[i].name # <<>>
    /\ state \in InHeader => headers # <<>>

Inductive == TypeOK /\ NamedInv

-----------------------------------------------------------------------------
(* The values of Expected and Behind.                                       *)
LEMMA ExpectedIs ==
    /\ DOMAIN Expected = {"http_version_h", "http_version_t_1", "http_version_t_2", "http_version_p",
                          "http_version_slash", "expecting_newline_1", "expecting_newline_2",
                          "expecting_newline_3", "space_before_header_value"}
    /\ Expected["http_version_h"] = "H" /\ Expected["http_version_t_1"] = "T"
    /\ Expected["http_version_t_2"] = "T" /\ Expected["http_version_p"] = "P"
    /\ Expected["http_version_slash"] = "/"
    /\ Expected["expecting_newline_1"] = "lf" /\ Expected["expecting_newline_2"] = "lf"
    /\ Expected["expecting_newline_3"] = "lf" /\ Expected["space_before_header_value"] = "sp"
    /\ Behind["http_version_h"] = "http_version_t_1" /\ Behind["http_version_t_1"] = "http_version_t_2"
    /\ Behind["http_version_t_2"] = "http_version_p" /\ Behind["http_version_p"] = "http_version_slash"
    /\ Behind["http_version_slash"] = "http_version_major_start"
    /\ Behind["expecting_newline_1"] = "header_line_start"
    /\ Behind["expecting_newline_2"] = "header_line_start"
    /\ Behind["expecting_newline_3"] = "good" /\ Behind["space_before_header_value"] = "header_value"
BY DEF Expected, Behind

(* Where a byte may lead, and from where a header line is reached.          *)
LEMMA NextStateFacts ==
    ASSUME NEW c, state \in States
    PROVE  /\ NextState(c) \in States \cup {"good", "bad"}
           /\ NextState(c) = "header_lws" => headers # <<>> \/ state = "header_lws"
           /\ NextState(c) = "header_name" => state \in {"header_line_start", "header_name"}
           /\ NextState(c) \in InHeader \ {"header_lws", "header_name"} => state \in InHeader
<1>1. CASE state \in DOMAIN Expected /\ c = Expected[state]
  <2>1. NextState(c) = Behind[state] BY <1>1, ExpectedIs DEF NextState, MethodMayEnd
  <2> QED BY <1>1, <2>1, ExpectedIs DEF States, InHeader
<1>2. CASE ~(state \in DOMAIN Expected /\ c = Expected[state])
  BY <1>2, ExpectedIs DEF NextState, States, InHeader, MethodMayEnd, MayFold
<1> QED BY <1>1, <1>2

LEMMA InitInductive == Init => Inductive
<1>1. ASSUME Init PROVE TypeOK /\ NamedInv
  <2>1. <<>> \in Seq(Alphabet) /\ <<>> \in Seq(Header) BY EmptySeq
  <2>2. TypeOK BY <1>1, <2>1 DEF Init, TypeOK, States, Field, Header
  <2>3. headers = <<>> /\ state = "method_start" BY <1>1 DEF Init
  <2>4. NamedInv BY <2>3 DEF NamedInv, InHeader
  <2> QED BY <2>2, <2>4
<1> QED BY <1>1 DEF Inductive

(* What a byte does to the headers.                                         *)
LEMMA NextHeadersFacts ==
    ASSUME Inductive, NEW c \in Alphabet
    PROVE  LET h == NextHeaders(c, NextState(c)) IN
           /\ h \in Seq(Header)
           /\ \A i \in DOMAIN h : h[i].name # <<>>
           /\ headers # <<>> \/ NextState(c) \in InHeader => h # <<>>
<1> DEFINE n == NextState(c)
           h == NextHeaders(c, n)
<1>1. /\ state \in States /\ headers \in Seq(Header)
      /\ \A i \in DOMAIN headers : headers[i].name # <<>>
      /\ state \in InHeader => headers # <<>>
  BY DEF Inductive, TypeOK, NamedInv, Header
<1>2. /\ n = "header_lws" => headers # <<>> \/ state = "header_lws"
      /\ n = "header_name" => state \in {"header_line_start", "header_name"}
      /\ n \in InHeader \ {"header_lws", "header_name"} => state \in InHeader
  BY <1>1, NextStateFacts
<1> HIDE DEF n
<1>3. CASE n = "header_name" /\ state = "header_line_start"
  <2> DEFINE e == [Empty EXCEPT !.name = <<c>>]
  <2>1. e \in Header /\ e.name # <<>>
    <3>1. <<c>> \in Seq(Alphabet) /\ <<c>> # <<>> /\ <<>> \in Seq(Alphabet) BY EmptySeq
    <3>2. e = [name |-> <<c>>, value |-> <<>>] BY DEF Empty
    <3> QED BY <3>1, <3>2 DEF Header, Field
  <2>2. h = Append(headers, e) BY <1>3 DEF NextHeaders
  <2> HIDE DEF e
  <2>3. /\ h \in Seq(Header) /\ Len(h) = Len(headers) + 1 /\ h # <<>>
        /\ \A i \in 1 .. Len(headers) : h[i] = headers[i]
        /\ h[Len(headers) + 1] = e
    BY <1>1, <2>1, <2>2, AppendProperties
  <2>4. ASSUME NEW i \in DOMAIN h PROVE h[i].name # <<>>
    <3>1. i \in 1 .. Len(headers) + 1 BY <2>3, LenProperties
    <3>2. CASE i = Len(headers) + 1 BY <2>1, <2>3, <3>2
    <3>3. CASE i # Len(headers) + 1
      <4>1. i \in 1 .. Len(headers) BY <1>1, <3>1, <3>3, LenProperties
      <4> QED BY <1>1, <2>3, <4>1, LenProperties
    <3> QED BY <3>2, <3>3
  <2> QED BY <2>3, <2>4 DEF n, h
<1>4. ASSUME headers # <<>>, NEW b \in Header, b.name # <<>>, h = WithBack(b)
      PROVE  h \in Seq(Header) /\ (\A i \in DOMAIN h : h[i].name # <<>>) /\ h # <<>>
  <2>1. PICK l \in Nat \ {0} : l = Len(headers) /\ DOMAIN headers = 1 .. l
    BY <1>1, <1>4, LenProperties, EmptySeq
  <2>2. h = [headers EXCEPT ![l] = b] BY <1>4, <2>1 DEF WithBack
  <2>3. h \in Seq(Header) /\ Len(h) = Len(headers) /\ h[l] = b
        /\ \A i \in 1 .. l : i # l => h[i] = headers[i]
    <3>1. l \in 1 .. Len(headers) BY <2>1
    <3> QED BY <1>1, <1>4, <2>1, <2>2, <3>1, ExceptSeq
  <2>4. DOMAIN h = 1 .. l BY <2>1, <2>3, LenProperties
  <2>5. h # <<>> BY <2>1, <2>3, EmptySeq
  <2> QED BY <1>1, <1>4, <2>1, <2>3, <2>4, <2>5
<1>5. headers # <<>> => /\ Back \in Header /\ Back.name # <<>>
                        /\ Back.name \in Seq(Alphabet) /\ Back.value \in Seq(Alphabet)
  <2>1. headers # <<>> => Len(headers) \in DOMAIN headers BY <1>1, LenProperties, EmptySeq
  <2>2. headers # <<>> => Back \in Header /\ Back.name # <<>> BY <1>1, <2>1, ElementOfSeq, LenProperties DEF Back
  <2> QED BY <2>2 DEF Header, Field
<1>6. CASE n = "header_name" /\ state = "header_name"
  <2> DEFINE b == [Back EXCEPT !.name = Append(@, c)]
  <2>1. headers # <<>> BY <1>1, <1>6 DEF InHeader
  <2>2. Append(Back.name, c) \in Seq(Alphabet) /\ Append(Back.name, c) # <<>>
    BY <1>5, <2>1, AppendProperties
  <2>p. PICK x, y : Back = [name |-> x, value |-> y] BY <1>5, <2>1 DEF Header
  <2>3. b = [name |-> Append(Back.name, c), value |-> Back.value] BY <2>p
  <2>4. b \in Header /\ b.name # <<>> BY <1>5, <2>1, <2>2, <2>3 DEF Header, Field
  <2>5. h = WithBack(b) BY <1>6 DEF NextHeaders
  <2> HIDE DEF b
  <2> QED BY <1>4, <2>1, <2>4, <2>5 DEF n, h
<1>7. CASE n = "header_value" /\ state # "space_before_header_value"
  <2> DEFINE b == [Back EXCEPT !.value = Append(@, c)]
  <2>1. headers # <<>> BY <1>1, <1>2, <1>7 DEF InHeader
  <2>2. Append(Back.value, c) \in Seq(Alphabet) BY <1>5, <2>1, AppendProperties
  <2>p. PICK x, y : Back = [name |-> x, value |-> y] BY <1>5, <2>1 DEF Header
  <2>3. b = [name |-> Back.name, value |-> Append(Back.value, c)] BY <2>p
  <2>4. b \in Header /\ b.name # <<>> BY <1>5, <2>1, <2>2, <2>3 DEF Header, Field
  <2>5. h = WithBack(b) BY <1>7 DEF NextHeaders
  <2> HIDE DEF b
  <2> QED BY <1>4, <2>1, <2>4, <2>5 DEF n, h
<1>8. CASE /\ ~(n = "header_name" /\ state \in {"header_line_start", "header_name"})
           /\ ~(n = "header_value" /\ state # "space_before_header_value")
  <2>1. h = headers BY <1>8 DEF NextHeaders
  <2>2. n \in InHeader => headers # <<>> BY <1>1, <1>2, <1>8 DEF InHeader
  <2> QED BY <1>1, <2>1, <2>2 DEF n, h
<1> QED BY <1>3, <1>6, <1>7, <1>8

LEMMA ConsumeKeeps ==
    ASSUME Inductive, NEW c \in Alphabet, Consume(c)
    PROVE  Inductive'
<1> DEFINE n == NextState(c)
<1>1. /\ state \in States /\ n \in States \cup {"good", "bad"}
      /\ method \in Seq(Alphabet) /\ uri \in Seq(Alphabet) /\ input \in Seq(Alphabet)
      /\ (\A i \in DOMAIN headers : headers[i].name # <<>>) /\ (state \in InHeader => headers # <<>>)
  BY NextStateFacts DEF Inductive, TypeOK, NamedInv, Field
<1>2. /\ result' = IF n \in {"good", "bad"} THEN n ELSE "indeterminate"
      /\ state' = IF n \in {"good", "bad"} THEN state ELSE n
      /\ method' = IF n = "method" THEN Append(method, c) ELSE method
      /\ uri' = IF n = "uri" /\ state = "uri" THEN Append(uri, c) ELSE uri
      /\ headers' = NextHeaders(c, n) /\ input' = Append(input, c)
  BY DEF Consume
<1>3. /\ headers' \in Seq(Header) /\ (\A i \in DOMAIN headers' : headers'[i].name # <<>>)
      /\ headers # <<>> \/ n \in InHeader => headers' # <<>>
  BY <1>2, NextHeadersFacts
<1> HIDE DEF n
<1>4. /\ Append(method, c) \in Seq(Alphabet) /\ Append(uri, c) \in Seq(Alphabet)
      /\ Append(input, c) \in Seq(Alphabet)
  BY <1>1, AppendProperties
<1>5. state' \in States /\ result' \in {"good", "bad", "indeterminate"} BY <1>1, <1>2
<1>6. TypeOK' BY <1>1, <1>2, <1>3, <1>4, <1>5 DEF TypeOK, Field, Header
<1>7. NamedInv' BY <1>1, <1>2, <1>3 DEF NamedInv
<1> QED BY <1>6, <1>7 DEF Inductive

(* The bytes a buffer may hold.                                             *)
LEMMA OfferedType ==
    ASSUME TypeOK, NEW c \in Offered
    PROVE  c \in Alphabet
<1>1. Len(input) \in Nat /\ Len(Given) \in Nat
  BY CharsAssumption, LenProperties DEF TypeOK, Field
<1>2. CASE Len(input) < Len(Given)
  <2>1. Len(input) + 1 \in 1 .. Len(Given) BY <1>1, <1>2
  <2>2. Given[Len(input) + 1] \in Alphabet BY <2>1, CharsAssumption, ElementOfSeq
  <2> QED BY <1>2, <2>2 DEF Offered
<1>3. CASE ~(Len(input) < Len(Given)) BY <1>3, CharsAssumption DEF Offered
<1> QED BY <1>2, <1>3

LEMMA NextInductive == Inductive /\ [Next]_vars => Inductive'
<1> SUFFICES ASSUME Inductive, [Next]_vars PROVE Inductive'
  OBVIOUS
<1>1. CASE Parse
  <2>1. /\ state' = "method_start" /\ result' = "indeterminate" /\ input' = <<>>
        /\ method' = <<>> /\ uri' = <<>> /\ headers' = <<>>
    BY <1>1 DEF Parse, ClearedHeaders
  <2>2. <<>> \in Seq(Alphabet) /\ <<>> \in Seq(Header) BY EmptySeq
  <2>3. TypeOK' BY <2>1, <2>2 DEF TypeOK, States, Field, Header
  <2>4. NamedInv' BY <2>1 DEF NamedInv, InHeader
  <2> QED BY <2>3, <2>4 DEF Inductive
<1>2. ASSUME NEW c \in Offered, Consume(c) PROVE Inductive'
  <2>1. c \in Alphabet BY OfferedType DEF Inductive
  <2> QED BY <1>2, <2>1, ConsumeKeeps
<1>3. CASE UNCHANGED vars BY <1>3 DEF Inductive, TypeOK, NamedInv, vars
<1> QED BY <1>1, <1>2, <1>3 DEF Next

LEMMA InductiveHolds == Spec => []Inductive
BY InitInductive, NextInductive, PTL DEF Spec

(* Every variable keeps its type: consume() never leaves its states.        *)
THEOREM ParserTypes == Spec => []TypeOK
<1>1. Inductive => TypeOK BY DEF Inductive
<1> QED BY <1>1, InductiveHolds, PTL

(* headers.back() is called with a header there, whatever bytes come in and *)
(* however often a longer buffer is parsed again.                           *)
THEOREM BackAlwaysDefined == Spec => []BackIsDefined
<1>1. Inductive => BackIsDefined
  <2> SUFFICES ASSUME Inductive, state \in InHeader PROVE headers # <<>> /\ Back.name # <<>>
    BY DEF BackIsDefined, InHeader
  <2>1. headers \in Seq(Header) /\ headers # <<>> /\ \A i \in DOMAIN headers : headers[i].name # <<>>
    BY DEF Inductive, TypeOK, NamedInv, Header
  <2>2. Len(headers) \in DOMAIN headers BY <2>1, LenProperties, EmptySeq
  <2> QED BY <2>1, <2>2 DEF Back
<1> QED BY <1>1, InductiveHolds, PTL

-----------------------------------------------------------------------------
(***************************************************************************)
(* Least numbers, recursive functions and pieces of sequences.  The         *)
(* theorems of the library on induction and recursion take an operator, so  *)
(* what a recursive function is follows here from least numbers and         *)
(* functions of functions.                                                  *)
(***************************************************************************)

(* Every nonempty set of numbers has a least one.                           *)
LEMMA LeastOf ==
    ASSUME NEW U \in SUBSET Nat, U # {}
    PROVE  \E m \in U : \A j \in U : m <= j
<1> DEFINE R == OpToRel(<, Nat)
<1>1. IsWellFoundedOn(R, Nat) BY NatLessThanWellFounded
<1>2. \A x, y \in Nat : y < x => <<y, x>> \in R BY DEF OpToRel
<1> HIDE DEF R
<1>3. PICK m \in U : \A j \in U : ~(<<j, m>> \in R) BY <1>1, WFMin
<1>4. \A j \in U : ~(j < m) BY <1>2, <1>3
<1> QED BY <1>4

(* What holds of 0 and goes on from one number to the next holds up to n.   *)
LEMMA Climb ==
    ASSUME NEW n \in Nat, NEW T, 0 \in T,
           \A k \in 1 .. n : k - 1 \in T => k \in T
    PROVE  \A k \in 0 .. n : k \in T
<1> SUFFICES ASSUME 0 .. n \ T # {} PROVE FALSE
  OBVIOUS
<1>1. (0 .. n \ T) \in SUBSET Nat OBVIOUS
<1>2. PICK m \in 0 .. n \ T : \A j \in 0 .. n \ T : m <= j BY <1>1, LeastOf
<1>3. m \in 1 .. n /\ m - 1 \in 0 .. n /\ ~(m <= m - 1) BY <1>2
<1>4. m - 1 \in T BY <1>2, <1>3
<1> QED BY <1>2, <1>3, <1>4

(* Functions that are defined by recursion exist.                           *)
Computes(f, n, b, h) == f[0] = b /\ \A k \in 1 .. n : f[k] = h[k][f[k - 1]]

LEMMA Recursion ==
    ASSUME NEW n \in Nat, NEW V, NEW b \in V, NEW h \in [1 .. n -> [V -> V]]
    PROVE  \E f \in [0 .. n -> V] : Computes(f, n, b, h)
<1> DEFINE Is(f, m) == Computes(f, m, b, h)
           T == {m \in 0 .. n : \E f \in [0 .. m -> V] : Is(f, m)}
<1> USE DEF Computes
<1>1. 0 \in T
  <2> DEFINE f == [k \in 0 .. 0 |-> b]
  <2>1. f \in [0 .. 0 -> V] /\ f[0] = b OBVIOUS
  <2> HIDE DEF f
  <2> QED BY <2>1
<1>2. ASSUME NEW m \in 1 .. n, m - 1 \in T PROVE m \in T
  <2>1. PICK f \in [0 .. m - 1 -> V] : Is(f, m - 1) BY <1>2
  <2> DEFINE g == [k \in 0 .. m |-> IF k = m THEN h[m][f[m - 1]] ELSE f[k]]
  <2>2. f[m - 1] \in V /\ h[m] \in [V -> V] BY <2>1
  <2>3. g \in [0 .. m -> V] BY <2>2
  <2>4. g[m] = h[m][f[m - 1]] /\ \A k \in 0 .. m - 1 : g[k] = f[k] OBVIOUS
  <2> HIDE DEF g
  <2>5. ASSUME NEW k \in 1 .. m PROVE g[k] = h[k][g[k - 1]]
    <3>1. CASE k = m BY <2>4, <3>1
    <3>2. CASE k # m
      <4>1. k \in 1 .. m - 1 /\ k \in 0 .. m - 1 /\ k - 1 \in 0 .. m - 1 BY <3>2
      <4>2. f[k] = h[k][f[k - 1]] BY <2>1, <4>1
      <4> QED BY <2>4, <4>1, <4>2
    <3> QED BY <3>1, <3>2
  <2>6. g[0] = b BY <2>1, <2>4
  <2>7. Is(g, m) BY <2>5, <2>6
  <2>8. m \in 0 .. n OBVIOUS
  <2> HIDE DEF Is
  <2> QED BY <2>3, <2>7, <2>8
<1> HIDE DEF Is
<1>3. \A k \in 0 .. n : k \in T BY <1>1, <1>2, Climb
<1>4. n \in T BY <1>3
<1> HIDE DEF Computes
<1> QED BY <1>4 DEF Is

(* Selections.                                                              *)
Selects(f, n, S) ==
    /\ f[0] = <<>>
    /\ \A k \in 1 .. n : f[k] = IF k \in S THEN Append(f[k - 1], k) ELSE f[k - 1]

(* Ascending is the end of such a selection.                                *)
LEMMA AscendingIs ==
    ASSUME NEW n \in Nat, NEW S
    PROVE  \E f \in [0 .. n -> Seq(Nat)] : Selects(f, n, S) /\ Ascending(S, n) = f[n]
<1> DEFINE h == [k \in 1 .. n |-> [v \in Seq(Nat) |-> IF k \in S THEN Append(v, k) ELSE v]]
           F(f) == [k \in 0 .. n |-> IF k = 0 THEN <<>>
                                     ELSE IF k \in S THEN Append(f[k - 1], k) ELSE f[k - 1]]
           u == CHOOSE f : f = F(f)
<1>1. <<>> \in Seq(Nat) BY EmptySeq
<1>2. h \in [1 .. n -> [Seq(Nat) -> Seq(Nat)]]
  <2>1. \A k \in 1 .. n, v \in Seq(Nat) : Append(v, k) \in Seq(Nat) BY AppendProperties
  <2> QED BY <2>1
<1>3. \A k \in 1 .. n, v \in Seq(Nat) : h[k][v] = IF k \in S THEN Append(v, k) ELSE v OBVIOUS
<1> HIDE DEF h
<1>4. PICK f \in [0 .. n -> Seq(Nat)] : Computes(f, n, <<>>, h)
  BY <1>1, <1>2, Recursion
<1>5. f = F(f)
  <2>1. \A k \in 0 .. n : k = 0 \/ (k \in 1 .. n /\ k - 1 \in 0 .. n) OBVIOUS
  <2>2. ASSUME NEW k \in 0 .. n
        PROVE  f[k] = IF k = 0 THEN <<>>
                      ELSE IF k \in S THEN Append(f[k - 1], k) ELSE f[k - 1]
    BY <1>3, <1>4, <2>1 DEF Computes
  <2> QED BY <2>2
<1>6. u = F(u) BY <1>5
<1> HIDE DEF u
<1>7. u[0] = <<>> /\ \A k \in 1 .. n : u[k] = IF k \in S THEN Append(u[k - 1], k) ELSE u[k - 1]
  <2>1. \A k \in 0 .. n : u[k] = IF k = 0 THEN <<>>
                                   ELSE IF k \in S THEN Append(u[k - 1], k) ELSE u[k - 1]
    BY <1>6
  <2>2. 0 \in 0 .. n /\ \A k \in 1 .. n : k \in 0 .. n /\ k # 0 OBVIOUS
  <2> QED BY <2>1, <2>2
<1>8. u \in [0 .. n -> Seq(Nat)]
  <2> DEFINE T == {k \in 0 .. n : u[k] \in Seq(Nat)}
  <2>0. 0 \in 0 .. n /\ \A k \in 1 .. n : k \in 0 .. n OBVIOUS
  <2>1. 0 \in T BY <1>1, <1>7, <2>0
  <2>2. ASSUME NEW k \in 1 .. n, k - 1 \in T PROVE k \in T
    <3>1. u[k - 1] \in Seq(Nat) BY <2>2
    <3>2. Append(u[k - 1], k) \in Seq(Nat) BY <3>1, AppendProperties
    <3>3. u[k] \in Seq(Nat) BY <1>7, <3>1, <3>2
    <3> QED BY <2>0, <3>3
  <2>3. \A k \in 0 .. n : k \in T BY <2>1, <2>2, Climb
  <2> QED BY <1>6, <2>3
<1>9. Ascending(S, n) = u[n] BY DEF Ascending, u
<1>10. Selects(u, n, S) BY <1>7 DEF Selects
<1> QED BY <1>8, <1>9, <1>10

(* A part of a sequence.                                                    *)
LEMMA Slice ==
    ASSUME NEW X, NEW s \in Seq(X), NEW a \in 1 .. Len(s) + 1, NEW b \in a - 1 .. Len(s)
    PROVE  /\ SubSeq(s, a, b) \in Seq(X) /\ Len(SubSeq(s, a, b)) = b - a + 1
           /\ \A j \in 1 .. b - a + 1 : SubSeq(s, a, b)[j] = s[a + j - 1]
           /\ b - a + 1 \in Nat
<1> DEFINE n == Len(s)
           t == SubSeq(s, a, b)
<1>1. n \in Nat /\ \A j \in 1 .. n : s[j] \in X BY LenProperties, ElementOfSeq
<1>2. a \in Int /\ b \in Int /\ b - a + 1 \in Nat /\ (\A j \in a .. b : j \in 1 .. n)
      /\ (a <= b \/ (b < a /\ b - a + 1 = 0))
  <2>1. a \in 1 .. n + 1 /\ b \in a - 1 .. n OBVIOUS
  <2> HIDE DEF n
  <2> QED BY <1>1, <2>1
<1>3. \A j \in a .. b : s[j] \in X BY <1>1, <1>2
<1>4. CASE a <= b
  <2>1. t \in Seq(X) /\ Len(t) = b - a + 1 /\ \A j \in 1 .. b - a + 1 : t[j] = s[a + j - 1]
    BY <1>2, <1>3, <1>4, SubSeqProperties
  <2> QED BY <1>2, <2>1
<1>5. CASE b < a
  <2>1. t = <<>> BY <1>2, <1>5, SubSeqEmpty
  <2>2. <<>> \in Seq(X) /\ Len(<<>>) = 0 BY EmptySeq
  <2>3. b - a + 1 = 0 BY <1>2, <1>5
  <2> HIDE DEF t
  <2>4. t \in Seq(X) /\ Len(t) = b - a + 1 /\ \A j \in 1 .. b - a + 1 : t[j] = s[a + j - 1]
    BY <2>1, <2>2, <2>3
  <2> QED BY <1>2, <2>4 DEF t
<1> QED BY <1>2, <1>4, <1>5


(* One step of a selection.                                                 *)
LEMMA AscendingNext ==
    ASSUME NEW n \in Nat, NEW S
    PROVE  /\ Ascending(S, 0) = <<>> /\ Ascending(S, n) \in Seq(Nat)
           /\ Ascending(S, n + 1) = IF n + 1 \in S THEN Append(Ascending(S, n), n + 1)
                                    ELSE Ascending(S, n)
<1>1. PICK f \in [0 .. n -> Seq(Nat)] : Selects(f, n, S) /\ Ascending(S, n) = f[n] BY AscendingIs
<1>2. PICK g \in [0 .. n + 1 -> Seq(Nat)] : Selects(g, n + 1, S) /\ Ascending(S, n + 1) = g[n + 1]
  BY AscendingIs, n + 1 \in Nat
<1> DEFINE T == {k \in 0 .. n : f[k] = g[k]}
<1>3. 0 \in T BY <1>1, <1>2 DEF Selects
<1>4. ASSUME NEW k \in 1 .. n, k - 1 \in T PROVE k \in T
  <2>1. f[k - 1] = g[k - 1] /\ k \in 0 .. n /\ k \in 1 .. n + 1 BY <1>4
  <2>2. /\ f[k] = IF k \in S THEN Append(f[k - 1], k) ELSE f[k - 1]
        /\ g[k] = IF k \in S THEN Append(g[k - 1], k) ELSE g[k - 1]
    BY <1>1, <1>2, <2>1 DEF Selects
  <2>3. f[k] = g[k] BY <2>1, <2>2
  <2> QED BY <2>1, <2>3
<1> HIDE DEF T
<1>5. \A k \in 0 .. n : k \in T BY <1>3, <1>4, Climb
<1>6. f[n] = g[n] /\ n \in 0 .. n BY <1>5 DEF T
<1>7. n + 1 \in 1 .. n + 1 /\ (n + 1) - 1 = n OBVIOUS
<1>8. g[n + 1] = IF n + 1 \in S THEN Append(g[n], n + 1) ELSE g[n] BY <1>2, <1>7 DEF Selects
<1>9. Ascending(S, 0) = <<>>
  <2>1. PICK z \in [0 .. 0 -> Seq(Nat)] : Selects(z, 0, S) /\ Ascending(S, 0) = z[0]
    BY AscendingIs, 0 \in Nat
  <2> QED BY <2>1 DEF Selects
<1> QED BY <1>1, <1>2, <1>6, <1>8, <1>9

(* It depends on the numbers up to n only, and holds no others.             *)
LEMMA AscendingSame ==
    ASSUME NEW n \in Nat, NEW S, NEW R, \A k \in 1 .. n : k \in S <=> k \in R
    PROVE  Ascending(S, n) = Ascending(R, n)
<1> DEFINE T == {k \in 0 .. n : Ascending(S, k) = Ascending(R, k)}
<1>1. 0 \in T BY AscendingNext, 0 \in Nat
<1>2. ASSUME NEW k \in 1 .. n, k - 1 \in T PROVE k \in T
  <2>1. k - 1 \in Nat /\ (k - 1) + 1 = k /\ k \in 0 .. n OBVIOUS
  <2>2. Ascending(S, k - 1) = Ascending(R, k - 1) BY <1>2
  <2>3. /\ Ascending(S, k) = IF k \in S THEN Append(Ascending(S, k - 1), k) ELSE Ascending(S, k - 1)
        /\ Ascending(R, k) = IF k \in R THEN Append(Ascending(R, k - 1), k) ELSE Ascending(R, k - 1)
    <3>1. ASSUME NEW Q PROVE Ascending(Q, k) = IF k \in Q THEN Append(Ascending(Q, k - 1), k) ELSE Ascending(Q, k - 1)
      <4>1. Ascending(Q, (k - 1) + 1) = IF (k - 1) + 1 \in Q THEN Append(Ascending(Q, k - 1), (k - 1) + 1)
                                        ELSE Ascending(Q, k - 1)
        BY <2>1, AscendingNext
      <4> QED BY <2>1, <4>1
    <3> QED BY <3>1
  <2> QED BY <2>1, <2>2, <2>3
<1> HIDE DEF T
<1>3. \A k \in 0 .. n : k \in T BY <1>1, <1>2, Climb
<1> QED BY <1>3 DEF T

(* What is selected.                                                        *)
LEMMA AscendingIn ==
    ASSUME NEW n \in Nat, NEW S
    PROVE  \A i \in 1 .. Len(Ascending(S, n)) : Ascending(S, n)[i] \in S /\ Ascending(S, n)[i] \in 1 .. n
<1> DEFINE Good(k) == \A i \in 1 .. Len(Ascending(S, k)) :
                         Ascending(S, k)[i] \in S /\ Ascending(S, k)[i] \in 1 .. k
           T == {k \in 0 .. n : Good(k)}
<1>1. 0 \in T
  <2>1. Ascending(S, 0) = <<>> /\ Len(<<>>) = 0 BY AscendingNext, EmptySeq, 0 \in Nat
  <2> QED BY <2>1
<1>2. ASSUME NEW k \in 1 .. n, k - 1 \in T PROVE k \in T
  <2> DEFINE a == Ascending(S, k - 1)
             b == Ascending(S, k)
  <2>1. k - 1 \in Nat /\ (k - 1) + 1 = k /\ k \in 0 .. n OBVIOUS
  <2>2. a \in Seq(Nat) /\ b = IF k \in S THEN Append(a, k) ELSE a
    <3>1. a \in Seq(Nat) /\ Ascending(S, (k - 1) + 1) = IF (k - 1) + 1 \in S THEN Append(a, (k - 1) + 1) ELSE a
      BY <2>1, AscendingNext
    <3> QED BY <2>1, <3>1
  <2>3. \A i \in 1 .. Len(a) : a[i] \in S /\ a[i] \in 1 .. k - 1 BY <1>2
  <2>4. Len(a) \in Nat BY <2>2, LenProperties
  <2> HIDE DEF a
  <2>5. CASE k \in S
    <3>1. b = Append(a, k) BY <2>2, <2>5
    <3>2. Len(b) = Len(a) + 1 /\ (\A i \in 1 .. Len(a) : b[i] = a[i]) /\ b[Len(a) + 1] = k
      BY <2>2, <3>1, AppendProperties, k \in Nat
    <3> HIDE DEF b
    <3>3. ASSUME NEW i \in 1 .. Len(b) PROVE b[i] \in S /\ b[i] \in 1 .. k
      <4>1. CASE i = Len(a) + 1 BY <2>5, <3>2, <4>1
      <4>2. CASE i # Len(a) + 1
        <5>1. i \in 1 .. Len(a) BY <2>4, <3>2, <4>2
        <5>2. b[i] = a[i] /\ a[i] \in S /\ a[i] \in 1 .. k - 1 BY <2>3, <3>2, <5>1
        <5> QED BY <5>2
      <4> QED BY <4>1, <4>2
    <3> QED BY <2>1, <3>3 DEF b
  <2>6. CASE k \notin S
    <3>1. b = a BY <2>2, <2>6
    <3>2. \A i \in 1 .. Len(b) : b[i] \in S /\ b[i] \in 1 .. k BY <2>3, <3>1
    <3> QED BY <2>1, <3>2
  <2> QED BY <2>5, <2>6
<1> HIDE DEF T
<1>3. \A k \in 0 .. n : k \in T BY <1>1, <1>2, Climb
<1> QED BY <1>3 DEF T

-----------------------------------------------------------------------------
(***************************************************************************)
(* The lines of a text, a byte at a time.                                   *)
(***************************************************************************)

(* Equal stretches.                                                         *)
LEMMA SliceSame ==
    ASSUME NEW X, NEW s \in Seq(X), NEW t \in Seq(X), NEW a \in Nat \ {0}, NEW b \in Int,
           b <= Len(s), b <= Len(t), \A i \in a .. b : s[i] = t[i]
    PROVE  SubSeq(s, a, b) = SubSeq(t, a, b)
<1>0. Len(s) \in Nat /\ Len(t) \in Nat BY LenProperties
<1>1. CASE b < a BY <1>1, SubSeqEmpty
<1>2. CASE a <= b
  <2>1. a \in 1 .. Len(s) + 1 /\ b \in a - 1 .. Len(s) BY <1>0, <1>2
  <2>2. a \in 1 .. Len(t) + 1 /\ b \in a - 1 .. Len(t) BY <1>0, <1>2
  <2>3. /\ SubSeq(s, a, b) \in Seq(X) /\ Len(SubSeq(s, a, b)) = b - a + 1
        /\ \A j \in 1 .. b - a + 1 : SubSeq(s, a, b)[j] = s[a + j - 1]
    BY <2>1, Slice
  <2>4. /\ SubSeq(t, a, b) \in Seq(X) /\ Len(SubSeq(t, a, b)) = b - a + 1
        /\ \A j \in 1 .. b - a + 1 : SubSeq(t, a, b)[j] = t[a + j - 1]
    BY <2>2, Slice
  <2>5. \A j \in 1 .. b - a + 1 : a + j - 1 \in a .. b OBVIOUS
  <2>6. \A j \in 1 .. b - a + 1 : SubSeq(s, a, b)[j] = SubSeq(t, a, b)[j] BY <2>3, <2>4, <2>5
  <2> QED BY <2>3, <2>4, <2>6, SeqEqual
<1> QED BY <1>1, <1>2

(* Texts and their lines.                                                   *)
LEMMA EndsFacts ==
    ASSUME NEW t \in Seq(Alphabet)
    PROVE  /\ Ends(t) \in Seq(Nat) /\ Len(Ends(t)) \in Nat /\ Len(t) \in Nat
           /\ \A i \in 1 .. Len(Ends(t)) :
                 Ends(t)[i] \in 1 .. Len(t) - 1 /\ t[Ends(t)[i]] = "cr" /\ t[Ends(t)[i] + 1] = "lf"
           /\ \A i \in 1 .. Len(Ends(t)) + 1 : Begin(Ends(t), i) \in 1 .. Len(t) + 1
<1> DEFINE e == Ends(t)
           n == Len(t)
<1>1. n \in Nat BY LenProperties
<1>2. e \in Seq(Nat) BY <1>1, AscendingNext DEF Ends
<1>3. Len(e) \in Nat BY <1>2, LenProperties
<1>4. \A i \in 1 .. Len(e) : e[i] \in LineEnds(t) BY <1>1, AscendingIn DEF Ends
<1>5. \A i \in 1 .. Len(e) : e[i] \in 1 .. n - 1 /\ t[e[i]] = "cr" /\ t[e[i] + 1] = "lf"
  BY <1>4 DEF LineEnds
<1> HIDE DEF e
<1>6. ASSUME NEW i \in 1 .. Len(e) + 1 PROVE Begin(e, i) \in 1 .. n + 1
  <2>1. CASE i = 1 BY <1>1, <2>1 DEF Begin
  <2>2. CASE i # 1
    <3>1. i - 1 \in 1 .. Len(e) BY <1>3, <2>2
    <3>2. e[i - 1] \in 1 .. n - 1 BY <1>5, <3>1
    <3>3. Begin(e, i) = e[i - 1] + 2 BY <2>2 DEF Begin
    <3> HIDE DEF n
    <3> QED BY <1>1, <3>2, <3>3
  <2> QED BY <2>1, <2>2
<1> QED BY <1>1, <1>2, <1>3, <1>5, <1>6 DEF e

(* A byte more is a line end more or none.                                  *)
LEMMA EndsGrow ==
    ASSUME NEW t \in Seq(Alphabet), NEW c \in Alphabet
    PROVE  Ends(Append(t, c)) =
             IF Len(t) >= 1 /\ t[Len(t)] = "cr" /\ c = "lf" THEN Append(Ends(t), Len(t)) ELSE Ends(t)
<1> DEFINE u == Append(t, c)
           n == Len(t)
<1>1. n \in Nat /\ Len(u) = n + 1 /\ (\A i \in 1 .. n : u[i] = t[i]) /\ u[n + 1] = c
  BY LenProperties, AppendProperties
<1> HIDE DEF u
<1>2. \A k \in 1 .. n - 1 : k \in LineEnds(u) <=> k \in LineEnds(t)
  <2>1. \A k \in 1 .. n - 1 : k \in 1 .. n /\ k + 1 \in 1 .. n /\ k \in 1 .. (n + 1) - 1 BY <1>1
  <2> QED BY <1>1, <2>1 DEF LineEnds
<1>3. n \notin LineEnds(t) /\ n + 1 \notin LineEnds(u)
  <2>1. n \notin 1 .. n - 1 /\ n + 1 \notin 1 .. (n + 1) - 1 BY <1>1
  <2> QED BY <1>1, <2>1 DEF LineEnds
<1>4. n >= 1 => (n \in LineEnds(u) <=> (t[n] = "cr" /\ c = "lf"))
  <2>1. n >= 1 => n \in 1 .. n /\ n \in 1 .. (n + 1) - 1 BY <1>1
  <2> QED BY <1>1, <2>1 DEF LineEnds
<1>5. Ends(u) = Ascending(LineEnds(u), n) BY <1>1, <1>3, AscendingNext DEF Ends
<1>6. Ends(t) = Ascending(LineEnds(t), n) BY DEF Ends
<1> HIDE DEF n
<1>7. CASE n = 0
  <2>1. Ends(u) = <<>> /\ Ends(t) = <<>> BY <1>5, <1>6, <1>7, AscendingNext, 0 \in Nat
  <2> QED BY <1>7, <2>1 DEF n, u
<1>8. CASE n # 0
  <2>1. n - 1 \in Nat /\ (n - 1) + 1 = n /\ n >= 1 BY <1>1, <1>8
  <2>2. Ascending(LineEnds(u), n - 1) = Ascending(LineEnds(t), n - 1)
    BY <1>2, <2>1, AscendingSame
  <2>3. Ascending(LineEnds(t), (n - 1) + 1) = Ascending(LineEnds(t), n - 1)
    BY <1>3, <2>1, AscendingNext
  <2>4. Ascending(LineEnds(u), (n - 1) + 1) =
          IF n \in LineEnds(u) THEN Append(Ascending(LineEnds(u), n - 1), n) ELSE Ascending(LineEnds(u), n - 1)
    <3>1. Ascending(LineEnds(u), (n - 1) + 1) =
            IF (n - 1) + 1 \in LineEnds(u) THEN Append(Ascending(LineEnds(u), n - 1), (n - 1) + 1)
            ELSE Ascending(LineEnds(u), n - 1)
      BY <2>1, AscendingNext
    <3> QED BY <2>1, <3>1
  <2>5. Ends(u) = IF n \in LineEnds(u) THEN Append(Ends(t), n) ELSE Ends(t)
    BY <1>5, <1>6, <2>1, <2>2, <2>3, <2>4
  <2> QED BY <1>4, <2>1, <2>5 DEF n, u
<1> QED BY <1>7, <1>8

(* What the lines and the open line are.                                    *)
LEMMA LinesType ==
    ASSUME NEW t \in Seq(Alphabet)
    PROVE  /\ Lines(t) \in Seq(Seq(Alphabet)) /\ Open(t) \in Seq(Alphabet)
           /\ Len(Lines(t)) = Len(Ends(t)) /\ Len(Lines(t)) \in Nat /\ Len(Open(t)) \in Nat
           /\ \A i \in 1 .. Len(Ends(t)) :
                 Lines(t)[i] = SubSeq(t, Begin(Ends(t), i), Ends(t)[i] - 1)
           /\ Len(Open(t)) = Len(t) - Begin(Ends(t), Len(Ends(t)) + 1) + 1
           /\ \A j \in 1 .. Len(Open(t)) : Open(t)[j] = t[Begin(Ends(t), Len(Ends(t)) + 1) + j - 1]
<1> DEFINE e == Ends(t)
           n == Len(t)
           m == Len(e)
           l == [i \in 1 .. m |-> SubSeq(t, Begin(e, i), e[i] - 1)]
<1>1. /\ m \in Nat /\ n \in Nat
      /\ \A i \in 1 .. m : e[i] \in 1 .. n - 1
      /\ \A i \in 1 .. m + 1 : Begin(e, i) \in 1 .. n + 1
  BY EndsFacts
<1>2. \A j \in 1 .. n : t[j] \in Alphabet BY ElementOfSeq
<1>3. ASSUME NEW i \in 1 .. m PROVE l[i] \in Seq(Alphabet)
  <2>1. Begin(e, i) \in Int /\ Begin(e, i) >= 1 /\ e[i] - 1 \in Int /\ e[i] - 1 <= n
    BY <1>1
  <2>2. \A j \in Begin(e, i) .. e[i] - 1 : t[j] \in Alphabet BY <1>1, <1>2, <2>1
  <2>3. SubSeq(t, Begin(e, i), e[i] - 1) \in Seq(Alphabet)
    <3> HIDE DEF e, n
    <3> QED BY <2>1, <2>2, SubSeqProperties
  <2> QED BY <2>3
<1>4. l \in Seq(Seq(Alphabet)) /\ Len(l) = m
  <2>1. l \in [1 .. m -> Seq(Alphabet)] BY <1>3
  <2> HIDE DEF l, m
  <2>2. l \in Seq(Seq(Alphabet)) BY <1>1, <2>1
  <2>3. DOMAIN l = 1 .. m /\ DOMAIN l = 1 .. Len(l) /\ Len(l) \in Nat BY <2>1, <2>2, LenProperties
  <2> QED BY <1>1, <2>2, <2>3
<1>5. Lines(t) = l BY DEF Lines
<1>6. \A i \in 1 .. m : l[i] = SubSeq(t, Begin(e, i), e[i] - 1) OBVIOUS
<1> DEFINE a == Begin(e, m + 1)
<1>7. Open(t) = SubSeq(t, a, n) BY DEF Open
<1>8. a \in 1 .. n + 1 BY <1>1
<1>9. /\ SubSeq(t, a, n) \in Seq(Alphabet) /\ Len(SubSeq(t, a, n)) = n - a + 1
      /\ \A j \in 1 .. n - a + 1 : SubSeq(t, a, n)[j] = t[a + j - 1]
      /\ n - a + 1 \in Nat
  <2>1. a \in 1 .. Len(t) + 1 /\ n \in a - 1 .. Len(t)
    <3> HIDE DEF a
    <3> QED BY <1>1, <1>8
  <2> HIDE DEF a
  <2> QED BY <2>1, Slice
<1> HIDE DEF l, a, n, m, e
<1> QED BY <1>1, <1>4, <1>5, <1>6, <1>7, <1>9 DEF a, n, m, e

(* A byte ends the line that is open or goes on with it.                    *)
EndsLine(o, c) == o # <<>> /\ o[Len(o)] = "cr" /\ c = "lf"

LEMMA LineGrows ==
    ASSUME NEW t \in Seq(Alphabet), NEW c \in Alphabet
    PROVE  IF EndsLine(Open(t), c)
           THEN /\ Lines(Append(t, c)) = Append(Lines(t), SubSeq(Open(t), 1, Len(Open(t)) - 1))
                /\ Open(Append(t, c)) = <<>>
           ELSE Lines(Append(t, c)) = Lines(t) /\ Open(Append(t, c)) = Append(Open(t), c)
<1> DEFINE u == Append(t, c)
           n == Len(t)
           e == Ends(t)
           m == Len(e)
           o == Open(t)
           s == Begin(e, m + 1)
           f == Ends(u)
<1>1. /\ n \in Nat /\ Len(u) = n + 1 /\ u \in Seq(Alphabet)
      /\ (\A i \in 1 .. n : u[i] = t[i]) /\ u[n + 1] = c
  BY LenProperties, AppendProperties
<1>2. /\ e \in Seq(Nat) /\ m \in Nat
      /\ \A i \in 1 .. m : e[i] \in 1 .. n - 1 /\ t[e[i]] = "cr" /\ t[e[i] + 1] = "lf"
      /\ \A i \in 1 .. m + 1 : Begin(e, i) \in 1 .. n + 1
      /\ s \in 1 .. n + 1
  <2>1. m \in Nat /\ m + 1 \in 1 .. m + 1 BY EndsFacts
  <2> QED BY <2>1, EndsFacts
<1>3. /\ Lines(t) \in Seq(Seq(Alphabet)) /\ Len(Lines(t)) = m
      /\ \A i \in 1 .. m : Lines(t)[i] = SubSeq(t, Begin(e, i), e[i] - 1)
      /\ o \in Seq(Alphabet) /\ Len(o) = n - s + 1
      /\ \A j \in 1 .. Len(o) : o[j] = t[s + j - 1]
  BY LinesType
<1>4. f = IF n >= 1 /\ t[n] = "cr" /\ c = "lf" THEN Append(e, n) ELSE e BY EndsGrow
<1>5. EndsLine(o, c) <=> n >= 1 /\ t[n] = "cr" /\ c = "lf"
  <2>1. o # <<>> <=> s <= n
    <3>1. o # <<>> <=> Len(o) # 0 BY <1>3, EmptySeq
    <3> HIDE DEF s, n, o
    <3> QED BY <1>1, <1>2, <1>3, <3>1
  <2>2. s <= n => o[Len(o)] = t[n] /\ n >= 1
    <3> HIDE DEF s, n, o
    <3>1. s <= n => Len(o) \in 1 .. Len(o) /\ s + Len(o) - 1 = n /\ n >= 1 BY <1>1, <1>2, <1>3
    <3> QED BY <1>3, <3>1
  <2>3. n >= 1 /\ t[n] = "cr" => s <= n
    <3>1. CASE m = 0 BY <1>1, <3>1 DEF Begin
    <3>2. CASE m # 0
      <4>1. m \in 1 .. m BY <1>2, <3>2
      <4>2. s = e[m] + 2
        <5>1. m + 1 # 1 /\ (m + 1) - 1 = m BY <1>2, <3>2
        <5> QED BY <5>1 DEF Begin
      <4>3. e[m] \in 1 .. n - 1 /\ t[e[m] + 1] = "lf" BY <1>2, <4>1
      <4>4. t[n] = "cr" => e[m] + 1 # n BY <4>3
      <4> HIDE DEF s, n, m
      <4> QED BY <1>1, <4>2, <4>3, <4>4
    <3> QED BY <3>1, <3>2
  <2> QED BY <2>1, <2>2, <2>3 DEF EndsLine
<1>6. /\ Lines(u) \in Seq(Seq(Alphabet)) /\ Len(Lines(u)) = Len(f)
      /\ \A i \in 1 .. Len(f) : Lines(u)[i] = SubSeq(u, Begin(f, i), f[i] - 1)
      /\ Open(u) \in Seq(Alphabet) /\ Len(Open(u)) = (n + 1) - Begin(f, Len(f) + 1) + 1
      /\ \A j \in 1 .. Len(Open(u)) : Open(u)[j] = u[Begin(f, Len(f) + 1) + j - 1]
  BY <1>1, LinesType
<1>7. ASSUME NEW i \in 1 .. m
      PROVE  SubSeq(u, Begin(e, i), e[i] - 1) = SubSeq(t, Begin(e, i), e[i] - 1)
  <2> DEFINE a == Begin(e, i)
             b == e[i] - 1
  <2>1. a \in 1 .. n + 1 /\ e[i] \in 1 .. n - 1
    <3>1. i \in 1 .. m + 1 BY <1>2
    <3> QED BY <1>2, <3>1
  <2>2. a \in Nat \ {0} /\ b \in Int /\ b <= n /\ b <= n + 1
    <3> HIDE DEF n, a
    <3> QED BY <1>1, <2>1
  <2>3. \A j \in a .. b : j \in 1 .. n
    <3> HIDE DEF n, a, b
    <3> QED BY <1>1, <2>2
  <2>4. b <= Len(u) /\ b <= Len(t) /\ \A j \in a .. b : u[j] = t[j] BY <1>1, <2>2, <2>3
  <2> HIDE DEF u, a, b
  <2>5. SubSeq(u, a, b) = SubSeq(t, a, b) BY <1>1, <2>2, <2>4, SliceSame
  <2> QED BY <2>5 DEF a, b
<1>8. CASE EndsLine(o, c)
  <2>1. f = Append(e, n) BY <1>4, <1>5, <1>8
  <2>2. Len(f) = m + 1 /\ (\A i \in 1 .. m : f[i] = e[i]) /\ f[m + 1] = n
    BY <1>1, <1>2, <2>1, AppendProperties
  <2> DEFINE x == SubSeq(o, 1, Len(o) - 1)
             L == Append(Lines(t), x)
  <2>0. Len(o) \in Nat /\ Len(o) >= 1 /\ s <= n /\ s \in 1 .. n
    <3>1. o # <<>> BY <1>8 DEF EndsLine
    <3>2. Len(o) \in Nat \ {0} BY <1>3, <3>1, EmptySeq
    <3> HIDE DEF o, s, n
    <3> QED BY <1>1, <1>2, <1>3, <3>2
  <2>3. x \in Seq(Alphabet) /\ Len(x) = Len(o) - 1 /\ \A j \in 1 .. Len(o) - 1 : x[j] = o[j]
    <3>1. 1 \in 1 .. Len(o) + 1 /\ Len(o) - 1 \in 1 - 1 .. Len(o) /\ (Len(o) - 1) - 1 + 1 = Len(o) - 1
          /\ \A j \in 1 .. Len(o) - 1 : 1 + j - 1 = j
      BY <2>0
    <3> HIDE DEF o
    <3> QED BY <1>3, <3>1, Slice
  <2>4. SubSeq(u, s, n - 1) = x
    <3> DEFINE y == SubSeq(u, s, n - 1)
    <3>1. s \in 1 .. Len(u) + 1 /\ n - 1 \in s - 1 .. Len(u)
      <4> HIDE DEF u, s, n
      <4> QED BY <1>1, <2>0
    <3>2. /\ y \in Seq(Alphabet) /\ Len(y) = (n - 1) - s + 1
          /\ \A j \in 1 .. (n - 1) - s + 1 : y[j] = u[s + j - 1]
      <4> HIDE DEF u, s, n
      <4> QED BY <1>1, <3>1, Slice
    <3> HIDE DEF x, y
    <3>3. Len(y) = Len(x)
      <4> HIDE DEF s, n, o
      <4> QED BY <1>1, <1>3, <2>0, <2>3, <3>2
    <3>4. ASSUME NEW j \in 1 .. Len(y) PROVE y[j] = x[j]
      <4>1. /\ j \in 1 .. (n - 1) - s + 1 /\ s + j - 1 \in 1 .. n /\ j \in 1 .. Len(o) - 1
            /\ j \in 1 .. Len(o)
        <5> HIDE DEF s, n, o
        <5> QED BY <1>1, <1>3, <2>0, <2>3, <3>2, <3>3
      <4>2. y[j] = u[s + j - 1] /\ u[s + j - 1] = t[s + j - 1] /\ x[j] = o[j] /\ o[j] = t[s + j - 1]
        BY <1>1, <1>3, <2>3, <3>2, <4>1
      <4> QED BY <4>2
    <3> QED BY <2>3, <3>2, <3>3, <3>4, SeqEqual DEF y
  <2>5. L \in Seq(Seq(Alphabet)) /\ Len(L) = m + 1 /\ (\A i \in 1 .. m : L[i] = Lines(t)[i]) /\ L[m + 1] = x
    BY <1>3, <2>3, AppendProperties
  <2> HIDE DEF L, x
  <2>6. ASSUME NEW i \in 1 .. m + 1 PROVE Lines(u)[i] = L[i]
    <3>1. CASE i = m + 1
      <4>1. Begin(f, i) = s
        <5>1. CASE m = 0 BY <3>1, <5>1 DEF Begin
        <5>2. CASE m # 0
          <6>1. i # 1 /\ i - 1 = m /\ m \in 1 .. m BY <1>2, <3>1, <5>2
          <6> QED BY <2>2, <3>1, <6>1 DEF Begin
        <5> QED BY <5>1, <5>2
      <4>2. Lines(u)[i] = SubSeq(u, s, n - 1) BY <1>6, <2>2, <3>1, <4>1
      <4> QED BY <2>4, <2>5, <3>1, <4>2
    <3>2. CASE i # m + 1
      <4>1. i \in 1 .. m /\ (i # 1 => i - 1 \in 1 .. m) BY <1>2, <3>2
      <4>2. Begin(f, i) = Begin(e, i) /\ f[i] = e[i] BY <2>2, <4>1 DEF Begin
      <4>3. Lines(u)[i] = SubSeq(u, Begin(e, i), e[i] - 1) BY <1>6, <2>2, <4>2
      <4>4. Lines(u)[i] = Lines(t)[i] BY <1>3, <1>7, <4>1, <4>3
      <4> QED BY <2>5, <4>1, <4>4
    <3> QED BY <3>1, <3>2
  <2>7. Lines(u) = L
    <3> HIDE DEF u, m
    <3> QED BY <1>6, <2>2, <2>5, <2>6, SeqEqual
  <2>8. Open(u) = <<>>
    <3>1. Begin(f, (m + 1) + 1) = n + 2
      <4>1. (m + 1) + 1 # 1 /\ ((m + 1) + 1) - 1 = m + 1 BY <1>2
      <4> QED BY <2>2, <4>1 DEF Begin
    <3>2. Len(Open(u)) = (n + 1) - (n + 2) + 1 BY <1>6, <2>2, <3>1
    <3>3. Len(Open(u)) = 0
      <4> HIDE DEF n
      <4> QED BY <1>1, <3>2
    <3> QED BY <1>6, <3>3, EmptySeq
  <2> QED BY <1>8, <2>7, <2>8 DEF L, x, u, o
<1>9. CASE ~EndsLine(o, c)
  <2>1. f = e BY <1>4, <1>5, <1>9
  <2>2. \A i \in 1 .. m : Lines(u)[i] = Lines(t)[i] BY <1>3, <1>6, <1>7, <2>1
  <2>3. Lines(u) = Lines(t)
    <3> HIDE DEF u
    <3> QED BY <1>3, <1>6, <2>1, <2>2, SeqEqual
  <2> DEFINE y == Append(o, c)
  <2>4. /\ y \in Seq(Alphabet) /\ Len(y) = Len(o) + 1 /\ y[Len(o) + 1] = c
        /\ \A j \in 1 .. Len(o) : y[j] = o[j]
    BY <1>3, AppendProperties
  <2>5. Len(Open(u)) = (n + 1) - s + 1 /\ \A j \in 1 .. Len(Open(u)) : Open(u)[j] = u[s + j - 1]
    BY <1>6, <2>1
  <2>6. Len(o) \in Nat BY <1>3, LenProperties
  <2> HIDE DEF y
  <2>7. Len(Open(u)) = Len(y)
    <3> HIDE DEF s, n, o
    <3> QED BY <1>1, <1>2, <1>3, <2>4, <2>5, <2>6
  <2>8. ASSUME NEW j \in 1 .. Len(y) PROVE Open(u)[j] = y[j]
    <3>0. Open(u)[j] = u[s + j - 1] BY <2>5, <2>7
    <3>1. CASE j = Len(o) + 1
      <4>1. s + j - 1 = n + 1
        <5> HIDE DEF s, n, o
        <5> QED BY <1>1, <1>2, <1>3, <3>1
      <4> QED BY <1>1, <2>4, <3>0, <3>1, <4>1
    <3>2. CASE j # Len(o) + 1
      <4>1. j \in 1 .. Len(o) /\ s + j - 1 \in 1 .. n
        <5> HIDE DEF s, n, o
        <5> QED BY <1>1, <1>2, <1>3, <2>4, <2>6, <3>2
      <4> QED BY <1>1, <1>3, <2>4, <3>0, <4>1
    <3> QED BY <3>1, <3>2
  <2>9. Open(u) = y
    <3> HIDE DEF u
    <3> QED BY <1>6, <2>4, <2>7, <2>8, SeqEqual
  <2> QED BY <1>9, <2>3, <2>9 DEF y, u, o
<1> QED BY <1>8, <1>9

(* The empty text.                                                          *)
LEMMA NoLines == Lines(<<>>) = <<>> /\ Open(<<>>) = <<>>
<1>1. <<>> \in Seq(Alphabet) /\ Len(<<>>) = 0 BY EmptySeq
<1>2. Ends(<<>>) = <<>> BY <1>1, AscendingNext, 0 \in Nat DEF Ends
<1>3. Begin(Ends(<<>>), Len(Ends(<<>>)) + 1) = 1 BY <1>1, <1>2 DEF Begin
<1>4. /\ Lines(<<>>) \in Seq(Seq(Alphabet)) /\ Len(Lines(<<>>)) = 0
      /\ Open(<<>>) \in Seq(Alphabet) /\ Len(Open(<<>>)) = 0
  <2>1. Len(Lines(<<>>)) = Len(Ends(<<>>)) /\ Len(Ends(<<>>)) = 0 BY <1>1, <1>2, LinesType
  <2>2. Len(Open(<<>>)) = Len(<<>>) - Begin(Ends(<<>>), Len(Ends(<<>>)) + 1) + 1 BY <1>1, LinesType
  <2>3. Len(Open(<<>>)) = 0 BY <1>1, <1>3, <2>2
  <2> QED BY <1>1, <2>1, <2>3, LinesType
<1> QED BY <1>4, EmptySeq

-----------------------------------------------------------------------------
(***************************************************************************)
(* Texts that grow by a byte: kinds of bytes, the colon, the blanks that a  *)
(* folded line starts with.                                                 *)
(***************************************************************************)

(* The rest of a sequence grows with it.                                    *)
LEMMA StretchGrows ==
    ASSUME NEW X, NEW s \in Seq(X), NEW c \in X, NEW a \in 1 .. Len(s) + 1
    PROVE  SubSeq(Append(s, c), a, Len(s) + 1) = Append(SubSeq(s, a, Len(s)), c)
<1> DEFINE n == Len(s)
           u == Append(s, c)
           x == SubSeq(u, a, n + 1)
           z == SubSeq(s, a, n)
           y == Append(z, c)
<1>1. /\ n \in Nat /\ Len(u) = n + 1 /\ u \in Seq(X)
      /\ (\A i \in 1 .. n : u[i] = s[i]) /\ u[n + 1] = c
  BY LenProperties, AppendProperties
<1>2. a \in 1 .. n + 1 /\ n \in a - 1 .. n /\ a \in 1 .. (n + 1) + 1 /\ n + 1 \in a - 1 .. n + 1
  <2>1. a \in 1 .. n + 1 OBVIOUS
  <2> HIDE DEF n
  <2> QED BY <1>1, <2>1
<1>3. z \in Seq(X) /\ Len(z) = n - a + 1 /\ \A j \in 1 .. n - a + 1 : z[j] = s[a + j - 1]
  BY <1>2, Slice
<1>4. x \in Seq(X) /\ Len(x) = (n + 1) - a + 1 /\ \A j \in 1 .. (n + 1) - a + 1 : x[j] = u[a + j - 1]
  <2>1. a \in 1 .. Len(u) + 1 /\ n + 1 \in a - 1 .. Len(u) BY <1>1, <1>2
  <2> HIDE DEF u, n
  <2> QED BY <1>1, <2>1, Slice
<1> HIDE DEF z, x
<1>5. y \in Seq(X) /\ Len(y) = Len(z) + 1 /\ (\A j \in 1 .. Len(z) : y[j] = z[j]) /\ y[Len(z) + 1] = c
  <2>1. z \in Seq(X) BY <1>3
  <2> QED BY <2>1, AppendProperties
<1> HIDE DEF y
<1>6. Len(x) = Len(y)
  <2>1. Len(x) = (n + 1) - a + 1 /\ Len(y) = (n - a + 1) + 1 BY <1>3, <1>4, <1>5
  <2>2. n \in Nat /\ a \in Int BY <1>1
  <2> HIDE DEF n
  <2>3. (n + 1) - a + 1 = (n - a + 1) + 1 BY <2>2
  <2> QED BY <2>1, <2>3
<1>7. ASSUME NEW j \in 1 .. Len(x) PROVE x[j] = y[j]
  <2>1. CASE j = n - a + 2
    <3>1. j \in 1 .. (n + 1) - a + 1 /\ a + j - 1 = n + 1 /\ j = Len(z) + 1
      <4> HIDE DEF n
      <4> QED BY <1>1, <1>2, <1>3, <1>4, <2>1
    <3> QED BY <1>1, <1>4, <1>5, <3>1
  <2>2. CASE j # n - a + 2
    <3>1. j \in 1 .. (n + 1) - a + 1 /\ j \in 1 .. n - a + 1 /\ a + j - 1 \in 1 .. n /\ j \in 1 .. Len(z)
      <4> HIDE DEF n
      <4> QED BY <1>1, <1>2, <1>3, <1>4, <2>2
    <3> QED BY <1>1, <1>3, <1>4, <1>5, <3>1
  <2> QED BY <2>1, <2>2
<1>8. x = y BY <1>4, <1>5, <1>6, <1>7, SeqEqual
<1> QED BY <1>8 DEF x, y, z, u, n

(* What an appended byte leaves as it was.                                  *)
LEMMA AppendIs ==
    ASSUME NEW s \in Text, NEW c \in Alphabet
    PROVE  /\ Append(s, c) \in Text /\ Append(s, c) # <<>>
           /\ Len(s) \in Nat /\ Len(Append(s, c)) = Len(s) + 1
           /\ DOMAIN s = 1 .. Len(s) /\ DOMAIN Append(s, c) = 1 .. Len(s) + 1
           /\ (\A i \in 1 .. Len(s) : Append(s, c)[i] = s[i]) /\ Append(s, c)[Len(s) + 1] = c
           /\ SubSeq(Append(s, c), 1, Len(s)) = s
           /\ SubSeq(Append(s, c), 1, Len(Append(s, c)) - 1) = s
<1>1. /\ Append(s, c) \in Text /\ Append(s, c) # <<>>
      /\ Len(s) \in Nat /\ Len(Append(s, c)) = Len(s) + 1
      /\ (\A i \in 1 .. Len(s) : Append(s, c)[i] = s[i]) /\ Append(s, c)[Len(s) + 1] = c
  BY AppendProperties, LenProperties DEF Text
<1>2. DOMAIN s = 1 .. Len(s) /\ DOMAIN Append(s, c) = 1 .. Len(s) + 1
  BY <1>1, LenProperties DEF Text
<1>3. SubSeq(Append(s, c), 1, Len(s)) = SubSeq(s, 1, Len(s))
  <2>1. Len(s) <= Len(Append(s, c)) /\ Len(s) <= Len(s) /\ Len(s) \in Int BY <1>1
  <2>2. 1 \in Nat \ {0} OBVIOUS
  <2> QED BY <1>1, <2>1, <2>2, SliceSame DEF Text
<1>4. SubSeq(s, 1, Len(s)) = s BY SubSeqFull DEF Text
<1>5. Len(Append(s, c)) - 1 = Len(s) BY <1>1
<1> QED BY <1>1, <1>2, <1>3, <1>4, <1>5

(* A byte more of a token or of a printable text.                           *)
LEMMA AppendClasses ==
    ASSUME NEW s \in Text, NEW c \in Alphabet
    PROVE  /\ Tokens(Append(s, c)) <=> Tokens(s) /\ IsToken(c)
           /\ Printable(Append(s, c)) <=> Printable(s) /\ ~IsCtl(c)
<1> DEFINE u == Append(s, c)
           n == Len(s)
<1>1. /\ n \in Nat /\ DOMAIN s = 1 .. n /\ DOMAIN u = 1 .. n + 1
      /\ (\A i \in 1 .. n : u[i] = s[i]) /\ u[n + 1] = c
  BY AppendIs
<1> HIDE DEF u, n
<1>2. \A i \in 1 .. n : i \in 1 .. n + 1 BY <1>1
<1>3. n + 1 \in 1 .. n + 1 BY <1>1
<1>4. \A i \in 1 .. n + 1 : i = n + 1 \/ i \in 1 .. n BY <1>1
<1>5. Tokens(u) <=> Tokens(s) /\ IsToken(c)
  <2>1. Tokens(u) => Tokens(s) /\ IsToken(c) BY <1>1, <1>2, <1>3 DEF Tokens
  <2>2. Tokens(s) /\ IsToken(c) => Tokens(u) BY <1>1, <1>4 DEF Tokens
  <2> QED BY <2>1, <2>2
<1>6. Printable(u) <=> Printable(s) /\ ~IsCtl(c)
  <2>1. Printable(u) => Printable(s) /\ ~IsCtl(c) BY <1>1, <1>2, <1>3 DEF Printable
  <2>2. Printable(s) /\ ~IsCtl(c) => Printable(u) BY <1>1, <1>4 DEF Printable
  <2> QED BY <2>1, <2>2
<1> QED BY <1>5, <1>6 DEF u

(* Bytes that no token has.                                                 *)
LEMMA NotTokens == ~IsToken(":") /\ ~IsToken("sp") /\ ~IsToken("tab") /\ ~IsToken("cr")
BY DEF IsToken, IsTSpecial, IsCtl

(* A line has one colon at most that ends a name.                           *)
LEMMA OneColon ==
    ASSUME NEW x \in Text, NEW p \in Colons(x)
    PROVE  /\ HeaderOf(x) = [name |-> SubSeq(x, 1, p - 1), value |-> SubSeq(x, p + 2, Len(x))]
           /\ HeaderOf(x) \in Header /\ x # <<>> /\ ~IsFolded(x) /\ Colons(x) # {}
           /\ SubSeq(x, 1, p - 1) \in Text /\ SubSeq(x, p + 2, Len(x)) \in Text
           /\ p \in 2 .. Len(x) - 1 /\ Len(x) \in Nat
<1>1. Len(x) \in Nat /\ DOMAIN x = 1 .. Len(x) BY LenProperties DEF Text
<1>2. ASSUME NEW q \in Colons(x)
      PROVE  /\ q \in 2 .. Len(x) - 1 /\ x[q] = ":" /\ SubSeq(x, 1, q - 1) \in Text
             /\ \A i \in 1 .. q - 1 : IsToken(x[i])
  <2>1. q \in 2 .. Len(x) - 1 /\ x[q] = ":" /\ Tokens(SubSeq(x, 1, q - 1)) BY DEF Colons
  <2>2. 1 \in 1 .. Len(x) + 1 /\ q - 1 \in 1 - 1 .. Len(x) /\ (q - 1) - 1 + 1 = q - 1
        /\ \A i \in 1 .. q - 1 : 1 + i - 1 = i
    BY <1>1, <2>1
  <2>3. /\ SubSeq(x, 1, q - 1) \in Text /\ Len(SubSeq(x, 1, q - 1)) = q - 1
        /\ \A i \in 1 .. q - 1 : SubSeq(x, 1, q - 1)[i] = x[i]
    BY <2>2, Slice DEF Text
  <2>4. DOMAIN SubSeq(x, 1, q - 1) = 1 .. q - 1 BY <2>3, LenProperties DEF Text
  <2>5. \A i \in 1 .. q - 1 : IsToken(x[i]) BY <2>1, <2>3, <2>4 DEF Tokens
  <2> QED BY <2>1, <2>3, <2>5
<1>3. \A q \in Colons(x) : q = p
  <2> TAKE q \in Colons(x)
  <2>1. p \in 2 .. Len(x) - 1 /\ q \in 2 .. Len(x) - 1 BY <1>2
  <2>2. ~(p < q)
    <3>1. p < q => p \in 1 .. q - 1 BY <1>1, <2>1
    <3> QED BY <1>2, <3>1, NotTokens
  <2>3. ~(q < p)
    <3>1. q < p => q \in 1 .. p - 1 BY <1>1, <2>1
    <3> QED BY <1>2, <3>1, NotTokens
  <2> QED BY <1>1, <2>1, <2>2, <2>3
<1>4. (CHOOSE q \in Colons(x) : TRUE) = p BY <1>3
<1>5. HeaderOf(x) = [name |-> SubSeq(x, 1, p - 1), value |-> SubSeq(x, p + 2, Len(x))]
  BY <1>4 DEF HeaderOf
<1>6. SubSeq(x, p + 2, Len(x)) \in Text
  <2>1. p + 2 \in 1 .. Len(x) + 1 /\ Len(x) \in (p + 2) - 1 .. Len(x) BY <1>1, <1>2
  <2> QED BY <2>1, Slice DEF Text
<1>7. x[1] \notin Blank /\ x # <<>>
  <2>1. p \in 2 .. Len(x) - 1 /\ 1 \in 1 .. p - 1 /\ Len(x) # 0 BY <1>1, <1>2
  <2>2. IsToken(x[1]) BY <1>2, <2>1
  <2> QED BY <2>1, <2>2, NotTokens, EmptySeq DEF Blank
<1> QED BY <1>1, <1>2, <1>5, <1>6, <1>7 DEF Header, Field, Text, IsFolded

(* A byte more of the value.                                                *)
LEMMA ColonsGrow ==
    ASSUME NEW x \in Text, NEW p \in Colons(x), NEW c \in Alphabet, ~IsCtl(c)
    PROVE  /\ p \in Colons(Append(x, c))
           /\ HeaderOf(Append(x, c)) =
                [name |-> SubSeq(x, 1, p - 1), value |-> Append(SubSeq(x, p + 2, Len(x)), c)]
<1> DEFINE u == Append(x, c)
           n == Len(x)
<1>1. /\ n \in Nat /\ u \in Text /\ Len(u) = n + 1 /\ \A i \in 1 .. n : u[i] = x[i]
  BY AppendIs
<1>2. /\ p \in 2 .. n - 1 /\ x[p] = ":" /\ x[p + 1] = "sp"
      /\ Tokens(SubSeq(x, 1, p - 1)) /\ Printable(SubSeq(x, p + 2, n))
  BY DEF Colons
<1>3. SubSeq(u, 1, p - 1) = SubSeq(x, 1, p - 1)
  <2>1. p - 1 \in Int /\ p - 1 <= Len(u) /\ p - 1 <= Len(x) /\ 1 \in Nat \ {0}
        /\ \A i \in 1 .. p - 1 : i \in 1 .. n
    BY <1>1, <1>2
  <2> HIDE DEF u
  <2> QED BY <1>1, <2>1, SliceSame DEF Text
<1>4. SubSeq(u, p + 2, n + 1) = Append(SubSeq(x, p + 2, n), c)
  <2>1. p + 2 \in 1 .. n + 1 BY <1>1, <1>2
  <2> QED BY <2>1, StretchGrows DEF Text
<1>5. SubSeq(x, p + 2, n) \in Text BY OneColon
<1>6. Printable(SubSeq(u, p + 2, Len(u))) BY <1>1, <1>2, <1>4, <1>5, AppendClasses
<1>7. p \in 2 .. Len(u) - 1 /\ u[p] = ":" /\ u[p + 1] = "sp"
  <2>1. p \in 1 .. n /\ p + 1 \in 1 .. n /\ p \in 2 .. (n + 1) - 1 BY <1>1, <1>2
  <2> QED BY <1>1, <1>2, <2>1
<1>8. p \in Colons(u)
  <2> HIDE DEF u
  <2> QED BY <1>2, <1>3, <1>6, <1>7 DEF Colons
<1>9. HeaderOf(u) = [name |-> SubSeq(u, 1, p - 1), value |-> SubSeq(u, p + 2, Len(u))]
  <2> HIDE DEF u
  <2> QED BY <1>1, <1>8, OneColon
<1> QED BY <1>1, <1>3, <1>4, <1>8, <1>9

(* A folded line and a byte more of it.                                     *)
LEMMA FoldFacts ==
    ASSUME NEW x \in Text
    PROVE  /\ FoldStart(x) \in 1 .. Len(x) + 1 /\ FoldText(x) \in Text /\ Len(x) \in Nat
           /\ Ink(x) = {} => FoldText(x) = <<>> /\ FoldStart(x) = Len(x) + 1
           /\ Ink(x) # {} => FoldStart(x) \in Ink(x) /\ \A j \in Ink(x) : FoldStart(x) <= j
<1>1. Len(x) \in Nat /\ DOMAIN x = 1 .. Len(x) BY LenProperties DEF Text
<1>2. Ink(x) \subseteq 1 .. Len(x) BY <1>1 DEF Ink
<1>3. CASE Ink(x) = {}
  <2>1. FoldStart(x) = Len(x) + 1 BY <1>3 DEF FoldStart
  <2>2. Len(x) + 1 \in Int /\ Len(x) \in Int /\ Len(x) < Len(x) + 1 /\ Len(x) + 1 \in 1 .. Len(x) + 1 BY <1>1
  <2>3. FoldText(x) = <<>> BY <2>1, <2>2, SubSeqEmpty DEF FoldText
  <2> QED BY <1>1, <1>3, <2>1, <2>2, <2>3, EmptySeq DEF Text
<1>4. CASE Ink(x) # {}
  <2>1. Ink(x) \in SUBSET Nat BY <1>1, <1>2
  <2>2. \E i \in Ink(x) : \A j \in Ink(x) : i <= j BY <1>4, <2>1, LeastOf
  <2>3. FoldStart(x) = CHOOSE i \in Ink(x) : \A j \in Ink(x) : i <= j BY <1>4 DEF FoldStart
  <2>4. FoldStart(x) \in Ink(x) /\ \A j \in Ink(x) : FoldStart(x) <= j
    <3> HIDE DEF FoldStart, Ink
    <3> QED BY <2>2, <2>3
  <2>5. FoldStart(x) \in 1 .. Len(x) + 1 /\ Len(x) \in FoldStart(x) - 1 .. Len(x) BY <1>1, <1>2, <2>4
  <2>6. FoldText(x) \in Text BY <2>5, Slice DEF FoldText, Text
  <2> QED BY <1>1, <1>4, <2>4, <2>5, <2>6
<1> QED BY <1>3, <1>4

(* A byte more of a folded line: its blanks and its text.                   *)
LEMMA InkGrows ==
    ASSUME NEW x \in Text, NEW c \in Alphabet
    PROVE  Ink(Append(x, c)) = IF c \in Blank THEN Ink(x) ELSE Ink(x) \cup {Len(x) + 1}
<1> DEFINE u == Append(x, c)
           n == Len(x)
<1>1. /\ n \in Nat /\ DOMAIN x = 1 .. n /\ DOMAIN u = 1 .. n + 1
      /\ (\A i \in 1 .. n : u[i] = x[i]) /\ u[n + 1] = c
  BY AppendIs
<1> HIDE DEF u, n
<1>2. 1 .. n + 1 = 1 .. n \cup {n + 1} BY <1>1
<1>3. Ink(u) = IF c \in Blank THEN Ink(x) ELSE Ink(x) \cup {n + 1} BY <1>1, <1>2 DEF Ink
<1> QED BY <1>3 DEF u, n

(* The text grows once it has begun.                                        *)
LEMMA FoldGrows ==
    ASSUME NEW x \in Text, NEW c \in Alphabet, Ink(Append(x, c)) # {}
    PROVE  FoldText(Append(x, c)) = Append(FoldText(x), c)
<1> DEFINE u == Append(x, c)
           n == Len(x)
<1>1. n \in Nat /\ u \in Text /\ Len(u) = n + 1 BY AppendIs
<1>2. Ink(u) = IF c \in Blank THEN Ink(x) ELSE Ink(x) \cup {n + 1} BY InkGrows
<1>3. /\ FoldStart(x) \in 1 .. n + 1
      /\ Ink(x) = {} => FoldStart(x) = n + 1
      /\ Ink(x) # {} => FoldStart(x) \in Ink(x) /\ \A j \in Ink(x) : FoldStart(x) <= j
  BY FoldFacts
<1>4. FoldStart(u) \in 1 .. (n + 1) + 1 /\ FoldStart(u) \in Ink(u) /\ \A j \in Ink(u) : FoldStart(u) <= j
  <2> HIDE DEF u
  <2> QED BY <1>1, FoldFacts DEF u
<1>5. Ink(x) \subseteq 1 .. n BY AppendIs DEF Ink
<1>6. FoldStart(u) = FoldStart(x)
  <2> HIDE DEF n, u
  <2>1. CASE Ink(x) = {}
    <3>1. Ink(u) = {n + 1} BY <1>2, <1>4, <2>1
    <3> QED BY <1>3, <1>4, <2>1, <3>1
  <2>2. CASE Ink(x) # {}
    <3>1. FoldStart(x) \in Ink(u) /\ FoldStart(x) \in 1 .. n BY <1>2, <1>3, <1>5, <2>2
    <3>2. FoldStart(u) <= FoldStart(x) BY <1>4, <3>1
    <3>3. FoldStart(u) \in Ink(x) BY <1>1, <1>2, <1>4, <3>1, <3>2
    <3>4. FoldStart(x) <= FoldStart(u) BY <1>3, <2>2, <3>3
    <3> QED BY <1>4, <3>1, <3>2, <3>4
  <2> QED BY <2>1, <2>2
<1>7. FoldText(u) = SubSeq(u, FoldStart(x), n + 1) BY <1>1, <1>6 DEF FoldText
<1> QED BY <1>3, <1>7, StretchGrows DEF FoldText, Text

-----------------------------------------------------------------------------
(***************************************************************************)
(* The headers in a block of lines, a line at a time and a byte at a time.  *)
(***************************************************************************)

Block(hs) == hs \in Seq(Text) /\ \A i \in 1 .. Len(hs) : IsHeaderLine(hs, i)
Fits(hs, x) == IF IsFolded(x) THEN hs # <<>> /\ Printable(FoldText(x)) ELSE Colons(x) # {}
HeadersAre(f, hs) ==
    /\ f[0] = <<>>
    /\ \A k \in 1 .. Len(hs) :
         /\ f[k] = IF IsFolded(hs[k]) THEN Continued(f[k - 1], FoldText(hs[k]))
                   ELSE Append(f[k - 1], HeaderOf(hs[k]))
         /\ f[k] # <<>>

SetBack(H, b) == [H EXCEPT ![Len(H)] = b]

(* Changing the last of some headers.                                       *)
LEMMA BackChanged ==
    ASSUME NEW H \in Seq(Header), H # <<>>, NEW b \in Header
    PROVE  /\ SetBack(H, b) \in Seq(Header) /\ SetBack(H, b) # <<>>
           /\ Len(SetBack(H, b)) = Len(H) /\ Len(H) \in Nat \ {0}
           /\ \A i \in 1 .. Len(H) : SetBack(H, b)[i] = IF i = Len(H) THEN b ELSE H[i]
           /\ H[Len(H)] \in Header /\ H[Len(H)].name \in Text /\ H[Len(H)].value \in Text
<1>1. Len(H) \in Nat \ {0} BY EmptySeq
<1>2. Len(H) \in 1 .. Len(H) BY <1>1
<1>3. /\ SetBack(H, b) \in Seq(Header)
      /\ Len(SetBack(H, b)) = Len(H)
      /\ \A i \in 1 .. Len(H) : SetBack(H, b)[i] = IF i = Len(H) THEN b ELSE H[i]
  BY <1>2, ExceptSeq DEF SetBack
<1>4. H[Len(H)] \in Header BY <1>2, ElementOfSeq
<1>5. SetBack(H, b) # <<>> BY <1>1, <1>3, EmptySeq
<1> QED BY <1>1, <1>3, <1>4, <1>5 DEF Header, Field, Text

(* A folded line changes the last header only.                              *)
LEMMA ContinuedIs ==
    ASSUME NEW H \in Seq(Header), H # <<>>, NEW t \in Text
    PROVE  LET b == [name |-> H[Len(H)].name, value |-> H[Len(H)].value \o t] IN
           /\ b \in Header
           /\ Continued(H, t) = SetBack(H, b)
           /\ Continued(H, t) \in Seq(Header) /\ Continued(H, t) # <<>>
           /\ t = <<>> => Continued(H, t) = H
<1> DEFINE l == Len(H)
           b == [name |-> H[l].name, value |-> H[l].value \o t]
<1>0. <<>> \in Text BY EmptySeq DEF Text
<1>1. /\ l \in Nat \ {0} /\ H[l] \in Header /\ H[l].name \in Text /\ H[l].value \in Text
  <2>1. [name |-> <<>>, value |-> <<>>] \in Header BY <1>0 DEF Header, Field, Text
  <2> QED BY <2>1, BackChanged
<1>2. H[l].value \o t \in Text BY <1>1, ConcatProperties DEF Text
<1>3. b \in Header BY <1>1, <1>2 DEF Header, Field, Text
<1>5. Continued(H, t) = SetBack(H, b) BY DEF Continued, SetBack
<1>6. t = <<>> => b = H[l]
  <2>1. t = <<>> => H[l].value \o t = H[l].value BY <1>1, ConcatEmptySeq DEF Text
  <2> QED BY <1>1, <2>1 DEF Header
<1> HIDE DEF b
<1>7. /\ SetBack(H, b) \in Seq(Header) /\ SetBack(H, b) # <<>>
      /\ Len(SetBack(H, b)) = l
      /\ \A i \in 1 .. l : SetBack(H, b)[i] = IF i = l THEN b ELSE H[i]
  BY <1>3, BackChanged
<1>8. t = <<>> => SetBack(H, b) = H
  <2> HIDE DEF l
  <2>1. t = <<>> => \A i \in 1 .. l : SetBack(H, b)[i] = H[i] BY <1>6, <1>7
  <2> QED BY <1>7, <2>1, SeqEqual DEF l
<1> QED BY <1>3, <1>5, <1>7, <1>8 DEF b

(* A line with a colon is no folded one.                                    *)
LEMMA LineHeader ==
    ASSUME NEW x \in Text, Colons(x) # {}
    PROVE  HeaderOf(x) \in Header /\ ~IsFolded(x) /\ x # <<>>
<1>1. PICK p : p \in Colons(x) OBVIOUS
<1> QED BY <1>1, OneColon

(* The recursion behind HeadersIn.                                          *)
LEMMA HeadersInIs ==
    ASSUME NEW hs, Block(hs)
    PROVE  \E f \in [0 .. Len(hs) -> Seq(Header)] : HeadersAre(f, hs) /\ HeadersIn(hs) = f[Len(hs)]
<1> DEFINE n == Len(hs)
           V == Seq(Header)
           h == [k \in 1 .. n |-> [v \in V |->
                   IF IsFolded(hs[k]) THEN (IF v = <<>> THEN v ELSE Continued(v, FoldText(hs[k])))
                   ELSE Append(v, HeaderOf(hs[k]))]]
           F(f) == [k \in 0 .. n |->
                      IF k = 0 THEN <<>>
                      ELSE IF IsFolded(hs[k]) THEN Continued(f[k - 1], FoldText(hs[k]))
                      ELSE Append(f[k - 1], HeaderOf(hs[k]))]
           u == CHOOSE f : f = F(f)
<1>1. n \in Nat /\ \A k \in 1 .. n : hs[k] \in Text BY LenProperties, ElementOfSeq DEF Block
<1>2. \A k \in 1 .. n : IF IsFolded(hs[k]) THEN k > 1 ELSE HeaderOf(hs[k]) \in Header
  BY <1>1, LineHeader DEF Block, IsHeaderLine
<1>3. <<>> \in V BY EmptySeq
<1>4. \A k \in 1 .. n, v \in V : v # <<>> =>
         Continued(v, FoldText(hs[k])) \in V /\ Continued(v, FoldText(hs[k])) # <<>>
  <2> TAKE k \in 1 .. n, v \in V
  <2>1. FoldText(hs[k]) \in Text BY <1>1, FoldFacts
  <2> QED BY <2>1, ContinuedIs
<1>5. \A k \in 1 .. n, v \in V : ~IsFolded(hs[k]) =>
         Append(v, HeaderOf(hs[k])) \in V /\ Append(v, HeaderOf(hs[k])) # <<>>
  BY <1>2, AppendProperties
<1>6. h \in [1 .. n -> [V -> V]]
  <2> HIDE DEF V, n
  <2>1. \A k \in 1 .. n, v \in V :
          (IF IsFolded(hs[k]) THEN (IF v = <<>> THEN v ELSE Continued(v, FoldText(hs[k])))
           ELSE Append(v, HeaderOf(hs[k]))) \in V
    BY <1>4, <1>5
  <2> QED BY <2>1
<1>7. \A k \in 1 .. n, v \in V :
        h[k][v] = IF IsFolded(hs[k]) THEN (IF v = <<>> THEN v ELSE Continued(v, FoldText(hs[k])))
                  ELSE Append(v, HeaderOf(hs[k]))
  OBVIOUS
<1> HIDE DEF h
<1>8. PICK f \in [0 .. n -> V] : Computes(f, n, <<>>, h) BY <1>1, <1>3, <1>6, Recursion
<1> HIDE DEF V, n
<1> DEFINE T == {k \in 0 .. n : k = 0 \/ f[k] # <<>>}
<1>9. 0 \in T BY <1>1
<1>10. ASSUME NEW k \in 1 .. n, k - 1 \in T PROVE k \in T
  <2>1. k \in 0 .. n /\ k - 1 \in 0 .. n BY <1>1
  <2>2. f[k] = h[k][f[k - 1]] /\ f[k - 1] \in V BY <1>8, <2>1 DEF Computes
  <2>3. CASE IsFolded(hs[k])
    <3>1. k - 1 # 0 BY <1>1, <1>2, <2>3
    <3>2. f[k - 1] # <<>> BY <1>10, <3>1
    <3>3. f[k] = Continued(f[k - 1], FoldText(hs[k])) BY <1>7, <2>2, <2>3, <3>2
    <3> QED BY <1>4, <2>1, <2>2, <3>2, <3>3
  <2>4. CASE ~IsFolded(hs[k])
    <3>1. f[k] = Append(f[k - 1], HeaderOf(hs[k])) BY <1>7, <2>2, <2>4
    <3> QED BY <1>5, <2>1, <2>2, <2>4, <3>1
  <2> QED BY <2>3, <2>4
<1> HIDE DEF T
<1>11. \A k \in 0 .. n : k \in T BY <1>1, <1>9, <1>10, Climb
<1>12. ASSUME NEW k \in 1 .. n
       PROVE  /\ f[k] = IF IsFolded(hs[k]) THEN Continued(f[k - 1], FoldText(hs[k]))
                        ELSE Append(f[k - 1], HeaderOf(hs[k]))
              /\ f[k] # <<>>
  <2>1. k \in 0 .. n /\ k - 1 \in 0 .. n /\ k # 0 BY <1>1
  <2>2. f[k] = h[k][f[k - 1]] /\ f[k - 1] \in V BY <1>8, <2>1 DEF Computes
  <2>3. k \in T /\ k - 1 \in T BY <1>11, <2>1
  <2>4. IsFolded(hs[k]) => k - 1 # 0 BY <1>1, <1>2
  <2>5. IsFolded(hs[k]) => f[k - 1] # <<>> BY <2>3, <2>4 DEF T
  <2>6. f[k] # <<>> BY <2>1, <2>3 DEF T
  <2> QED BY <1>7, <2>2, <2>5, <2>6
<1>13. f = F(f)
  <2>1. \A k \in 0 .. n : k = 0 \/ k \in 1 .. n BY <1>1
  <2>2. f[0] = <<>> BY <1>8 DEF Computes
  <2>3. \A k \in 0 .. n : f[k] = IF k = 0 THEN <<>>
                      ELSE IF IsFolded(hs[k]) THEN Continued(f[k - 1], FoldText(hs[k]))
                      ELSE Append(f[k - 1], HeaderOf(hs[k]))
    BY <1>12, <2>1, <2>2
  <2> QED BY <1>8, <2>3
<1>14. u = F(u) BY <1>13
<1> HIDE DEF u
<1>15. /\ u[0] = <<>>
       /\ \A k \in 1 .. n : u[k] = IF IsFolded(hs[k]) THEN Continued(u[k - 1], FoldText(hs[k]))
                                   ELSE Append(u[k - 1], HeaderOf(hs[k]))
  <2>1. \A k \in 0 .. n : u[k] = IF k = 0 THEN <<>>
                      ELSE IF IsFolded(hs[k]) THEN Continued(u[k - 1], FoldText(hs[k]))
                      ELSE Append(u[k - 1], HeaderOf(hs[k]))
    BY <1>14
  <2>2. 0 \in 0 .. n /\ \A k \in 1 .. n : k \in 0 .. n /\ k # 0 BY <1>1
  <2> QED BY <2>1, <2>2
<1> DEFINE E == {k \in 0 .. n : u[k] = f[k]}
<1>16. 0 \in E BY <1>1, <1>8, <1>15 DEF Computes
<1>17. ASSUME NEW k \in 1 .. n, k - 1 \in E PROVE k \in E
  <2>1. u[k - 1] = f[k - 1] /\ k \in 0 .. n BY <1>1, <1>17
  <2>2. u[k] = f[k] BY <1>12, <1>15, <2>1
  <2> QED BY <2>1, <2>2
<1> HIDE DEF E
<1>18. \A k \in 0 .. n : k \in E BY <1>1, <1>16, <1>17, Climb
<1>19. n \in 0 .. n BY <1>1
<1>20. u[n] = f[n] BY <1>18, <1>19 DEF E
<1>21. HeadersIn(hs) = u[n] BY DEF HeadersIn, u, n
<1>22. HeadersAre(f, hs) BY <1>8, <1>12 DEF HeadersAre, Computes, n
<1> QED BY <1>8, <1>20, <1>21, <1>22 DEF n, V

(* Every header line leaves at least one header.                            *)
LEMMA HeadersType ==
    ASSUME NEW hs, Block(hs)
    PROVE  HeadersIn(hs) \in Seq(Header) /\ (HeadersIn(hs) = <<>> <=> hs = <<>>)
<1>1. Len(hs) \in Nat /\ (hs = <<>> <=> Len(hs) = 0) BY LenProperties, EmptySeq DEF Block
<1>2. PICK f \in [0 .. Len(hs) -> Seq(Header)] : HeadersAre(f, hs) /\ HeadersIn(hs) = f[Len(hs)]
  BY HeadersInIs
<1>3. Len(hs) \in 0 .. Len(hs) /\ (Len(hs) # 0 => Len(hs) \in 1 .. Len(hs)) BY <1>1
<1> QED BY <1>1, <1>2, <1>3 DEF HeadersAre

(* One header line more.                                                    *)
LEMMA BlockGrows ==
    ASSUME NEW hs, Block(hs), NEW x \in Text, Fits(hs, x)
    PROVE  Block(Append(hs, x))
<1> DEFINE u == Append(hs, x)
           n == Len(hs)
<1>1. /\ n \in Nat /\ u \in Seq(Text) /\ Len(u) = n + 1 /\ u[n + 1] = x /\ (hs # <<>> => n # 0)
      /\ \A i \in 1 .. n : u[i] = hs[i]
  BY AppendProperties, LenProperties, EmptySeq DEF Block
<1> HIDE DEF u
<1>2. ASSUME NEW i \in 1 .. n + 1 PROVE IsHeaderLine(u, i)
  <2>1. CASE i = n + 1
    <3>1. hs # <<>> => i > 1 BY <1>1, <2>1
    <3> QED BY <1>1, <2>1, <3>1 DEF IsHeaderLine, Fits
  <2>2. CASE i # n + 1
    <3>1. i \in 1 .. n BY <1>1, <2>2
    <3>2. u[i] = hs[i] /\ IsHeaderLine(hs, i) BY <1>1, <3>1 DEF Block, n
    <3> QED BY <3>2 DEF IsHeaderLine
  <2> QED BY <2>1, <2>2
<1> QED BY <1>1, <1>2 DEF Block, u

(* One line more.                                                           *)
LEMMA HeadersGrow ==
    ASSUME NEW hs, Block(hs), NEW x \in Text, Fits(hs, x)
    PROVE  HeadersIn(Append(hs, x)) = IF IsFolded(x) THEN Continued(HeadersIn(hs), FoldText(x))
                                      ELSE Append(HeadersIn(hs), HeaderOf(x))
<1> DEFINE u == Append(hs, x)
           n == Len(hs)
<1>1. /\ n \in Nat /\ Len(u) = n + 1 /\ u[n + 1] = x
      /\ \A i \in 1 .. n : u[i] = hs[i]
  BY AppendProperties, LenProperties DEF Block
<1>2. Block(u) BY BlockGrows
<1> HIDE DEF u
<1>3. PICK f \in [0 .. n -> Seq(Header)] : HeadersAre(f, hs) /\ HeadersIn(hs) = f[n] BY HeadersInIs
<1>4. PICK g \in [0 .. n + 1 -> Seq(Header)] : HeadersAre(g, u) /\ HeadersIn(u) = g[n + 1]
  <2>1. \E g \in [0 .. Len(u) -> Seq(Header)] : HeadersAre(g, u) /\ HeadersIn(u) = g[Len(u)]
    BY <1>2, HeadersInIs
  <2> QED BY <1>1, <2>1
<1> DEFINE T == {k \in 0 .. n : f[k] = g[k]}
<1>5. 0 \in T BY <1>1, <1>3, <1>4 DEF HeadersAre
<1>6. ASSUME NEW k \in 1 .. n, k - 1 \in T PROVE k \in T
  <2>1. f[k - 1] = g[k - 1] /\ k \in 0 .. n /\ k \in 1 .. n + 1 BY <1>1, <1>6
  <2>2. f[k] = IF IsFolded(hs[k]) THEN Continued(f[k - 1], FoldText(hs[k]))
               ELSE Append(f[k - 1], HeaderOf(hs[k]))
    BY <1>3 DEF HeadersAre
  <2>3. g[k] = IF IsFolded(u[k]) THEN Continued(g[k - 1], FoldText(u[k]))
               ELSE Append(g[k - 1], HeaderOf(u[k]))
    BY <1>1, <1>4, <2>1 DEF HeadersAre
  <2>4. u[k] = hs[k] BY <1>1
  <2>5. f[k] = g[k] BY <2>1, <2>2, <2>3, <2>4
  <2> QED BY <2>1, <2>5
<1> HIDE DEF T
<1>7. \A k \in 0 .. n : k \in T BY <1>1, <1>5, <1>6, Climb
<1>8. f[n] = g[n] BY <1>1, <1>7 DEF T
<1>9. g[n + 1] = IF IsFolded(x) THEN Continued(g[n], FoldText(x)) ELSE Append(g[n], HeaderOf(x))
  <2>1. n + 1 \in 1 .. n + 1 /\ (n + 1) - 1 = n BY <1>1
  <2> QED BY <1>1, <1>4, <2>1 DEF HeadersAre
<1> QED BY <1>3, <1>4, <1>8, <1>9 DEF u

(* Changing a header that was just added, or just changed.                  *)
LEMMA BackOfAppend ==
    ASSUME NEW G \in Seq(Header), NEW h \in Header, NEW b \in Header, NEW H, H = Append(G, h)
    PROVE  H \in Seq(Header) /\ H # <<>> /\ H[Len(H)] = h /\ SetBack(H, b) = Append(G, b)
<1> DEFINE K == Append(G, b)
           n == Len(G)
           J == SetBack(H, b)
<1>1. /\ n \in Nat /\ H \in Seq(Header) /\ H # <<>> /\ Len(H) = n + 1 /\ H[n + 1] = h
      /\ \A i \in 1 .. n : H[i] = G[i]
  BY AppendProperties, LenProperties
<1>2. K \in Seq(Header) /\ Len(K) = n + 1 /\ K[n + 1] = b /\ \A i \in 1 .. n : K[i] = G[i]
  BY AppendProperties
<1> HIDE DEF K
<1>3. /\ J \in Seq(Header) /\ Len(J) = Len(H)
      /\ \A i \in 1 .. Len(H) : J[i] = IF i = Len(H) THEN b ELSE H[i]
  BY <1>1, BackChanged
<1> HIDE DEF J, n
<1>4. ASSUME NEW i \in 1 .. n + 1 PROVE J[i] = K[i]
  <2>1. i # n + 1 => i \in 1 .. n BY <1>1
  <2> QED BY <1>1, <1>2, <1>3, <2>1
<1>5. J = K BY <1>1, <1>2, <1>3, <1>4, SeqEqual
<1> QED BY <1>1, <1>5 DEF K, J

LEMMA BackTwice ==
    ASSUME NEW G \in Seq(Header), G # <<>>, NEW h \in Header, NEW b \in Header,
           NEW H, H = SetBack(G, h)
    PROVE  H[Len(H)] = h /\ SetBack(H, b) = SetBack(G, b)
<1> DEFINE n == Len(G)
           K == SetBack(G, b)
           J == SetBack(H, b)
<1>1. /\ H \in Seq(Header) /\ H # <<>> /\ Len(H) = n /\ n \in Nat \ {0}
      /\ \A i \in 1 .. n : H[i] = IF i = n THEN h ELSE G[i]
  BY BackChanged
<1>2. /\ K \in Seq(Header) /\ Len(K) = n
      /\ \A i \in 1 .. n : K[i] = IF i = n THEN b ELSE G[i]
  BY BackChanged
<1>3. /\ J \in Seq(Header) /\ Len(J) = n
      /\ \A i \in 1 .. n : J[i] = IF i = n THEN b ELSE H[i]
  <2>1. /\ J \in Seq(Header) /\ Len(J) = Len(H)
        /\ \A i \in 1 .. Len(H) : J[i] = IF i = Len(H) THEN b ELSE H[i]
    BY <1>1, BackChanged
  <2> QED BY <1>1, <2>1
<1> HIDE DEF J, K, n
<1>4. ASSUME NEW i \in 1 .. n PROVE J[i] = K[i] BY <1>1, <1>2, <1>3
<1>5. J = K BY <1>2, <1>3, <1>4, SeqEqual
<1>6. n \in 1 .. n BY <1>1
<1> QED BY <1>1, <1>5, <1>6 DEF K, J, n

(* A byte behind a joined text.                                             *)
LEMMA JoinedAppend ==
    ASSUME NEW v \in Text, NEW t \in Text, NEW c \in Alphabet
    PROVE  /\ v \o Append(t, c) = Append(v \o t, c) /\ v \o t \in Text /\ Append(t, c) \in Text
           /\ Append(v \o t, c) \in Text
<1>1. <<c>> \in Text BY DEF Text
<1>2. v \o t \in Text /\ Append(t, c) \in Text BY ConcatProperties, AppendProperties DEF Text
<1>3. Append(t, c) = t \o <<c>> /\ Append(v \o t, c) = (v \o t) \o <<c>>
  BY <1>2, AppendIsConcat DEF Text
<1>4. (v \o t) \o <<c>> = v \o (t \o <<c>>) BY <1>1, ConcatAssociative DEF Text
<1>5. Append(v \o t, c) \in Text BY <1>2, AppendProperties DEF Text
<1> QED BY <1>2, <1>3, <1>4, <1>5

(* A line is folded by its first byte.                                      *)
LEMMA FoldedStays ==
    ASSUME NEW x \in Text, x # <<>>, NEW c \in Alphabet
    PROVE  IsFolded(Append(x, c)) <=> IsFolded(x)
<1>1. Len(x) \in Nat \ {0} BY EmptySeq DEF Text
<1>2. 1 \in 1 .. Len(x) BY <1>1
<1>3. Append(x, c)[1] = x[1] /\ Append(x, c) # <<>> BY <1>2, AppendIs
<1> QED BY <1>3 DEF IsFolded

(* What NextHeaders does to the last value.                                 *)
MoreValue(H, c) ==
    SetBack(H, [name |-> H[Len(H)].name, value |-> Append(H[Len(H)].value, c)])

(* A byte more of a value, in a line of its own or a folded one.            *)
LEMMA ValueGrows ==
    ASSUME NEW hs, Block(hs), NEW x \in Text, Fits(hs, x), NEW c \in Alphabet, ~IsCtl(c),
           IsFolded(x) => Ink(Append(x, c)) # {}
    PROVE  /\ Fits(hs, Append(x, c))
           /\ HeadersIn(Append(hs, Append(x, c))) = MoreValue(HeadersIn(Append(hs, x)), c)
<1> DEFINE G == HeadersIn(hs)
           H == HeadersIn(Append(hs, x))
           u == Append(x, c)
<1>1. G \in Seq(Header) /\ (G = <<>> <=> hs = <<>>) BY HeadersType
<1>2. u \in Text BY AppendIs
<1>3. H = IF IsFolded(x) THEN Continued(G, FoldText(x)) ELSE Append(G, HeaderOf(x)) BY HeadersGrow
<1>4. Fits(hs, u) => HeadersIn(Append(hs, u)) = IF IsFolded(u) THEN Continued(G, FoldText(u))
                                                ELSE Append(G, HeaderOf(u))
  BY <1>2, HeadersGrow
<1>5. CASE IsFolded(x)
  <2>1. x # <<>> BY <1>5 DEF IsFolded
  <2>2. IsFolded(u) BY <1>5, <2>1, FoldedStays
  <2> DEFINE t == FoldText(x)
             l == Len(G)
             b == [name |-> G[l].name, value |-> G[l].value \o t]
             d == [name |-> G[l].name, value |-> G[l].value \o Append(t, c)]
  <2>3. t \in Text BY FoldFacts
  <2>4. FoldText(u) = Append(t, c) BY <1>5, FoldGrows
  <2>5. hs # <<>> /\ Printable(t) BY <1>5 DEF Fits
  <2>6. Printable(Append(t, c)) BY <2>3, <2>5, AppendClasses
  <2>7. Fits(hs, u) BY <2>2, <2>4, <2>5, <2>6 DEF Fits
  <2>8. G # <<>> BY <1>1, <2>5
  <2>9. Append(t, c) \in Text BY <2>3, AppendIs
  <2>10. b \in Header /\ H = SetBack(G, b) BY <1>1, <1>3, <1>5, <2>3, <2>8, ContinuedIs
  <2>11. d \in Header /\ HeadersIn(Append(hs, u)) = SetBack(G, d)
    <3>1. HeadersIn(Append(hs, u)) = Continued(G, Append(t, c)) BY <1>4, <2>2, <2>4, <2>7
    <3> HIDE DEF t, G
    <3> QED BY <1>1, <2>8, <2>9, <3>1, ContinuedIs
  <2>12. G[l].value \in Text BY <1>1, <2>8, <2>10, BackChanged
  <2> HIDE DEF t, G
  <2>13. G[l].value \o Append(t, c) = Append(G[l].value \o t, c) BY <2>3, <2>12, JoinedAppend
  <2>14. d = [name |-> b.name, value |-> Append(b.value, c)] BY <2>13
  <2> HIDE DEF b, d
  <2>15. H[Len(H)] = b /\ SetBack(H, d) = SetBack(G, d)
    <3> HIDE DEF H, l
    <3> QED BY <1>1, <2>8, <2>10, <2>11, BackTwice
  <2>16. MoreValue(H, c) = SetBack(H, d) BY <2>14, <2>15 DEF MoreValue
  <2> QED BY <2>7, <2>11, <2>15, <2>16
<1>6. CASE ~IsFolded(x)
  <2>1. PICK p : p \in Colons(x) BY <1>6 DEF Fits
  <2> DEFINE h == HeaderOf(x)
             m == SubSeq(x, 1, p - 1)
             v == SubSeq(x, p + 2, Len(x))
  <2>2. h = [name |-> m, value |-> v] /\ h \in Header /\ x # <<>> BY <2>1, OneColon
  <2>3. p \in Colons(u) /\ HeaderOf(u) = [name |-> m, value |-> Append(v, c)] BY <2>1, ColonsGrow
  <2>4. ~IsFolded(u) BY <1>6, <2>2, FoldedStays
  <2>5. Fits(hs, u) BY <2>3, <2>4 DEF Fits
  <2>6. H = Append(G, h) BY <1>3, <1>6
  <2>7. HeadersIn(Append(hs, u)) = Append(G, HeaderOf(u)) BY <1>4, <2>4, <2>5
  <2>8. HeaderOf(u) \in Header BY <1>2, <2>3, OneColon
  <2> HIDE DEF m, v, G, u
  <2>9. H[Len(H)] = h /\ SetBack(H, HeaderOf(u)) = Append(G, HeaderOf(u))
    <3>1. h \in Header /\ G \in Seq(Header) BY <1>1, <2>2
    <3> HIDE DEF h, H
    <3> QED BY <2>6, <2>8, <3>1, BackOfAppend
  <2>10. HeaderOf(u) = [name |-> h.name, value |-> Append(h.value, c)] BY <2>2, <2>3
  <2>11. MoreValue(H, c) = SetBack(H, HeaderOf(u)) BY <2>9, <2>10 DEF MoreValue
  <2> QED BY <2>5, <2>7, <2>9, <2>11 DEF u
<1> QED BY <1>5, <1>6

(* A name that gets its colon and its blank.                                *)
LEMMA NameEnds ==
    ASSUME NEW m \in Text, m # <<>>, Tokens(m)
    PROVE  LET x == Append(Append(m, ":"), "sp") IN
           /\ Colons(x) # {} /\ HeaderOf(x) = [name |-> m, value |-> <<>>] /\ ~IsFolded(x) /\ x \in Text
<1> DEFINE w == Append(m, ":")
           x == Append(w, "sp")
           p == Len(m) + 1
<1>0. ":" \in Alphabet /\ "sp" \in Alphabet BY DEF Alphabet
<1>1. /\ w \in Text /\ Len(m) \in Nat /\ Len(w) = Len(m) + 1 /\ w[Len(m) + 1] = ":"
      /\ \A i \in 1 .. Len(m) : w[i] = m[i]
  BY <1>0, AppendIs
<1>2. /\ x \in Text /\ Len(x) = Len(w) + 1 /\ x[Len(w) + 1] = "sp" /\ \A i \in 1 .. Len(w) : x[i] = w[i]
  BY <1>0, <1>1, AppendIs
<1> HIDE DEF w, x
<1>3. Len(m) # 0 BY EmptySeq DEF Text
<1>4. p \in 2 .. Len(x) - 1 /\ p - 1 = Len(m) /\ p \in 1 .. Len(w) /\ p + 1 = Len(w) + 1
      /\ p + 2 = Len(x) + 1 /\ Len(x) \in Nat
      /\ \A i \in 1 .. p - 1 : i \in 1 .. Len(w) /\ i \in 1 .. Len(m)
  BY <1>1, <1>2, <1>3
<1> HIDE DEF p
<1>5. x[p] = ":" /\ x[p + 1] = "sp" BY <1>1, <1>2, <1>4 DEF p
<1>6. SubSeq(x, 1, p - 1) = m
  <2>1. \A i \in 1 .. p - 1 : x[i] = m[i] BY <1>1, <1>2, <1>4
  <2>2. p - 1 \in Int /\ p - 1 <= Len(x) /\ p - 1 <= Len(m) /\ 1 \in Nat \ {0} BY <1>1, <1>2, <1>4
  <2>3. SubSeq(x, 1, p - 1) = SubSeq(m, 1, p - 1) BY <1>2, <2>1, <2>2, SliceSame DEF Text
  <2>4. SubSeq(m, 1, Len(m)) = m BY SubSeqFull DEF Text
  <2> QED BY <1>4, <2>3, <2>4
<1>7. SubSeq(x, p + 2, Len(x)) = <<>>
  <2>1. p + 2 \in Int /\ Len(x) \in Int /\ Len(x) < p + 2 BY <1>4
  <2> QED BY <2>1, SubSeqEmpty
<1>8. Printable(<<>>) BY DEF Printable
<1>9. p \in Colons(x) BY <1>4, <1>5, <1>6, <1>7, <1>8 DEF Colons
<1>10. HeaderOf(x) = [name |-> m, value |-> <<>>] /\ ~IsFolded(x) /\ Colons(x) # {}
  BY <1>2, <1>6, <1>7, <1>9, OneColon
<1> QED BY <1>2, <1>10 DEF x, w

-----------------------------------------------------------------------------
(***************************************************************************)
(* The request line, a byte at a time.                                      *)
(***************************************************************************)

HttpSteps ==
    [http_version_h |-> 0, http_version_t_1 |-> 1, http_version_t_2 |-> 2,
     http_version_p |-> 3, http_version_slash |-> 4, http_version_major_start |-> 5]
InVersion == DOMAIN HttpSteps \cup
    {"http_version_major", "http_version_minor_start", "http_version_minor", "expecting_newline_1"}
InRequestLine == InVersion \cup {"method_start", "method", "uri"}

(* The version as far as it has come in state s.                            *)
VersionSoFar(v, s) ==
    /\ \A i \in 1 .. 5 : i <= Len(v) => v[i] = Http[i]
    /\ s \in DOMAIN HttpSteps => Len(v) = HttpSteps[s]
    /\ s = "http_version_major" => Len(v) >= 6 /\ \A i \in 6 .. Len(v) : IsDigit(v[i])
    /\ s = "http_version_minor_start" =>
         Len(v) >= 7 /\ v[Len(v)] = "." /\ \A i \in 6 .. Len(v) - 1 : IsDigit(v[i])
    /\ s = "http_version_minor" => IsVersion(v)
    /\ s = "expecting_newline_1" => \E w \in Text : v = Append(w, "cr") /\ IsVersion(w)

(* The request line as far as it has come: what o holds in state s.         *)
StartOf(m, u) == ((m \o <<"sp">>) \o u) \o <<"sp">>
Plain(u) == \A i \in DOMAIN u : ~IsCtl(u[i]) /\ u[i] # "sp"
LineSoFar(o, s, m, u) ==
    /\ Tokens(m) /\ Plain(u)
    /\ s = "method_start" => o = <<>> /\ m = <<>> /\ u = <<>>
    /\ s # "method_start" => m # <<>>
    /\ s = "method" => o = m /\ u = <<>>
    /\ s = "uri" => o = (m \o <<"sp">>) \o u
    /\ s \in InVersion => \E v \in Text : o = StartOf(m, u) \o v /\ VersionSoFar(v, s)

(* The values of Http and HttpSteps.                                        *)
LEMMA HttpFacts ==
    /\ Http[1] = "H" /\ Http[2] = "T" /\ Http[3] = "T" /\ Http[4] = "P" /\ Http[5] = "/"
    /\ DOMAIN HttpSteps = {"http_version_h", "http_version_t_1", "http_version_t_2", "http_version_p",
                           "http_version_slash", "http_version_major_start"}
    /\ HttpSteps["http_version_h"] = 0 /\ HttpSteps["http_version_t_1"] = 1
    /\ HttpSteps["http_version_t_2"] = 2 /\ HttpSteps["http_version_p"] = 3
    /\ HttpSteps["http_version_slash"] = 4 /\ HttpSteps["http_version_major_start"] = 5
BY DEF Http, HttpSteps

(* Where a byte leads from each state.                                      *)
LEMMA Moves ==
    ASSUME NEW c \in Alphabet, state \in States
    PROVE  LET n == NextState(c) IN
           /\ state \in {"method_start", "method"} =>
                (n = "method" /\ IsToken(c)) \/ (n = "uri" /\ state = "method" /\ c = "sp") \/ n = "bad"
           /\ state = "uri" =>
                (n = "http_version_h" /\ c = "sp") \/ (n = "uri" /\ c # "sp" /\ ~IsCtl(c)) \/ n = "bad"
           /\ state = "http_version_h" => (n = "http_version_t_1" /\ c = "H") \/ n = "bad"
           /\ state = "http_version_t_1" => (n = "http_version_t_2" /\ c = "T") \/ n = "bad"
           /\ state = "http_version_t_2" => (n = "http_version_p" /\ c = "T") \/ n = "bad"
           /\ state = "http_version_p" => (n = "http_version_slash" /\ c = "P") \/ n = "bad"
           /\ state = "http_version_slash" => (n = "http_version_major_start" /\ c = "/") \/ n = "bad"
           /\ state = "http_version_major_start" => (n = "http_version_major" /\ IsDigit(c)) \/ n = "bad"
           /\ state = "http_version_major" =>
                \/ n = "http_version_major" /\ IsDigit(c)
                \/ n = "http_version_minor_start" /\ c = "."
                \/ n = "bad"
           /\ state = "http_version_minor_start" => (n = "http_version_minor" /\ IsDigit(c)) \/ n = "bad"
           /\ state = "http_version_minor" =>
                (n = "http_version_minor" /\ IsDigit(c)) \/ (n = "expecting_newline_1" /\ c = "cr") \/ n = "bad"
           /\ state \in {"expecting_newline_1", "expecting_newline_2"} =>
                (n = "header_line_start" /\ c = "lf") \/ (n = "bad" /\ c # "lf")
           /\ state = "expecting_newline_3" => (n = "good" /\ c = "lf") \/ (n = "bad" /\ c # "lf")
           /\ state = "header_line_start" =>
                \/ n = "expecting_newline_3" /\ c = "cr"
                \/ n = "header_lws" /\ headers # <<>> /\ c \in Blank
                \/ n = "header_name" /\ IsToken(c)
                \/ n = "bad"
           /\ state = "header_name" =>
                (n = "header_name" /\ IsToken(c)) \/ (n = "space_before_header_value" /\ c = ":") \/ n = "bad"
           /\ state = "space_before_header_value" => (n = "header_value" /\ c = "sp") \/ n = "bad"
           /\ state = "header_lws" =>
                \/ n = "header_lws" /\ c \in Blank
                \/ n = "expecting_newline_2" /\ c = "cr"
                \/ n = "header_value" /\ c # "sp" /\ ~IsCtl(c)
                \/ n = "bad"
           /\ state = "header_value" =>
                (n = "expecting_newline_2" /\ c = "cr") \/ (n = "header_value" /\ ~IsCtl(c)) \/ n = "bad"
<1>1. CASE state \in DOMAIN Expected /\ c = Expected[state]
  <2>1. NextState(c) = Behind[state] BY <1>1, ExpectedIs DEF NextState, MethodMayEnd
  <2> QED BY <1>1, <2>1, ExpectedIs
<1>2. CASE ~(state \in DOMAIN Expected /\ c = Expected[state])
  <2>1. state \in DOMAIN Expected => c # Expected[state] /\ NextState(c) = "bad"
    BY <1>2, ExpectedIs DEF NextState, MethodMayEnd
  <2>2. CASE state \in DOMAIN Expected BY <2>1, <2>2, ExpectedIs
  <2>3. CASE state \notin DOMAIN Expected
    <3> USE <2>3 DEF NextState, MethodMayEnd, MayFold, Blank
    <3>1. CASE state = "method_start" BY <3>1
    <3>2. CASE state = "method" BY <3>2
    <3>3. CASE state = "uri" BY <3>3
    <3>4. CASE state = "http_version_major_start" BY <3>4
    <3>5. CASE state = "http_version_major" BY <3>5
    <3>6. CASE state = "http_version_minor_start" BY <3>6
    <3>7. CASE state = "http_version_minor" BY <3>7
    <3>8. CASE state = "header_line_start" BY <3>8
    <3>9. CASE state = "header_name" BY <3>9
    <3>10. CASE state = "header_lws" BY <3>10
    <3>11. CASE state = "header_value" BY <3>11
    <3> QED BY <3>1, <3>2, <3>3, <3>4, <3>5, <3>6, <3>7, <3>8, <3>9, <3>10, <3>11, ExpectedIs DEF States
  <2> QED BY <2>2, <2>3
<1> QED BY <1>1, <1>2

(* A byte more of "HTTP/".                                                  *)
LEMMA HttpGrows ==
    ASSUME NEW v \in Text, NEW c \in Alphabet, \A i \in 1 .. 5 : i <= Len(v) => v[i] = Http[i],
           Len(v) < 5 => c = Http[Len(v) + 1]
    PROVE  \A i \in 1 .. 5 : i <= Len(Append(v, c)) => Append(v, c)[i] = Http[i]
<1> DEFINE u == Append(v, c)
           n == Len(v)
<1>1. n \in Nat /\ Len(u) = n + 1 /\ (\A i \in 1 .. n : u[i] = v[i]) /\ u[n + 1] = c BY AppendIs
<1> HIDE DEF u
<1>2. ASSUME NEW i \in 1 .. 5, i <= n + 1 PROVE u[i] = Http[i]
  <2>1. CASE i = n + 1
    <3>1. n < 5 BY <1>1, <2>1
    <3> QED BY <1>1, <2>1, <3>1
  <2>2. CASE i # n + 1
    <3>1. i \in 1 .. n /\ i <= n BY <1>1, <1>2, <2>2
    <3> QED BY <1>1, <3>1
  <2> QED BY <2>1, <2>2
<1> QED BY <1>1, <1>2 DEF u

(* A byte more of the version.                                              *)
LEMMA VersionGrows ==
    ASSUME NEW v \in Text, NEW c \in Alphabet, state \in InVersion, VersionSoFar(v, state),
           NextState(c) \in InVersion
    PROVE  VersionSoFar(Append(v, c), NextState(c))
<1> DEFINE u == Append(v, c)
           l == Len(v)
           n == NextState(c)
<1>1. /\ u \in Text /\ l \in Nat /\ Len(u) = l + 1 /\ (\A i \in 1 .. l : u[i] = v[i]) /\ u[l + 1] = c
  BY AppendIs
<1>2. state \in States BY HttpFacts, ExpectedIs DEF InVersion, States
<1>3. \A i \in 1 .. 5 : i <= l => v[i] = Http[i] BY DEF VersionSoFar
<1>h. ASSUME l < 5 => c = Http[l + 1] PROVE \A i \in 1 .. 5 : i <= Len(u) => u[i] = Http[i]
  BY <1>3, <1>h, HttpGrows
<1> HIDE DEF u, n, l
<1>4. CASE state \in DOMAIN HttpSteps \ {"http_version_major_start"}
  <2>1. l = HttpSteps[state] BY <1>4 DEF VersionSoFar, l
  <2>2. n \in DOMAIN HttpSteps /\ HttpSteps[n] = l + 1 /\ c = Http[l + 1]
    BY <1>2, <1>4, <2>1, Moves, HttpFacts DEF n, InVersion
  <2>3. \A i \in 1 .. 5 : i <= Len(u) => u[i] = Http[i] BY <1>h, <2>2
  <2> QED BY <1>1, <2>2, <2>3, HttpFacts DEF VersionSoFar, u, n
<1>5. CASE state \in {"http_version_major_start", "http_version_major"} /\ n = "http_version_major"
  <2>1. IsDigit(c) BY <1>2, <1>5, Moves, HttpFacts DEF n
  <2>2. l >= 5 /\ \A i \in 6 .. l : IsDigit(v[i]) BY <1>1, <1>5, HttpFacts DEF VersionSoFar, l
  <2>3. \A i \in 6 .. l + 1 : i = l + 1 \/ (i \in 6 .. l /\ i \in 1 .. l) BY <1>1
  <2>4. Len(u) >= 6 /\ \A i \in 6 .. Len(u) : IsDigit(u[i]) BY <1>1, <2>1, <2>2, <2>3
  <2>5. \A i \in 1 .. 5 : i <= Len(u) => u[i] = Http[i] BY <1>1, <1>h, <2>2
  <2> QED BY <1>5, <2>4, <2>5, HttpFacts DEF VersionSoFar, u, n
<1>6. CASE state = "http_version_major" /\ n = "http_version_minor_start"
  <2>1. c = "." BY <1>2, <1>6, Moves, HttpFacts DEF n
  <2>2. l >= 6 /\ \A i \in 6 .. l : IsDigit(v[i]) BY <1>1, <1>6, HttpFacts DEF VersionSoFar, l
  <2>3. \A i \in 6 .. (l + 1) - 1 : i \in 6 .. l /\ i \in 1 .. l BY <1>1
  <2>4. Len(u) >= 7 /\ u[Len(u)] = "." /\ \A i \in 6 .. Len(u) - 1 : IsDigit(u[i])
    BY <1>1, <2>1, <2>2, <2>3
  <2>5. \A i \in 1 .. 5 : i <= Len(u) => u[i] = Http[i] BY <1>1, <1>h, <2>2
  <2> QED BY <1>6, <2>4, <2>5, HttpFacts DEF VersionSoFar, u, n
<1>7. CASE state = "http_version_minor_start" /\ n = "http_version_minor"
  <2>1. IsDigit(c) BY <1>2, <1>7, Moves, HttpFacts DEF n
  <2>2. l >= 7 /\ v[l] = "." /\ \A i \in 6 .. l - 1 : IsDigit(v[i])
    BY <1>1, <1>7, HttpFacts DEF VersionSoFar, l
  <2>3. /\ l \in 7 .. (l + 1) - 1 /\ l \in 1 .. l
        /\ \A i \in 6 .. l + 1 : i # l => i = l + 1 \/ (i \in 6 .. l - 1 /\ i \in 1 .. l)
    BY <1>1, <2>2
  <2>4. \A i \in 6 .. Len(u) : i # l => IsDigit(u[i]) BY <1>1, <2>1, <2>2, <2>3
  <2>5. \A i \in 1 .. 5 : i <= Len(u) => u[i] = Http[i] BY <1>1, <1>h, <2>2
  <2>6. \A i \in 1 .. 5 : u[i] = Http[i] BY <1>1, <2>2, <2>5
  <2>7. IsVersion(u) BY <1>1, <2>2, <2>3, <2>4, <2>6 DEF IsVersion
  <2> QED BY <1>7, <2>5, <2>7, HttpFacts DEF VersionSoFar, u, n
<1>8. CASE state = "http_version_minor" /\ n = "http_version_minor"
  <2>1. IsDigit(c) BY <1>2, <1>8, Moves, HttpFacts DEF n
  <2>2. IsVersion(v) BY <1>8, HttpFacts DEF VersionSoFar
  <2>3. PICK dot \in 7 .. l - 1 :
          /\ \A i \in 1 .. 5 : v[i] = Http[i]
          /\ v[dot] = "." /\ \A i \in 6 .. l : i # dot => IsDigit(v[i])
    BY <2>2 DEF IsVersion, l
  <2>4. /\ dot \in 7 .. (l + 1) - 1 /\ dot \in 1 .. l /\ l >= 5
        /\ \A i \in 6 .. l + 1 : i = l + 1 \/ (i \in 6 .. l /\ i \in 1 .. l)
    BY <1>1
  <2>5. \A i \in 6 .. Len(u) : i # dot => IsDigit(u[i]) BY <1>1, <2>1, <2>3, <2>4
  <2>6. \A i \in 1 .. 5 : i <= Len(u) => u[i] = Http[i] BY <1>1, <1>h, <2>4
  <2>7. \A i \in 1 .. 5 : u[i] = Http[i] BY <1>1, <2>4, <2>6
  <2>8. IsVersion(u) BY <1>1, <2>3, <2>4, <2>5, <2>7 DEF IsVersion
  <2> QED BY <1>8, <2>6, <2>8, HttpFacts DEF VersionSoFar, u, n
<1>9. CASE state = "http_version_minor" /\ n = "expecting_newline_1"
  <2>1. c = "cr" BY <1>2, <1>9, Moves, HttpFacts DEF n
  <2>2. IsVersion(v) BY <1>9, HttpFacts DEF VersionSoFar
  <2>3. l >= 5
    <3>1. PICK dot \in 7 .. l - 1 : TRUE BY <2>2 DEF IsVersion, l
    <3> QED BY <1>1, <3>1
  <2>4. \A i \in 1 .. 5 : i <= Len(u) => u[i] = Http[i] BY <1>1, <1>h, <2>3
  <2>5. \E w \in Text : u = Append(w, "cr") /\ IsVersion(w) BY <2>1, <2>2 DEF u
  <2> QED BY <1>9, <2>4, <2>5, HttpFacts DEF VersionSoFar, u, n
<1>10. QED
  <2>1. n \in InVersion BY DEF n
  <2>2. \/ state \in DOMAIN HttpSteps \ {"http_version_major_start"}
        \/ state \in {"http_version_major_start", "http_version_major"} /\ n = "http_version_major"
        \/ state = "http_version_major" /\ n = "http_version_minor_start"
        \/ state = "http_version_minor_start" /\ n = "http_version_minor"
        \/ state = "http_version_minor" /\ n \in {"http_version_minor", "expecting_newline_1"}
    BY <1>2, <2>1, Moves, HttpFacts DEF InVersion, n
  <2> QED BY <1>4, <1>5, <1>6, <1>7, <1>8, <1>9, <2>2

(* A piece is known by its length and its elements.                         *)
LEMMA SliceIs ==
    ASSUME NEW X, NEW s \in Seq(X), NEW y \in Seq(X), NEW a \in Nat \ {0}, NEW b \in Int,
           b = a + Len(y) - 1, b <= Len(s), \A j \in 1 .. Len(y) : s[a + j - 1] = y[j]
    PROVE  SubSeq(s, a, b) = y
<1>1. Len(s) \in Nat /\ Len(y) \in Nat BY LenProperties
<1>2. a \in 1 .. Len(s) + 1 /\ b \in a - 1 .. Len(s) /\ b - a + 1 = Len(y) BY <1>1
<1> DEFINE x == SubSeq(s, a, b)
<1>3. x \in Seq(X) /\ Len(x) = b - a + 1 /\ \A j \in 1 .. b - a + 1 : x[j] = s[a + j - 1]
  BY <1>2, Slice
<1> HIDE DEF x
<1>4. \A j \in 1 .. Len(x) : x[j] = y[j] BY <1>2, <1>3
<1>5. x = y BY <1>2, <1>3, <1>4, SeqEqual
<1> QED BY <1>5 DEF x

(* The elements of a joined text.                                           *)
LEMMA JoinIs ==
    ASSUME NEW s \in Text, NEW t \in Text
    PROVE  /\ s \o t \in Text /\ Len(s) \in Nat /\ Len(t) \in Nat /\ Len(s \o t) = Len(s) + Len(t)
           /\ \A i \in 1 .. Len(s) : (s \o t)[i] = s[i]
           /\ \A i \in 1 .. Len(t) : (s \o t)[Len(s) + i] = t[i]
<1> DEFINE u == s \o t
           n == Len(s)
           m == Len(t)
<1>1. n \in Nat /\ m \in Nat BY LenProperties DEF Text
<1>2. /\ u \in Text /\ Len(u) = n + m
      /\ \A i \in 1 .. n + m : u[i] = IF i <= n THEN s[i] ELSE t[i - n]
  BY ConcatProperties DEF Text
<1> HIDE DEF u, n, m
<1>3. \A i \in 1 .. n : u[i] = s[i]
  <2>1. \A i \in 1 .. n : i \in 1 .. n + m /\ i <= n BY <1>1
  <2> QED BY <1>2, <2>1
<1>4. \A i \in 1 .. m : u[n + i] = t[i]
  <2>1. \A i \in 1 .. m : n + i \in 1 .. n + m /\ ~(n + i <= n) /\ (n + i) - n = i BY <1>1
  <2> QED BY <1>2, <2>1
<1> QED BY <1>1, <1>2, <1>3, <1>4 DEF u, n, m

LEMMA StartType ==
    ASSUME NEW m \in Text, NEW u \in Text
    PROVE  StartOf(m, u) \in Text
<1>1. <<"sp">> \in Text BY DEF Text, Alphabet
<1>2. m \o <<"sp">> \in Text BY <1>1, JoinIs
<1>3. (m \o <<"sp">>) \o u \in Text BY <1>2, JoinIs
<1> QED BY <1>1, <1>3, JoinIs DEF StartOf

(* Where the parts of a request line lie.                                   *)
Lies(l, a, b, m, u, v) ==
    /\ l \in Text /\ Len(l) = b + Len(v)
    /\ Len(m) \in Nat /\ Len(u) \in Nat /\ Len(v) \in Nat
    /\ \A i \in 1 .. Len(m) : l[i] = m[i]
    /\ l[a] = "sp" /\ l[b] = "sp"
    /\ \A i \in 1 .. Len(u) : l[a + i] = u[i]
    /\ \A i \in 1 .. Len(v) : l[b + i] = v[i]

LEMMA LineLies ==
    ASSUME NEW m \in Text, NEW u \in Text, NEW v \in Text,
           NEW a, a = Len(m) + 1, NEW b, b = Len(m) + Len(u) + 2
    PROVE  Lies(StartOf(m, u) \o v, a, b, m, u, v)
<1> DEFINE x == <<"sp">>
           p == m \o x
           q == p \o u
           r == q \o x
           l == r \o v
<1>1. x \in Text /\ Len(x) = 1 /\ x[1] = "sp" BY DEF Text, Alphabet
<1> HIDE DEF x
<1>2. /\ p \in Text /\ Len(m) \in Nat /\ Len(p) = a
      /\ (\A i \in 1 .. Len(m) : p[i] = m[i]) /\ p[a] = "sp"
  <2>1. /\ p \in Text /\ Len(m) \in Nat /\ Len(p) = Len(m) + Len(x)
        /\ (\A i \in 1 .. Len(m) : p[i] = m[i]) /\ \A i \in 1 .. Len(x) : p[Len(m) + i] = x[i]
    BY <1>1, JoinIs
  <2> QED BY <1>1, <2>1
<1> HIDE DEF p
<1>3. /\ q \in Text /\ Len(u) \in Nat /\ Len(q) = a + Len(u)
      /\ (\A i \in 1 .. a : q[i] = p[i]) /\ \A i \in 1 .. Len(u) : q[a + i] = u[i]
  <2>1. /\ q \in Text /\ Len(u) \in Nat /\ Len(q) = Len(p) + Len(u)
        /\ (\A i \in 1 .. Len(p) : q[i] = p[i]) /\ \A i \in 1 .. Len(u) : q[Len(p) + i] = u[i]
    BY <1>2, JoinIs
  <2> HIDE DEF q
  <2> QED BY <1>2, <2>1
<1> HIDE DEF q
<1>4. /\ r \in Text /\ Len(r) = b
      /\ (\A i \in 1 .. b - 1 : r[i] = q[i]) /\ r[b] = "sp"
  <2>1. /\ r \in Text /\ Len(r) = Len(q) + Len(x)
        /\ (\A i \in 1 .. Len(q) : r[i] = q[i]) /\ \A i \in 1 .. Len(x) : r[Len(q) + i] = x[i]
    BY <1>1, <1>3, JoinIs
  <2>2. Len(q) + 1 = b /\ Len(q) = b - 1 BY <1>2, <1>3
  <2> QED BY <1>1, <2>1, <2>2
<1> HIDE DEF r
<1>5. /\ l \in Text /\ Len(v) \in Nat /\ Len(l) = b + Len(v)
      /\ (\A i \in 1 .. b : l[i] = r[i]) /\ \A i \in 1 .. Len(v) : l[b + i] = v[i]
  <2>1. /\ l \in Text /\ Len(v) \in Nat /\ Len(l) = Len(r) + Len(v)
        /\ (\A i \in 1 .. Len(r) : l[i] = r[i]) /\ \A i \in 1 .. Len(v) : l[Len(r) + i] = v[i]
    BY <1>4, JoinIs
  <2> HIDE DEF l
  <2> QED BY <1>4, <2>1
<1> HIDE DEF l
<1>6. /\ a \in 1 .. a /\ a \in 1 .. b - 1 /\ a \in 1 .. b /\ b \in 1 .. b
      /\ \A i \in 1 .. Len(m) : i \in 1 .. a /\ i \in 1 .. b - 1 /\ i \in 1 .. b
      /\ \A i \in 1 .. Len(u) : a + i \in 1 .. b - 1 /\ a + i \in 1 .. b
  BY <1>2, <1>3
<1>7. \A i \in 1 .. Len(m) : l[i] = m[i] BY <1>2, <1>3, <1>4, <1>5, <1>6
<1>8. l[a] = "sp" /\ l[b] = "sp" BY <1>2, <1>3, <1>4, <1>5, <1>6
<1>9. \A i \in 1 .. Len(u) : l[a + i] = u[i] BY <1>3, <1>4, <1>5, <1>6
<1> QED BY <1>2, <1>3, <1>4, <1>5, <1>7, <1>8, <1>9 DEF l, r, q, p, x, StartOf, Lies

(* Such a line is read in this way only.                                    *)
LEMMA RequestLineIs ==
    ASSUME NEW m \in Text, m # <<>>, Tokens(m), NEW u \in Text, Plain(u), NEW v \in Text, IsVersion(v)
    PROVE  LET l == StartOf(m, u) \o v IN
           /\ RequestLines(l) # {}
           /\ \A p \in RequestLines(l) : MethodIn(l, p) = m /\ UriIn(l, p) = u
<1> DEFINE l == StartOf(m, u) \o v
           a == Len(m) + 1
           b == Len(m) + Len(u) + 2
           r == [uri |-> a, version |-> b]
<1>1. /\ l \in Text /\ Len(l) = b + Len(v)
      /\ Len(m) \in Nat /\ Len(u) \in Nat /\ Len(v) \in Nat
      /\ \A i \in 1 .. Len(m) : l[i] = m[i]
      /\ l[a] = "sp" /\ l[b] = "sp"
      /\ \A i \in 1 .. Len(u) : l[a + i] = u[i]
      /\ \A i \in 1 .. Len(v) : l[b + i] = v[i]
  <2>1. Lies(l, a, b, m, u, v) BY LineLies
  <2> HIDE DEF l, a, b
  <2> QED BY <2>1 DEF Lies
<1>2. Len(m) # 0 /\ Len(v) > 6
  <2>1. Len(m) # 0 BY EmptySeq DEF Text
  <2>2. PICK dot \in 7 .. Len(v) - 1 : TRUE BY DEF IsVersion
  <2> QED BY <1>1, <2>1, <2>2
<1> HIDE DEF l
<1>d. DOMAIN l = 1 .. Len(l) /\ DOMAIN m = 1 .. Len(m) /\ DOMAIN u = 1 .. Len(u)
  BY <1>1, LenProperties DEF Text
<1>3. SubSeq(l, 1, a - 1) = m
  <2>1. a - 1 \in Int /\ a - 1 = 1 + Len(m) - 1 /\ a - 1 <= Len(l) /\ 1 \in Nat \ {0}
        /\ \A j \in 1 .. Len(m) : 1 + j - 1 = j
    BY <1>1
  <2> HIDE DEF a, b
  <2> QED BY <1>1, <2>1, SliceIs DEF Text
<1>4. SubSeq(l, a + 1, b - 1) = u
  <2>1. b - 1 \in Int /\ b - 1 = (a + 1) + Len(u) - 1 /\ b - 1 <= Len(l) /\ a + 1 \in Nat \ {0}
        /\ \A j \in 1 .. Len(u) : (a + 1) + j - 1 = a + j
    BY <1>1
  <2> DEFINE e == a + 1
             f == b - 1
  <2>2. \A j \in 1 .. Len(u) : l[e + j - 1] = u[j]
    <3> HIDE DEF a, b
    <3> QED BY <1>1, <2>1
  <2>3. e \in Nat \ {0} /\ f \in Int /\ f = e + Len(u) - 1 /\ f <= Len(l) BY <2>1
  <2> HIDE DEF e, f
  <2>4. SubSeq(l, e, f) = u BY <1>1, <2>2, <2>3, SliceIs DEF Text
  <2> QED BY <2>4 DEF e, f
<1>5. SubSeq(l, b + 1, Len(l)) = v
  <2>1. Len(l) \in Int /\ Len(l) = (b + 1) + Len(v) - 1 /\ b + 1 \in Nat \ {0} /\ Len(l) <= Len(l)
        /\ \A j \in 1 .. Len(v) : (b + 1) + j - 1 = b + j
    BY <1>1
  <2> HIDE DEF a, b
  <2>2. \A j \in 1 .. Len(v) : l[(b + 1) + j - 1] = v[j] BY <1>1, <2>1
  <2> QED BY <1>1, <2>1, <2>2, SliceIs DEF Text
<1>6. /\ a \in 2 .. Len(l) /\ b \in DOMAIN l /\ a < b
      /\ \A i \in a + 1 .. b - 1 : i - a \in 1 .. Len(u) /\ a + (i - a) = i
  BY <1>1, <1>2, <1>d
<1>7. \A i \in a + 1 .. b - 1 : l[i] # "sp"
  <2> TAKE i \in a + 1 .. b - 1
  <2>1. i - a \in 1 .. Len(u) /\ a + (i - a) = i BY <1>6
  <2> HIDE DEF a, b
  <2>2. l[i] = u[i - a] BY <1>1, <2>1
  <2> QED BY <1>d, <2>1, <2>2 DEF Plain
<1>8. Printable(u) BY DEF Plain, Printable
<1>9. r \in RequestLines(l)
  <2>1. r \in [uri : 2 .. Len(l), version : DOMAIN l] BY <1>6
  <2>2. r.uri = a /\ r.version = b OBVIOUS
  <2>3. MethodIn(l, r) = m /\ UriIn(l, r) = u BY <1>3, <1>4, <2>2 DEF MethodIn, UriIn
  <2> HIDE DEF r, a, b
  <2> QED BY <1>1, <1>5, <1>6, <1>7, <1>8, <2>1, <2>2, <2>3 DEF RequestLines
<1>10. ASSUME NEW p \in RequestLines(l) PROVE MethodIn(l, p) = m /\ UriIn(l, p) = u
  <2> DEFINE c == p.uri
             d == p.version
  <2>1. /\ c \in 2 .. Len(l) /\ d \in 1 .. Len(l) /\ c < d /\ l[c] = "sp" /\ l[d] = "sp"
        /\ Tokens(SubSeq(l, 1, c - 1)) /\ \A i \in c + 1 .. d - 1 : l[i] # "sp"
    BY <1>d DEF RequestLines, MethodIn
  <2>2. \A i \in 1 .. c - 1 : l[i] # "sp"
    <3>1. 1 \in 1 .. Len(l) + 1 /\ c - 1 \in 1 - 1 .. Len(l) /\ (c - 1) - 1 + 1 = c - 1
          /\ \A i \in 1 .. c - 1 : 1 + i - 1 = i
      BY <1>1, <2>1
    <3> DEFINE y == SubSeq(l, 1, c - 1)
    <3>2. y \in Text /\ Len(y) = c - 1 /\ \A i \in 1 .. c - 1 : y[i] = l[i]
      <4> HIDE DEF c
      <4> QED BY <1>1, <3>1, Slice DEF Text
    <3>3. DOMAIN y = 1 .. c - 1 BY <3>2, LenProperties DEF Text
    <3> HIDE DEF y
    <3> QED BY <2>1, <3>2, <3>3, NotTokens DEF Tokens, y
  <2> HIDE DEF c, d
  <2>3. c = a
    <3>1. ~(c < a)
      <4>1. c < a => c \in 1 .. Len(m) BY <1>1, <2>1
      <4>2. c < a => l[c] = m[c] /\ IsToken(m[c]) BY <1>1, <1>d, <4>1 DEF Tokens
      <4> QED BY <2>1, <4>2, NotTokens
    <3>2. ~(a < c)
      <4>1. a < c => a \in 1 .. c - 1 BY <1>1, <2>1
      <4> HIDE DEF a, b
      <4> QED BY <1>1, <2>2, <4>1
    <3> QED BY <1>6, <2>1, <3>1, <3>2
  <2>4. d = b
    <3>1. ~(d < b)
      <4>1. d < b => d \in a + 1 .. b - 1 BY <1>1, <2>1, <2>3
      <4> HIDE DEF a, b
      <4> QED BY <1>7, <2>1, <4>1
    <3>2. ~(b < d)
      <4>1. b < d => b \in c + 1 .. d - 1 BY <1>1, <1>6, <2>1, <2>3
      <4> HIDE DEF a, b
      <4> QED BY <1>1, <2>1, <4>1
    <3>3. d \in Nat /\ b \in Nat BY <1>1, <2>1
    <3> HIDE DEF a, b
    <3> QED BY <3>1, <3>2, <3>3
  <2> QED BY <1>3, <1>4, <2>3, <2>4 DEF MethodIn, UriIn, c, d
<1> QED BY <1>9, <1>10 DEF l

(* A byte more of the uri.                                                  *)
LEMMA PlainGrows ==
    ASSUME NEW u \in Text, Plain(u), NEW c \in Alphabet, ~IsCtl(c), c # "sp"
    PROVE  Plain(Append(u, c))
<1> DEFINE w == Append(u, c)
           n == Len(u)
<1>1. /\ n \in Nat /\ DOMAIN u = 1 .. n /\ DOMAIN w = 1 .. n + 1
      /\ (\A i \in 1 .. n : w[i] = u[i]) /\ w[n + 1] = c
  BY AppendIs
<1> HIDE DEF w, n
<1>2. \A i \in 1 .. n + 1 : i = n + 1 \/ i \in 1 .. n BY <1>1
<1> QED BY <1>1, <1>2 DEF Plain, w

(* A byte more of the request line.                                         *)
LEMMA LineSoFarGrows ==
    ASSUME NEW o \in Text, NEW c \in Alphabet, method \in Text, uri \in Text,
           state \in InRequestLine, LineSoFar(o, state, method, uri),
           NextState(c) \in InRequestLine,
           method' = IF NextState(c) = "method" THEN Append(method, c) ELSE method,
           uri' = IF NextState(c) = "uri" /\ state = "uri" THEN Append(uri, c) ELSE uri
    PROVE  LineSoFar(Append(o, c), NextState(c), method', uri')
<1> DEFINE n == NextState(c)
           w == Append(o, c)
<1>0. state \in States BY HttpFacts, ExpectedIs DEF InRequestLine, InVersion, States
<1>s. <<"sp">> \in Text /\ <<>> \in Text BY EmptySeq DEF Text, Alphabet
<1>p. method \o <<"sp">> \in Text BY <1>s, JoinIs
<1>1. CASE n = "method"
  <2>1. state \in {"method_start", "method"} /\ IsToken(c)
    BY <1>0, <1>1, Moves, HttpFacts DEF InRequestLine, InVersion
  <2>2. o = method /\ uri = <<>> BY <2>1, HttpFacts DEF LineSoFar, InVersion
  <2>3. method' = Append(method, c) /\ uri' = uri BY <1>1
  <2>4. Tokens(Append(method, c)) /\ Append(method, c) # <<>> BY <2>1, AppendClasses, AppendIs DEF LineSoFar
  <2> HIDE DEF n
  <2>5. "method" \notin InVersion BY HttpFacts DEF InVersion
  <2> QED BY <1>1, <2>2, <2>3, <2>4, <2>5 DEF LineSoFar, n
<1>2. CASE n = "uri"
  <2>0. n # "method" /\ "uri" \notin InVersion BY <1>2, HttpFacts DEF InVersion
  <2>1. CASE state = "method"
    <3>1. c = "sp" BY <1>0, <1>2, <2>1, Moves
    <3>2. o = method /\ uri = <<>> BY <2>1 DEF LineSoFar
    <3>3. method' = method /\ uri' = uri BY <2>0, <2>1
    <3>4. w = (method \o <<"sp">>) \o <<>>
      <4>1. Append(method, "sp") = method \o <<"sp">> BY <1>s, AppendIsConcat DEF Text, Alphabet
      <4>2. (method \o <<"sp">>) \o <<>> = method \o <<"sp">> BY <1>p, ConcatEmptySeq DEF Text
      <4> QED BY <3>1, <3>2, <4>1, <4>2
    <3>5. Tokens(method) /\ Plain(uri) /\ method # <<>> BY <2>1 DEF LineSoFar
    <3> HIDE DEF n, w
    <3> QED BY <1>2, <2>0, <3>2, <3>3, <3>4, <3>5 DEF LineSoFar, n, w
  <2>2. CASE state = "uri"
    <3>1. c # "sp" /\ ~IsCtl(c) BY <1>0, <1>2, <2>2, Moves
    <3>2. o = (method \o <<"sp">>) \o uri /\ Tokens(method) /\ Plain(uri) /\ method # <<>>
      BY <2>2 DEF LineSoFar
    <3>3. method' = method /\ uri' = Append(uri, c) BY <1>2, <2>2
    <3>4. w = (method \o <<"sp">>) \o Append(uri, c) BY <1>p, <3>2, JoinedAppend
    <3>5. Plain(Append(uri, c)) BY <3>1, <3>2, PlainGrows
    <3> HIDE DEF n, w
    <3> QED BY <1>2, <2>0, <3>2, <3>3, <3>4, <3>5 DEF LineSoFar, n, w
  <2>3. state \in {"method", "uri"}
    BY <1>0, <1>2, Moves, HttpFacts DEF InRequestLine, InVersion
  <2> QED BY <2>1, <2>2, <2>3
<1>3. CASE n \in InVersion
  <2>0. n \notin {"method_start", "method", "uri"} BY <1>3, HttpFacts DEF InVersion
  <2>1. method' = method /\ uri' = uri BY <2>0
  <2>2. state # "method_start" /\ state # "method"
    <3>1. state \in {"method_start", "method"} => n \in {"method", "uri", "bad"} BY <1>0, Moves
    <3>2. "bad" \notin InVersion BY HttpFacts DEF InVersion
    <3> QED BY <1>3, <2>0, <3>1, <3>2
  <2>3. Tokens(method) /\ Plain(uri) /\ method # <<>> BY <2>2 DEF LineSoFar
  <2>4. \E v \in Text : w = StartOf(method, uri) \o v /\ VersionSoFar(v, n)
    <3>1. CASE state = "uri"
      <4>1. n = "http_version_h" /\ c = "sp"
        <5>1. "bad" \notin InVersion BY HttpFacts DEF InVersion
        <5> QED BY <1>0, <1>3, <2>0, <3>1, <5>1, Moves
      <4>2. o = (method \o <<"sp">>) \o uri BY <3>1 DEF LineSoFar
      <4>3. (method \o <<"sp">>) \o uri \in Text BY <1>p, JoinIs
      <4>4. w = StartOf(method, uri)
        <5>1. Append(o, "sp") = o \o <<"sp">> BY <4>2, <4>3, AppendIsConcat DEF Text, Alphabet
        <5> QED BY <4>1, <4>2, <5>1 DEF StartOf
      <4>5. StartOf(method, uri) \in Text BY <1>s, <4>3, JoinIs DEF StartOf
      <4>6. w = StartOf(method, uri) \o <<>> BY <4>4, <4>5, ConcatEmptySeq DEF Text
      <4>7. Len(<<>>) = 0 BY EmptySeq
      <4> HIDE DEF n, w
      <4>8. VersionSoFar(<<>>, n) BY <4>1, <4>7, HttpFacts DEF VersionSoFar
      <4> QED BY <1>s, <4>6, <4>8
    <3>2. CASE state \in InVersion
      <4>1. PICK v \in Text : o = StartOf(method, uri) \o v /\ VersionSoFar(v, state)
        BY <3>2 DEF LineSoFar
      <4>2. StartOf(method, uri) \in Text BY StartType
      <4>3. w = StartOf(method, uri) \o Append(v, c) /\ Append(v, c) \in Text
        BY <4>1, <4>2, JoinedAppend
      <4>4. VersionSoFar(Append(v, c), n) BY <1>3, <3>2, <4>1, VersionGrows
      <4> QED BY <4>3, <4>4
    <3> QED BY <2>2, <3>1, <3>2 DEF InRequestLine
  <2> HIDE DEF n, w
  <2> QED BY <1>3, <2>0, <2>1, <2>3, <2>4 DEF LineSoFar, n, w
<1>4. n # "method_start"
  BY <1>0, Moves, HttpFacts DEF InRequestLine, InVersion
<1> QED BY <1>1, <1>2, <1>3, <1>4 DEF InRequestLine

-----------------------------------------------------------------------------
(***************************************************************************)
(* The header lines, a byte at a time.                                      *)
(***************************************************************************)

(* The header lines as far as they have come: what the open line o and the  *)
(* headers H are in state s behind the lines hs.                            *)
Named(m) == [name |-> m, value |-> <<>>]
HeadersSoFar(hs, o, s, H) ==
    /\ s = "header_line_start" => o = <<>> /\ H = HeadersIn(hs)
    /\ s = "header_name" => o # <<>> /\ Tokens(o) /\ H = Append(HeadersIn(hs), Named(o))
    /\ s = "space_before_header_value" =>
         \E m \in Text : /\ m # <<>> /\ Tokens(m) /\ o = Append(m, ":")
                         /\ H = Append(HeadersIn(hs), Named(m))
    /\ s \in {"header_lws", "header_value"} => Fits(hs, o) /\ H = HeadersIn(Append(hs, o))
    /\ s = "header_lws" => IsFolded(o) /\ Ink(o) = {}
    /\ s = "header_value" => (IsFolded(o) => Ink(o) # {})
    /\ s = "expecting_newline_2" =>
         \E x \in Text : o = Append(x, "cr") /\ Fits(hs, x) /\ H = HeadersIn(Append(hs, x))
    /\ s = "expecting_newline_3" => o = <<"cr">> /\ H = HeadersIn(hs)

HeaderStates == {"header_line_start", "header_name", "space_before_header_value", "header_lws",
                 "header_value", "expecting_newline_2", "expecting_newline_3"}

(* consume() appends to a field of the last header.                         *)
LEMMA FieldAppend ==
    ASSUME NEW r, NEW x, NEW y, r = [name |-> x, value |-> y], NEW c
    PROVE  /\ [r EXCEPT !.name = Append(@, c)] = [name |-> Append(r.name, c), value |-> r.value]
           /\ [r EXCEPT !.value = Append(@, c)] = [name |-> r.name, value |-> Append(r.value, c)]
<1>1. [r EXCEPT !.name = Append(@, c)] = [name |-> Append(r.name, c), value |-> r.value] OBVIOUS
<1>2. [r EXCEPT !.value = Append(@, c)] = [name |-> r.name, value |-> Append(r.value, c)] OBVIOUS
<1> QED BY <1>1, <1>2

LEMMA BackIs ==
    ASSUME headers \in Seq(Header), headers # <<>>, NEW c
    PROVE  /\ WithBack([Back EXCEPT !.value = Append(@, c)]) = MoreValue(headers, c)
           /\ WithBack([Back EXCEPT !.name = Append(@, c)]) =
                SetBack(headers, [name |-> Append(Back.name, c), value |-> Back.value])
           /\ Back \in Header
<1>1. Len(headers) \in Nat \ {0} BY EmptySeq
<1>2. Len(headers) \in 1 .. Len(headers) BY <1>1
<1>3. Back \in Header BY <1>2, ElementOfSeq DEF Back
<1>4. PICK x, y : Back = [name |-> x, value |-> y] BY <1>3 DEF Header
<1> DEFINE v == [Back EXCEPT !.value = Append(@, c)]
           m == [Back EXCEPT !.name = Append(@, c)]
<1>5. /\ m = [name |-> Append(Back.name, c), value |-> Back.value]
      /\ v = [name |-> Back.name, value |-> Append(Back.value, c)]
  BY <1>4, FieldAppend
<1> HIDE DEF v, m
<1>6. \A b : WithBack(b) = SetBack(headers, b) BY DEF WithBack, SetBack
<1>7. Back = headers[Len(headers)] BY DEF Back
<1>8. WithBack(v) = MoreValue(headers, c) BY <1>5, <1>6, <1>7 DEF MoreValue
<1>9. WithBack(m) = SetBack(headers, [name |-> Append(Back.name, c), value |-> Back.value]) BY <1>5, <1>6
<1> QED BY <1>3, <1>8, <1>9 DEF v, m

(* The first byte of a line.                                                *)
LEMMA OneByte ==
    ASSUME NEW c \in Alphabet
    PROVE  /\ <<c>> \in Text /\ <<c>> # <<>> /\ Append(<<>>, c) = <<c>> /\ <<c>>[1] = c
           /\ DOMAIN <<c>> = {1} /\ Tokens(<<c>>) <=> IsToken(c)
           /\ <<>> \in Text /\ Len(<<>>) = 0
<1>1. <<c>> \in Text /\ <<c>> # <<>> /\ Append(<<>>, c) = <<c>> /\ <<c>>[1] = c /\ Len(<<c>>) = 1
  BY DEF Text
<1>2. DOMAIN <<c>> = {1} OBVIOUS
<1>3. Tokens(<<c>>) <=> IsToken(c) BY <1>1, <1>2 DEF Tokens
<1> QED BY <1>1, <1>2, <1>3, EmptySeq DEF Text

(* A folded line of blanks adds nothing.                                    *)
LEMMA BlankLine ==
    ASSUME NEW hs, Block(hs), hs # <<>>, NEW x \in Text, IsFolded(x), Ink(x) = {}
    PROVE  Fits(hs, x) /\ HeadersIn(Append(hs, x)) = HeadersIn(hs)
<1>1. FoldText(x) = <<>> BY FoldFacts
<1>2. Printable(<<>>) BY DEF Printable
<1>3. Fits(hs, x) BY <1>1, <1>2 DEF Fits
<1>4. HeadersIn(Append(hs, x)) = Continued(HeadersIn(hs), <<>>) BY <1>1, <1>3, HeadersGrow
<1>5. <<>> \in Text BY EmptySeq DEF Text
<1>6. HeadersIn(hs) \in Seq(Header) /\ HeadersIn(hs) # <<>> BY HeadersType
<1>7. Continued(HeadersIn(hs), <<>>) = HeadersIn(hs) BY <1>5, <1>6, ContinuedIs
<1> QED BY <1>3, <1>4, <1>7

(* A byte more of a header line.                                            *)
LEMMA HeadersSoFarGrow ==
    ASSUME NEW hs, Block(hs), NEW o \in Text, NEW c \in Alphabet, headers \in Seq(Header),
           state \in HeaderStates, HeadersSoFar(hs, o, state, headers),
           state \notin {"expecting_newline_2", "expecting_newline_3"}, NextState(c) # "bad"
    PROVE  /\ NextState(c) \in HeaderStates \ {"header_line_start"}
           /\ HeadersSoFar(hs, Append(o, c), NextState(c), NextHeaders(c, NextState(c)))
<1> DEFINE n == NextState(c)
           w == Append(o, c)
           G == HeadersIn(hs)
           H == NextHeaders(c, n)
<1>0. state \in States BY ExpectedIs DEF HeaderStates, States
<1>1. G \in Seq(Header) /\ (G = <<>> <=> hs = <<>>) BY HeadersType
<1>2. w \in Text /\ w # <<>> BY AppendIs
<1>k. "sp" \in Blank /\ "tab" \in Blank /\ "cr" \notin Blank BY DEF Blank
<1>3. CASE state = "header_line_start"
  <2>1. o = <<>> /\ headers = G BY <1>3 DEF HeadersSoFar
  <2>2. w = <<c>> BY <2>1, OneByte
  <2>3. \/ n = "expecting_newline_3" /\ c = "cr"
        \/ n = "header_lws" /\ headers # <<>> /\ c \in Blank
        \/ n = "header_name" /\ IsToken(c)
    BY <1>0, <1>3, Moves
  <2>4. CASE n = "expecting_newline_3" /\ c = "cr"
    <3>1. H = headers BY <2>4 DEF NextHeaders
    <3> HIDE DEF n, w, H
    <3> QED BY <2>1, <2>2, <2>4, <3>1 DEF HeadersSoFar, HeaderStates, n, w, H
  <2>5. CASE n = "header_lws" /\ headers # <<>> /\ c \in Blank
    <3>1. H = headers BY <2>5 DEF NextHeaders
    <3>2. IsFolded(w) BY <2>2, <2>5, OneByte DEF IsFolded
    <3>3. Ink(w) = {} BY <2>2, <2>5, OneByte DEF Ink
    <3>4. Fits(hs, w) /\ HeadersIn(Append(hs, w)) = G
      BY <1>1, <1>2, <2>1, <2>5, <3>2, <3>3, BlankLine
    <3> HIDE DEF n, w, H
    <3> QED BY <2>1, <2>5, <3>1, <3>2, <3>3, <3>4 DEF HeadersSoFar, HeaderStates, n, w, H
  <2>6. CASE n = "header_name" /\ IsToken(c)
    <3>1. H = Append(headers, [Empty EXCEPT !.name = <<c>>]) BY <1>3, <2>6 DEF NextHeaders
    <3>2. [Empty EXCEPT !.name = <<c>>] = Named(<<c>>) BY DEF Empty, Named
    <3>3. Tokens(w) BY <2>2, <2>6, OneByte
    <3> HIDE DEF n, w, H
    <3> QED BY <1>2, <2>1, <2>2, <2>6, <3>1, <3>2, <3>3 DEF HeadersSoFar, HeaderStates, n, w, H
  <2> QED BY <2>3, <2>4, <2>5, <2>6
<1>4. CASE state = "header_name"
  <2>1. o # <<>> /\ Tokens(o) /\ headers = Append(G, Named(o)) BY <1>4 DEF HeadersSoFar
  <2>2. (n = "header_name" /\ IsToken(c)) \/ (n = "space_before_header_value" /\ c = ":")
    BY <1>0, <1>4, Moves
  <2>3. CASE n = "header_name" /\ IsToken(c)
    <3>1. H = WithBack([Back EXCEPT !.name = Append(@, c)]) BY <1>4, <2>3 DEF NextHeaders
    <3>2. Named(o) \in Header /\ Named(w) \in Header
      BY <1>2, OneByte DEF Named, Header, Field, Text
    <3>3. headers # <<>> /\ headers[Len(headers)] = Named(o) /\ SetBack(headers, Named(w)) = Append(G, Named(w))
      <4>1. \A g \in Seq(Header), h, b \in Header : headers = Append(g, h) =>
              headers # <<>> /\ headers[Len(headers)] = h /\ SetBack(headers, b) = Append(g, b)
        <5> SUFFICES ASSUME NEW g \in Seq(Header), NEW h \in Header, NEW b \in Header,
                            headers = Append(g, h)
                     PROVE  /\ headers # <<>> /\ headers[Len(headers)] = h
                            /\ SetBack(headers, b) = Append(g, b)
          OBVIOUS
        <5> QED BY BackOfAppend
      <4> HIDE DEF G
      <4>2. G \in Seq(Header) BY <1>1
      <4> QED BY <2>1, <3>2, <4>1, <4>2
    <3>4. Back = Named(o) BY <3>3 DEF Back
    <3>5. [name |-> Append(Back.name, c), value |-> Back.value] = Named(w) BY <3>4 DEF Named
    <3>6. H = Append(G, Named(w)) BY <3>1, <3>3, <3>5, BackIs
    <3>7. Tokens(w) BY <2>1, <2>3, AppendClasses
    <3> HIDE DEF n, w, H
    <3> QED BY <1>2, <2>3, <3>6, <3>7 DEF HeadersSoFar, HeaderStates, n, w, H
  <2>4. CASE n = "space_before_header_value" /\ c = ":"
    <3>1. H = headers BY <2>4 DEF NextHeaders
    <3> HIDE DEF n, H
    <3> QED BY <2>1, <2>4, <3>1 DEF HeadersSoFar, HeaderStates, n, H
  <2> QED BY <2>2, <2>3, <2>4
<1>5. CASE state = "space_before_header_value"
  <2>1. PICK m \in Text : m # <<>> /\ Tokens(m) /\ o = Append(m, ":") /\ headers = Append(G, Named(m))
    BY <1>5 DEF HeadersSoFar
  <2>2. n = "header_value" /\ c = "sp" BY <1>0, <1>5, Moves
  <2>3. H = headers BY <1>5, <2>2 DEF NextHeaders
  <2>4. Colons(w) # {} /\ HeaderOf(w) = Named(m) /\ ~IsFolded(w) BY <2>1, <2>2, NameEnds DEF Named
  <2>5. Fits(hs, w) BY <2>4 DEF Fits
  <2>6. HeadersIn(Append(hs, w)) = Append(G, Named(m)) BY <1>2, <2>4, <2>5, HeadersGrow
  <2> HIDE DEF n, w, H
  <2> QED BY <2>1, <2>2, <2>3, <2>4, <2>5, <2>6 DEF HeadersSoFar, HeaderStates, n, w, H
<1>6. CASE state \in {"header_lws", "header_value"}
  <2>1. Fits(hs, o) /\ headers = HeadersIn(Append(hs, o)) BY <1>6 DEF HeadersSoFar
  <2>2. /\ state = "header_lws" => IsFolded(o) /\ Ink(o) = {}
        /\ state = "header_value" => (IsFolded(o) => Ink(o) # {})
    BY DEF HeadersSoFar
  <2>3. headers # <<>>
    <3>1. Block(Append(hs, o)) BY <2>1, BlockGrows
    <3>2. Append(hs, o) # <<>> BY AppendProperties DEF Block
    <3> QED BY <2>1, <3>1, <3>2, HeadersType
  <2>4. \/ state = "header_lws" /\ n = "header_lws" /\ c \in Blank
        \/ n = "expecting_newline_2" /\ c = "cr"
        \/ n = "header_value" /\ ~IsCtl(c) /\ (state = "header_lws" => c # "sp")
    BY <1>0, <1>6, Moves
  <2>5. Ink(w) = IF c \in Blank THEN Ink(o) ELSE Ink(o) \cup {Len(o) + 1} BY InkGrows
  <2>6. CASE state = "header_lws" /\ n = "header_lws" /\ c \in Blank
    <3>1. H = headers BY <2>6 DEF NextHeaders
    <3>2. IsFolded(o) /\ Ink(w) = {} /\ o # <<>> BY <2>2, <2>5, <2>6 DEF IsFolded
    <3>3. IsFolded(w) BY <3>2, FoldedStays
    <3>4. hs # <<>> BY <2>1, <3>2 DEF Fits
    <3>5. Fits(hs, w) /\ HeadersIn(Append(hs, w)) = G BY <1>2, <3>2, <3>3, <3>4, BlankLine
    <3>6. headers = G BY <2>1, <2>2, <2>6, <3>4, BlankLine
    <3> HIDE DEF n, w, H
    <3> QED BY <2>6, <3>1, <3>2, <3>3, <3>5, <3>6 DEF HeadersSoFar, HeaderStates, n, w, H
  <2>7. CASE n = "expecting_newline_2" /\ c = "cr"
    <3>1. H = headers BY <2>7 DEF NextHeaders
    <3> HIDE DEF n, H
    <3> QED BY <2>1, <2>7, <3>1 DEF HeadersSoFar, HeaderStates, n, H
  <2>8. CASE n = "header_value" /\ ~IsCtl(c) /\ (state = "header_lws" => c # "sp")
    <3>1. H = MoreValue(headers, c)
      <4>1. H = WithBack([Back EXCEPT !.value = Append(@, c)]) BY <1>6, <2>8 DEF NextHeaders
      <4> HIDE DEF H
      <4> QED BY <2>3, <4>1, BackIs
    <3>2. state = "header_lws" => c \notin Blank BY <2>8 DEF Blank, IsCtl
    <3>3. IsFolded(o) => Ink(w) # {} BY <1>6, <2>2, <2>5, <3>2
    <3>4. Fits(hs, w) /\ HeadersIn(Append(hs, w)) = MoreValue(HeadersIn(Append(hs, o)), c)
      BY <2>1, <2>8, <3>3, ValueGrows
    <3>5. o # <<>> => (IsFolded(w) => Ink(w) # {}) BY <3>3, FoldedStays
    <3>6. o # <<>>
      <4>1. IsFolded(o) => o # <<>> BY DEF IsFolded
      <4>2. Colons(o) # {} => o # <<>> BY LineHeader
      <4> QED BY <2>1, <4>1, <4>2 DEF Fits
    <3> HIDE DEF n, w, H
    <3> QED BY <2>1, <2>8, <3>1, <3>4, <3>5, <3>6 DEF HeadersSoFar, HeaderStates, n, w, H
  <2> QED BY <2>4, <2>6, <2>7, <2>8
<1> QED BY <1>3, <1>4, <1>5, <1>6 DEF HeaderStates

-----------------------------------------------------------------------------
(***************************************************************************)
(* The inductive invariant: the lines that have ended and the one that is   *)
(* open say which state the parser is in and what its fields hold.          *)
(***************************************************************************)

(* What the parser has read: the lines that ended, ls, and the open one, o, *)
(* in state s with the fields m, u and H.                                   *)
Newlines == {"expecting_newline_1", "expecting_newline_2", "expecting_newline_3"}
HeaderLines(ls) == SubSeq(ls, 2, Len(ls))
Begun(l, m, u) ==
    RequestLines(l) # {} /\ \A p \in RequestLines(l) : MethodIn(l, p) = m /\ UriIn(l, p) = u
Reading(ls, o, s, m, u, H) ==
    /\ o # <<>> /\ o[Len(o)] = "cr" => s \in Newlines
    /\ s \in InRequestLine => ls = <<>> /\ H = <<>> /\ LineSoFar(o, s, m, u)
    /\ s \notin InRequestLine =>
         /\ ls # <<>> /\ Begun(ls[1], m, u)
         /\ Block(HeaderLines(ls)) /\ HeadersSoFar(HeaderLines(ls), o, s, H)
ReadInv ==
    IF result = "indeterminate" THEN Reading(Lines(input), Open(input), state, method, uri, headers)
    ELSE AgreesWithGrammar

(* The states of the request line and those of the header lines.            *)
LEMMA StatesAre ==
    /\ States = InRequestLine \cup HeaderStates
    /\ InRequestLine =
         {"method_start", "method", "uri", "http_version_h", "http_version_t_1", "http_version_t_2",
          "http_version_p", "http_version_slash", "http_version_major_start", "http_version_major",
          "http_version_minor_start", "http_version_minor", "expecting_newline_1"}
<1>1. InRequestLine =
         {"method_start", "method", "uri", "http_version_h", "http_version_t_1", "http_version_t_2",
          "http_version_p", "http_version_slash", "http_version_major_start", "http_version_major",
          "http_version_minor_start", "http_version_minor", "expecting_newline_1"}
  BY HttpFacts DEF InRequestLine, InVersion
<1> QED BY <1>1, ExpectedIs DEF States, HeaderStates

(* Where a byte leads, by the part of the request it is in.                 *)
LEMMA Parts ==
    ASSUME NEW c \in Alphabet, state \in States
    PROVE  LET n == NextState(c) IN
           /\ n \in States \cup {"good", "bad"}
           /\ state \in Newlines /\ c = "lf" => n # "bad"
           /\ n = "good" => state = "expecting_newline_3" /\ c = "lf"
           /\ c = "cr" /\ n \notin {"good", "bad"} => n \in Newlines
           /\ state \in InRequestLine =>
                \/ n \in InRequestLine \cup {"bad"} /\ (state = "expecting_newline_1" => c # "lf")
                \/ state = "expecting_newline_1" /\ c = "lf" /\ n = "header_line_start"
           /\ state = "expecting_newline_2" =>
                n = "bad" \/ (c = "lf" /\ n = "header_line_start")
           /\ state = "expecting_newline_3" => n \in {"good", "bad"}
<1> DEFINE n == NextState(c)
<1>1. CASE state \in InRequestLine
  <2>1. \/ n \in InRequestLine \cup {"bad"} /\ (state = "expecting_newline_1" => c # "lf")
        \/ state = "expecting_newline_1" /\ c = "lf" /\ n = "header_line_start"
    BY <1>1, Moves, StatesAre
  <2>2. state \in Newlines => state = "expecting_newline_1" BY <1>1, StatesAre DEF Newlines
  <2>3. state \in Newlines /\ c = "lf" => n # "bad" BY <2>2, Moves
  <2>4. c = "cr" /\ n # "bad" => n = "expecting_newline_1"
    BY <1>1, Moves, StatesAre, NotTokens DEF IsDigit, IsCtl
  <2>5. "good" \notin InRequestLine BY StatesAre
  <2> HIDE DEF n
  <2>6. n \in States \cup {"good", "bad"} BY <2>1, StatesAre DEF HeaderStates
  <2>7. state # "expecting_newline_2" /\ state # "expecting_newline_3" BY <1>1, StatesAre
  <2> QED BY <2>1, <2>3, <2>4, <2>5, <2>6, <2>7 DEF n, Newlines
<1>2. CASE state \in HeaderStates
  <2>1. state \notin InRequestLine BY <1>2, StatesAre DEF HeaderStates
  <2>2. n \in HeaderStates \cup {"good", "bad"} BY <1>2, Moves DEF HeaderStates
  <2>3. n = "good" => state = "expecting_newline_3" /\ c = "lf" BY <1>2, Moves DEF HeaderStates
  <2>4. c = "cr" /\ n \notin {"good", "bad"} => n \in Newlines
    BY <1>2, Moves, NotTokens DEF HeaderStates, IsCtl, Newlines, Blank
  <2>5. state \in Newlines /\ c = "lf" => n # "bad" BY Moves DEF Newlines
  <2>6. /\ state = "expecting_newline_2" => n = "bad" \/ (c = "lf" /\ n = "header_line_start")
        /\ state = "expecting_newline_3" => n \in {"good", "bad"}
    BY Moves
  <2> HIDE DEF n
  <2> QED BY <2>1, <2>2, <2>3, <2>4, <2>5, <2>6, StatesAre DEF n
<1> QED BY <1>1, <1>2, StatesAre

(* One more line behind the first.                                          *)
LEMMA HeaderLinesGrow ==
    ASSUME NEW ls \in Seq(Text), ls # <<>>, NEW x \in Text
    PROVE  /\ Append(ls, x) # <<>> /\ Append(ls, x)[1] = ls[1] /\ Append(ls, x) \in Seq(Text)
           /\ HeaderLines(Append(ls, x)) = Append(HeaderLines(ls), x)
           /\ HeaderBlock(Append(ls, x)) = HeaderLines(ls)
           /\ Len(Append(ls, x)) = Len(ls) + 1 /\ Len(ls) \in Nat \ {0}
           /\ Append(ls, x)[Len(ls) + 1] = x
<1> DEFINE w == Append(ls, x)
           n == Len(ls)
<1>1. n \in Nat \ {0} BY EmptySeq, LenProperties
<1>2. /\ w \in Seq(Text) /\ w # <<>> /\ Len(w) = n + 1 /\ w[n + 1] = x
      /\ \A i \in 1 .. n : w[i] = ls[i]
  BY AppendProperties
<1>3. w[1] = ls[1] BY <1>1, <1>2
<1>4. 2 \in 1 .. n + 1 BY <1>1
<1>5. SubSeq(w, 2, n + 1) = Append(SubSeq(ls, 2, n), x) BY <1>4, StretchGrows
<1>6. HeaderLines(w) = Append(HeaderLines(ls), x) BY <1>2, <1>5 DEF HeaderLines
<1>7. SubSeq(w, 2, n) = SubSeq(ls, 2, n)
  <2>1. n \in Int /\ n <= Len(w) /\ n <= Len(ls) /\ 2 \in Nat \ {0} BY <1>1, <1>2
  <2>2. \A i \in 2 .. n : i \in 1 .. n BY <1>1
  <2>3. \A i \in 2 .. n : w[i] = ls[i] BY <1>2, <2>2
  <2> HIDE DEF w, n
  <2> QED BY <1>2, <2>1, <2>3, SliceSame
<1>8. Len(w) - 1 = n BY <1>1, <1>2
<1>9. HeaderBlock(w) = HeaderLines(ls) BY <1>7, <1>8 DEF HeaderBlock, HeaderLines
<1> QED BY <1>1, <1>2, <1>3, <1>6, <1>9

(* What is still being read is no request.                                  *)
LEMMA NotYet ==
    ASSUME NEW t \in Text, Reading(Lines(t), Open(t), state, method, uri, headers)
    PROVE  ~IsRequest(t)
<1> SUFFICES ASSUME IsRequest(t) PROVE FALSE
  OBVIOUS
<1> DEFINE ls == Lines(t)
<1>1. ls \in Seq(Text) /\ Len(ls) \in Nat BY LinesType DEF Text
<1>2. Len(ls) >= 2 /\ ls[Len(ls)] = <<>> BY DEF IsRequest
<1>3. ls # <<>> BY <1>1, <1>2, EmptySeq
<1>4. Block(HeaderLines(ls)) BY <1>3 DEF Reading
<1> HIDE DEF ls
<1> DEFINE hs == HeaderLines(ls)
           n == Len(ls)
<1>5. 2 \in 1 .. n + 1 /\ n \in 2 - 1 .. n /\ n - 2 + 1 = n - 1 /\ n - 1 \in 1 .. n - 1 /\ 2 + (n - 1) - 1 = n
  BY <1>1, <1>2
<1>6. Len(hs) = n - 1 /\ hs[n - 1] = ls[n]
  <2>1. Len(hs) = n - 2 + 1 /\ \A j \in 1 .. n - 2 + 1 : hs[j] = ls[2 + j - 1]
    BY <1>1, <1>5, Slice DEF HeaderLines
  <2> HIDE DEF hs, n
  <2> QED BY <1>5, <2>1
<1>7. IsHeaderLine(hs, n - 1) BY <1>4, <1>5, <1>6 DEF Block
<1>8. hs[n - 1] = <<>> BY <1>2, <1>6
<1>9. ~IsFolded(<<>>) BY DEF IsFolded
<1>10. Colons(<<>>) # {} BY <1>7, <1>8, <1>9 DEF IsHeaderLine
<1>11. <<>> \in Text BY EmptySeq DEF Text
<1> QED BY <1>10, <1>11, LineHeader

(* A byte that does not end a line.                                         *)
LEMMA OpenGrows ==
    ASSUME NEW c \in Alphabet, TypeOK, input' = Append(input, c), ~EndsLine(Open(input), c)
    PROVE  /\ Lines(input') = Lines(input) /\ Open(input') = Append(Open(input), c)
           /\ Open(input') # <<>> /\ Open(input')[Len(Open(input'))] = c
           /\ Open(input) \in Text /\ input' \in Text
<1> DEFINE t == input
           o == Open(t)
           w == Append(o, c)
<1>1. t \in Text /\ o \in Text /\ Append(t, c) \in Text
  BY LinesType, AppendProperties DEF TypeOK, Field, Text
<1>2. Lines(Append(t, c)) = Lines(t) /\ Open(Append(t, c)) = w BY <1>1, LineGrows DEF Text
<1>3. w # <<>> /\ w[Len(w)] = c
  <2> HIDE DEF o
  <2>1. w # <<>> /\ Len(w) = Len(o) + 1 /\ w[Len(o) + 1] = c BY <1>1, AppendIs
  <2> QED BY <2>1
<1> HIDE DEF w
<1> QED BY <1>1, <1>2, <1>3 DEF w

(* A byte that ends a line.                                                 *)
LEMMA LineEnded ==
    ASSUME NEW c \in Alphabet, TypeOK, input' = Append(input, c), NEW x \in Text,
           Open(input) = Append(x, "cr"), c = "lf"
    PROVE  Lines(input') = Append(Lines(input), x) /\ Open(input') = <<>>
<1> DEFINE t == input
           o == Open(t)
<1>1. t \in Text BY DEF TypeOK, Field, Text
<1>c. "cr" \in Alphabet BY DEF Alphabet
<1>2. o # <<>> /\ o[Len(o)] = "cr" /\ SubSeq(o, 1, Len(o) - 1) = x
  <2> DEFINE y == Append(x, "cr")
  <2>1. y # <<>> /\ Len(y) = Len(x) + 1 /\ y[Len(x) + 1] = "cr" /\ SubSeq(y, 1, Len(y) - 1) = x
    BY <1>c, AppendIs
  <2>2. o = y OBVIOUS
  <2> HIDE DEF o, y
  <2> QED BY <2>1, <2>2
<1>3. EndsLine(o, c) BY <1>2 DEF EndsLine
<1> HIDE DEF o
<1> QED BY <1>1, <1>2, <1>3, LineGrows DEF Text, o

(* A byte of the request line.                                              *)
LEMMA ReadsRequestLine ==
    ASSUME NEW c \in Alphabet, TypeOK, input' = Append(input, c),
           Reading(Lines(input), Open(input), state, method, uri, headers),
           state \in InRequestLine, NextState(c) \in InRequestLine,
           method' = IF NextState(c) = "method" THEN Append(method, c) ELSE method,
           uri' = IF NextState(c) = "uri" /\ state = "uri" THEN Append(uri, c) ELSE uri,
           headers' = NextHeaders(c, NextState(c))
    PROVE  Reading(Lines(input'), Open(input'), NextState(c), method', uri', headers')
<1> DEFINE n == NextState(c)
           o == Open(input)
           w == Open(input')
<1>0. state \in States /\ method \in Text /\ uri \in Text BY DEF TypeOK, Field, Text
<1>1. Lines(input) = <<>> /\ headers = <<>> /\ LineSoFar(o, state, method, uri)
      /\ (o # <<>> /\ o[Len(o)] = "cr" => state \in Newlines)
  BY DEF Reading
<1>2. ~EndsLine(o, c)
  <2>1. state \in Newlines => state = "expecting_newline_1" BY StatesAre DEF Newlines
  <2>2. state = "expecting_newline_1" => c # "lf"
    <3>1. "header_line_start" \notin InRequestLine BY StatesAre
    <3> QED BY <1>0, <3>1, Parts
  <2> QED BY <1>1, <2>1, <2>2 DEF EndsLine
<1>3. /\ Lines(input') = <<>> /\ w = Append(o, c) /\ w # <<>> /\ w[Len(w)] = c /\ o \in Text
  BY <1>1, <1>2, OpenGrows
<1>4. LineSoFar(Append(o, c), n, method', uri') BY <1>0, <1>1, <1>3, LineSoFarGrows
<1>5. n \notin {"header_name", "header_value", "good", "bad"} BY StatesAre
<1>6. headers' = <<>> BY <1>1, <1>5 DEF NextHeaders
<1>7. c = "cr" => n \in Newlines BY <1>0, <1>5, Parts
<1> HIDE DEF n, w, o
<1> QED BY <1>3, <1>4, <1>6, <1>7 DEF Reading, n, w, o

(* The end of the request line.                                             *)
LEMMA EndsRequestLine ==
    ASSUME NEW c \in Alphabet, TypeOK, input' = Append(input, c),
           Reading(Lines(input), Open(input), state, method, uri, headers),
           state = "expecting_newline_1", c = "lf",
           method' = method, uri' = uri, headers' = headers
    PROVE  Reading(Lines(input'), Open(input'), "header_line_start", method', uri', headers')
<1> DEFINE o == Open(input)
           a == StartOf(method, uri)
<1>0. method \in Text /\ uri \in Text /\ a \in Text BY StartType DEF TypeOK, Field, Text
<1>c. "cr" \in Alphabet BY DEF Alphabet
<1>1. Lines(input) = <<>> /\ headers = <<>> /\ LineSoFar(o, state, method, uri)
  BY StatesAre DEF Reading
<1>2. /\ Tokens(method) /\ Plain(uri) /\ method # <<>>
      /\ \E v \in Text : o = a \o v /\ VersionSoFar(v, state)
  BY <1>1, HttpFacts DEF LineSoFar, InVersion
<1>3. PICK v \in Text : o = a \o v /\ VersionSoFar(v, state) BY <1>2
<1>4. PICK r \in Text : v = Append(r, "cr") /\ IsVersion(r) BY <1>3 DEF VersionSoFar
<1> HIDE DEF a
<1> DEFINE l == a \o r
<1>5. o = Append(l, "cr") /\ l \in Text BY <1>0, <1>c, <1>3, <1>4, JoinedAppend
<1>6. RequestLines(l) # {} /\ \A p \in RequestLines(l) : MethodIn(l, p) = method /\ UriIn(l, p) = uri
  BY <1>0, <1>2, <1>4, RequestLineIs DEF a
<1> HIDE DEF l
<1>7. Lines(input') = Append(<<>>, l) /\ Open(input') = <<>> BY <1>1, <1>5, LineEnded
<1>8. Append(<<>>, l) = <<l>> /\ <<l>>[1] = l /\ <<l>> # <<>> /\ HeaderLines(<<l>>) = <<>>
  BY DEF HeaderLines
<1>9. Block(<<>>)
  <2>1. <<>> \in Seq(Text) /\ Len(<<>>) = 0 BY EmptySeq
  <2> QED BY <2>1 DEF Block
<1>10. HeadersIn(<<>>) = <<>> BY <1>9, HeadersType
<1>11. HeadersSoFar(<<>>, <<>>, "header_line_start", <<>>) BY <1>10 DEF HeadersSoFar
<1>12. "header_line_start" \notin InRequestLine BY StatesAre
<1> QED BY <1>1, <1>6, <1>7, <1>8, <1>9, <1>11, <1>12 DEF Reading, Begun

(* A byte of a header line.                                                 *)
LEMMA ReadsHeader ==
    ASSUME NEW c \in Alphabet, TypeOK, input' = Append(input, c),
           Reading(Lines(input), Open(input), state, method, uri, headers),
           state \in HeaderStates \ Newlines, NextState(c) # "bad",
           method' = method, uri' = uri, headers' = NextHeaders(c, NextState(c))
    PROVE  Reading(Lines(input'), Open(input'), NextState(c), method', uri', headers')
<1> DEFINE n == NextState(c)
           o == Open(input)
           w == Open(input')
           ls == Lines(input)
           hs == HeaderLines(ls)
<1>0. state \in States /\ headers \in Seq(Header) BY DEF TypeOK, Header
<1>1. state \notin InRequestLine BY StatesAre DEF HeaderStates
<1>2. /\ ls # <<>> /\ Begun(ls[1], method, uri) /\ Block(hs) /\ HeadersSoFar(hs, o, state, headers)
      /\ (o # <<>> /\ o[Len(o)] = "cr" => state \in Newlines)
  BY <1>1 DEF Reading
<1>3. ~EndsLine(o, c) BY <1>2 DEF EndsLine
<1>4. /\ Lines(input') = ls /\ w = Append(o, c) /\ w # <<>> /\ w[Len(w)] = c /\ o \in Text
  BY <1>3, OpenGrows
<1>5. n \in HeaderStates /\ HeadersSoFar(hs, Append(o, c), n, headers')
  <2>1. state \in HeaderStates /\ state \notin {"expecting_newline_2", "expecting_newline_3"} BY DEF Newlines
  <2> QED BY <1>0, <1>2, <1>4, <2>1, HeadersSoFarGrow
<1>6. n \notin InRequestLine /\ n \notin {"good", "bad"} BY <1>5, StatesAre DEF HeaderStates
<1>7. c = "cr" => n \in Newlines BY <1>0, <1>6, Parts
<1> HIDE DEF n, w, o, ls
<1> QED BY <1>2, <1>4, <1>5, <1>6, <1>7 DEF Reading, n, w, o, ls

(* The end of a header line.                                                *)
LEMMA EndsHeader ==
    ASSUME NEW c \in Alphabet, TypeOK, input' = Append(input, c),
           Reading(Lines(input), Open(input), state, method, uri, headers),
           state = "expecting_newline_2", c = "lf",
           method' = method, uri' = uri, headers' = headers
    PROVE  Reading(Lines(input'), Open(input'), "header_line_start", method', uri', headers')
<1> DEFINE o == Open(input)
           ls == Lines(input)
           hs == HeaderLines(ls)
<1>1. state \notin InRequestLine /\ "header_line_start" \notin InRequestLine BY StatesAre
<1>2. /\ ls # <<>> /\ Begun(ls[1], method, uri) /\ Block(hs) /\ HeadersSoFar(hs, o, state, headers)
  BY <1>1 DEF Reading
<1>3. PICK x \in Text : o = Append(x, "cr") /\ Fits(hs, x) /\ headers = HeadersIn(Append(hs, x))
  BY <1>2 DEF HeadersSoFar
<1>4. Lines(input') = Append(ls, x) /\ Open(input') = <<>> BY <1>3, LineEnded
<1>5. ls \in Seq(Text) BY LinesType DEF TypeOK, Field, Text
<1> HIDE DEF ls
<1>6. /\ Append(ls, x) # <<>> /\ Append(ls, x)[1] = ls[1]
      /\ HeaderLines(Append(ls, x)) = Append(hs, x)
  BY <1>2, <1>5, HeaderLinesGrow
<1>7. Block(Append(hs, x)) BY <1>2, <1>3, BlockGrows
<1>8. HeadersSoFar(Append(hs, x), <<>>, "header_line_start", headers) BY <1>3 DEF HeadersSoFar
<1> HIDE DEF hs
<1> QED BY <1>1, <1>2, <1>4, <1>6, <1>7, <1>8 DEF Reading

(* The empty line: a request.                                               *)
LEMMA EndsRequest ==
    ASSUME NEW c \in Alphabet, TypeOK, input' = Append(input, c),
           Reading(Lines(input), Open(input), state, method, uri, headers),
           state = "expecting_newline_3", c = "lf", result' = "good",
           method' = method, uri' = uri, headers' = headers
    PROVE  AgreesWithGrammar'
<1> DEFINE o == Open(input)
           ls == Lines(input)
           hs == HeaderLines(ls)
           t == input'
<1>1. state \notin InRequestLine BY StatesAre
<1>2. /\ ls # <<>> /\ Begun(ls[1], method, uri) /\ Block(hs) /\ HeadersSoFar(hs, o, state, headers)
  BY <1>1 DEF Reading
<1>3. o = <<"cr">> /\ headers = HeadersIn(hs) BY <1>2 DEF HeadersSoFar
<1>e. <<>> \in Text /\ Append(<<>>, "cr") = <<"cr">> BY EmptySeq DEF Text
<1>4. Lines(t) = Append(ls, <<>>) /\ Open(t) = <<>> BY <1>3, <1>e, LineEnded
<1>5. ls \in Seq(Text) BY LinesType DEF TypeOK, Field, Text
<1> HIDE DEF ls
<1>6. /\ Append(ls, <<>>)[1] = ls[1] /\ HeaderBlock(Append(ls, <<>>)) = hs
      /\ Len(Append(ls, <<>>)) = Len(ls) + 1 /\ Len(ls) \in Nat \ {0}
      /\ Append(ls, <<>>)[Len(ls) + 1] = <<>>
  BY <1>2, <1>5, <1>e, HeaderLinesGrow
<1> HIDE DEF hs
<1>7. \A i \in DOMAIN hs : IsHeaderLine(hs, i) BY <1>2, LenProperties DEF Block
<1> HIDE DEF t
<1>8. IsRequest(t)
  <2> DEFINE w == Lines(t)
  <2>1. w[1] = ls[1] /\ HeaderBlock(w) = hs /\ Len(w) = Len(ls) + 1 /\ w[Len(ls) + 1] = <<>>
    BY <1>4, <1>6
  <2>2. RequestLines(ls[1]) # {} BY <1>2 DEF Begun
  <2> HIDE DEF w
  <2>3. Len(w) >= 2 /\ w[Len(w)] = <<>> BY <1>6, <2>1
  <2> QED BY <1>4, <1>7, <2>1, <2>2, <2>3 DEF IsRequest, w
<1>9. Lines(t)[1] = ls[1] /\ HeaderBlock(Lines(t)) = hs BY <1>4, <1>6
<1>10. Places(t) \in RequestLines(ls[1]) BY <1>2, <1>9 DEF Begun, Places
<1>11. method = MethodOf(t) /\ uri = UriOf(t) BY <1>2, <1>9, <1>10 DEF Begun, MethodOf, UriOf
<1>12. headers = HeadersOf(t) BY <1>3, <1>9 DEF HeadersOf
<1> QED BY <1>8, <1>11, <1>12 DEF AgreesWithGrammar, t

(* A byte that is refused: neither this text nor a longer one is a request. *)
LEMMA Refuses ==
    ASSUME NEW c \in Alphabet, TypeOK, input' = Append(input, c),
           Reading(Lines(input), Open(input), state, method, uri, headers),
           NextState(c) = "bad", result' = "bad"
    PROVE  AgreesWithGrammar'
<1> DEFINE o == Open(input)
           t == input'
<1>0. state \in States BY DEF TypeOK
<1>1. o # <<>> /\ o[Len(o)] = "cr" => state \in Newlines BY DEF Reading
<1>2. ~EndsLine(o, c) BY <1>0, <1>1, Parts DEF EndsLine
<1>3. Open(t) # <<>> BY <1>2, OpenGrows
<1> HIDE DEF t
<1>4. ~IsRequest(t) BY <1>3 DEF IsRequest
<1> QED BY <1>4 DEF AgreesWithGrammar, t

(* Before the first byte.                                                   *)
LEMMA NothingRead ==
    Reading(<<>>, <<>>, "method_start", <<>>, <<>>, <<>>)
<1>1. "method_start" \in InRequestLine /\ "method_start" \notin InVersion BY StatesAre, HttpFacts DEF InVersion
<1>2. Tokens(<<>>) /\ Plain(<<>>) BY DEF Tokens, Plain
<1>3. LineSoFar(<<>>, "method_start", <<>>, <<>>) BY <1>1, <1>2 DEF LineSoFar
<1> QED BY <1>1, <1>3 DEF Reading

(* Every step keeps the invariant.                                          *)
LEMMA ReadNext == TypeOK /\ ReadInv /\ [Next]_vars => ReadInv'
<1> SUFFICES ASSUME TypeOK, ReadInv, [Next]_vars PROVE ReadInv'
  OBVIOUS
<1>1. CASE Parse
  <2>1. /\ state' = "method_start" /\ result' = "indeterminate" /\ input' = <<>>
        /\ method' = <<>> /\ uri' = <<>> /\ headers' = <<>>
    BY <1>1 DEF Parse, ClearedHeaders
  <2>2. Lines(input') = <<>> /\ Open(input') = <<>> BY <2>1, NoLines
  <2> QED BY <2>1, <2>2, NothingRead DEF ReadInv
<1>2. ASSUME NEW c \in Offered, Consume(c) PROVE ReadInv'
  <2> DEFINE n == NextState(c)
  <2>1. c \in Alphabet BY <1>2, OfferedType
  <2>2. /\ result = "indeterminate" /\ input' = Append(input, c)
        /\ result' = IF n \in {"good", "bad"} THEN n ELSE "indeterminate"
        /\ state' = IF n \in {"good", "bad"} THEN state ELSE n
        /\ method' = IF n = "method" THEN Append(method, c) ELSE method
        /\ uri' = IF n = "uri" /\ state = "uri" THEN Append(uri, c) ELSE uri
        /\ headers' = NextHeaders(c, n)
    BY <1>2 DEF Consume
  <2>3. Reading(Lines(input), Open(input), state, method, uri, headers) BY <2>2 DEF ReadInv
  <2>4. state \in States BY DEF TypeOK
  <2>5. n \notin {"method", "uri"} => method' = method /\ uri' = uri BY <2>2
  <2>6. n \notin {"header_name", "header_value"} => headers' = headers BY <2>2 DEF NextHeaders
  <2>7. CASE n = "bad"
    <3>1. result' = "bad" BY <2>2, <2>7
    <3>2. AgreesWithGrammar' BY <2>1, <2>2, <2>3, <2>7, <3>1, Refuses
    <3> QED BY <3>1, <3>2 DEF ReadInv
  <2>8. CASE n = "good"
    <3>1. result' = "good" /\ method' = method /\ uri' = uri /\ headers' = headers
      BY <2>2, <2>5, <2>6, <2>8
    <3>2. state = "expecting_newline_3" /\ c = "lf" BY <2>1, <2>4, <2>8, Parts
    <3>3. AgreesWithGrammar' BY <2>1, <2>2, <2>3, <3>1, <3>2, EndsRequest
    <3> QED BY <3>1, <3>3 DEF ReadInv
  <2>9. CASE n \notin {"good", "bad"}
    <3>1. result' = "indeterminate" /\ state' = n BY <2>2, <2>9
    <3>2. Reading(Lines(input'), Open(input'), n, method', uri', headers')
      <4>1. CASE state \in InRequestLine /\ n \in InRequestLine
        BY <2>1, <2>2, <2>3, <4>1, ReadsRequestLine
      <4>2. CASE state \in InRequestLine /\ n \notin InRequestLine
        <5>1. state = "expecting_newline_1" /\ c = "lf" /\ n = "header_line_start"
          BY <2>1, <2>4, <2>9, <4>2, Parts
        <5>2. method' = method /\ uri' = uri /\ headers' = headers BY <2>5, <2>6, <5>1
        <5>3. Reading(Lines(input'), Open(input'), "header_line_start", method', uri', headers')
          BY <2>1, <2>2, <2>3, <5>1, <5>2, EndsRequestLine
        <5> HIDE DEF n
        <5> QED BY <5>1, <5>3
      <4>3. CASE state \in HeaderStates \ Newlines
        <5>1. n \notin {"method", "uri"} BY <4>3, Moves, <2>1, <2>4 DEF HeaderStates
        <5>2. method' = method /\ uri' = uri BY <2>5, <5>1
        <5> QED BY <2>1, <2>2, <2>3, <2>9, <4>3, <5>2, ReadsHeader
      <4>4. CASE state \in {"expecting_newline_2", "expecting_newline_3"}
        <5>1. state = "expecting_newline_2" /\ c = "lf" /\ n = "header_line_start"
          BY <2>1, <2>4, <2>9, <4>4, Parts
        <5>2. method' = method /\ uri' = uri /\ headers' = headers BY <2>5, <2>6, <5>1
        <5>3. Reading(Lines(input'), Open(input'), "header_line_start", method', uri', headers')
          BY <2>1, <2>2, <2>3, <5>1, <5>2, EndsHeader
        <5> HIDE DEF n
        <5> QED BY <5>1, <5>3
      <4>5. state \in InRequestLine \/ state \in HeaderStates \ Newlines
              \/ state \in {"expecting_newline_2", "expecting_newline_3"}
        BY <2>4, StatesAre DEF Newlines
      <4> QED BY <4>1, <4>2, <4>3, <4>4, <4>5
    <3> HIDE DEF n
    <3> QED BY <3>1, <3>2 DEF ReadInv
  <2> QED BY <2>7, <2>8, <2>9
<1>3. CASE UNCHANGED vars
  BY <1>3 DEF ReadInv, AgreesWithGrammar, vars
<1> QED BY <1>1, <1>2, <1>3 DEF Next

LEMMA InitRead == Init => ReadInv
BY NoLines, NothingRead DEF Init, ReadInv

(* What has no answer yet is no request; the other answers are in the       *)
(* invariant.                                                               *)
LEMMA ReadAgrees == TypeOK /\ ReadInv => AgreesWithGrammar
<1> SUFFICES ASSUME TypeOK, ReadInv, result = "indeterminate" PROVE AgreesWithGrammar
  BY DEF ReadInv
<1>1. input \in Text BY DEF TypeOK, Field, Text
<1>2. ~IsRequest(input) BY <1>1, NotYet DEF ReadInv
<1> QED BY <1>2 DEF AgreesWithGrammar

(* Whatever arrives, and however often a longer buffer is parsed again, the *)
(* parser says good at the end of a request of the grammar, to nothing      *)
(* else, and with that request's method, uri and headers.                   *)
THEOREM RequestsAgree == Spec => []AgreesWithGrammar
<1>1. Inductive => TypeOK BY DEF Inductive
<1>2. Inductive /\ Inductive' /\ ReadInv /\ [Next]_vars => ReadInv' BY <1>1, ReadNext
<1>3. Inductive /\ ReadInv => AgreesWithGrammar BY <1>1, ReadAgrees
<1> QED BY <1>2, <1>3, InitRead, InductiveHolds, PTL DEF Spec
=============================================================================
