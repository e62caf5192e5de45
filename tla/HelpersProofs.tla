---------------------------- MODULE HelpersProofs -----------------------------
(***************************************************************************)
(* Proofs about the helpers, for whatever they are given.                   *)
(***************************************************************************)
EXTENDS Helpers, SeqHelpers, SequenceTheorems, FiniteSetTheorems, WellFoundedInduction, TLAPS

-----------------------------------------------------------------------------
(***************************************************************************)
(* Numbers, recursive functions and sequences.  The theorems of the library *)
(* on induction and recursion take an operator, so what a recursive function *)
(* is follows here from least numbers and functions of functions.           *)
(***************************************************************************)

LEMMA LeastOf ==
    ASSUME NEW U \in SUBSET Nat, U # {}
    PROVE  \E m \in U : \A j \in U : m <= j
<1> DEFINE R == OpToRel(<, Nat)
<1>1. IsWellFoundedOn(R, Nat) BY NatLessThanWellFounded
<1>2. \A x, y \in Nat : y < x => <<y, x>> \in R BY DEF OpToRel
<1> HIDE DEF R
<1>3. PICK m \in U : \A j \in U : ~(<<j, m>> \in R) BY <1>1, WFMin
<1>4. \A j \in U : ~(j < m) BY <1>2, <1>3
<1> QED BY <1>4

(* What holds of 0 and goes on from one number to the next holds up to n.   *)
LEMMA Climb ==
    ASSUME NEW n \in Nat, NEW T, 0 \in T,
           \A k \in 1 .. n : k - 1 \in T => k \in T
    PROVE  \A k \in 0 .. n : k \in T
<1> SUFFICES ASSUME 0 .. n \ T # {} PROVE FALSE
  OBVIOUS
<1>1. (0 .. n \ T) \in SUBSET Nat OBVIOUS
<1>2. PICK m \in 0 .. n \ T : \A j \in 0 .. n \ T : m <= j BY <1>1, LeastOf
<1>3. m \in 1 .. n /\ m - 1 \in 0 .. n /\ ~(m <= m - 1) BY <1>2
<1>4. m - 1 \in T BY <1>2, <1>3
<1> QED BY <1>2, <1>3, <1>4

(* Functions that are defined by recursion exist.                           *)
Computes(f, n, b, h) == f[0] = b /\ \A k \in 1 .. n : f[k] = h[k][f[k - 1]]

LEMMA Recursion ==
    ASSUME NEW n \in Nat, NEW V, NEW b \in V, NEW h \in [1 .. n -> [V -> V]]
    PROVE  \E f \in [0 .. n -> V] : Computes(f, n, b, h)
<1> DEFINE Is(f, m) == Computes(f, m, b, h)
           T == {m \in 0 .. n : \E f \in [0 .. m -> V] : Is(f, m)}
<1> USE DEF Computes
<1>1. 0 \in T
  <2> DEFINE f == [k \in 0 .. 0 |-> b]
  <2>1. f \in [0 .. 0 -> V] /\ f[0] = b OBVIOUS
  <2> HIDE DEF f
  <2> QED BY <2>1
<1>2. ASSUME NEW m \in 1 .. n, m - 1 \in T PROVE m \in T
  <2>1. PICK f \in [0 .. m - 1 -> V] : Is(f, m - 1) BY <1>2
  <2> DEFINE g == [k \in 0 .. m |-> IF k = m THEN h[m][f[m - 1]] ELSE f[k]]
  <2>2. f[m - 1] \in V /\ h[m] \in [V -> V] BY <2>1
  <2>3. g \in [0 .. m -> V] BY <2>2
  <2>4. g[m] = h[m][f[m - 1]] /\ \A k \in 0 .. m - 1 : g[k] = f[k] OBVIOUS
  <2> HIDE DEF g
  <2>5. ASSUME NEW k \in 1 .. m PROVE g[k] = h[k][g[k - 1]]
    <3>1. CASE k = m BY <2>4, <3>1
    <3>2. CASE k # m
      <4>1. k \in 1 .. m - 1 /\ k \in 0 .. m - 1 /\ k - 1 \in 0 .. m - 1 BY <3>2
      <4>2. f[k] = h[k][f[k - 1]] BY <2>1, <4>1
      <4> QED BY <2>4, <4>1, <4>2
    <3> QED BY <3>1, <3>2
  <2>6. g[0] = b BY <2>1, <2>4
  <2>7. Is(g, m) BY <2>5, <2>6
  <2>8. m \in 0 .. n OBVIOUS
  <2> HIDE DEF Is
  <2> QED BY <2>3, <2>7, <2>8
<1> HIDE DEF Is
<1>3. \A k \in 0 .. n : k \in T BY <1>1, <1>2, Climb
<1>4. n \in T BY <1>3
<1> HIDE DEF Computes
<1> QED BY <1>4 DEF Is

(* So do those that look ahead: what stands at i is made of what stands     *)
(* behind it.                                                               *)
LooksAhead(f, n, h) == \A i \in 1 .. n : f[i] = h[i][f]

LEMMA LookAhead ==
    ASSUME NEW n \in Nat, NEW V, V # {}, NEW h \in [1 .. n -> [[1 .. n -> V] -> V]],
           \A i \in 1 .. n : \A u, v \in [1 .. n -> V] :
              (\A j \in i + 1 .. n : u[j] = v[j]) => h[i][u] = h[i][v]
    PROVE  \E f \in [1 .. n -> V] : LooksAhead(f, n, h)
<1> DEFINE Is(f, m) == \A i \in n - m + 1 .. n : f[i] = h[i][f]
           T == {m \in 0 .. n : \E f \in [1 .. n -> V] : Is(f, m)}
<1>1. 0 \in T
  <2>1. PICK v : v \in V OBVIOUS
  <2> DEFINE f == [i \in 1 .. n |-> v]
  <2>2. f \in [1 .. n -> V] BY <2>1
  <2>3. Is(f, 0) OBVIOUS
  <2> HIDE DEF f, Is
  <2> QED BY <2>2, <2>3
<1>2. ASSUME NEW m \in 1 .. n, m - 1 \in T PROVE m \in T
  <2>1. PICK f \in [1 .. n -> V] : Is(f, m - 1) BY <1>2
  <2> DEFINE l == n - m + 1
             g == [f EXCEPT ![l] = h[l][f]]
  <2>2. l \in 1 .. n OBVIOUS
  <2>3. h[l][f] \in V BY <2>2
  <2>4. g \in [1 .. n -> V] /\ g[l] = h[l][f] /\ \A i \in 1 .. n : i # l => g[i] = f[i]
    BY <2>2, <2>3
  <2> HIDE DEF g
  <2>5. ASSUME NEW i \in l .. n PROVE g[i] = h[i][g]
    <3>1. \A j \in i + 1 .. n : j \in 1 .. n /\ j # l BY <2>2
    <3>2. h[i][g] = h[i][f]
      <4>1. i \in 1 .. n /\ \A j \in i + 1 .. n : g[j] = f[j] BY <2>2, <2>4, <3>1
      <4> QED BY <2>4, <4>1
    <3>3. CASE i = l BY <2>4, <3>2, <3>3
    <3>4. CASE i # l
      <4>1. i \in n - (m - 1) + 1 .. n /\ i \in 1 .. n BY <2>2, <3>4
      <4>2. f[i] = h[i][f] BY <2>1, <4>1
      <4> QED BY <2>4, <3>2, <3>4, <4>1, <4>2
    <3> QED BY <3>3, <3>4
  <2> QED BY <2>4, <2>5
<1> HIDE DEF Is
<1>3. \A k \in 0 .. n : k \in T BY <1>1, <1>2, Climb
<1>4. PICK f \in [1 .. n -> V] : Is(f, n)
  <2>1. n \in 0 .. n OBVIOUS
  <2> QED BY <1>3, <2>1
<1>5. \A i \in 1 .. n : f[i] = h[i][f]
  <2>1. n - n + 1 = 1 OBVIOUS
  <2> QED BY <1>4, <2>1 DEF Is
<1> QED BY <1>5 DEF LooksAhead

(* Sums.                                                                    *)
LEMMA SumIs ==
    ASSUME NEW s \in Seq(Int)
    PROVE  \E f \in [0 .. Len(s) -> Int] :
              /\ f[0] = 0 /\ \A k \in 1 .. Len(s) : f[k] = f[k - 1] + s[k]
              /\ SumOf(s) = f[Len(s)]
<1>1. Len(s) \in Nat /\ \A k \in 1 .. Len(s) : s[k] \in Int BY LenProperties, ElementOfSeq
<1> DEFINE n == Len(s)
           h == [k \in 1 .. n |-> [v \in Int |-> v + s[k]]]
           F(f) == [k \in 0 .. n |-> IF k = 0 THEN 0 ELSE f[k - 1] + s[k]]
           u == CHOOSE f : f = F(f)
<1>2. h \in [1 .. n -> [Int -> Int]] BY <1>1
<1>3. \A k \in 1 .. n, v \in Int : h[k][v] = v + s[k] OBVIOUS
<1>n. n \in Nat BY <1>1
<1> HIDE DEF h
<1>4. PICK f \in [0 .. n -> Int] : Computes(f, n, 0, h)
  BY <1>n, <1>2, Recursion, 0 \in Int
<1>5. f = F(f)
  <2>1. \A k \in 0 .. n : k = 0 \/ (k \in 1 .. n /\ k - 1 \in 0 .. n) BY <1>1
  <2>2. \A k \in 0 .. n : f[k] = IF k = 0 THEN 0 ELSE f[k - 1] + s[k]
    BY <1>3, <1>4, <2>1 DEF Computes
  <2> QED BY <2>2
<1>6. u = F(u) BY <1>5
<1> HIDE DEF u
<1>7. u[0] = 0 /\ \A k \in 1 .. n : u[k] = u[k - 1] + s[k] BY <1>1, <1>6
<1>8. u \in [0 .. n -> Int]
  <2> DEFINE T == {k \in 0 .. n : u[k] \in Int}
  <2>1. 0 \in T BY <1>1, <1>7
  <2>2. ASSUME NEW k \in 1 .. n, k - 1 \in T PROVE k \in T BY <1>7, <2>2, <1>1
  <2>3. \A k \in 0 .. n : k \in T BY <1>1, <2>1, <2>2, Climb
  <2> QED BY <1>6, <2>3
<1>9. SumOf(s) = u[n] BY DEF SumOf, u
<1> QED BY <1>7, <1>8, <1>9

(* Selections.                                                              *)
Selects(f, n, S) ==
    /\ f[0] = <<>>
    /\ \A k \in 1 .. n : f[k] = IF k \in S THEN Append(f[k - 1], k) ELSE f[k - 1]

LEMMA AscendingIs ==
    ASSUME NEW n \in Nat, NEW S
    PROVE  \E f \in [0 .. n -> Seq(Nat)] : Selects(f, n, S) /\ Ascending(S, n) = f[n]
<1> DEFINE h == [k \in 1 .. n |-> [v \in Seq(Nat) |-> IF k \in S THEN Append(v, k) ELSE v]]
           F(f) == [k \in 0 .. n |-> IF k = 0 THEN <<>>
                                     ELSE IF k \in S THEN Append(f[k - 1], k) ELSE f[k - 1]]
           u == CHOOSE f : f = F(f)
<1>1. <<>> \in Seq(Nat) BY EmptySeq
<1>2. h \in [1 .. n -> [Seq(Nat) -> Seq(Nat)]]
  <2>1. \A k \in 1 .. n, v \in Seq(Nat) : Append(v, k) \in Seq(Nat) BY AppendProperties
  <2> QED BY <2>1
<1>3. \A k \in 1 .. n, v \in Seq(Nat) : h[k][v] = IF k \in S THEN Append(v, k) ELSE v OBVIOUS
<1> HIDE DEF h
<1>4. PICK f \in [0 .. n -> Seq(Nat)] : Computes(f, n, <<>>, h)
  BY <1>1, <1>2, Recursion
<1>5. f = F(f)
  <2>1. \A k \in 0 .. n : k = 0 \/ (k \in 1 .. n /\ k - 1 \in 0 .. n) OBVIOUS
  <2>2. ASSUME NEW k \in 0 .. n
        PROVE  f[k] = IF k = 0 THEN <<>>
                      ELSE IF k \in S THEN Append(f[k - 1], k) ELSE f[k - 1]
    BY <1>3, <1>4, <2>1 DEF Computes
  <2> QED BY <2>2
<1>6. u = F(u) BY <1>5
<1> HIDE DEF u
<1>7. u[0] = <<>> /\ \A k \in 1 .. n : u[k] = IF k \in S THEN Append(u[k - 1], k) ELSE u[k - 1]
  <2>1. \A k \in 0 .. n : u[k] = IF k = 0 THEN <<>>
                                   ELSE IF k \in S THEN Append(u[k - 1], k) ELSE u[k - 1]
    BY <1>6
  <2>2. 0 \in 0 .. n /\ \A k \in 1 .. n : k \in 0 .. n /\ k # 0 OBVIOUS
  <2> QED BY <2>1, <2>2
<1>8. u \in [0 .. n -> Seq(Nat)]
  <2> DEFINE T == {k \in 0 .. n : u[k] \in Seq(Nat)}
  <2>0. 0 \in 0 .. n /\ \A k \in 1 .. n : k \in 0 .. n OBVIOUS
  <2>1. 0 \in T BY <1>1, <1>7, <2>0
  <2>2. ASSUME NEW k \in 1 .. n, k - 1 \in T PROVE k \in T
    <3>1. u[k - 1] \in Seq(Nat) BY <2>2
    <3>2. Append(u[k - 1], k) \in Seq(Nat) BY <3>1, AppendProperties
    <3>3. u[k] \in Seq(Nat) BY <1>7, <3>1, <3>2
    <3> QED BY <2>0, <3>3
  <2>3. \A k \in 0 .. n : k \in T BY <2>1, <2>2, Climb
  <2> QED BY <1>6, <2>3
<1>9. Ascending(S, n) = u[n] BY DEF Ascending, u
<1>10. Selects(u, n, S) BY <1>7 DEF Selects
<1> QED BY <1>8, <1>9, <1>10

LEMMA SumType ==
    ASSUME NEW s \in Seq(Int)
    PROVE  SumOf(s) \in Int
<1>1. Len(s) \in Nat BY LenProperties
<1>2. Len(s) \in 0 .. Len(s) BY <1>1
<1> QED BY <1>2, SumIs

LEMMA SumEmpty == SumOf(<<>>) = 0
<1>1. <<>> \in Seq(Int) /\ Len(<<>>) = 0 BY EmptySeq
<1> QED BY <1>1, SumIs

(* The sum of the first k numbers grows with k.                             *)
LEMMA SumAppend ==
    ASSUME NEW s \in Seq(Int), NEW x \in Int
    PROVE  SumOf(Append(s, x)) = SumOf(s) + x
<1> DEFINE t == Append(s, x)
           n == Len(s)
<1>1. /\ t \in Seq(Int) /\ n \in Nat /\ Len(t) = n + 1 /\ t[n + 1] = x
      /\ \A k \in 1 .. n : t[k] = s[k]
  BY AppendProperties, LenProperties
<1>2. PICK f \in [0 .. n -> Int] :
         /\ f[0] = 0 /\ \A k \in 1 .. n : f[k] = f[k - 1] + s[k]
         /\ SumOf(s) = f[n]
  BY SumIs
<1> HIDE DEF t
<1>3. PICK g \in [0 .. n + 1 -> Int] :
         /\ g[0] = 0 /\ \A k \in 1 .. n + 1 : g[k] = g[k - 1] + t[k]
         /\ SumOf(t) = g[n + 1]
  <2>1. \E g \in [0 .. Len(t) -> Int] :
         /\ g[0] = 0 /\ \A k \in 1 .. Len(t) : g[k] = g[k - 1] + t[k]
         /\ SumOf(t) = g[Len(t)]
    BY <1>1, SumIs
  <2> QED BY <1>1, <2>1
<1> HIDE DEF n
<1> DEFINE T == {k \in 0 .. n : f[k] = g[k]}
<1>4. 0 \in T BY <1>1, <1>2, <1>3
<1>5. ASSUME NEW k \in 1 .. n, k - 1 \in T PROVE k \in T
  <2>1. f[k - 1] = g[k - 1] /\ k \in 0 .. n BY <1>5
  <2>2. k \in 1 .. n + 1 BY <1>1
  <2>3. g[k] = g[k - 1] + t[k] /\ f[k] = f[k - 1] + s[k] /\ t[k] = s[k] BY <1>1, <1>2, <1>3, <2>2
  <2> QED BY <2>1, <2>3
<1> HIDE DEF T
<1>6. \A k \in 0 .. n : k \in T BY <1>1, <1>4, <1>5, Climb
<1>7. f[n] = g[n] BY <1>1, <1>6 DEF T
<1>8. n + 1 \in 1 .. n + 1 /\ (n + 1) - 1 = n BY <1>1
<1>9. g[n + 1] = g[n] + x BY <1>1, <1>3, <1>8
<1> QED BY <1>2, <1>3, <1>7, <1>9 DEF t

(* Sequences grow from the empty one, by appending.                         *)
LEMMA Grown ==
    ASSUME NEW X, NEW s \in Seq(X), NEW k \in 1 .. Len(s)
    PROVE  /\ SubSeq(s, 1, k) = Append(SubSeq(s, 1, k - 1), s[k])
           /\ SubSeq(s, 1, k - 1) \in Seq(X) /\ s[k] \in X
<1>1. Len(s) \in Nat /\ \A i \in 1 .. Len(s) : s[i] \in X BY LenProperties, ElementOfSeq
<1>2. /\ SubSeq(s, 1, k) \in Seq(X) /\ Len(SubSeq(s, 1, k)) = k
      /\ \A i \in 1 .. k : SubSeq(s, 1, k)[i] = s[i]
  <2>1. \A i \in 1 .. k : s[i] \in X BY <1>1
  <2> QED BY <2>1, SubSeqProperties
<1>3. /\ SubSeq(s, 1, k - 1) \in Seq(X) /\ Len(SubSeq(s, 1, k - 1)) = k - 1
      /\ \A i \in 1 .. k - 1 : SubSeq(s, 1, k - 1)[i] = s[i]
  <2>1. \A i \in 1 .. k - 1 : s[i] \in X /\ 1 + i - 1 = i BY <1>1
  <2>2. k - 1 \in Int /\ (1 <= k - 1 => k - 1 - 1 + 1 = k - 1) /\ (~(1 <= k - 1) => k - 1 = 0)
        /\ k - 1 - 1 + 1 = k - 1
    BY <1>1
  <2> QED BY <2>1, <2>2, SubSeqProperties
<1>4. s[k] \in X BY <1>1
<1> DEFINE a == Append(SubSeq(s, 1, k - 1), s[k])
<1>5. /\ a \in Seq(X) /\ Len(a) = k /\ a[k] = s[k]
      /\ \A i \in 1 .. k - 1 : a[i] = s[i]
  BY <1>3, <1>4, AppendProperties
<1> HIDE DEF a
<1>6. \A i \in 1 .. k : a[i] = SubSeq(s, 1, k)[i] BY <1>2, <1>5
<1>7. SubSeq(s, 1, k) = a BY <1>2, <1>5, <1>6, SeqEqual
<1> QED BY <1>3, <1>4, <1>7 DEF a

LEMMA ProductType ==
    ASSUME NEW a \in Int, NEW b \in Int
    PROVE  a * b \in Int
OBVIOUS

(* Where each number is at most c times another, so is the sum.             *)
LEMMA SumBound ==
    ASSUME NEW s \in Seq(Nat), NEW t \in Seq(Nat), NEW c \in Nat, Len(s) = Len(t),
           \A i \in 1 .. Len(s) : s[i] <= c * t[i]
    PROVE  SumOf(s) <= c * SumOf(t)
<1> DEFINE n == Len(s)
<1>1. /\ s \in Seq(Int) /\ t \in Seq(Int) /\ n \in Nat
      /\ \A i \in 1 .. n : s[i] \in Nat /\ t[i] \in Nat
  BY SeqMonotonic, LenProperties, ElementOfSeq, Nat \subseteq Int
<1>2. PICK f \in [0 .. n -> Int] :
         /\ f[0] = 0 /\ \A k \in 1 .. n : f[k] = f[k - 1] + s[k]
         /\ SumOf(s) = f[n]
  BY <1>1, SumIs
<1>3. PICK g \in [0 .. n -> Int] :
         /\ g[0] = 0 /\ \A k \in 1 .. n : g[k] = g[k - 1] + t[k]
         /\ SumOf(t) = g[n]
  BY <1>1, SumIs
<1> HIDE DEF n
<1> DEFINE T == {k \in 0 .. n : f[k] <= c * g[k]}
<1>4. 0 \in T BY <1>1, <1>2, <1>3
<1>5. ASSUME NEW k \in 1 .. n, k - 1 \in T PROVE k \in T
  <2>1. f[k - 1] <= c * g[k - 1] /\ k \in 0 .. n /\ k - 1 \in 0 .. n BY <1>5
  <2>2. s[k] <= c * t[k] /\ s[k] \in Nat /\ t[k] \in Nat BY <1>1 DEF n
  <2>3. f[k] = f[k - 1] + s[k] /\ g[k] = g[k - 1] + t[k] /\ f[k - 1] \in Int /\ g[k - 1] \in Int
    BY <1>2, <1>3, <2>1
  <2>4. c * g[k] = c * g[k - 1] + c * t[k] BY <2>2, <2>3
  <2>5. c * g[k - 1] \in Int /\ c * t[k] \in Int
    <3>1. c \in Int /\ t[k] \in Int BY <2>2
    <3> QED BY <2>3, <3>1, ProductType
  <2>6. f[k] <= c * g[k]
    <3> DEFINE u == c * g[k - 1]
               v == c * t[k]
               w == c * g[k]
    <3>1. u \in Int /\ v \in Int /\ w = u + v /\ f[k - 1] <= u /\ s[k] <= v
      BY <2>1, <2>2, <2>4, <2>5
    <3>0. f[k] = f[k - 1] + s[k] /\ f[k - 1] \in Int /\ s[k] \in Int BY <2>2, <2>3
    <3> HIDE DEF u, v, w
    <3>2. f[k] <= w BY <3>0, <3>1
    <3> QED BY <3>2 DEF w
  <2> QED BY <2>1, <2>6
<1> HIDE DEF T
<1>6. \A k \in 0 .. n : k \in T BY <1>1, <1>4, <1>5, Climb
<1>7. n \in T BY <1>1, <1>6
<1> QED BY <1>2, <1>3, <1>7 DEF T

(* The members of S in their order.                                         *)
Lists(a, S) ==
    /\ a \in Seq(Nat)
    /\ \A i, j \in 1 .. Len(a) : i < j => a[i] < a[j]
    /\ \A i \in 1 .. Len(a) : a[i] \in S
    /\ \A x \in S : \E i \in 1 .. Len(a) : a[i] = x

LEMMA ListsEmpty == Lists(<<>>, {})
BY EmptySeq DEF Lists

LEMMA ListsAppend ==
    ASSUME NEW S, NEW a, Lists(a, S), NEW y \in Nat, \A x \in S : x < y
    PROVE  Lists(Append(a, y), S \cup {y})
<1> DEFINE b == Append(a, y)
           n == Len(a)
<1>1. a \in Seq(Nat) /\ n \in Nat /\ \A i \in 1 .. n : a[i] \in S /\ a[i] \in Nat
  BY LenProperties, ElementOfSeq DEF Lists
<1>2. b \in Seq(Nat) /\ Len(b) = n + 1 /\ b[n + 1] = y /\ \A i \in 1 .. n : b[i] = a[i]
  BY <1>1, AppendProperties
<1> HIDE DEF b
<1>3. \A i \in 1 .. n + 1 : i = n + 1 \/ i \in 1 .. n BY <1>1
<1>4. ASSUME NEW i \in 1 .. n + 1, NEW j \in 1 .. n + 1, i < j PROVE b[i] < b[j]
  <2>1. i \in 1 .. n BY <1>1, <1>4
  <2>2. CASE j = n + 1 BY <1>1, <1>2, <2>1, <2>2
  <2>3. CASE j \in 1 .. n
    <3>1. a[i] < a[j] BY <1>4, <2>1, <2>3 DEF Lists
    <3> QED BY <1>2, <2>1, <2>3, <3>1
  <2> QED BY <1>3, <2>2, <2>3
<1>5. \A i \in 1 .. n + 1 : b[i] \in S \cup {y} BY <1>1, <1>2, <1>3
<1>6. ASSUME NEW x \in S \cup {y} PROVE \E i \in 1 .. n + 1 : b[i] = x
  <2>1. CASE x = y BY <1>1, <1>2, <2>1
  <2>2. CASE x \in S
    <3>1. PICK i \in 1 .. n : a[i] = x BY <2>2 DEF Lists
    <3>2. i \in 1 .. n + 1 BY <1>1
    <3> QED BY <1>2, <3>1, <3>2
  <2> QED BY <2>1, <2>2
<1> HIDE DEF n
<1>7. Lists(b, S \cup {y}) BY <1>2, <1>4, <1>5, <1>6 DEF Lists
<1> QED BY <1>7 DEF b

LEMMA AscendingLists ==
    ASSUME NEW n \in Nat, NEW S \in SUBSET (1 .. n)
    PROVE  Lists(Ascending(S, n), S)
<1>0. PICK f \in [0 .. n -> Seq(Nat)] : Selects(f, n, S) /\ Ascending(S, n) = f[n]
  BY AscendingIs
<1>1. /\ f[0] = <<>>
      /\ \A k \in 1 .. n : f[k] = IF k \in S THEN Append(f[k - 1], k) ELSE f[k - 1]
  BY <1>0 DEF Selects
<1> DEFINE T == {k \in 0 .. n : Lists(f[k], S \cap 1 .. k)}
<1>2. 0 \in T
  <2>1. S \cap 1 .. 0 = {} OBVIOUS
  <2> QED BY <1>1, <2>1, ListsEmpty
<1>3. ASSUME NEW k \in 1 .. n, k - 1 \in T PROVE k \in T
  <2>1. Lists(f[k - 1], S \cap 1 .. k - 1) BY <1>3
  <2>2. CASE k \in S
    <3>1. S \cap 1 .. k = (S \cap 1 .. k - 1) \cup {k} BY <2>2
    <3>2. \A x \in S \cap 1 .. k - 1 : x < k OBVIOUS
    <3>3. k \in Nat /\ k \in 0 .. n OBVIOUS
    <3>5. f[k] = Append(f[k - 1], k) BY <1>1, <2>2
    <3>4. Lists(Append(f[k - 1], k), (S \cap 1 .. k - 1) \cup {k}) BY <2>1, <3>2, <3>3, ListsAppend
    <3> QED BY <3>1, <3>3, <3>4, <3>5
  <2>3. CASE k \notin S
    <3>1. S \cap 1 .. k = S \cap 1 .. k - 1 BY <2>3
    <3>2. f[k] = f[k - 1] BY <1>1, <2>3
    <3>3. k \in 0 .. n OBVIOUS
    <3> QED BY <2>1, <3>1, <3>2, <3>3
  <2> QED BY <2>2, <2>3
<1>4. \A k \in 0 .. n : k \in T
  <2> HIDE DEF T
  <2> QED BY <1>2, <1>3, Climb
<1> HIDE DEF T
<1>5. n \in 0 .. n /\ S \cap 1 .. n = S
  <2>1. \A x \in S : x \in 1 .. n OBVIOUS
  <2>2. n \in 0 .. n OBVIOUS
  <2> QED BY <2>1, <2>2
<1>6. n \in T BY <1>4, <1>5
<1> QED BY <1>0, <1>5, <1>6 DEF T

LEMMA SameUpto ==
    ASSUME NEW S, NEW a, NEW b, Lists(a, S), Lists(b, S)
    PROVE  /\ \A k \in 1 .. Len(a) : k <= Len(b) => a[k] = b[k]
           /\ Len(a) <= Len(b)
<1>1. Len(a) \in Nat /\ Len(b) \in Nat BY LenProperties DEF Lists
<1>2. \A i \in 1 .. Len(a) : a[i] \in Nat BY ElementOfSeq DEF Lists
<1>3. \A i \in 1 .. Len(b) : b[i] \in Nat BY ElementOfSeq DEF Lists
<1> DEFINE U == {k \in 1 .. Len(a) : k <= Len(b) /\ a[k] # b[k]}
<1>4. ASSUME U # {} PROVE FALSE
  <2>1. U \in SUBSET Nat OBVIOUS
  <2>2. PICK k \in U : \A j \in U : k <= j
    <3> HIDE DEF U
    <3> QED BY <1>4, <2>1, LeastOf
  <2>3. k \in 1 .. Len(a) /\ k \in 1 .. Len(b) /\ a[k] # b[k] BY <1>1
  <2>4. ASSUME NEW j \in 1 .. k - 1 PROVE a[j] = b[j] /\ a[j] < a[k] /\ b[j] < b[k]
    <3>1. j \in 1 .. Len(a) /\ j \in 1 .. Len(b) /\ j < k /\ ~(k <= j) BY <1>1, <2>3
    <3>2. a[j] = b[j] BY <2>2, <3>1, <1>1
    <3> QED BY <2>3, <3>1, <3>2 DEF Lists
  <2>5. ASSUME a[k] < b[k] PROVE FALSE
    <3>1. PICK j \in 1 .. Len(b) : b[j] = a[k] BY <2>3 DEF Lists
    <3>2. CASE j < k
      <4>1. j \in 1 .. k - 1 BY <1>1, <2>3, <3>2
      <4> QED BY <1>2, <2>3, <2>4, <3>1, <4>1
    <3>3. CASE j = k BY <2>3, <3>1, <3>3
    <3>4. CASE j > k
      <4>1. b[k] < b[j] BY <2>3, <3>4 DEF Lists
      <4> QED BY <1>2, <1>3, <2>3, <2>5, <3>1, <4>1
    <3> QED BY <1>1, <2>3, <3>2, <3>3, <3>4
  <2>6. ASSUME b[k] < a[k] PROVE FALSE
    <3>1. PICK j \in 1 .. Len(a) : a[j] = b[k] BY <2>3 DEF Lists
    <3>2. CASE j < k
      <4>1. j \in 1 .. k - 1 BY <1>1, <2>3, <3>2
      <4> QED BY <1>3, <2>3, <2>4, <3>1, <4>1
    <3>3. CASE j = k BY <2>3, <3>1, <3>3
    <3>4. CASE j > k
      <4>1. a[k] < a[j] BY <2>3, <3>4 DEF Lists
      <4> QED BY <1>2, <1>3, <2>3, <2>6, <3>1, <4>1
    <3> QED BY <1>1, <2>3, <3>2, <3>3, <3>4
  <2> QED BY <1>2, <1>3, <2>3, <2>5, <2>6
<1>5. \A k \in 1 .. Len(a) : k <= Len(b) => a[k] = b[k] BY <1>4
<1>6. ASSUME ~(Len(a) <= Len(b)) PROVE FALSE
  <2> DEFINE k == Len(b) + 1
  <2>1. k \in 1 .. Len(a) BY <1>1, <1>6
  <2>2. PICK j \in 1 .. Len(b) : b[j] = a[k] BY <2>1 DEF Lists
  <2>3. j \in 1 .. Len(a) /\ j < k /\ a[j] = b[j] BY <1>1, <1>5, <1>6
  <2>4. a[j] < a[k] BY <2>1, <2>3 DEF Lists
  <2> QED BY <1>2, <2>1, <2>2, <2>3, <2>4
<1> QED BY <1>5, <1>6

LEMMA OneList ==
    ASSUME NEW S, NEW a, NEW b, Lists(a, S), Lists(b, S)
    PROVE  a = b
<1>1. Len(a) \in Nat /\ Len(b) \in Nat /\ a \in Seq(Nat) /\ b \in Seq(Nat) BY LenProperties DEF Lists
<1>2. Len(a) <= Len(b) /\ Len(b) <= Len(a) BY SameUpto
<1>3. Len(a) = Len(b) BY <1>1, <1>2
<1>4. \A k \in 1 .. Len(a) : a[k] = b[k] BY <1>1, <1>3, SameUpto
<1> QED BY <1>1, <1>3, <1>4, SeqEqual

LEMMA ListsConcat ==
    ASSUME NEW S, NEW T, NEW a, NEW b, Lists(a, S), Lists(b, T), \A x \in S, y \in T : x < y
    PROVE  Lists(a \o b, S \cup T)
<1> DEFINE n == Len(a)
           m == Len(b)
           c == a \o b
<1>1. n \in Nat /\ m \in Nat /\ a \in Seq(Nat) /\ b \in Seq(Nat) BY LenProperties DEF Lists
<1>2. /\ c \in Seq(Nat) /\ Len(c) = n + m
      /\ \A i \in 1 .. n + m : c[i] = IF i <= n THEN a[i] ELSE b[i - n]
  BY <1>1, ConcatProperties
<1> HIDE DEF c
<1>3. \A i \in 1 .. n + m : IF i <= n THEN i \in 1 .. n ELSE i - n \in 1 .. m BY <1>1
<1>4. \A i \in 1 .. n + m : c[i] \in S \cup T BY <1>2, <1>3 DEF Lists
<1>5. ASSUME NEW i \in 1 .. n + m, NEW j \in 1 .. n + m, i < j PROVE c[i] < c[j]
  <2>1. CASE j <= n
    <3>1. i \in 1 .. n /\ j \in 1 .. n /\ i <= n BY <1>1, <1>5, <2>1
    <3>2. a[i] < a[j] BY <1>5, <3>1 DEF Lists
    <3> QED BY <1>2, <2>1, <3>1, <3>2
  <2>2. CASE i > n
    <3>1. i - n \in 1 .. m /\ j - n \in 1 .. m /\ i - n < j - n /\ ~(i <= n) /\ ~(j <= n)
      BY <1>1, <1>5, <2>2
    <3>2. b[i - n] < b[j - n] BY <3>1 DEF Lists
    <3> QED BY <1>2, <3>1, <3>2
  <2>3. CASE i <= n /\ j > n
    <3>1. i \in 1 .. n /\ j - n \in 1 .. m /\ ~(j <= n) BY <1>1, <2>3
    <3>2. a[i] \in S /\ b[j - n] \in T BY <3>1 DEF Lists
    <3> QED BY <1>2, <2>3, <3>1, <3>2
  <2> QED BY <1>1, <2>1, <2>2, <2>3
<1>6. ASSUME NEW x \in S \cup T PROVE \E i \in 1 .. n + m : c[i] = x
  <2>1. CASE x \in S
    <3>1. PICK i \in 1 .. n : a[i] = x BY <2>1 DEF Lists
    <3>2. i \in 1 .. n + m /\ i <= n BY <1>1
    <3> QED BY <1>2, <3>1, <3>2
  <2>2. CASE x \in T
    <3>1. PICK i \in 1 .. m : b[i] = x BY <2>2 DEF Lists
    <3>2. n + i \in 1 .. n + m /\ ~(n + i <= n) /\ (n + i) - n = i BY <1>1
    <3> QED BY <1>2, <3>1, <3>2
  <2> QED BY <2>1, <2>2
<1> HIDE DEF n, m
<1>7. Lists(c, S \cup T) BY <1>2, <1>4, <1>5, <1>6 DEF Lists
<1> QED BY <1>7 DEF c

(* A part of a sequence.                                                    *)
LEMMA Slice ==
    ASSUME NEW X, NEW s \in Seq(X), NEW a \in 1 .. Len(s) + 1, NEW b \in a - 1 .. Len(s)
    PROVE  /\ SubSeq(s, a, b) \in Seq(X) /\ Len(SubSeq(s, a, b)) = b - a + 1
           /\ \A j \in 1 .. b - a + 1 : SubSeq(s, a, b)[j] = s[a + j - 1]
           /\ b - a + 1 \in Nat
<1> DEFINE n == Len(s)
           t == SubSeq(s, a, b)
<1>1. n \in Nat /\ \A j \in 1 .. n : s[j] \in X BY LenProperties, ElementOfSeq
<1>2. a \in Int /\ b \in Int /\ b - a + 1 \in Nat /\ (\A j \in a .. b : j \in 1 .. n)
      /\ (a <= b \/ (b < a /\ b - a + 1 = 0))
  <2>1. a \in 1 .. n + 1 /\ b \in a - 1 .. n OBVIOUS
  <2> HIDE DEF n
  <2> QED BY <1>1, <2>1
<1>3. \A j \in a .. b : s[j] \in X BY <1>1, <1>2
<1>4. CASE a <= b
  <2>1. t \in Seq(X) /\ Len(t) = b - a + 1 /\ \A j \in 1 .. b - a + 1 : t[j] = s[a + j - 1]
    BY <1>2, <1>3, <1>4, SubSeqProperties
  <2> QED BY <1>2, <2>1
<1>5. CASE b < a
  <2>1. t = <<>> BY <1>2, <1>5, SubSeqEmpty
  <2>2. <<>> \in Seq(X) /\ Len(<<>>) = 0 BY EmptySeq
  <2>3. b - a + 1 = 0 BY <1>2, <1>5
  <2> HIDE DEF t
  <2>4. t \in Seq(X) /\ Len(t) = b - a + 1 /\ \A j \in 1 .. b - a + 1 : t[j] = s[a + j - 1]
    BY <2>1, <2>2, <2>3
  <2> QED BY <1>2, <2>4 DEF t
<1> QED BY <1>2, <1>4, <1>5

(* What the concatenation of some sequences is made of.                     *)
Joins(f, ss) ==
    /\ f[0] = <<>>
    /\ \A k \in 1 .. Len(ss) : f[k] = f[k - 1] \o ss[k]

LEMMA FlattenIs ==
    ASSUME NEW X, NEW ss \in Seq(Seq(X))
    PROVE  \E f \in [0 .. Len(ss) -> Seq(X)] : Joins(f, ss) /\ FlattenSeq(ss) = f[Len(ss)]
<1> DEFINE n == Len(ss)
           G(f) == [i \in 1 .. n |-> IF i = 1 THEN ss[i] ELSE f[i - 1] \o ss[i]]
           u == CHOOSE f : f = G(f)
           h == [k \in 1 .. n |-> [v \in Seq(X) |-> v \o ss[k]]]
<1>1. n \in Nat /\ \A k \in 1 .. n : ss[k] \in Seq(X) BY LenProperties, ElementOfSeq
<1>2. <<>> \in Seq(X) BY EmptySeq
<1>3. h \in [1 .. n -> [Seq(X) -> Seq(X)]]
  <2>1. \A k \in 1 .. n, v \in Seq(X) : v \o ss[k] \in Seq(X) BY <1>1, ConcatProperties
  <2> QED BY <2>1
<1>4. \A k \in 1 .. n, v \in Seq(X) : h[k][v] = v \o ss[k] OBVIOUS
<1> HIDE DEF h
<1>5. PICK f \in [0 .. n -> Seq(X)] : Computes(f, n, <<>>, h) BY <1>1, <1>2, <1>3, Recursion
<1>6. Joins(f, ss)
  <2>1. \A k \in 1 .. n : f[k - 1] \in Seq(X)
    <3>1. \A k \in 1 .. n : k - 1 \in 0 .. n
      <4> HIDE DEF n
      <4> QED BY <1>1
    <3> HIDE DEF n
    <3> QED BY <1>5, <3>1
  <2>2. f[0] = <<>> /\ \A k \in 1 .. n : f[k] = h[k][f[k - 1]] BY <1>5 DEF Computes
  <2>3. \A k \in 1 .. n : f[k] = f[k - 1] \o ss[k] BY <1>4, <2>1, <2>2
  <2> QED BY <2>2, <2>3 DEF Joins
<1>7. CASE n = 0
  <2>1. FlattenSeq(ss) = <<>> BY <1>7, EmptySeq DEF FlattenSeq
  <2> QED BY <1>5, <1>6, <1>7, <2>1 DEF Joins
<1>8. CASE n # 0
  <2> DEFINE g == [i \in 1 .. n |-> f[i]]
  <2>1. \A i \in 1 .. n : f[i] = IF i = 1 THEN ss[i] ELSE f[i - 1] \o ss[i]
    <3>1. ASSUME NEW i \in 1 .. n, i = 1 PROVE f[i] = ss[i]
      <4>1. f[i] = f[0] \o ss[i] /\ f[0] = <<>>
        <5>1. f[0] = <<>> /\ f[i] = f[i - 1] \o ss[i] BY <1>6 DEF Joins
        <5>2. i - 1 = 0 BY <3>1
        <5> QED BY <5>1, <5>2
      <4> QED BY <1>1, <4>1, ConcatEmptySeq
    <3> QED BY <1>6, <3>1 DEF Joins
  <2>2. g = G(g)
    <3>1. \A i \in 1 .. n : i # 1 => i - 1 \in 1 .. n BY <1>1
    <3> QED BY <2>1, <3>1
  <2>3. u = G(u) BY <2>2
  <2> HIDE DEF u
  <2> DEFINE T == {k \in 0 .. n : k = 0 \/ u[k] = f[k]}
  <2>4. 0 \in T BY <1>1
  <2>5. ASSUME NEW k \in 1 .. n, k - 1 \in T PROVE k \in T
    <3>1. u[k] = IF k = 1 THEN ss[k] ELSE u[k - 1] \o ss[k] BY <2>3
    <3>2. k # 1 => u[k - 1] = f[k - 1] BY <2>5
    <3>3. u[k] = f[k] BY <2>1, <3>1, <3>2
    <3> QED BY <3>3
  <2> HIDE DEF T
  <2>6. \A k \in 0 .. n : k \in T BY <1>1, <2>4, <2>5, Climb
  <2>7. u[n] = f[n]
    <3>1. n \in 0 .. n BY <1>1
    <3> QED BY <1>8, <2>6, <3>1 DEF T
  <2>8. FlattenSeq(ss) = u[n] BY <1>8 DEF FlattenSeq, u
  <2> QED BY <1>5, <1>6, <2>7, <2>8
<1> QED BY <1>7, <1>8

(* Where the pieces lie.                                                    *)
Lies(e, ss, p) ==
    /\ p[0] = 0 /\ p[Len(ss)] = Len(e)
    /\ \A k \in 1 .. Len(ss) :
          /\ p[k] = p[k - 1] + Len(ss[k]) /\ p[k] <= Len(e)
          /\ \A j \in 1 .. Len(ss[k]) : e[p[k - 1] + j] = ss[k][j]

LEMMA FlattenLies ==
    ASSUME NEW X, NEW ss \in Seq(Seq(X))
    PROVE  /\ FlattenSeq(ss) \in Seq(X)
           /\ \E p \in [0 .. Len(ss) -> Nat] : Lies(FlattenSeq(ss), ss, p)
<1> DEFINE n == Len(ss)
           e == FlattenSeq(ss)
<1>1. n \in Nat /\ \A k \in 1 .. n : ss[k] \in Seq(X) BY LenProperties, ElementOfSeq
<1>2. PICK f \in [0 .. n -> Seq(X)] : Joins(f, ss) /\ e = f[n] BY FlattenIs
<1> HIDE DEF e
<1> DEFINE p == [k \in 0 .. n |-> Len(f[k])]
<1>3. p \in [0 .. n -> Nat] /\ \A k \in 0 .. n : p[k] = Len(f[k]) /\ Len(f[k]) \in Nat
  BY LenProperties
<1> HIDE DEF p
<1>4. \A k \in 1 .. n :
         /\ p[k] = p[k - 1] + Len(ss[k])
         /\ \A j \in 1 .. p[k - 1] : f[k][j] = f[k - 1][j]
         /\ \A j \in 1 .. Len(ss[k]) : f[k][p[k - 1] + j] = ss[k][j]
  <2> TAKE k \in 1 .. n
  <2>1. k - 1 \in 0 .. n /\ k \in 0 .. n OBVIOUS
  <2> DEFINE a == f[k - 1]
             b == ss[k]
  <2>2. f[k] = a \o b BY <1>2 DEF Joins
  <2>3. a \in Seq(X) /\ b \in Seq(X) /\ Len(a) \in Nat /\ Len(b) \in Nat BY <1>1, <2>1, LenProperties
  <2>4. Len(a) = p[k - 1] BY <1>3, <2>1
  <2> DEFINE c == f[k]
  <2> HIDE DEF a, b, c
  <2>5. Len(c) = Len(a) + Len(b)
        /\ \A i \in 1 .. Len(a) + Len(b) : c[i] = IF i <= Len(a) THEN a[i] ELSE b[i - Len(a)]
    BY <2>2, <2>3, ConcatProperties DEF c
  <2>6. \A j \in 1 .. Len(a) : c[j] = a[j] BY <2>3, <2>5
  <2>7. \A j \in 1 .. Len(b) : c[Len(a) + j] = b[j]
    <3>1. \A j \in 1 .. Len(b) : Len(a) + j \in 1 .. Len(a) + Len(b) /\ ~(Len(a) + j <= Len(a))
                                 /\ (Len(a) + j) - Len(a) = j
      BY <2>3
    <3> QED BY <2>5, <3>1
  <2>8. p[k] = Len(c) BY <1>3, <2>1 DEF c
  <2> QED BY <2>4, <2>5, <2>6, <2>7, <2>8 DEF a, b, c
<1>5. \A k \in 1 .. n : p[k - 1] \in Nat /\ p[k] \in Nat /\ Len(ss[k]) \in Nat
  <2>1. \A k \in 1 .. n : k - 1 \in 0 .. n /\ k \in 0 .. n OBVIOUS
  <2> QED BY <1>1, <1>3, <2>1, LenProperties
<1> DEFINE T == {m \in 0 .. n : \A k \in 1 .. m :
                   /\ p[k] <= p[m]
                   /\ \A j \in 1 .. Len(ss[k]) : f[m][p[k - 1] + j] = ss[k][j]}
<1>6. 0 \in T BY <1>1
<1>7. ASSUME NEW m \in 1 .. n, m - 1 \in T PROVE m \in T
  <2>1. ASSUME NEW k \in 1 .. m
        PROVE  /\ p[k] <= p[m]
               /\ \A j \in 1 .. Len(ss[k]) : f[m][p[k - 1] + j] = ss[k][j]
    <3>1. CASE k = m BY <1>4, <1>5, <3>1
    <3>2. CASE k # m
      <4>1. k \in 1 .. m - 1 /\ k \in 1 .. n BY <3>2
      <4>2. p[k] <= p[m - 1] /\ \A j \in 1 .. Len(ss[k]) : f[m - 1][p[k - 1] + j] = ss[k][j]
        BY <1>7, <4>1
      <4>3. p[m - 1] <= p[m] BY <1>4, <1>5
      <4>4. p[k] <= p[m] BY <1>5, <4>1, <4>2, <4>3
      <4>5. ASSUME NEW j \in 1 .. Len(ss[k]) PROVE f[m][p[k - 1] + j] = ss[k][j]
        <5>1. p[k] = p[k - 1] + Len(ss[k]) /\ p[k - 1] \in Nat /\ Len(ss[k]) \in Nat /\ p[m - 1] \in Nat
          BY <1>4, <1>5, <4>1
        <5>2. p[k - 1] + j \in 1 .. p[m - 1]
          <6> DEFINE a == p[k - 1]
                     l == Len(ss[k])
                     c == p[m - 1]
          <6>1. a \in Nat /\ l \in Nat /\ c \in Nat /\ j \in 1 .. l /\ a + l <= c BY <4>2, <5>1
          <6> HIDE DEF a, l, c
          <6>2. a + j \in 1 .. c BY <6>1
          <6> QED BY <6>2 DEF a, c
        <5>3. f[m][p[k - 1] + j] = f[m - 1][p[k - 1] + j] BY <1>4, <5>2
        <5> QED BY <4>2, <5>3
      <4> QED BY <4>4, <4>5
    <3> QED BY <3>1, <3>2
  <2>2. m \in 0 .. n OBVIOUS
  <2> QED BY <2>1, <2>2
<1> HIDE DEF T
<1>8. \A m \in 0 .. n : m \in T BY <1>1, <1>6, <1>7, Climb
<1>9. n \in T /\ n \in 0 .. n
  <2>1. n \in 0 .. n BY <1>1
  <2> QED BY <1>8, <2>1
<1>10. p[n] = Len(e) /\ p[0] = 0 /\ e \in Seq(X)
  <2>1. 0 \in 0 .. n /\ Len(<<>>) = 0 BY <1>1, EmptySeq
  <2> QED BY <1>2, <1>3, <1>9, <2>1 DEF Joins
<1>11. Lies(e, ss, p)
  BY <1>2, <1>4, <1>9, <1>10 DEF Lies, T
<1>12. \E q \in [0 .. Len(ss) -> Nat] : Lies(e, ss, q) BY <1>3, <1>11
<1> QED BY <1>10, <1>12 DEF e

LEMMA GreatestOf ==
    ASSUME NEW n \in Nat, NEW U \in SUBSET (0 .. n), U # {}
    PROVE  \E m \in U : \A j \in U : j <= m
<1> DEFINE W == {d \in 0 .. n : n - d \in U}
<1>1. \A u \in U : u \in 0 .. n /\ n - u \in 0 .. n /\ n - (n - u) = u OBVIOUS
<1>2. W \in SUBSET Nat /\ W # {}
  <2>1. PICK u : u \in U OBVIOUS
  <2>2. n - u \in W BY <1>1, <2>1
  <2> QED BY <2>2
<1>3. PICK d \in W : \A e \in W : d <= e
  <2> HIDE DEF W
  <2> QED BY <1>2, LeastOf
<1>4. \A j \in U : j <= n - d
  <2> TAKE j \in U
  <2>1. n - j \in W BY <1>1
  <2>2. d <= n - j BY <1>3, <2>1
  <2> QED BY <1>1, <1>3, <2>2
<1> QED BY <1>3, <1>4

LEMMA MaxFacts ==
    ASSUME NEW n \in Nat, NEW U \in SUBSET (0 .. n), U # {}
    PROVE  Max(U) \in U /\ \A j \in U : j <= Max(U)
<1>1. PICK m \in U : \A j \in U : j <= m BY GreatestOf
<1>2. \A j \in U : j \in Int /\ m \in Int OBVIOUS
<1>3. \A j \in U : m >= j BY <1>1, <1>2
<1>4. \E x \in U : \A y \in U : x >= y BY <1>3
<1>5. Max(U) \in U /\ \A y \in U : Max(U) >= y BY <1>4, Zenon DEF Max
<1> QED BY <1>5

LEMMA MinFacts ==
    ASSUME NEW U \in SUBSET Nat, U # {}
    PROVE  Min(U) \in U /\ \A j \in U : Min(U) <= j
<1>1. PICK m \in U : \A j \in U : m <= j BY LeastOf
<1>4. \E x \in U : \A y \in U : x <= y BY <1>1
<1> QED BY <1>4, Zenon DEF Min

(* What holds where it holds everywhere behind holds everywhere.            *)
LEMMA Descend ==
    ASSUME NEW n \in Nat, NEW T,
           \A i \in 1 .. n : (\A j \in i + 1 .. n : j \in T) => i \in T
    PROVE  \A i \in 1 .. n : i \in T
<1> SUFFICES ASSUME 1 .. n \ T # {} PROVE FALSE OBVIOUS
<1>1. (1 .. n \ T) \in SUBSET (0 .. n) OBVIOUS
<1>2. PICK m \in 1 .. n \ T : \A j \in 1 .. n \ T : j <= m BY <1>1, GreatestOf
<1>3. \A j \in m + 1 .. n : j \in 1 .. n /\ ~(j <= m) BY <1>2
<1>4. \A j \in m + 1 .. n : j \in T BY <1>2, <1>3
<1> QED BY <1>2, <1>4

LEMMA Rest ==
    ASSUME NEW X, NEW s \in Seq(X), NEW i \in 1 .. Len(s)
    PROVE  LET t == SubSeq(s, i, Len(s))
           IN  /\ t \in Seq(X) /\ Len(t) = Len(s) - i + 1 /\ t # <<>> /\ Len(s) \in Nat
               /\ \A j \in 1 .. Len(s) - i + 1 : t[j] = s[i + j - 1]
<1> DEFINE n == Len(s)
           t == SubSeq(s, i, n)
<1>1. n \in Nat /\ i \in 1 .. n /\ \A j \in 1 .. n : s[j] \in X BY LenProperties, ElementOfSeq
<1>2. i \in Int /\ n \in Int /\ i <= n /\ n - i + 1 > 0 /\ \A j \in i .. n : j \in 1 .. n
  <2> HIDE DEF n
  <2> QED BY <1>1
<1>3. /\ t \in Seq(X) /\ Len(t) = n - i + 1
      /\ \A j \in 1 .. n - i + 1 : t[j] = s[i + j - 1]
  BY <1>1, <1>2, SubSeqProperties
<1>4. t # <<>>
  <2>1. Len(t) > 0 BY <1>2, <1>3
  <2> QED BY <2>1, EmptySeq
<1> QED BY <1>1, <1>3, <1>4

LEMMA PrefixIs ==
    ASSUME NEW X, NEW s \in Seq(X), NEW t \in Seq(X), Len(s) <= Len(t),
           \A j \in 1 .. Len(s) : t[j] = s[j]
    PROVE  IsPrefix(s, t)
<1> DEFINE n == Len(s)
           b == SubSeq(t, 1, n)
<1>1. n \in Nat /\ Len(t) \in Nat BY LenProperties
<1>2. 1 \in 1 .. Len(t) + 1 /\ n \in 1 - 1 .. Len(t) /\ n - 1 + 1 = n /\ \A j \in 1 .. n : 1 + j - 1 = j
  <2>1. n <= Len(t) OBVIOUS
  <2> HIDE DEF n
  <2> QED BY <1>1, <2>1
<1>3. b \in Seq(X) /\ Len(b) = n /\ \A j \in 1 .. n : b[j] = t[j]
  <2> HIDE DEF n
  <2> QED BY <1>2, Slice
<1> HIDE DEF b
<1>4. b = s BY <1>3, SeqEqual
<1>5. SubSeq(s, 1, n) = s BY SubSeqFull
<1> QED BY <1>4, <1>5 DEF IsPrefix, b

LEMMA ReverseIs ==
    ASSUME NEW X, NEW s \in Seq(X)
    PROVE  /\ Reverse(s) \in Seq(X) /\ Len(Reverse(s)) = Len(s)
           /\ \A j \in 1 .. Len(s) : Reverse(s)[j] = s[Len(s) - j + 1]
<1> DEFINE n == Len(s)
           r == [i \in 1 .. n |-> s[(n - i) + 1]]
<1>1. n \in Nat /\ \A i \in 1 .. n : s[i] \in X BY LenProperties, ElementOfSeq
<1>2. \A i \in 1 .. n : (n - i) + 1 \in 1 .. n
  <2> HIDE DEF n
  <2> QED BY <1>1
<1>3. r \in [1 .. n -> X] BY <1>1, <1>2
<1>4. Reverse(s) = r BY DEF Reverse
<1>5. r \in Seq(X) /\ Len(r) = n
  <2> HIDE DEF r, n
  <2>1. r \in Seq(X) BY <1>1, <1>3, SeqDef
  <2> QED BY <1>1, <1>3, <2>1, LenProperties
<1> QED BY <1>4, <1>5

LEMMA SuffixIs ==
    ASSUME NEW X, NEW s \in Seq(X), NEW t \in Seq(X), NEW k \in Nat, Len(t) = k + Len(s),
           \A j \in 1 .. Len(s) : t[k + j] = s[j]
    PROVE  IsSuffix(s, t)
<1> DEFINE n == Len(s)
           m == Len(t)
           a == Reverse(s)
           b == Reverse(t)
<1>1. n \in Nat /\ m \in Nat /\ m = k + n BY LenProperties
<1>2. a \in Seq(X) /\ Len(a) = n /\ \A j \in 1 .. n : a[j] = s[n - j + 1] BY ReverseIs
<1>3. b \in Seq(X) /\ Len(b) = m /\ \A j \in 1 .. m : b[j] = t[m - j + 1] BY ReverseIs
<1>4. \A j \in 1 .. n : t[k + j] = s[j] OBVIOUS
<1> HIDE DEF n, m, a, b
<1>5. \A j \in 1 .. n : j \in 1 .. m /\ n - j + 1 \in 1 .. n /\ m - j + 1 = k + (n - j + 1) BY <1>1
<1>6. \A j \in 1 .. n : b[j] = a[j]
  <2> TAKE j \in 1 .. n
  <2> DEFINE i == n - j + 1
  <2>1. j \in 1 .. m /\ i \in 1 .. n /\ m - j + 1 = k + i BY <1>5
  <2>2. b[j] = t[m - j + 1] /\ a[j] = s[i] BY <1>2, <1>3, <2>1
  <2> HIDE DEF i
  <2>3. t[k + i] = s[i] BY <1>4, <2>1
  <2> QED BY <2>1, <2>2, <2>3
<1>7. Len(a) <= Len(b) BY <1>1, <1>2, <1>3
<1>8. \A j \in 1 .. Len(a) : b[j] = a[j] BY <1>2, <1>6
<1>9. IsPrefix(a, b) BY <1>2, <1>3, <1>7, <1>8, PrefixIs
<1> QED BY <1>9 DEF IsSuffix, a, b

LEMMA SuffixJoined ==
    ASSUME NEW X, NEW s \in Seq(X), NEW t \in Seq(X)
    PROVE  IsSuffix(t, s \o t) /\ IsPrefix(s, s \o t)
<1> DEFINE u == s \o t
           k == Len(s)
           n == Len(t)
<1>1. k \in Nat /\ n \in Nat BY LenProperties
<1>2. u \in Seq(X) /\ Len(u) = k + n /\ \A i \in 1 .. k + n : u[i] = IF i <= k THEN s[i] ELSE t[i - k]
  BY ConcatProperties
<1> HIDE DEF u
<1>3. (\A j \in 1 .. n : k + j \in 1 .. k + n /\ ~(k + j <= k) /\ (k + j) - k = j)
      /\ (\A j \in 1 .. k : j \in 1 .. k + n /\ j <= k) /\ k <= k + n
  <2> HIDE DEF k, n
  <2> QED BY <1>1
<1>4. \A j \in 1 .. n : u[k + j] = t[j] BY <1>2, <1>3
<1>5. \A j \in 1 .. k : u[j] = s[j] BY <1>2, <1>3
<1>6. IsSuffix(t, u) BY <1>1, <1>2, <1>4, SuffixIs
<1>7. IsPrefix(s, u) BY <1>2, <1>3, <1>5, PrefixIs
<1> QED BY <1>6, <1>7 DEF u

-----------------------------------------------------------------------------
(***************************************************************************)
(* One helper runs in a behaviour, by its own steps.                        *)
(***************************************************************************)

(* One helper runs in a behaviour, by its own steps.                        *)
LEMMA OnlyOne ==
    ASSUME [Next]_vars
    PROVE  /\ part' = part
           /\ part = "segment" => [Segmenter!Next]_(Segmenter!vars)
           /\ part = "messages" => [Messages!Next]_(Messages!vars)
           /\ part = "streams" => [Zipper!Next]_(Zipper!vars)
           /\ part = "replies" => [Replier!Next]_(Replier!vars)
<1>1. CASE GrowText
  BY <1>1 DEF GrowText, TextParts
<1>2. CASE RunSegmenter
  BY <1>2 DEF RunSegmenter
<1>3. CASE RunMessages
  BY <1>3 DEF RunMessages
<1>4. CASE RunConverter
  BY <1>4 DEF RunConverter
<1>5. CASE RunZipper
  BY <1>5 DEF RunZipper
<1>6. CASE RunReplier
  BY <1>6 DEF RunReplier
<1>7. CASE UNCHANGED vars
  BY <1>7 DEF vars, textVars, segmentVars, jsonVars, streamVars, callVars, replyVars,
     Segmenter!vars, Segmenter!loadVars, Messages!vars, Messages!objectVars, Messages!globalVars,
     Zipper!vars, Replier!vars
<1> QED BY <1>1, <1>2, <1>3, <1>4, <1>5, <1>6, <1>7 DEF Next

-----------------------------------------------------------------------------
(***************************************************************************)
(* The replies of a connection.                                             *)
(***************************************************************************)
(* A connection that is still open has not answered with content, whatever  *)
(* headers it has sent.                                                     *)
ContentType == [by : Nat, len : Nat, left : BOOLEAN]

(* While the connection is open its content is empty or begins with what    *)
(* get_fullpath left.                                                       *)
BeginsLeft(s) == s = <<>> \/ (1 \in DOMAIN s /\ s[1].left)

ReplierInv ==
    /\ request \in Nat /\ content \in Seq(ContentType)
    /\ open => BeginsLeft(content)
    /\ Replier!ReplyIsOwn

LEMMA OnePiece ==
    ASSUME ReplierInv, Replier!Asked, NEW n \in ReplyLengths, NEW left \in BOOLEAN
    PROVE  LET p == [by |-> request', len |-> n, left |-> left]
           IN  /\ p \in ContentType /\ <<p>> \in Seq(ContentType) /\ Len(<<p>>) = 1
               /\ DOMAIN <<p>> = {1} /\ <<p>>[1] = p
<1>1. n \in Nat BY HelpersAssumption DEF Replier!RepliesAssumption
<1> DEFINE p == [by |-> request', len |-> n, left |-> left]
<1>2. p \in ContentType BY <1>1 DEF ReplierInv, Replier!Asked, ContentType
<1> HIDE DEF p
<1>3. /\ <<p>> \in Seq(ContentType) /\ Len(<<p>>) = 1 /\ DOMAIN <<p>> = {1} /\ <<p>>[1] = p
  BY <1>2
<1> QED BY <1>2, <1>3 DEF p

(* What get_fullpath makes of the content.                                  *)
LEMMA FullpathLeaves ==
    ASSUME ReplierInv, Replier!Asked, NEW rep \in Replier!GetFullpath
    PROVE  rep.content \in Seq(ContentType) /\ BeginsLeft(rep.content)
<1>1. CASE rep.content = content
  BY <1>1 DEF ReplierInv, Replier!Asked
<1>2. ASSUME NEW n \in ReplyLengths, rep = Replier!Stock(400, n, TRUE)
      PROVE  rep.content \in Seq(ContentType) /\ BeginsLeft(rep.content)
  <2> DEFINE p == [by |-> request', len |-> n, left |-> TRUE]
  <2>1. rep.content = <<p>> BY <1>2 DEF Replier!Stock
  <2>2. <<p>> \in Seq(ContentType) /\ DOMAIN <<p>> = {1} /\ <<p>>[1] = p BY OnePiece
  <2>3. p.left OBVIOUS
  <2> HIDE DEF p
  <2> QED BY <2>1, <2>2, <2>3 DEF BeginsLeft
<1>3. rep.content = content \/ \E n \in ReplyLengths : rep = Replier!Stock(400, n, TRUE)
  <2> DEFINE asItIs == [status |-> status, headers |-> headers, content |-> content]
  <2>1. asItIs.content = content OBVIOUS
  <2>2. Replier!GetFullpath = {asItIs} \cup {Replier!Stock(400, n, TRUE) : n \in ReplyLengths}
    BY DEF Replier!GetFullpath
  <2> HIDE DEF asItIs
  <2> QED BY <2>1, <2>2
<1> QED BY <1>1, <1>2, <1>3

(* With something left in front the reply is the exception; without, the    *)
(* content is empty.                                                        *)
LEMMA LeftOrNothing ==
    ASSUME NEW s, BeginsLeft(s)
    PROVE  s = <<>> \/ \E i \in DOMAIN s : s[i].left
BY DEF BeginsLeft

LEMMA NextReplier == ReplierInv /\ [Replier!Next]_(Replier!vars) => ReplierInv'
<1> SUFFICES ASSUME ReplierInv, [Replier!Next]_(Replier!vars) PROVE ReplierInv'
  OBVIOUS
<1>a. Replier!Asked => request' \in Nat /\ open BY DEF ReplierInv, Replier!Asked
<1>e. <<>> \in Seq(ContentType) /\ Len(<<>>) = 0 BY EmptySeq
<1>1. CASE Replier!SendNothing
  <2>1. PICK rep \in Replier!GetFullpath : content' = rep.content /\ sent' = Replier!Nothing
    BY <1>1 DEF Replier!SendNothing
  <2>2. Replier!Asked BY <1>1 DEF Replier!SendNothing
  <2>3. content' \in Seq(ContentType) /\ BeginsLeft(content') BY <2>1, <2>2, FullpathLeaves
  <2>4. Replier!ReplyIsOwn'
    BY <1>e, <2>1 DEF Replier!Nothing, Replier!ReplyIsOwn, Replier!LengthSent
  <2> QED BY <1>a, <2>2, <2>3, <2>4 DEF ReplierInv, BeginsLeft
<1>2. CASE Replier!NotModified
  <2>1. PICK rep \in Replier!GetFullpath : content' = rep.content BY <1>2 DEF Replier!NotModified
  <2>2. /\ Replier!Asked /\ ~open' /\ sent'.content = content' /\ sent'.file = 0 /\ sent'.status = 304
    BY <1>2 DEF Replier!NotModified, Replier!DoWrite, Replier!ToBuffers
  <2>3. content' \in Seq(ContentType) /\ BeginsLeft(content') BY <2>1, <2>2, FullpathLeaves
  <2>4. Replier!ReplyIsOwn'
    BY <1>e, <2>2, <2>3, LeftOrNothing
       DEF Replier!ReplyIsOwn, Replier!Leftover, Replier!LengthSent
  <2> QED BY <1>a, <2>2, <2>3, <2>4 DEF ReplierInv
<1>f. ASSUME NEW n \in ReplyLengths, NEW names, NEW rep \in Replier!GetFullpath, Replier!Asked,
             content' = rep.content, status' \in {200, 206}, headers' = Replier!Resized(names, n),
             sent' = Replier!ToBuffers(n), DOMAIN names \in {1 .. 3, 1 .. 4}, names[1] = "Content-Length"
      PROVE  ReplierInv'
  <2>1. /\ sent'.content = content' /\ sent'.file = n /\ sent'.status \in {200, 206}
        /\ sent'.headers = headers'
    BY <1>f DEF Replier!ToBuffers
  <2>2. content' \in Seq(ContentType) /\ BeginsLeft(content') BY <1>f, FullpathLeaves
  <2>3. /\ \A i \in DOMAIN headers' : headers'[i].by = request'
        /\ headers'[1].name = "Content-Length" /\ headers'[1].length = n
    BY <1>f DEF Replier!Resized
  <2>4. Replier!ReplyIsOwn'
    BY <1>e, <2>1, <2>2, <2>3, LeftOrNothing
       DEF Replier!ReplyIsOwn, Replier!Leftover, Replier!LengthSent
  <2> QED BY <1>a, <1>f, <2>2, <2>4 DEF ReplierInv
<1>3. ASSUME NEW n \in ReplyLengths, Replier!SendFile(n) PROVE ReplierInv'
  <2>1. PICK rep \in Replier!GetFullpath : content' = rep.content BY <1>3 DEF Replier!SendFile
  <2>2. /\ Replier!Asked /\ status' = 200 /\ headers' = Replier!Resized(Replier!FileNames, n)
        /\ sent' = Replier!ToBuffers(n)
    BY <1>3 DEF Replier!SendFile
  <2>3. DOMAIN Replier!FileNames = 1 .. 3 /\ Replier!FileNames[1] = "Content-Length"
    BY DEF Replier!FileNames
  <2> QED BY <1>f, <2>1, <2>2, <2>3
<1>4. ASSUME NEW n \in ReplyLengths, Replier!SendRange(n) PROVE ReplierInv'
  <2> DEFINE names == Append(Replier!FileNames, "Content-Range")
  <2>1. PICK rep \in Replier!GetFullpath : content' = rep.content BY <1>4 DEF Replier!SendRange
  <2>2. /\ Replier!Asked /\ status' = 206 /\ headers' = Replier!Resized(names, n)
        /\ sent' = Replier!ToBuffers(n)
    BY <1>4 DEF Replier!SendRange
  <2>3. DOMAIN names = 1 .. 4 /\ names[1] = "Content-Length"
    BY DEF Replier!FileNames
  <2> HIDE DEF names
  <2> QED BY <1>f, <2>1, <2>2, <2>3
<1>w. ASSUME NEW n \in ReplyLengths, NEW names, Replier!Asked,
             content' = <<[by |-> request', len |-> n, left |-> FALSE]>>,
             headers' = Replier!Resized(names, n), Replier!DoWrite,
             DOMAIN names \in {1 .. 2, 1 .. 3}, names[1] = "Content-Length",
             status' # 304
      PROVE  ReplierInv'
  <2> DEFINE p == [by |-> request', len |-> n, left |-> FALSE]
  <2>1. /\ sent'.content = content' /\ sent'.file = 0 /\ sent'.status # 304
        /\ sent'.headers = headers' /\ ~open'
    BY <1>w DEF Replier!ToBuffers, Replier!DoWrite
  <2>2. /\ <<p>> \in Seq(ContentType) /\ Len(<<p>>) = 1 /\ DOMAIN <<p>> = {1} /\ <<p>>[1] = p
        /\ p.by = request' /\ p.len = n
    BY <1>w, OnePiece
  <2>3. /\ \A i \in DOMAIN headers' : headers'[i].by = request'
        /\ headers'[1].name = "Content-Length" /\ headers'[1].length = n
    BY <1>w DEF Replier!Resized
  <2>4. content' = <<p>> BY <1>w
  <2> HIDE DEF p
  <2>5. Replier!ReplyIsOwn'
    BY <2>1, <2>2, <2>3, <2>4 DEF Replier!ReplyIsOwn, Replier!LengthSent
  <2> QED BY <1>a, <1>w, <2>1, <2>2, <2>4, <2>5 DEF ReplierInv
<1>5. ASSUME NEW n \in ReplyLengths, Replier!AnswerCompressed(n) PROVE ReplierInv'
  <2> DEFINE p == [by |-> request', len |-> n, left |-> FALSE]
             names == <<"Content-Length", "Content-Type", "Content-Encoding">>
  <2>1. /\ Replier!Asked /\ status' = 200 /\ content' = Append(content, p)
        /\ headers' = Replier!Resized(names, n) /\ Replier!DoWrite
    BY <1>5 DEF Replier!AnswerCompressed
  <2>2. DOMAIN names = 1 .. 3 /\ names[1] = "Content-Length" OBVIOUS
  <2>3. CASE content = <<>>
    <3>1. content' = <<p>>
      <4> HIDE DEF p
      <4>1. Append(<<>>, p) = <<p>> OBVIOUS
      <4> QED BY <2>1, <2>3, <4>1
    <3>2. status' # 304 /\ Replier!Asked /\ headers' = Replier!Resized(names, n) /\ Replier!DoWrite
      BY <2>1
    <3>3. DOMAIN names \in {1 .. 2, 1 .. 3} BY <2>2
    <3> HIDE DEF names
    <3> QED BY <1>w, <2>2, <3>1, <3>2, <3>3, Zenon
  <2>4. CASE content # <<>>
    <3>1. p \in ContentType BY <2>1, OnePiece
    <3>2. 1 \in DOMAIN content /\ content[1].left /\ content \in Seq(ContentType)
      BY <2>1, <2>4 DEF ReplierInv, BeginsLeft, Replier!Asked
    <3> HIDE DEF p, names
    <3>3. /\ content' \in Seq(ContentType) /\ 1 \in DOMAIN content' /\ content'[1] = content[1]
      BY <2>1, <3>1, <3>2, AppendProperties, LenProperties
    <3>4. ~open' /\ sent'.content = content' BY <2>1 DEF Replier!DoWrite, Replier!ToBuffers
    <3>5. Replier!ReplyIsOwn' BY <3>2, <3>3, <3>4 DEF Replier!ReplyIsOwn, Replier!Leftover
    <3> QED BY <1>a, <2>1, <3>3, <3>4, <3>5 DEF ReplierInv
  <2> QED BY <2>3, <2>4
<1>6. ASSUME NEW n \in ReplyLengths, NEW code \in {400, 404}, Replier!StockReply(code, n)
      PROVE  ReplierInv'
  <2> DEFINE names == <<"Content-Length", "Content-Type">>
  <2>1. /\ Replier!Asked /\ status' = code /\ headers' = Replier!Resized(names, n) /\ Replier!DoWrite
        /\ content' = <<[by |-> request', len |-> n, left |-> FALSE]>>
    BY <1>6 DEF Replier!StockReply, Replier!Stock
  <2>2. DOMAIN names = 1 .. 2 /\ names[1] = "Content-Length" OBVIOUS
  <2> HIDE DEF names
  <2> QED BY <1>w, <2>1, <2>2
<1>7. ASSUME NEW n \in ReplyLengths, NEW names \in Replier!Answers, Replier!Answer(n, names)
      PROVE  ReplierInv'
  <2>1. /\ Replier!Asked /\ status' = 200 /\ headers' = Replier!Resized(names, n) /\ Replier!DoWrite
        /\ content' = <<[by |-> request', len |-> n, left |-> FALSE]>>
    BY <1>7 DEF Replier!Answer
  <2>2. DOMAIN names \in {1 .. 2, 1 .. 3} /\ names[1] = "Content-Length"
    BY DEF Replier!Answers
  <2> QED BY <1>w, <2>1, <2>2
<1>8. CASE UNCHANGED Replier!vars
  BY <1>8 DEF ReplierInv, Replier!vars, Replier!ReplyIsOwn, Replier!LengthSent, Replier!Leftover
<1> QED BY <1>1, <1>2, <1>3, <1>4, <1>5, <1>6, <1>7, <1>8 DEF Replier!Next

(* Over any sequence of requests on a connection, no header and no byte of  *)
(* content that was set for an earlier reply is sent with this one, and its *)
(* Content-Length is that of what follows, unless the page is in it that    *)
(* get_fullpath left in reply_ when it refused a path: nothing else breaks  *)
(* a reply.                                                                 *)
THEOREM RepliesAreOwn == Spec => []ReplyIsOwn
<1> DEFINE Inv == part = "replies" => ReplierInv
<1>1. Init => Inv
  BY EmptySeq DEF Init, Replier!Init, Replier!Nothing, ReplierInv, Replier!ReplyIsOwn,
     Replier!LengthSent, BeginsLeft
<1>2. Inv /\ [Next]_vars => Inv'
  BY OnlyOne, NextReplier
<1>3. Inv => ReplyIsOwn
  BY DEF ReplierInv, ReplyIsOwn
<1> HIDE DEF Inv
<1> QED BY <1>1, <1>2, <1>3, PTL DEF Spec

-----------------------------------------------------------------------------
(***************************************************************************)
(* Reading a gzip chain.                                                    *)
(***************************************************************************)
ReadPiece == [at : Nat, len : Nat]

(* What was given out is what was delivered; before a copy nothing was.     *)
ZipperInv ==
    /\ stream \in [len : Nat, broken : BOOLEAN] /\ chunk \in Nat /\ pos \in Nat
    /\ pieces \in Seq(ReadPiece)
    /\ pos = Zipper!Delivered /\ pos <= stream.len
    /\ fn \in {"none"} \cup Zipper!Copies => result # "none" \/ pieces = <<>>
    /\ fn = "none" => result = "none" /\ pieces = <<>>
    /\ fn \in Zipper!Copies /\ result # "failed" => chunk = 1
    /\ fn \notin Zipper!Copies /\ chunk = 0 => pieces = <<>>
    /\ result = "none" => buffers = 0
    /\ Zipper!StreamDelivered

(* One more piece begins where the others end.                              *)
LEMMA OneMore ==
    ASSUME ZipperInv, NEW n \in Nat, Zipper!Deliver(n)
    PROVE  /\ Zipper!Given(n) \in 0 .. n /\ pos' = pos + Zipper!Given(n) /\ pos' \in Nat
           /\ pos' <= stream.len
           /\ pieces' \in Seq(ReadPiece) /\ Len(pieces') = Len(pieces) + 1 /\ Len(pieces) \in Nat
           /\ DOMAIN pieces' = 1 .. Len(pieces')
           /\ pieces'[Len(pieces')] = [at |-> pos, len |-> Zipper!Given(n)]
           /\ \A i \in 1 .. Len(pieces) : i \in DOMAIN pieces /\ pieces'[i] = pieces[i]
<1>1. /\ pieces \in Seq(ReadPiece) /\ pos \in Nat /\ stream.len \in Nat /\ pos <= stream.len
  BY DEF ZipperInv
<1>2. Zipper!Given(n) \in 0 .. n /\ pos + Zipper!Given(n) <= stream.len
  BY <1>1 DEF Zipper!Given
<1>3. [at |-> pos, len |-> Zipper!Given(n)] \in ReadPiece BY <1>1, <1>2 DEF ReadPiece
<1>4. pos' = pos + Zipper!Given(n) /\ pieces' = Append(pieces, [at |-> pos, len |-> Zipper!Given(n)])
  BY DEF Zipper!Deliver
<1>5. Len(pieces) \in Nat /\ DOMAIN pieces = 1 .. Len(pieces) BY <1>1, LenProperties
<1>6. /\ pieces' \in Seq(ReadPiece) /\ Len(pieces') = Len(pieces) + 1
      /\ pieces'[Len(pieces')] = [at |-> pos, len |-> Zipper!Given(n)]
      /\ \A i \in 1 .. Len(pieces) : pieces'[i] = pieces[i]
  BY <1>1, <1>3, <1>4, <1>5, AppendProperties
<1> QED BY <1>1, <1>2, <1>4, <1>5, <1>6, LenProperties

LEMMA ReadDelivers ==
    ASSUME ZipperInv, fn \notin Zipper!Copies, result = "none", fn # "none",
           ~Zipper!Throws(chunk), Zipper!Given(chunk) > 0, Zipper!Deliver(chunk),
           UNCHANGED <<fn, stream, chunk, buffers, result>>
    PROVE  ZipperInv'
<1> DEFINE n == Len(pieces)
<1>1. /\ Zipper!Given(chunk) \in 1 .. chunk /\ pos' = pos + Zipper!Given(chunk) /\ pos' \in Nat
      /\ pos' <= stream.len
      /\ pieces' \in Seq(ReadPiece) /\ Len(pieces') = n + 1 /\ n \in Nat
      /\ DOMAIN pieces' = 1 .. Len(pieces')
      /\ pieces'[n + 1] = [at |-> pos, len |-> Zipper!Given(chunk)]
      /\ \A i \in 1 .. n : i \in DOMAIN pieces /\ pieces'[i] = pieces[i]
  BY OneMore DEF ZipperInv
<1>2. pos \in Nat /\ pos = Zipper!EndOf(n) /\ chunk \in Nat BY DEF ZipperInv, Zipper!Delivered
<1>3. \A i \in 0 .. n : Zipper!EndOf(i)' = Zipper!EndOf(i)
  BY <1>1 DEF Zipper!EndOf
<1>4. Zipper!Delivered' = pos' BY <1>1, <1>2 DEF Zipper!Delivered, Zipper!EndOf
<1>5. chunk # 0 /\ pieces' # <<>> BY <1>1, <1>2, EmptySeq
<1>6. \A i \in DOMAIN pieces' :
        /\ pieces'[i].at = Zipper!EndOf(i - 1)'
        /\ pieces'[i].at + pieces'[i].len <= stream.len
        /\ pieces'[i].len \in 1 .. chunk
  <2> SUFFICES ASSUME NEW i \in 1 .. n + 1
               PROVE  /\ pieces'[i].at = Zipper!EndOf(i - 1)
                      /\ pieces'[i].at + pieces'[i].len <= stream.len
                      /\ pieces'[i].len \in 1 .. chunk
    <3>1. \A i \in 1 .. n + 1 : i - 1 \in 0 .. n BY <1>1
    <3> QED BY <1>1, <1>3, <3>1
  <2>1. CASE i = n + 1 BY <1>1, <1>2, <2>1
  <2>2. CASE i # n + 1
    <3>1. i \in DOMAIN pieces /\ pieces'[i] = pieces[i] BY <1>1, <2>2
    <3> QED BY <3>1 DEF ZipperInv, Zipper!StreamDelivered
  <2> QED BY <2>1, <2>2
<1>7. Zipper!StreamDelivered'
  BY <1>6 DEF Zipper!StreamDelivered
<1> QED BY <1>1, <1>4, <1>5, <1>7 DEF ZipperInv

LEMMA NextZipper ==
    StreamLengths \subseteq Nat /\ StreamChunks \subseteq Nat /\ ZipperInv /\ [Zipper!Next]_(Zipper!vars)
        => ZipperInv'
<1> SUFFICES ASSUME StreamLengths \subseteq Nat, StreamChunks \subseteq Nat,
                    ZipperInv, [Zipper!Next]_(Zipper!vars)
             PROVE  ZipperInv'
  OBVIOUS
<1> USE DEF Zipper!EndOf, Zipper!Delivered
<1>e. Len(<<>>) = 0 /\ <<>> \in Seq(ReadPiece) /\ DOMAIN <<>> = {} BY EmptySeq
<1>1. ASSUME NEW f \in Zipper!Loops \cup Zipper!Copies \cup {"GetData"}, NEW s \in Zipper!StreamType,
             NEW n \in Nat, f \in Zipper!Copies => n = 1, Zipper!Begin(f, s, n)
      PROVE  ZipperInv'
  <2>1. s \in [len : Nat, broken : BOOLEAN] /\ s.len \in Nat BY DEF Zipper!StreamType
  <2>2. /\ fn = "none" /\ fn' = f /\ stream' = s /\ chunk' = n
        /\ UNCHANGED <<pos, buffers, pieces, result>>
    BY <1>1 DEF Zipper!Begin
  <2>3. result = "none" /\ pieces = <<>> /\ pos = 0 /\ buffers = 0
    BY <1>e, <2>2 DEF ZipperInv
  <2>4. Zipper!StreamDelivered' BY <1>e, <2>2, <2>3 DEF Zipper!StreamDelivered
  <2> QED BY <1>1, <1>e, <2>1, <2>2, <2>3, <2>4 DEF ZipperInv
<1>2. ASSUME NEW f \in Zipper!Loops \cup Zipper!Copies \cup {"GetData"}, Zipper!Refused(f)
      PROVE  ZipperInv'
  BY <1>2, <1>e DEF ZipperInv, Zipper!Refused, Zipper!StreamDelivered, Zipper!Loops, Zipper!Copies
<1>3. ASSUME ~Zipper!Throws(chunk), Zipper!Given(chunk) = 0, Zipper!Ended,
             Zipper!Running(Zipper!Loops) \/ Zipper!Running({"GetData"})
      PROVE  ZipperInv'
  BY <1>3, <1>e DEF ZipperInv, Zipper!Ended, Zipper!Throws, Zipper!Given, Zipper!StreamDelivered,
     Zipper!Loops, Zipper!Copies, Zipper!Running
<1>4. ASSUME NEW k \in {0, 1}, Zipper!MayThrow, Zipper!Failed(k),
             Zipper!Running(Zipper!Loops) \/ Zipper!Running({"GetData"})
      PROVE  ZipperInv'
  BY <1>4 DEF ZipperInv, Zipper!Failed, Zipper!Thrown, Zipper!MayThrow, Zipper!StreamDelivered,
     Zipper!Loops, Zipper!Copies, Zipper!Catches, Zipper!Running
<1>5. CASE Zipper!LoopReads
  BY <1>3, <1>4, <1>5, ReadDelivers
     DEF Zipper!LoopReads, Zipper!Running, Zipper!Loops, Zipper!Copies
<1>6. CASE Zipper!GetData
  BY <1>3, <1>4, <1>6, ReadDelivers
     DEF Zipper!GetData, Zipper!Running, Zipper!Copies
<1>7. CASE Zipper!Copy
  <2>1. ASSUME NEW n \in Nat, Zipper!Deliver(n), n <= stream.len,
               UNCHANGED <<fn, stream, chunk, buffers>>,
               (~stream.broken /\ n = stream.len /\ result' = "end")
                 \/ (Zipper!MayThrow /\ Zipper!Thrown)
        PROVE  ZipperInv'
    <3>1. fn \in Zipper!Copies /\ result = "none" /\ pieces = <<>>
      BY <1>7 DEF Zipper!Copy, Zipper!Running, ZipperInv
    <3>2. /\ Zipper!Given(n) \in 0 .. n /\ pos' = pos + Zipper!Given(n) /\ pos' \in Nat
          /\ pos' <= stream.len
          /\ pieces' \in Seq(ReadPiece) /\ Len(pieces') = 1
          /\ DOMAIN pieces' = 1 .. 1
          /\ pieces'[1] = [at |-> pos, len |-> Zipper!Given(n)]
      BY <2>1, <3>1, <1>e, OneMore
    <3>3. pos = 0 /\ buffers = 0 /\ chunk = 1 BY <3>1, <1>e DEF ZipperInv
    <3>4. n = stream.len => Zipper!Given(n) = stream.len
      BY <3>3 DEF Zipper!Given, ZipperInv
    <3>5. pos' = Zipper!Delivered' BY <3>2, <1>e
    <3>6. Zipper!StreamDelivered'
      BY <2>1, <3>1, <3>2, <3>3, <3>4, <3>5, <1>e
         DEF Zipper!StreamDelivered, Zipper!Thrown, Zipper!MayThrow, Zipper!Copies, Zipper!Catches
    <3>7. result' # "none" BY <2>1 DEF Zipper!Thrown
    <3> QED BY <2>1, <3>1, <3>2, <3>3, <3>5, <3>6, <3>7 DEF ZipperInv, Zipper!Copies
  <2>2. stream.len \in Nat BY DEF ZipperInv
  <2> QED BY <1>7, <2>1, <2>2 DEF Zipper!Copy
<1>8. CASE UNCHANGED Zipper!vars
  BY <1>8 DEF ZipperInv, Zipper!vars, Zipper!StreamDelivered
<1> QED
  <2>1. ASSUME NEW s \in Zipper!StreamType, NEW n \in StreamChunks,
               Zipper!AndCallback(s, n) \/ Zipper!AndCallbackFromFile(s, n) \/ Zipper!Push(s, n)
        PROVE  ZipperInv'
    BY <2>1, <1>1, <1>2 DEF Zipper!AndCallback, Zipper!AndCallbackFromFile, Zipper!Push,
       Zipper!Loops, Zipper!Copies
  <2>2. ASSUME NEW s \in Zipper!StreamType, Zipper!FileToFile(s) \/ Zipper!DataToFile(s)
        PROVE  ZipperInv'
    BY <2>2, <1>1, <1>2 DEF Zipper!FileToFile, Zipper!DataToFile, Zipper!Loops, Zipper!Copies
  <2> QED BY <2>1, <2>2, <1>5, <1>6, <1>7, <1>8 DEF Zipper!Next

(* However a chain is read and wherever its stream breaks: the pieces are   *)
(* the stream's bytes in order, and who came to the end had all of them.    *)
THEOREM StreamsDelivered == Spec => []StreamDelivered
<1> DEFINE Inv == part = "streams" => ZipperInv
<1>0. StreamLengths \subseteq Nat /\ StreamChunks \subseteq Nat
  BY HelpersAssumption DEF Zipper!StreamsAssumption
<1>1. Init => Inv
  <2> SUFFICES ASSUME Init PROVE ZipperInv
    OBVIOUS
  <2>1. Len(<<>>) = 0 /\ <<>> \in Seq(ReadPiece) /\ DOMAIN <<>> = {} BY EmptySeq
  <2> QED BY <2>1 DEF Init, Zipper!Init, ZipperInv, Zipper!StreamDelivered, Zipper!Copies,
                      Zipper!Delivered, Zipper!EndOf
<1>2. Inv /\ [Next]_vars => Inv'
  BY <1>0, OnlyOne, NextZipper
<1>3. Inv => StreamDelivered
  BY DEF ZipperInv, StreamDelivered
<1> HIDE DEF Inv
<1> QED BY <1>1, <1>2, <1>3, PTL DEF Spec

-----------------------------------------------------------------------------
(***************************************************************************)
(* Loading the dictionary.                                                  *)
(***************************************************************************)
WordType == Seq(STRING) \ {<<>>}

LEMMA PathFacts ==
    ASSUME NEW w \in WordType
    PROVE  /\ w \in Segmenter!Path(w)
           /\ \A p \in Segmenter!Path(w) : Len(p) \in Nat /\ Len(p) <= Len(w) /\ (Len(p) = Len(w) => p = w)
<1>1. w \in Seq(STRING) /\ Len(w) \in Nat /\ Len(w) # 0 BY LenProperties, EmptySeq DEF WordType
<1>2. SubSeq(w, 1, Len(w)) = w BY <1>1, SubSeqFull
<1>3. \A n \in 1 .. Len(w) : Len(SubSeq(w, 1, n)) = n BY <1>1, SubSeqProperties
<1>4. Segmenter!Path(w) = {SubSeq(w, 1, n) : n \in 1 .. Len(w)} BY DEF Segmenter!Path
<1>5. Len(w) \in 1 .. Len(w) BY <1>1
<1>6. \A n \in 1 .. Len(w) : n \in Nat /\ n <= Len(w) BY <1>1
<1> QED
  <2>1. w \in Segmenter!Path(w) BY <1>2, <1>4, <1>5
  <2> SUFFICES ASSUME NEW n \in 1 .. Len(w)
               PROVE  /\ Len(SubSeq(w, 1, n)) \in Nat /\ Len(SubSeq(w, 1, n)) <= Len(w)
                      /\ Len(SubSeq(w, 1, n)) = Len(w) => SubSeq(w, 1, n) = w
    BY <1>4, <2>1
  <2> QED BY <1>2, <1>3, <1>6

(* The nodes are the paths of the lines read, and each word's node has the  *)
(* class of its line.                                                       *)
SegmenterInv ==
    /\ dict \in Seq([word : WordType, cx : STRING]) /\ lines \in 0 .. Len(dict)
    /\ \A p \in DOMAIN nodes : \E i \in 1 .. lines : p \in Segmenter!Path(dict[i].word)
    /\ Segmenter!PrefixesFirst =>
          \A i \in 1 .. lines :
             dict[i].word \in DOMAIN nodes /\ nodes[dict[i].word] = dict[i].cx

LEMMA NextSegmenter == SegmenterInv /\ [Segmenter!Next]_(Segmenter!vars) => SegmenterInv'
<1> SUFFICES ASSUME SegmenterInv, [Segmenter!Next]_(Segmenter!vars) PROVE SegmenterInv'
  OBVIOUS
<1>1. CASE Segmenter!LoadLine
  <2> DEFINE line == dict[lines + 1]
  <2>1. /\ lines \in Nat /\ Len(dict) \in Nat /\ lines + 1 \in 1 .. Len(dict) /\ dict' = dict
        /\ lines' = lines + 1 /\ nodes' = Segmenter!Added(line)
        /\ DOMAIN dict = 1 .. Len(dict)
    BY <1>1, LenProperties DEF SegmenterInv, Segmenter!LoadLine
  <2>2. line \in [word : WordType, cx : STRING]
    BY <2>1, ElementOfSeq DEF SegmenterInv
  <2>3. line.word \in Segmenter!Path(line.word) BY <2>2, PathFacts
  <2>4. /\ DOMAIN nodes' = DOMAIN nodes \cup Segmenter!Path(line.word)
        /\ \A p \in DOMAIN nodes : nodes'[p] = nodes[p]
        /\ \A p \in Segmenter!Path(line.word) \ DOMAIN nodes : nodes'[p] = line.cx
    BY <2>1 DEF Segmenter!Added
  <2> HIDE DEF line
  <2>5. \A p \in DOMAIN nodes' : \E i \in 1 .. lines' : p \in Segmenter!Path(dict[i].word)
    BY <2>1, <2>4 DEF SegmenterInv, line
  <2>6. ASSUME Segmenter!PrefixesFirst
        PROVE  \A i \in 1 .. lines' :
                  dict[i].word \in DOMAIN nodes' /\ nodes'[dict[i].word] = dict[i].cx
    <3>1. line.word \notin DOMAIN nodes
      BY <2>1, <2>6 DEF Segmenter!PrefixesFirst, SegmenterInv, line
    <3>2. \A i \in 1 .. lines' : i = lines + 1 \/ i \in 1 .. lines BY <2>1
    <3> QED BY <2>3, <2>4, <2>6, <3>1, <3>2 DEF SegmenterInv, line
  <2>7. Segmenter!PrefixesFirst' <=> Segmenter!PrefixesFirst
    BY <2>1 DEF Segmenter!PrefixesFirst
  <2> QED BY <2>1, <2>5, <2>6, <2>7 DEF SegmenterInv
<1>2. CASE UNCHANGED <<dict, lines, nodes>>
  BY <1>2 DEF SegmenterInv, Segmenter!PrefixesFirst
<1> QED
  BY <1>1, <1>2 DEF Segmenter!Next, Segmenter!vars, Segmenter!loadVars, Segmenter!LoadFrequency,
     Segmenter!Segment, Segmenter!TakeWord

(* For any dictionary in which no word follows a longer one that begins     *)
(* with it, and any number of words that share nodes: each word is found    *)
(* with the class of its own line.                                          *)
THEOREM ClassesLoaded == Spec => []ClassesAsLoaded
<1> DEFINE Inv == part = "segment" => SegmenterInv
<1>1. Init => Inv
  <2> SUFFICES ASSUME Init PROVE SegmenterInv
    OBVIOUS
  <2>1. dict \in Dictionaries /\ lines = 0 /\ nodes = <<>> /\ DOMAIN nodes = {}
    BY EmptySeq DEF Init, Segmenter!Init
  <2>2. /\ dict \in Seq([word : Seq(STRING), cx : STRING])
        /\ \A i \in DOMAIN dict : dict[i].word # <<>>
    BY <2>1, HelpersAssumption DEF Segmenter!SegmentAssumption, Segmenter!LineType
  <2>3. Len(dict) \in Nat /\ DOMAIN dict = 1 .. Len(dict) BY <2>2, LenProperties
  <2>4. dict \in Seq([word : WordType, cx : STRING])
    <3>1. \A i \in 1 .. Len(dict) : dict[i] \in [word : WordType, cx : STRING]
      <4> SUFFICES ASSUME NEW i \in 1 .. Len(dict) PROVE dict[i] \in [word : WordType, cx : STRING]
        OBVIOUS
      <4>1. dict[i] \in [word : Seq(STRING), cx : STRING] BY <2>2, <2>3, ElementOfSeq
      <4> QED BY <2>2, <2>3, <4>1 DEF WordType
    <3>2. dict \in [1 .. Len(dict) -> [word : WordType, cx : STRING]]
      BY <2>2, <2>3, <3>1, LenProperties
    <3> QED BY <2>3, <3>2, SeqDef
  <2> QED BY <2>1, <2>3, <2>4 DEF SegmenterInv
<1>2. Inv /\ [Next]_vars => Inv'
  BY OnlyOne, NextSegmenter
<1>3. Inv => ClassesAsLoaded
  <2> SUFFICES ASSUME SegmenterInv, lines = Len(dict), Segmenter!PrefixesFirst,
                      NEW i \in DOMAIN dict
               PROVE  Segmenter!FindCx(dict[i].word) = dict[i].cx
    BY DEF ClassesAsLoaded, Segmenter!ClassesAsLoaded, Segmenter!Loaded
  <2> DEFINE w == dict[i].word
             known == Segmenter!Path(w) \cap DOMAIN nodes
             longest == CHOOSE p \in known : \A q \in known : Len(q) <= Len(p)
  <2>1. Len(dict) \in Nat /\ DOMAIN dict = 1 .. Len(dict) /\ dict[i] \in [word : WordType, cx : STRING]
    BY LenProperties, ElementOfSeq DEF SegmenterInv
  <2>2. w \in DOMAIN nodes /\ nodes[w] = dict[i].cx BY <2>1 DEF SegmenterInv
  <2>3. w \in WordType BY <2>1
  <2> HIDE DEF w
  <2>4. /\ w \in known
        /\ \A p \in known : Len(p) \in Nat /\ Len(p) <= Len(w) /\ (Len(p) = Len(w) => p = w)
    BY <2>2, <2>3, PathFacts
  <2> HIDE DEF known
  <2>5. longest = w
    <3>1. longest \in known /\ \A q \in known : Len(q) <= Len(longest) BY <2>4
    <3>2. Len(longest) = Len(w)
      <4>1. Len(w) \in Nat /\ Len(longest) \in Nat BY <2>4, <3>1
      <4> QED BY <2>4, <3>1, <4>1
    <3> QED BY <2>4, <3>1, <3>2
  <2>6. Segmenter!FindCx(w) = nodes[longest]
    BY <2>4 DEF Segmenter!FindCx, known
  <2> QED BY <2>2, <2>5, <2>6 DEF w
<1> HIDE DEF Inv
<1> QED BY <1>1, <1>2, <1>3, PTL DEF Spec

-----------------------------------------------------------------------------
(***************************************************************************)
(* The messages of the chat console.                                        *)
(***************************************************************************)
FieldText == {Messages!NoText} \cup UNION {Values[k] : k \in Messages!Fields}

Destination == Hosts \cup {Messages!All}

EntryType == [key : Messages!Fields, val : FieldText] \cup [key : {"dst"}, val : Seq(Destination)]

(* The first entry of a key.                                                *)
FirstOf(doc, k, i) ==
    i \in DOMAIN doc /\ doc[i].key = k /\ \A j \in DOMAIN doc : j < i => doc[j].key # k

LEMMA GetFacts ==
    ASSUME NEW doc \in Seq(EntryType), NEW k
    PROVE  /\ k \in Messages!KeysOf(doc) => \E i : FirstOf(doc, k, i)
           /\ \A i : FirstOf(doc, k, i) =>
                 k \in Messages!KeysOf(doc) /\ Messages!Get(doc, k) = doc[i].val
<1> DEFINE I == {i \in 1 .. Len(doc) : doc[i].key = k}
<1>1. Len(doc) \in Nat /\ DOMAIN doc = 1 .. Len(doc) BY LenProperties
<1>2. k \in Messages!KeysOf(doc) <=> I # {}
  BY <1>1 DEF Messages!KeysOf
<1>3. I # {} => Messages!Get(doc, k) = doc[Min(I)].val
  BY <1>1 DEF Messages!Get, Messages!Min, Min
<1>4. ASSUME I # {} PROVE Min(I) \in I /\ \A j \in I : Min(I) <= j
  <2>1. I \in SUBSET Nat BY <1>1
  <2>2. \E m \in I : \A j \in I : m <= j
    <3> HIDE DEF I
    <3> QED BY <1>4, <2>1, LeastOf
  <2> QED BY <2>2 DEF Min
<1>5. ASSUME NEW i, FirstOf(doc, k, i)
      PROVE  k \in Messages!KeysOf(doc) /\ Messages!Get(doc, k) = doc[i].val
  <2>1. i \in I /\ \A j \in I : ~(j < i) BY <1>1, <1>5 DEF FirstOf
  <2>2. Min(I) = i BY <1>1, <1>4, <2>1
  <2> QED BY <1>2, <1>3, <2>1, <2>2
<1>6. ASSUME I # {} PROVE FirstOf(doc, k, Min(I))
  <2>1. Min(I) \in 1 .. Len(doc) /\ doc[Min(I)].key = k /\ \A j \in I : Min(I) <= j
    BY <1>4, <1>6
  <2>2. \A j \in 1 .. Len(doc) : j < Min(I) => j \notin I BY <1>1, <2>1
  <2> QED BY <1>1, <2>1, <2>2 DEF FirstOf
<1> QED BY <1>2, <1>5, <1>6

LEMMA GetType ==
    ASSUME NEW doc \in Seq(EntryType)
    PROVE  /\ Messages!KeysOf(doc) \subseteq Messages!Fields \cup {"dst"}
           /\ \A k \in Messages!Fields \cap Messages!KeysOf(doc) : Messages!Get(doc, k) \in FieldText
           /\ "dst" \in Messages!KeysOf(doc) => Messages!Get(doc, "dst") \in Seq(Destination)
<1>1. \A i \in DOMAIN doc : doc[i] \in EntryType
  BY LenProperties, ElementOfSeq
<1>2. "dst" \notin Messages!Fields BY DEF Messages!Fields
<1>3. Messages!KeysOf(doc) \subseteq Messages!Fields \cup {"dst"}
  BY <1>1 DEF EntryType, Messages!KeysOf
<1>4. ASSUME NEW k \in Messages!KeysOf(doc)
      PROVE  \E i \in DOMAIN doc : doc[i].key = k /\ Messages!Get(doc, k) = doc[i].val
  BY <1>4, GetFacts DEF FirstOf
<1> QED BY <1>1, <1>2, <1>3, <1>4 DEF EntryType

(* Of two texts in a row the first one that has the key is read.            *)
LEMMA ConcatFacts ==
    ASSUME NEW a \in Seq(EntryType), NEW b \in Seq(EntryType)
    PROVE  /\ a \o b \in Seq(EntryType)
           /\ Messages!KeysOf(a \o b) = Messages!KeysOf(a) \cup Messages!KeysOf(b)
           /\ \A k \in Messages!KeysOf(a) : Messages!Get(a \o b, k) = Messages!Get(a, k)
           /\ \A k \in Messages!KeysOf(b) \ Messages!KeysOf(a) :
                 Messages!Get(a \o b, k) = Messages!Get(b, k)
<1>1. /\ a \o b \in Seq(EntryType) /\ Len(a) \in Nat /\ Len(b) \in Nat
      /\ DOMAIN a = 1 .. Len(a) /\ DOMAIN b = 1 .. Len(b) /\ DOMAIN (a \o b) = 1 .. Len(a) + Len(b)
      /\ \A i \in 1 .. Len(a) : (a \o b)[i] = a[i]
      /\ \A i \in 1 .. Len(a) + Len(b) : i > Len(a) => i - Len(a) \in 1 .. Len(b) /\ (a \o b)[i] = b[i - Len(a)]
  BY ConcatProperties, LenProperties
<1>2. \A i \in 1 .. Len(b) :
        Len(a) + i \in 1 .. Len(a) + Len(b) /\ Len(a) + i > Len(a) /\ (a \o b)[Len(a) + i] = b[i]
  BY <1>1
<1>3. Messages!KeysOf(a \o b) = Messages!KeysOf(a) \cup Messages!KeysOf(b)
  <2>1. Messages!KeysOf(a \o b) \subseteq Messages!KeysOf(a) \cup Messages!KeysOf(b)
    BY <1>1 DEF Messages!KeysOf
  <2>2. Messages!KeysOf(a) \subseteq Messages!KeysOf(a \o b)
    BY <1>1 DEF Messages!KeysOf
  <2>3. Messages!KeysOf(b) \subseteq Messages!KeysOf(a \o b)
    BY <1>1, <1>2 DEF Messages!KeysOf
  <2> QED BY <2>1, <2>2, <2>3
<1>4. ASSUME NEW k \in Messages!KeysOf(a) PROVE Messages!Get(a \o b, k) = Messages!Get(a, k)
  <2>1. PICK i : FirstOf(a, k, i) BY <1>4, GetFacts
  <2>2. FirstOf(a \o b, k, i) BY <1>1, <2>1 DEF FirstOf
  <2>3. (a \o b)[i] = a[i] BY <1>1, <2>1 DEF FirstOf
  <2>4. Messages!Get(a \o b, k) = (a \o b)[i].val BY <1>1, <2>2, GetFacts
  <2>5. Messages!Get(a, k) = a[i].val BY <2>1, GetFacts
  <2> QED BY <2>3, <2>4, <2>5
<1>5. ASSUME NEW k \in Messages!KeysOf(b), k \notin Messages!KeysOf(a)
      PROVE  Messages!Get(a \o b, k) = Messages!Get(b, k)
  <2>1. PICK i : FirstOf(b, k, i) BY <1>5, GetFacts
  <2>2. i \in 1 .. Len(b) /\ b[i].key = k /\ \A j \in 1 .. Len(b) : j < i => b[j].key # k
    BY <1>1, <2>1 DEF FirstOf
  <2>3. \A j \in 1 .. Len(a) : a[j].key # k BY <1>1, <1>5 DEF Messages!KeysOf
  <2>4. ASSUME NEW j \in 1 .. Len(a) + Len(b), j < Len(a) + i PROVE (a \o b)[j].key # k
    <3>1. CASE j <= Len(a) BY <1>1, <2>3, <3>1
    <3>2. CASE j > Len(a)
      <4>1. j - Len(a) \in 1 .. Len(b) /\ (a \o b)[j] = b[j - Len(a)] BY <1>1, <3>2
      <4>2. j - Len(a) < i BY <1>1, <2>2, <2>4
      <4> QED BY <2>2, <4>1, <4>2
    <3> QED BY <1>1, <3>1, <3>2
  <2>5. FirstOf(a \o b, k, Len(a) + i) BY <1>1, <1>2, <2>2, <2>4 DEF FirstOf
  <2>6. (a \o b)[Len(a) + i] = b[i] BY <1>2, <2>2
  <2>7. Messages!Get(a \o b, k) = (a \o b)[Len(a) + i].val BY <1>1, <2>5, GetFacts
  <2>8. Messages!Get(b, k) = b[i].val BY <2>1, GetFacts
  <2> QED BY <2>6, <2>7, <2>8
<1> QED BY <1>1, <1>3, <1>4, <1>5

(* A text has the fields that are not empty, and the destinations unless    *)
(* older ones stand in front of them.                                       *)
Faithful(m) ==
    /\ \A k \in Messages!Fields :
          IF k \in Messages!KeysOf(m.json)
          THEN Messages!Get(m.json, k) = Messages!Understood(m, k)
          ELSE Messages!Understood(m, k) = Messages!NoText
    /\ "dst" \notin Messages!KeysOf(m.old) /\ m.dst # {} =>
          /\ "dst" \in Messages!KeysOf(m.json)
          /\ m.dst = Messages!Range(Messages!Get(m.json, "dst"))

(* Fields f and destinations d are what m says.                             *)
Tells(m, f, d) ==
    /\ \A k \in Messages!Fields : k # "sid" \/ Messages!Understood(m, k) # Messages!NoText =>
          f[k] = Messages!Understood(m, k)
    /\ "dst" \notin Messages!KeysOf(m.old) =>
          \A h \in m.dst : Messages!Range(d) \cap {h, Messages!All} # {}

LEMMA ArrivesIs ==
    /\ Messages!MessageArrives <=>
          \A o \in Objects : heard[o].json # <<>> => Tells(heard[o], field[o], dstVector[o])
    /\ Messages!MessageArrives' <=>
          \A o \in Objects : heard'[o].json # <<>> => Tells(heard'[o], field'[o], dstVector'[o])
BY DEF Messages!MessageArrives, Messages!Invect, Tells

MessageType ==
    [json : Seq(EntryType), meant : [Messages!Fields -> FieldText], dst : SUBSET Destination,
     old : Seq(EntryType)]

MessagesInv ==
    /\ field \in [Objects -> [Messages!Fields -> FieldText]]
    /\ dstVector \in [Objects -> Seq(Destination)] /\ cmddst \in [Objects -> Seq(Destination)]
    /\ jsonParse \in [Objects -> Seq(EntryType)]
    /\ hostvec \in Seq(Destination) /\ mapHost \in SUBSET Hosts
    /\ iterating \in Objects \cup {Messages!Nobody}
    /\ wire \in MessageType /\ heard \in [Objects -> MessageType]
    /\ Faithful(wire)
    /\ Messages!MessageArrives

LEMMA EntryFacts ==
    ASSUME MessagesInv, NEW o \in Objects, NEW k \in Messages!Fields
    PROVE  /\ Messages!Entry(o, k) \in Seq(EntryType)
           /\ Messages!KeysOf(Messages!Entry(o, k)) = (IF field[o][k] = Messages!NoText THEN {} ELSE {k})
           /\ field[o][k] # Messages!NoText =>
                 Messages!Get(Messages!Entry(o, k), k) = field[o][k]
<1> DEFINE e == [key |-> k, val |-> field[o][k]]
<1>1. e \in EntryType BY DEF MessagesInv, EntryType
<1>2. CASE field[o][k] = Messages!NoText
  <2>1. Messages!Entry(o, k) = <<>> BY <1>2 DEF Messages!Entry
  <2> QED BY <1>2, <2>1, EmptySeq DEF Messages!KeysOf
<1>3. CASE field[o][k] # Messages!NoText
  <2>1. Messages!Entry(o, k) = <<e>> BY <1>3 DEF Messages!Entry
  <2>2. <<e>> \in Seq(EntryType) /\ DOMAIN <<e>> = 1 .. 1 /\ <<e>>[1] = e
    <3> HIDE DEF e
    <3> QED BY <1>1
  <2>3. Messages!KeysOf(<<e>>) = {k}
    <3>1. e.key = k OBVIOUS
    <3> HIDE DEF e
    <3> QED BY <2>2, <3>1 DEF Messages!KeysOf
  <2>4. FirstOf(<<e>>, k, 1)
    <3>1. e.key = k OBVIOUS
    <3> HIDE DEF e
    <3> QED BY <2>2, <3>1 DEF FirstOf
  <2>5. Messages!Get(<<e>>, k) = e.val
    <3> HIDE DEF e
    <3> QED BY <2>2, <2>4, GetFacts
  <2> QED BY <1>3, <2>1, <2>2, <2>3, <2>5
<1> QED BY <1>2, <1>3

LEMMA EntriesFacts ==
    ASSUME MessagesInv, NEW o \in Objects
    PROVE  /\ Messages!Entries(o) \in Seq(EntryType)
           /\ Messages!KeysOf(Messages!Entries(o))
                 = {k \in Messages!Fields : field[o][k] # Messages!NoText}
           /\ \A k \in Messages!Fields : field[o][k] # Messages!NoText =>
                 Messages!Get(Messages!Entries(o), k) = field[o][k]
<1> DEFINE E(k) == Messages!Entry(o, k)
           Keys(d) == Messages!KeysOf(d)
           Get(d, k) == Messages!Get(d, k)
           Filled(k) == IF field[o][k] = Messages!NoText THEN {} ELSE {k}
<1>1. /\ E("host") \in Seq(EntryType) /\ E("cmd") \in Seq(EntryType)
      /\ E("sid") \in Seq(EntryType) /\ E("result") \in Seq(EntryType)
  BY EntryFacts DEF Messages!Fields
<1>3. Messages!Entries(o) = ((E("host") \o E("cmd")) \o E("sid")) \o E("result")
  BY DEF Messages!Entries
<1>k. ASSUME NEW k \in {"host", "cmd", "sid", "result"}
      PROVE  /\ Keys(E(k)) = {} \/ Keys(E(k)) = {k}
             /\ field[o][k] # Messages!NoText <=> k \in Keys(E(k))
             /\ k \in Keys(E(k)) => Get(E(k), k) = field[o][k]
  <2>1. k \in Messages!Fields BY DEF Messages!Fields
  <2>2. /\ Keys(E(k)) = Filled(k)
        /\ field[o][k] # Messages!NoText => Get(E(k), k) = field[o][k]
    BY <2>1, EntryFacts
  <2> HIDE DEF E, Keys, Get
  <2> QED BY <2>2
<1> DEFINE two == E("host") \o E("cmd")
           three == two \o E("sid")
           four == three \o E("result")
<1>f. Messages!Fields = {"host", "cmd", "sid", "result"} BY DEF Messages!Fields
<1> HIDE DEF E, Keys, Get, Filled
<1>4. /\ two \in Seq(EntryType) /\ Keys(two) \subseteq {"host", "cmd"}
      /\ \A k \in {"host", "cmd"} : field[o][k] # Messages!NoText <=> k \in Keys(two)
      /\ \A k \in Keys(two) : Get(two, k) = field[o][k]
  <2>1. /\ two \in Seq(EntryType) /\ Keys(two) = Keys(E("host")) \cup Keys(E("cmd"))
        /\ \A k \in Keys(E("host")) : Get(two, k) = Get(E("host"), k)
        /\ \A k \in Keys(E("cmd")) \ Keys(E("host")) : Get(two, k) = Get(E("cmd"), k)
    BY <1>1, ConcatFacts DEF Keys, Get
  <2> HIDE DEF two
  <2> QED BY <1>k, <2>1
<1> HIDE DEF two
<1>5. /\ three \in Seq(EntryType) /\ Keys(three) \subseteq {"host", "cmd", "sid"}
      /\ \A k \in {"host", "cmd", "sid"} : field[o][k] # Messages!NoText <=> k \in Keys(three)
      /\ \A k \in Keys(three) : Get(three, k) = field[o][k]
  <2>1. /\ three \in Seq(EntryType) /\ Keys(three) = Keys(two) \cup Keys(E("sid"))
        /\ \A k \in Keys(two) : Get(three, k) = Get(two, k)
        /\ \A k \in Keys(E("sid")) \ Keys(two) : Get(three, k) = Get(E("sid"), k)
    BY <1>1, <1>4, ConcatFacts DEF Keys, Get
  <2> HIDE DEF three
  <2> QED BY <1>k, <1>4, <2>1
<1> HIDE DEF three
<1>6. /\ four \in Seq(EntryType) /\ Keys(four) \subseteq Messages!Fields
      /\ \A k \in Messages!Fields : field[o][k] # Messages!NoText <=> k \in Keys(four)
      /\ \A k \in Keys(four) : Get(four, k) = field[o][k]
  <2>1. /\ four \in Seq(EntryType) /\ Keys(four) = Keys(three) \cup Keys(E("result"))
        /\ \A k \in Keys(three) : Get(four, k) = Get(three, k)
        /\ \A k \in Keys(E("result")) \ Keys(three) : Get(four, k) = Get(E("result"), k)
    BY <1>1, <1>5, ConcatFacts DEF Keys, Get
  <2> HIDE DEF four
  <2> QED BY <1>k, <1>5, <1>f, <2>1
<1>7. Messages!Entries(o) = four BY <1>3 DEF two, three
<1> HIDE DEF four
<1> QED BY <1>6, <1>7, <1>f DEF Keys, Get

(* A message that is made: dst is nothing, or its destinations.             *)
LEMMA MakeFacts ==
    ASSUME MessagesInv, NEW o \in Objects,
           NEW dst \in {<<>>} \cup {<<q>> : q \in Seq(Destination)}, Messages!Make(o, dst)
    PROVE  /\ wire' \in MessageType /\ jsonParse' \in [Objects -> Seq(EntryType)]
           /\ Faithful(wire')
<1> DEFINE named == IF dst = <<>> THEN <<>> ELSE Messages!Named(dst[1])
           doc == (jsonParse[o] \o named) \o Messages!Entries(o)
           to == IF dst = <<>> THEN {} ELSE Messages!Range(dst[1])
<1>2. ASSUME NEW q \in Seq(Destination), dst = <<q>>
      PROVE  /\ named \in Seq(EntryType) /\ Messages!KeysOf(named) = {"dst"}
             /\ Messages!Get(named, "dst") = q /\ to = Messages!Range(q) /\ to \in SUBSET Destination
  <2> DEFINE e == [key |-> "dst", val |-> q]
  <2>1. named = <<e>> /\ to = Messages!Range(q) BY <1>2 DEF Messages!Named
  <2>2. e \in EntryType /\ e.key = "dst" /\ e.val = q BY DEF EntryType
  <2> HIDE DEF e
  <2>3. <<e>> \in Seq(EntryType) /\ DOMAIN <<e>> = 1 .. 1 /\ <<e>>[1] = e BY <2>2
  <2>4. Messages!KeysOf(<<e>>) = {"dst"} BY <2>2, <2>3 DEF Messages!KeysOf
  <2>5. FirstOf(<<e>>, "dst", 1) BY <2>2, <2>3 DEF FirstOf
  <2>6. Messages!Get(<<e>>, "dst") = q BY <2>2, <2>3, <2>5, GetFacts
  <2>7. Messages!Range(q) \in SUBSET Destination
    BY LenProperties, ElementOfSeq DEF Messages!Range
  <2> HIDE DEF named, to
  <2> QED BY <2>1, <2>3, <2>4, <2>6, <2>7
<1>3. /\ named \in Seq(EntryType) /\ Messages!KeysOf(named) \subseteq {"dst"}
      /\ to \in SUBSET Destination
      /\ to # {} => "dst" \in Messages!KeysOf(named) /\ to = Messages!Range(Messages!Get(named, "dst"))
  <2>1. CASE dst = <<>>
    <3>1. named = <<>> /\ to = {} BY <2>1
    <3>2. <<>> \in Seq(EntryType) /\ Messages!KeysOf(<<>>) = {} BY EmptySeq DEF Messages!KeysOf
    <3> QED BY <3>1, <3>2
  <2>2. CASE dst # <<>>
    <3>1. PICK q \in Seq(Destination) : dst = <<q>> BY <2>2
    <3> HIDE DEF named, to
    <3> QED BY <1>2, <3>1
  <2> QED BY <2>1, <2>2
<1>4. /\ wire' = Messages!Message(o, doc, to)
      /\ jsonParse' = [jsonParse EXCEPT ![o] = doc]
  BY DEF Messages!Make
<1> HIDE DEF named, to
<1>5. jsonParse[o] \in Seq(EntryType) /\ field[o] \in [Messages!Fields -> FieldText]
  BY DEF MessagesInv
<1>6. jsonParse[o] \o named \in Seq(EntryType) BY <1>3, <1>5, ConcatFacts
<1>7. doc \in Seq(EntryType) BY <1>6, EntriesFacts, ConcatFacts
<1>8. /\ wire'.json = doc /\ wire'.meant = field[o] /\ wire'.dst = to
      /\ wire'.old = jsonParse[o] /\ wire' \in MessageType
  <2> HIDE DEF doc
  <2> QED BY <1>3, <1>4, <1>5, <1>7 DEF Messages!Message, MessageType
<1>9. jsonParse' \in [Objects -> Seq(EntryType)]
  <2> HIDE DEF doc
  <2> QED BY <1>4, <1>7 DEF MessagesInv
<1>10. Faithful(wire')
  <2> DEFINE old == jsonParse[o]
             head == old \o named
             es == Messages!Entries(o)
  <2>1. old \in Seq(EntryType) /\ named \in Seq(EntryType) /\ es \in Seq(EntryType)
    BY <1>3, <1>5, EntriesFacts
  <2>2. doc = head \o es OBVIOUS
  <2> HIDE DEF doc, old, es
  <2>3. /\ head \in Seq(EntryType)
        /\ Messages!KeysOf(head) = Messages!KeysOf(old) \cup Messages!KeysOf(named)
        /\ \A k \in Messages!KeysOf(old) : Messages!Get(head, k) = Messages!Get(old, k)
        /\ \A k \in Messages!KeysOf(named) \ Messages!KeysOf(old) :
              Messages!Get(head, k) = Messages!Get(named, k)
    BY <2>1, ConcatFacts
  <2> HIDE DEF head
  <2>4. /\ Messages!KeysOf(doc) = Messages!KeysOf(head) \cup Messages!KeysOf(es)
        /\ \A k \in Messages!KeysOf(head) : Messages!Get(doc, k) = Messages!Get(head, k)
        /\ \A k \in Messages!KeysOf(es) \ Messages!KeysOf(head) :
              Messages!Get(doc, k) = Messages!Get(es, k)
    BY <2>1, <2>2, <2>3, ConcatFacts
  <2>5. "dst" \notin Messages!Fields BY DEF Messages!Fields
  <2>6. wire'.json = doc /\ wire'.meant = field[o] /\ wire'.dst = to /\ wire'.old = old
    BY <1>8 DEF old
  <2>7. ASSUME NEW k \in Messages!Fields
        PROVE  IF k \in Messages!KeysOf(doc)
               THEN Messages!Get(doc, k) = Messages!Understood(wire', k)
               ELSE Messages!Understood(wire', k) = Messages!NoText
    <3>1. k \notin Messages!KeysOf(named) BY <1>3, <2>5
    <3>2. Messages!Understood(wire', k)
             = IF k \in Messages!KeysOf(old) THEN Messages!Get(old, k) ELSE field[o][k]
      BY <2>6 DEF Messages!Understood
    <3>3. /\ k \in Messages!KeysOf(es) <=> field[o][k] # Messages!NoText
          /\ field[o][k] # Messages!NoText => Messages!Get(es, k) = field[o][k]
      BY EntriesFacts DEF es
    <3>4. k \in Messages!KeysOf(old) =>
             k \in Messages!KeysOf(doc) /\ Messages!Get(doc, k) = Messages!Get(old, k)
      BY <2>3, <2>4
    <3>5. k \notin Messages!KeysOf(old) => k \notin Messages!KeysOf(head) BY <2>3, <3>1
    <3> QED BY <2>4, <3>2, <3>3, <3>4, <3>5
  <2>8. "dst" \notin Messages!KeysOf(old) /\ to # {} =>
           /\ "dst" \in Messages!KeysOf(doc) /\ to = Messages!Range(Messages!Get(doc, "dst"))
    BY <1>3, <2>3, <2>4
  <2> QED BY <2>6, <2>7, <2>8 DEF Faithful
<1> QED BY <1>8, <1>9, <1>10

LEMMA SortedFacts ==
    ASSUME NEW S \in SUBSET Hosts, Messages!IsFiniteSet(Hosts)
    PROVE  Messages!Sorted(S) \in Seq(Destination)
<1>0. IsFiniteSet(Hosts) BY DEF Messages!IsFiniteSet, IsFiniteSet
<1>1. IsFiniteSet(S) BY <1>0, FS_Subset
<1>2. Cardinality(S) \in Nat /\ ExistsBijection(1 .. Cardinality(S), S)
  BY <1>1, FS_CardinalityType
<1>3. Messages!Cardinality(S) = Cardinality(S)
  BY DEF Messages!Cardinality, Cardinality, Messages!IsFiniteSet, IsFiniteSet
<1>4. Messages!Sorted(S) \in [1 .. Cardinality(S) -> S]
  <2>1. Messages!Bijection(1 .. Cardinality(S), S) = Bijection(1 .. Cardinality(S), S)
    BY DEF Messages!Bijection, Bijection, Messages!Injection, Injection, Messages!Surjection, Surjection,
       Messages!IsInjective, IsInjective
  <2>2. Messages!Sorted(S) \in Bijection(1 .. Cardinality(S), S)
    BY <1>2, <1>3, <2>1 DEF ExistsBijection, Messages!Sorted
  <2> QED BY <2>2 DEF Bijection, Injection
<1>5. S \subseteq Destination BY DEF Destination
<1> QED BY <1>2, <1>4, <1>5, SeqDef

(* What an object holds is disturbed by its own calls only, and then it is  *)
(* not taken for what it heard any more.                                    *)
LEMMA ChangedFacts ==
    ASSUME MessagesInv, NEW o \in Objects, Messages!Changed(o),
           \A p \in Objects \ {o} : field'[p] = field[p] /\ dstVector'[p] = dstVector[p]
    PROVE  heard' \in [Objects -> MessageType] /\ Messages!MessageArrives'
<1>1. Messages!NoMessage \in MessageType /\ Messages!NoMessage.json = <<>>
  <2>1. <<>> \in Seq(EntryType) BY EmptySeq
  <2>2. Messages!Blank \in [Messages!Fields -> FieldText] BY DEF Messages!Blank, FieldText
  <2> QED BY <2>1, <2>2 DEF Messages!NoMessage, MessageType
<1>2. heard' = [heard EXCEPT ![o] = Messages!NoMessage] /\ heard \in [Objects -> MessageType]
  BY DEF Messages!Changed, MessagesInv
<1>3. heard' \in [Objects -> MessageType]
  BY <1>1, <1>2
<1>4. ASSUME NEW p \in Objects, heard'[p].json # <<>>
      PROVE  Tells(heard'[p], field'[p], dstVector'[p])
  <2>1. heard'[p] = heard[p] /\ field'[p] = field[p] /\ dstVector'[p] = dstVector[p]
    BY <1>1, <1>2, <1>4
  <2>2. Tells(heard[p], field[p], dstVector[p]) BY <1>4, <2>1, ArrivesIs DEF MessagesInv
  <2> QED BY <2>1, <2>2
<1>5. Messages!MessageArrives' BY <1>4, ArrivesIs
<1> QED BY <1>3, <1>5

LEMMA NextMessages ==
    Messages!IsFiniteSet(Hosts) /\ MessagesInv /\ [Messages!Next]_(Messages!vars) => MessagesInv'
<1> SUFFICES ASSUME Messages!IsFiniteSet(Hosts), MessagesInv, [Messages!Next]_(Messages!vars)
             PROVE  MessagesInv'
  OBVIOUS
<1> USE DEF Messages!objectVars, Messages!globalVars
<1>t. /\ field \in [Objects -> [Messages!Fields -> FieldText]]
      /\ dstVector \in [Objects -> Seq(Destination)] /\ cmddst \in [Objects -> Seq(Destination)]
      /\ jsonParse \in [Objects -> Seq(EntryType)]
      /\ hostvec \in Seq(Destination) /\ mapHost \in SUBSET Hosts
      /\ iterating \in Objects \cup {Messages!Nobody}
      /\ wire \in MessageType /\ heard \in [Objects -> MessageType]
      /\ Faithful(wire)
  BY DEF MessagesInv
<1>1. ASSUME NEW o \in Objects, NEW k \in Messages!Fields, NEW v \in Values[k],
             Messages!SetField(o, k, v)
      PROVE  MessagesInv'
  <2>1. v \in FieldText BY DEF FieldText
  <2>2. /\ Messages!Changed(o) /\ field' = [field EXCEPT ![o][k] = v]
        /\ UNCHANGED <<dstVector, cmddst, jsonParse, hostvec, mapHost, iterating, disturbed, wire>>
    BY <1>1 DEF Messages!SetField
  <2>3. field' \in [Objects -> [Messages!Fields -> FieldText]] BY <1>t, <2>1, <2>2
  <2>4. \A p \in Objects \ {o} : field'[p] = field[p] BY <1>t, <2>2
  <2>5. heard' \in [Objects -> MessageType] /\ Messages!MessageArrives'
    BY <2>2, <2>4, ChangedFacts
  <2>6. Faithful(wire)' <=> Faithful(wire) BY <2>2 DEF Faithful
  <2> QED BY <1>t, <2>2, <2>3, <2>5, <2>6 DEF MessagesInv
<1>2. ASSUME NEW o \in Objects, NEW h \in Hosts \cup {Messages!All}, Messages!AddCommandDst(o, h)
      PROVE  MessagesInv'
  <2>1. h \in Destination BY DEF Destination
  <2>2. /\ Messages!Changed(o) /\ cmddst' = [cmddst EXCEPT ![o] = Append(@, h)]
        /\ UNCHANGED <<field, dstVector, jsonParse, hostvec, mapHost, iterating, disturbed, wire>>
    BY <1>2 DEF Messages!AddCommandDst
  <2>3. Append(cmddst[o], h) \in Seq(Destination) BY <1>t, <2>1, AppendProperties
  <2>4. cmddst' \in [Objects -> Seq(Destination)] BY <1>t, <2>2, <2>3
  <2>5. heard' \in [Objects -> MessageType] /\ Messages!MessageArrives'
    BY <2>2, ChangedFacts
  <2>6. Faithful(wire)' <=> Faithful(wire) BY <2>2 DEF Faithful
  <2> QED BY <1>t, <2>2, <2>4, <2>5, <2>6 DEF MessagesInv
<1>d. ASSUME NEW o \in Objects
      PROVE  Messages!Cleared(field[o]) \in [Messages!Fields -> FieldText]
  <2>1. field[o] \in [Messages!Fields -> FieldText] /\ Messages!NoText \in FieldText
    BY <1>t DEF FieldText
  <2> QED BY <2>1 DEF Messages!Cleared
<1>3. ASSUME NEW o \in Objects, Messages!Reset(o) \/ Messages!ParseGarbage(o)
      PROVE  MessagesInv'
  <2>1. /\ Messages!Changed(o) /\ field' = [field EXCEPT ![o] = Messages!Cleared(@)]
        /\ UNCHANGED <<dstVector, cmddst, jsonParse, hostvec, mapHost, iterating, disturbed, wire>>
    BY <1>3 DEF Messages!Reset, Messages!ParseGarbage
  <2>2. field' \in [Objects -> [Messages!Fields -> FieldText]] BY <1>t, <1>d, <2>1
  <2>3. \A p \in Objects \ {o} : field'[p] = field[p] BY <1>t, <2>1
  <2>4. heard' \in [Objects -> MessageType] /\ Messages!MessageArrives'
    BY <2>1, <2>3, ChangedFacts
  <2>5. Faithful(wire)' <=> Faithful(wire) BY <2>1 DEF Faithful
  <2> QED BY <1>t, <2>1, <2>2, <2>4, <2>5 DEF MessagesInv
<1>m. ASSUME NEW o \in Objects, NEW dst \in {<<>>} \cup {<<q>> : q \in Seq(Destination)},
             Messages!Make(o, dst), iterating' \in Objects \cup {Messages!Nobody},
             Messages!Changed(o) \/ heard' = heard
      PROVE  MessagesInv'
  <2>1. /\ wire' \in MessageType /\ jsonParse' \in [Objects -> Seq(EntryType)]
        /\ Faithful(wire')
    BY <1>m, MakeFacts
  <2>2. UNCHANGED <<field, dstVector, cmddst, hostvec, mapHost>>
    BY <1>m DEF Messages!Make
  <2>3. heard' \in [Objects -> MessageType] /\ Messages!MessageArrives'
    <3>1. CASE Messages!Changed(o) BY <2>2, <3>1, ChangedFacts
    <3>2. CASE heard' = heard
      BY <1>t, <2>2, <3>2, ArrivesIs DEF MessagesInv
    <3> QED BY <1>m, <3>1, <3>2
  <2>4. Faithful(wire)' <=> Faithful(wire') BY DEF Faithful
  <2> QED BY <1>t, <1>m, <2>1, <2>2, <2>3, <2>4 DEF MessagesInv
<1>4. ASSUME NEW o \in Objects, Messages!MakeFromHostvec(o) PROVE MessagesInv'
  <2>1. <<Messages!Sorted(mapHost)>> \in {<<q>> : q \in Seq(Destination)}
        /\ <<hostvec>> \in {<<q>> : q \in Seq(Destination)}
    BY <1>t, SortedFacts
  <2>2. PICK dst \in {<<>>} \cup {<<q>> : q \in Seq(Destination)} : Messages!Make(o, dst)
    BY <1>4, <2>1 DEF Messages!MakeFromHostvec
  <2>3. Messages!Changed(o) /\ iterating' = iterating
    BY <1>4 DEF Messages!MakeFromHostvec
  <2> QED BY <1>t, <1>m, <2>2, <2>3
<1>5. ASSUME NEW o \in Objects, Messages!MakeForCommand(o) PROVE MessagesInv'
  <2>1. <<cmddst[o]>> \in {<<q>> : q \in Seq(Destination)} BY <1>t
  <2>2. /\ Messages!Make(o, <<cmddst[o]>>) /\ Messages!Changed(o) /\ iterating' = iterating
    BY <1>5 DEF Messages!MakeForCommand
  <2> QED BY <1>t, <1>m, <2>1, <2>2
<1>6. ASSUME NEW o \in Objects, Messages!BeginMakeForAll(o) PROVE MessagesInv'
  <2>1. /\ Messages!Changed(o) /\ iterating' = o
        /\ UNCHANGED <<field, dstVector, cmddst, jsonParse, hostvec, mapHost, wire>>
    BY <1>6 DEF Messages!BeginMakeForAll
  <2>2. heard' \in [Objects -> MessageType] /\ Messages!MessageArrives'
    BY <2>1, ChangedFacts
  <2>3. Faithful(wire)' <=> Faithful(wire) BY <2>1 DEF Faithful
  <2> QED BY <1>t, <2>1, <2>2, <2>3 DEF MessagesInv
<1>7. CASE Messages!EndMakeForAll
  <2>1. iterating \in Objects /\ heard' = heard /\ iterating' = Messages!Nobody
    BY <1>t, <1>7 DEF Messages!EndMakeForAll
  <2>2. PICK hosts \in SUBSET Hosts : Messages!Make(iterating, <<Messages!Sorted(hosts)>>)
    BY <1>t, <1>7 DEF Messages!EndMakeForAll
  <2>3. <<Messages!Sorted(hosts)>> \in {<<q>> : q \in Seq(Destination)} BY SortedFacts
  <2> QED BY <1>m, <2>1, <2>2, <2>3
<1>8. CASE Messages!HostsChange
  <2>1. /\ mapHost' \in SUBSET Hosts
        /\ UNCHANGED <<field, dstVector, cmddst, jsonParse, hostvec, iterating, wire, heard>>
    BY <1>t, <1>8 DEF Messages!HostsChange
  <2>2. Faithful(wire)' <=> Faithful(wire) BY <2>1 DEF Faithful
  <2>3. Messages!MessageArrives'
    BY <2>1, ArrivesIs DEF MessagesInv
  <2> QED BY <1>t, <2>1, <2>2, <2>3 DEF MessagesInv
<1>9. ASSUME NEW o \in Objects, Messages!ParseJson(o) PROVE MessagesInv'
  <2> DEFINE doc == wire.json
  <2>1. /\ field' = [field EXCEPT ![o] = Messages!Read(Messages!Cleared(@), doc)]
        /\ dstVector' = [dstVector EXCEPT ![o] = IF "dst" \in Messages!KeysOf(doc)
                                                 THEN @ \o Messages!Get(doc, "dst") ELSE @]
        /\ jsonParse' = [jsonParse EXCEPT ![o] = doc]
        /\ heard' = [heard EXCEPT ![o] = wire]
        /\ UNCHANGED <<cmddst, hostvec, mapHost, iterating, disturbed, wire>>
    BY <1>9 DEF Messages!ParseJson
  <2>2. doc \in Seq(EntryType) BY <1>t DEF MessageType
  <2> DEFINE read == Messages!Read(Messages!Cleared(field[o]), doc)
             dsts == IF "dst" \in Messages!KeysOf(doc)
                     THEN dstVector[o] \o Messages!Get(doc, "dst") ELSE dstVector[o]
  <2>3. read \in [Messages!Fields -> FieldText]
    BY <1>d, <2>2, GetType DEF Messages!Read
  <2>4. dsts \in Seq(Destination)
    BY <1>t, <2>2, GetType, ConcatProperties
  <2>5. /\ field'[o] = read /\ dstVector'[o] = dsts /\ heard'[o] = wire
        /\ \A p \in Objects \ {o} :
              field'[p] = field[p] /\ dstVector'[p] = dstVector[p] /\ heard'[p] = heard[p]
    BY <1>t, <2>1
  <2>6. /\ field' \in [Objects -> [Messages!Fields -> FieldText]]
        /\ dstVector' \in [Objects -> Seq(Destination)]
        /\ jsonParse' \in [Objects -> Seq(EntryType)] /\ heard' \in [Objects -> MessageType]
    <3> HIDE DEF read, dsts
    <3>1. field' = [field EXCEPT ![o] = read] /\ dstVector' = [dstVector EXCEPT ![o] = dsts]
      BY <2>1 DEF read, dsts
    <3>2. field' \in [Objects -> [Messages!Fields -> FieldText]] BY <1>t, <2>3, <3>1
    <3>3. dstVector' \in [Objects -> Seq(Destination)] BY <1>t, <2>4, <3>1
    <3>4. jsonParse' \in [Objects -> Seq(EntryType)]
      <4> HIDE DEF doc
      <4> QED BY <1>t, <2>1, <2>2
    <3>5. heard' \in [Objects -> MessageType] BY <1>t, <2>1
    <3> QED BY <3>2, <3>3, <3>4, <3>5
  <2>7. ASSUME NEW k \in Messages!Fields,
               k # "sid" \/ Messages!Understood(wire, k) # Messages!NoText
        PROVE  read[k] = Messages!Understood(wire, k)
    <3>1. read[k] = IF k \in Messages!KeysOf(doc) THEN Messages!Get(doc, k)
                    ELSE Messages!Cleared(field[o])[k]
      BY DEF Messages!Read
    <3>2. k # "sid" => Messages!Cleared(field[o])[k] = Messages!NoText
      BY <1>t DEF Messages!Cleared, Messages!Fields
    <3>3. IF k \in Messages!KeysOf(doc) THEN Messages!Get(doc, k) = Messages!Understood(wire, k)
          ELSE Messages!Understood(wire, k) = Messages!NoText
      BY <1>t DEF Faithful
    <3> HIDE DEF read, doc
    <3> QED BY <2>7, <3>1, <3>2, <3>3
  <2>8. ASSUME "dst" \notin Messages!KeysOf(wire.old), NEW h \in wire.dst PROVE h \in Messages!Range(dsts)
    <3>1. /\ "dst" \in Messages!KeysOf(doc) /\ wire.dst = Messages!Range(Messages!Get(doc, "dst"))
      BY <1>t, <2>8 DEF Faithful
    <3> DEFINE q == Messages!Get(doc, "dst")
    <3>2. q \in Seq(Destination) /\ dstVector[o] \in Seq(Destination) BY <1>t, <2>2, <3>1, GetType
    <3>3. dsts = dstVector[o] \o q BY <3>1
    <3>4. PICK i \in DOMAIN q : q[i] = h BY <2>8, <3>1 DEF Messages!Range
    <3> HIDE DEF q, dsts
    <3>5. /\ Len(dstVector[o]) \in Nat /\ Len(q) \in Nat /\ i \in 1 .. Len(q)
          /\ Len(dsts) = Len(dstVector[o]) + Len(q) /\ dsts \in Seq(Destination)
      BY <3>2, <3>3, <3>4, LenProperties, ConcatProperties
    <3>6. Len(dstVector[o]) + i \in 1 .. Len(dsts) BY <3>5
    <3>7. dsts[Len(dstVector[o]) + i] = q[i] BY <3>2, <3>3, <3>5, ConcatProperties
    <3> QED BY <3>4, <3>5, <3>6, <3>7, LenProperties DEF Messages!Range
  <2>9. Messages!MessageArrives'
    <3> HIDE DEF read, dsts
    <3>1. ASSUME NEW p \in Objects, heard'[p].json # <<>>
          PROVE  Tells(heard'[p], field'[p], dstVector'[p])
      <4>1. CASE p = o
        <5>1. Tells(wire, read, dsts) BY <2>7, <2>8 DEF Tells
        <5> QED BY <2>5, <4>1, <5>1
      <4>2. CASE p # o
        <5>1. heard'[p] = heard[p] /\ field'[p] = field[p] /\ dstVector'[p] = dstVector[p]
          BY <2>5, <4>2
        <5>2. Tells(heard[p], field[p], dstVector[p])
          BY <3>1, <5>1, ArrivesIs DEF MessagesInv
        <5> QED BY <5>1, <5>2
      <4> QED BY <4>1, <4>2
    <3> QED BY <3>1, ArrivesIs
  <2>10. Faithful(wire)' <=> Faithful(wire) BY <2>1 DEF Faithful
  <2> QED BY <1>t, <2>1, <2>6, <2>9, <2>10 DEF MessagesInv
<1>10. CASE UNCHANGED Messages!vars
  <2>1. UNCHANGED <<field, dstVector, cmddst, jsonParse, hostvec, mapHost, iterating, wire, heard>>
    BY <1>10 DEF Messages!vars
  <2>2. Faithful(wire)' <=> Faithful(wire) BY <2>1 DEF Faithful
  <2>3. Messages!MessageArrives'
    BY <2>1, ArrivesIs DEF MessagesInv
  <2> QED BY <1>t, <2>1, <2>2, <2>3 DEF MessagesInv
<1> QED
  BY <1>1, <1>2, <1>3, <1>4, <1>5, <1>6, <1>7, <1>8, <1>9, <1>10 DEF Messages!Next

(* Whatever an object was used for before: every message it makes is        *)
(* understood by every object that parses it, field by field, as what the   *)
(* sender set or, where its tree holds an older value, as that one; and     *)
(* where the tree named none, every destination finds itself addressed.     *)
THEOREM MessagesArrive == Spec => []MessageArrives
<1> DEFINE Inv == part = "messages" => MessagesInv
<1>0. Messages!IsFiniteSet(Hosts)
  BY HelpersAssumption DEF Messages!MessagesAssumption
<1>1. Init => Inv
  <2> SUFFICES ASSUME Init PROVE MessagesInv
    OBVIOUS
  <2>1. <<>> \in Seq(EntryType) /\ <<>> \in Seq(Destination) BY EmptySeq
  <2>2. Messages!Blank \in [Messages!Fields -> FieldText] BY DEF Messages!Blank, FieldText
  <2>3. Messages!NoMessage \in MessageType /\ Messages!NoMessage.json = <<>>
    BY <2>1, <2>2 DEF Messages!NoMessage, MessageType
  <2>4. hostvec \in Seq(Destination)
    <3>1. hostvec \in {<<>>, <<Messages!All>>} \cup {<<h>> : h \in Hosts}
      BY DEF Init, Messages!Init
    <3>2. \A d \in Destination : <<d>> \in Seq(Destination) OBVIOUS
    <3> QED BY <2>1, <3>1, <3>2 DEF Destination
  <2>5. Messages!MessageArrives
    BY <2>3 DEF Init, Messages!Init, Messages!MessageArrives
  <2>6. Faithful(Messages!NoMessage)
    <3>1. Messages!KeysOf(<<>>) = {} BY <2>1 DEF Messages!KeysOf
    <3>2. \A k \in Messages!Fields : Messages!Blank[k] = Messages!NoText BY DEF Messages!Blank
    <3>3. /\ Messages!NoMessage.old = <<>> /\ Messages!NoMessage.meant = Messages!Blank
          /\ Messages!NoMessage.dst = {}
      BY DEF Messages!NoMessage
    <3> QED BY <2>3, <3>1, <3>2, <3>3 DEF Faithful, Messages!Understood
  <2> QED BY <2>1, <2>2, <2>3, <2>4, <2>5, <2>6 DEF Init, Messages!Init, MessagesInv
<1>2. Inv /\ [Next]_vars => Inv'
  BY <1>0, OnlyOne, NextMessages
<1>3. Inv => MessageArrives
  BY DEF MessagesInv, MessageArrives
<1> HIDE DEF Inv
<1> QED BY <1>1, <1>2, <1>3, PTL DEF Spec

-----------------------------------------------------------------------------
(***************************************************************************)
(* Conversion: BytesIn, Numbers and the loops of iconv.                     *)
(***************************************************************************)

(* The members of Ascending are the same wherever it is used.               *)
LEMMA SameHelpers ==
    /\ \A s : Converter!SumOf(s) = SumOf(s)
    /\ \A S, n : Converter!Ascending(S, n) = Ascending(S, n)
BY DEF Converter!SumOf, SumOf, Converter!Ascending, Ascending

IsText(s) ==
    /\ s \in Seq(Converter!CharType)
    /\ \A i \in 1 .. Len(s) :
          /\ s[i].out <= 2 * s[i].in
          /\ s[i].kind = "good" => s[i].out > 0
          /\ s[i].kind = "cut" => i = Len(s)

LEMMA InputFacts ==
    ASSUME NEW s \in Inputs
    PROVE  IsText(s)
<1>1. s \in Seq(Converter!CharType) BY HelpersAssumption DEF Converter!ConversionAssumption
<1>2. DOMAIN s = 1 .. Len(s) BY <1>1, LenProperties
<1> QED BY <1>1, <1>2, HelpersAssumption DEF Converter!ConversionAssumption, IsText

LEMMA CharFacts ==
    ASSUME NEW s \in Seq(Converter!CharType)
    PROVE  /\ Len(s) \in Nat /\ DOMAIN s = 1 .. Len(s)
           /\ \A i \in 1 .. Len(s) :
                 s[i].in \in Nat \ {0} /\ s[i].out \in Nat /\ s[i].kind \in {"good", "bad", "cut"}
<1>1. Len(s) \in Nat /\ DOMAIN s = 1 .. Len(s) /\ \A i \in 1 .. Len(s) : s[i] \in Converter!CharType
  BY LenProperties, ElementOfSeq
<1> QED BY <1>1 DEF Converter!CharType

(* Bytes before the conversion.                                             *)
LEMMA BytesInFacts ==
    ASSUME NEW s \in Seq(Converter!CharType)
    PROVE  /\ Converter!BytesIn(s) \in Nat
           /\ \A c \in Converter!CharType :
                 Converter!BytesIn(Append(s, c)) = Converter!BytesIn(s) + c.in
           /\ s # <<>> => Converter!BytesIn(s) > 0
<1> DEFINE B(t) == [i \in DOMAIN t |-> t[i].in]
<1>1. ASSUME NEW t \in Seq(Converter!CharType)
      PROVE  /\ B(t) \in Seq(Int) /\ Len(B(t)) = Len(t) /\ DOMAIN t = 1 .. Len(t) /\ Len(t) \in Nat
             /\ \A i \in 1 .. Len(t) : B(t)[i] = t[i].in
             /\ Converter!BytesIn(t) = SumOf(B(t))
  <2>1. Len(t) \in Nat /\ DOMAIN t = 1 .. Len(t) /\ \A i \in 1 .. Len(t) : t[i].in \in Int
    BY CharFacts
  <2>2. B(t) \in [1 .. Len(t) -> Int] BY <2>1
  <2>3. B(t) \in Seq(Int) BY <2>1, <2>2, SeqDef
  <2>4. Len(B(t)) = Len(t) BY <2>1, <2>2, <2>3, LenProperties
  <2> QED BY <2>1, <2>2, <2>3, <2>4, SameHelpers DEF Converter!BytesIn
<1>2. ASSUME NEW t \in Seq(Converter!CharType), NEW c \in Converter!CharType
      PROVE  Converter!BytesIn(Append(t, c)) = Converter!BytesIn(t) + c.in
  <2> DEFINE u == Append(t, c)
  <2>1. u \in Seq(Converter!CharType) /\ Len(u) = Len(t) + 1 /\ u[Len(t) + 1] = c
        /\ (\A i \in 1 .. Len(t) : u[i] = t[i]) /\ Len(t) \in Nat
    BY AppendProperties, LenProperties
  <2> HIDE DEF u
  <2>2. c.in \in Int /\ B(t) \in Seq(Int) /\ B(u) \in Seq(Int)
        /\ Len(B(t)) = Len(t) /\ Len(B(u)) = Len(t) + 1
        /\ (\A i \in 1 .. Len(t) : B(t)[i] = t[i].in)
        /\ (\A i \in 1 .. Len(t) + 1 : B(u)[i] = u[i].in)
    <3> HIDE DEF B
    <3>1. c.in \in Int BY DEF Converter!CharType
    <3>2. B(t) \in Seq(Int) /\ Len(B(t)) = Len(t) /\ \A i \in 1 .. Len(t) : B(t)[i] = t[i].in
      BY <1>1
    <3>3. B(u) \in Seq(Int) /\ Len(B(u)) = Len(u) /\ \A i \in 1 .. Len(u) : B(u)[i] = u[i].in
      BY <1>1, <2>1
    <3> QED BY <2>1, <3>1, <3>2, <3>3
  <2> DEFINE v == Append(B(t), c.in)
  <2>3. v \in Seq(Int) /\ Len(v) = Len(t) + 1 /\ v[Len(t) + 1] = c.in
        /\ (\A i \in 1 .. Len(t) : v[i] = B(t)[i])
    BY <2>2, AppendProperties
  <2> HIDE DEF v, B
  <2>4. \A i \in 1 .. Len(t) + 1 : B(u)[i] = v[i]
    <3>1. \A i \in 1 .. Len(t) + 1 : i = Len(t) + 1 \/ i \in 1 .. Len(t) BY <2>1
    <3> QED BY <2>1, <2>2, <2>3, <3>1
  <2>5. B(u) = v BY <2>2, <2>3, <2>4, SeqEqual
  <2>6. SumOf(v) = SumOf(B(t)) + c.in BY <2>2, SumAppend DEF v
  <2> QED BY <1>1, <2>1, <2>5, <2>6 DEF u
<1>3. ASSUME NEW t \in Seq(Converter!CharType)
      PROVE  Converter!BytesIn(t) \in Nat /\ (t # <<>> => Converter!BytesIn(t) > 0)
  <2> DEFINE p(k) == SubSeq(t, 1, k)
             T == {k \in 0 .. Len(t) : Converter!BytesIn(p(k)) \in Nat /\ (k > 0 => Converter!BytesIn(p(k)) > 0)}
  <2>1. Len(t) \in Nat BY LenProperties
  <2>2. 0 \in T
    <3>1. p(0) = <<>> /\ <<>> \in Seq(Converter!CharType) /\ Len(<<>>) = 0 BY SubSeqEmpty, EmptySeq
    <3>2. Converter!BytesIn(<<>>) = SumOf(<<>>)
      <4>1. Len(B(<<>>)) = 0 /\ B(<<>>) \in Seq(Int) BY <1>1, <3>1
      <4>2. B(<<>>) = <<>> BY <4>1, EmptySeq
      <4> QED BY <1>1, <3>1, <4>2
    <3>3. 0 \in 0 .. Len(t) BY <2>1
    <3> HIDE DEF p
    <3> QED BY <3>1, <3>2, <3>3, SumEmpty
  <2>3. ASSUME NEW k \in 1 .. Len(t), k - 1 \in T PROVE k \in T
    <3>1. p(k) = Append(p(k - 1), t[k]) /\ p(k - 1) \in Seq(Converter!CharType) /\ t[k] \in Converter!CharType
      BY Grown
    <3>2. Converter!BytesIn(p(k)) = Converter!BytesIn(p(k - 1)) + t[k].in BY <1>2, <3>1
    <3>3. t[k].in \in Nat \ {0} BY <3>1 DEF Converter!CharType
    <3>4. Converter!BytesIn(p(k - 1)) \in Nat BY <2>3
    <3>5. k \in 0 .. Len(t) OBVIOUS
    <3> HIDE DEF p
    <3> QED BY <3>2, <3>3, <3>4, <3>5
  <2>4. \A k \in 0 .. Len(t) : k \in T
    <3> HIDE DEF T
    <3> QED BY <2>1, <2>2, <2>3, Climb
  <2>5. Len(t) \in T /\ p(Len(t)) = t /\ (t # <<>> => Len(t) > 0) BY <2>1, <2>4, SubSeqFull, EmptySeq
  <2> QED BY <2>5
<1> QED BY <1>2, <1>3

(* Bytes after the conversion.                                              *)
OutOf(s, nums) == SumOf([i \in DOMAIN nums |-> s[nums[i]].out])

LEMMA OutFacts ==
    ASSUME NEW s \in Seq(Converter!CharType), NEW nums \in Seq(1 .. Len(s)), NEW x \in 1 .. Len(s)
    PROVE  /\ OutOf(s, nums) \in Int
           /\ OutOf(s, Append(nums, x)) = OutOf(s, nums) + s[x].out
<1> DEFINE B(t) == [i \in DOMAIN t |-> s[t[i]].out]
<1>1. ASSUME NEW t \in Seq(1 .. Len(s))
      PROVE  /\ B(t) \in Seq(Int) /\ Len(B(t)) = Len(t) /\ DOMAIN t = 1 .. Len(t) /\ Len(t) \in Nat
             /\ \A i \in 1 .. Len(t) : B(t)[i] = s[t[i]].out
             /\ OutOf(s, t) = SumOf(B(t))
  <2>0. Len(t) \in Nat /\ DOMAIN t = 1 .. Len(t) /\ \A i \in 1 .. Len(t) : t[i] \in 1 .. Len(s)
    BY LenProperties, ElementOfSeq
  <2>1. \A i \in 1 .. Len(t) : s[t[i]].out \in Int
    BY <2>0, CharFacts
  <2>2. B(t) \in [1 .. Len(t) -> Int] BY <2>0, <2>1
  <2>3. B(t) \in Seq(Int) BY <2>0, <2>2, SeqDef
  <2>4. Len(B(t)) = Len(t) BY <2>0, <2>2, <2>3, LenProperties
  <2> QED BY <2>0, <2>2, <2>3, <2>4 DEF OutOf
<1> DEFINE u == Append(nums, x)
           c == s[x].out
<1>2. u \in Seq(1 .. Len(s)) /\ Len(u) = Len(nums) + 1 /\ u[Len(nums) + 1] = x
      /\ (\A i \in 1 .. Len(nums) : u[i] = nums[i]) /\ Len(nums) \in Nat
  BY AppendProperties, LenProperties
<1>3. c \in Int BY CharFacts
<1> HIDE DEF u, B
<1>4. B(nums) \in Seq(Int) /\ Len(B(nums)) = Len(nums) /\ \A i \in 1 .. Len(nums) : B(nums)[i] = s[nums[i]].out
  BY <1>1
<1>5. B(u) \in Seq(Int) /\ Len(B(u)) = Len(u) /\ \A i \in 1 .. Len(u) : B(u)[i] = s[u[i]].out
  BY <1>1, <1>2
<1> DEFINE v == Append(B(nums), c)
<1> HIDE DEF c
<1>6. v \in Seq(Int) /\ Len(v) = Len(nums) + 1 /\ v[Len(nums) + 1] = c
      /\ (\A i \in 1 .. Len(nums) : v[i] = B(nums)[i])
  BY <1>3, <1>4, AppendProperties
<1> HIDE DEF v
<1>7. \A i \in 1 .. Len(nums) + 1 : B(u)[i] = v[i]
  <2>1. \A i \in 1 .. Len(nums) + 1 : i = Len(nums) + 1 \/ i \in 1 .. Len(nums) BY <1>2
  <2>2. ASSUME NEW i \in 1 .. Len(nums) PROVE B(u)[i] = v[i]
    <3>1. i \in 1 .. Len(u) /\ u[i] = nums[i] BY <1>2
    <3>2. B(u)[i] = s[nums[i]].out BY <1>5, <3>1
    <3> QED BY <1>4, <1>6, <3>2
  <2>3. B(u)[Len(nums) + 1] = v[Len(nums) + 1]
    <3>1. Len(nums) + 1 \in 1 .. Len(u) BY <1>2
    <3>2. B(u)[Len(nums) + 1] = s[x].out BY <1>2, <1>5, <3>1
    <3> QED BY <1>6, <3>2 DEF c
  <2> QED BY <2>1, <2>2, <2>3
<1>8. B(u) = v BY <1>2, <1>5, <1>6, <1>7, SeqEqual
<1>9. SumOf(v) = SumOf(B(nums)) + c BY <1>3, <1>4, SumAppend DEF v
<1>10. SumOf(B(nums)) \in Int BY <1>4, SumType
<1> QED BY <1>1, <1>2, <1>8, <1>9, <1>10 DEF u, c

(* The good characters among the first k, what they take before and after.  *)
GoodOf(s, a, b) == {i \in a .. b : s[i].kind = "good"}

GoodUpto(s, k) == Ascending(GoodOf(s, 1, k), k)

OutUpto(s, k) == OutOf(s, GoodUpto(s, k))

InUpto(s, k) == Converter!BytesIn(SubSeq(s, 1, k))

LEMMA GoodUptoLists ==
    ASSUME NEW s, NEW k \in Nat
    PROVE  Lists(GoodUpto(s, k), GoodOf(s, 1, k))
<1>1. GoodOf(s, 1, k) \in SUBSET (1 .. k) BY DEF GoodOf
<1> QED BY <1>1, AscendingLists DEF GoodUpto

LEMMA GoodUptoType ==
    ASSUME NEW s, Len(s) \in Nat, NEW k \in 0 .. Len(s)
    PROVE  GoodUpto(s, k) \in Seq(1 .. Len(s))
<1> DEFINE a == GoodUpto(s, k)
<1>0. k \in Nat OBVIOUS
<1>1. Lists(a, GoodOf(s, 1, k)) BY <1>0, GoodUptoLists
<1> HIDE DEF a
<1>2. a \in Seq(Nat) /\ \A i \in 1 .. Len(a) : a[i] \in 1 .. Len(s)
  BY <1>1 DEF Lists, GoodOf
<1>3. Len(a) \in Nat /\ a \in [1 .. Len(a) -> 1 .. Len(s)] BY <1>2, LenProperties
<1> QED BY <1>3, SeqDef DEF a

LEMMA GoodUptoGrows ==
    ASSUME NEW s, NEW k \in Nat, k > 0
    PROVE  GoodUpto(s, k) = IF s[k].kind = "good" THEN Append(GoodUpto(s, k - 1), k)
                            ELSE GoodUpto(s, k - 1)
<1>0. k - 1 \in Nat OBVIOUS
<1>1. Lists(GoodUpto(s, k - 1), GoodOf(s, 1, k - 1)) BY <1>0, GoodUptoLists
<1>2. Lists(GoodUpto(s, k), GoodOf(s, 1, k)) BY GoodUptoLists
<1>3. CASE s[k].kind = "good"
  <2>1. GoodOf(s, 1, k) = GoodOf(s, 1, k - 1) \cup {k} BY <1>3 DEF GoodOf
  <2>2. \A x \in GoodOf(s, 1, k - 1) : x < k BY DEF GoodOf
  <2>3. Lists(Append(GoodUpto(s, k - 1), k), GoodOf(s, 1, k)) BY <1>1, <2>1, <2>2, ListsAppend
  <2>4. GoodUpto(s, k) = Append(GoodUpto(s, k - 1), k) BY <1>2, <2>3, OneList
  <2> QED BY <1>3, <2>4
<1>4. CASE s[k].kind # "good"
  <2>1. GoodOf(s, 1, k) = GoodOf(s, 1, k - 1)
    <3>1. \A i \in 1 .. k : i = k \/ i \in 1 .. k - 1 OBVIOUS
    <3>2. \A i \in 1 .. k - 1 : i \in 1 .. k OBVIOUS
    <3> QED BY <1>4, <3>1, <3>2 DEF GoodOf
  <2>2. GoodUpto(s, k) = GoodUpto(s, k - 1) BY <1>1, <1>2, <2>1, OneList
  <2> QED BY <1>4, <2>2
<1> QED BY <1>3, <1>4

(* One call of iconv goes on where the last one stopped.                    *)
LEMMA GoodUptoConcat ==
    ASSUME NEW s, NEW a \in Nat, NEW b \in Nat, a <= b
    PROVE  GoodUpto(s, a) \o Ascending(GoodOf(s, a + 1, b), b) = GoodUpto(s, b)
<1>1. Lists(GoodUpto(s, a), GoodOf(s, 1, a)) /\ Lists(GoodUpto(s, b), GoodOf(s, 1, b)) BY GoodUptoLists
<1>2. GoodOf(s, a + 1, b) \in SUBSET (1 .. b) BY DEF GoodOf
<1>3. Lists(Ascending(GoodOf(s, a + 1, b), b), GoodOf(s, a + 1, b)) BY <1>2, AscendingLists
<1>4. \A x \in GoodOf(s, 1, a), y \in GoodOf(s, a + 1, b) : x < y BY DEF GoodOf
<1>5. GoodOf(s, 1, b) = GoodOf(s, 1, a) \cup GoodOf(s, a + 1, b)
  <2>1. \A i : i \in 1 .. b <=> i \in 1 .. a \/ i \in a + 1 .. b OBVIOUS
  <2> QED BY <2>1 DEF GoodOf
<1>6. Lists(GoodUpto(s, a) \o Ascending(GoodOf(s, a + 1, b), b), GoodOf(s, 1, b))
  BY <1>1, <1>3, <1>4, <1>5, ListsConcat
<1> QED BY <1>1, <1>6, OneList

LEMMA UptoFacts ==
    ASSUME NEW s \in Seq(Converter!CharType)
    PROVE  /\ GoodUpto(s, 0) = <<>> /\ OutUpto(s, 0) = 0 /\ InUpto(s, 0) = 0
           /\ InUpto(s, Len(s)) = Converter!BytesIn(s)
           /\ \A k \in 0 .. Len(s) : OutUpto(s, k) \in Int /\ InUpto(s, k) \in Nat
           /\ \A k \in 1 .. Len(s) :
                 /\ InUpto(s, k) = InUpto(s, k - 1) + s[k].in
                 /\ OutUpto(s, k) = IF s[k].kind = "good" THEN OutUpto(s, k - 1) + s[k].out
                                    ELSE OutUpto(s, k - 1)
<1>0. Len(s) \in Nat BY LenProperties
<1>1. GoodUpto(s, 0) = <<>>
  <2>1. GoodOf(s, 1, 0) = {} BY DEF GoodOf
  <2>2. Lists(GoodUpto(s, 0), {}) BY <2>1, GoodUptoLists, 0 \in Nat
  <2> QED BY <2>2, ListsEmpty, OneList
<1>2. OutUpto(s, 0) = 0
  <2>1. [i \in DOMAIN <<>> |-> s[<<>>[i]].out] = <<>> OBVIOUS
  <2> QED BY <1>1, <2>1, SumEmpty DEF OutUpto, OutOf
<1>3. InUpto(s, 0) = 0
  <2>1. SubSeq(s, 1, 0) = <<>> BY SubSeqEmpty
  <2>2. [i \in DOMAIN <<>> |-> <<>>[i].in] = <<>> OBVIOUS
  <2>3. Converter!BytesIn(<<>>) = 0 BY <2>2, SumEmpty, SameHelpers DEF Converter!BytesIn
  <2> QED BY <2>1, <2>3 DEF InUpto
<1>4. InUpto(s, Len(s)) = Converter!BytesIn(s) BY SubSeqFull DEF InUpto
<1>5. ASSUME NEW k \in 1 .. Len(s)
      PROVE  /\ InUpto(s, k) = InUpto(s, k - 1) + s[k].in
             /\ InUpto(s, k - 1) \in Nat /\ InUpto(s, k) \in Nat
  <2>1. SubSeq(s, 1, k) = Append(SubSeq(s, 1, k - 1), s[k])
        /\ SubSeq(s, 1, k - 1) \in Seq(Converter!CharType) /\ s[k] \in Converter!CharType BY Grown
  <2>2. SubSeq(s, 1, k) \in Seq(Converter!CharType) BY <2>1, AppendProperties
  <2> QED BY <2>1, <2>2, BytesInFacts DEF InUpto
<1>6. ASSUME NEW k \in 1 .. Len(s)
      PROVE  /\ OutUpto(s, k) = IF s[k].kind = "good" THEN OutUpto(s, k - 1) + s[k].out
                                ELSE OutUpto(s, k - 1)
             /\ OutUpto(s, k) \in Int
  <2>1. k - 1 \in 0 .. Len(s) /\ k \in 0 .. Len(s) /\ k \in Nat /\ k > 0 OBVIOUS
  <2>2. GoodUpto(s, k - 1) \in Seq(1 .. Len(s)) /\ GoodUpto(s, k) \in Seq(1 .. Len(s))
    BY <1>0, <2>1, GoodUptoType
  <2>3. OutOf(s, GoodUpto(s, k)) \in Int BY <2>2, OutFacts
  <2>4. OutOf(s, Append(GoodUpto(s, k - 1), k)) = OutOf(s, GoodUpto(s, k - 1)) + s[k].out
    BY <2>2, OutFacts
  <2> QED BY <2>1, <2>3, <2>4, GoodUptoGrows DEF OutUpto
<1>7. \A k \in 0 .. Len(s) : k = 0 \/ k \in 1 .. Len(s) BY <1>0
<1>8. \A k \in 0 .. Len(s) : OutUpto(s, k) \in Int /\ InUpto(s, k) \in Nat
  BY <1>2, <1>3, <1>5, <1>6, <1>7
<1> QED BY <1>1, <1>2, <1>3, <1>4, <1>5, <1>6, <1>8

(* What comes out of the characters behind a is at most twice what goes in; *)
(* it is nothing only where nothing is good.                                *)
LEMMA Doubles ==
    ASSUME NEW s \in Seq(Converter!CharType), IsText(s), NEW a \in 0 .. Len(s)
    PROVE  \A b \in 0 .. Len(s) : a <= b =>
              /\ 0 <= OutUpto(s, b) - OutUpto(s, a)
              /\ OutUpto(s, b) - OutUpto(s, a) <= 2 * (InUpto(s, b) - InUpto(s, a))
<1> DEFINE n == Len(s)
           D(b) == /\ 0 <= OutUpto(s, b) - OutUpto(s, a)
                   /\ OutUpto(s, b) - OutUpto(s, a) <= 2 * (InUpto(s, b) - InUpto(s, a))
           T == {b \in 0 .. n : a <= b => D(b)}
<1>0. n \in Nat /\ a \in 0 .. n BY LenProperties
<1>1. \A k \in 0 .. n : OutUpto(s, k) \in Int /\ InUpto(s, k) \in Int BY UptoFacts
<1>2. D(a) BY <1>0, <1>1
<1>3. ASSUME NEW k \in 1 .. n, k - 1 \in T PROVE k \in T
  <2>0. k \in 0 .. n /\ k - 1 \in 0 .. n OBVIOUS
  <2>1. CASE a <= k - 1
    <3>1. D(k - 1) BY <1>3, <2>1
    <3>2. /\ InUpto(s, k) = InUpto(s, k - 1) + s[k].in
          /\ OutUpto(s, k) = IF s[k].kind = "good" THEN OutUpto(s, k - 1) + s[k].out
                             ELSE OutUpto(s, k - 1)
      BY UptoFacts
    <3>3. s[k].in \in Nat /\ s[k].out \in Nat /\ s[k].out <= 2 * s[k].in BY CharFacts DEF IsText
    <3>4. D(k)
      <4> DEFINE p == OutUpto(s, k - 1)
                 q == OutUpto(s, k)
                 v == InUpto(s, k - 1)
                 w == InUpto(s, k)
                 x == OutUpto(s, a)
                 y == InUpto(s, a)
      <4>1. p \in Int /\ q \in Int /\ v \in Int /\ w \in Int /\ x \in Int /\ y \in Int
        BY <1>0, <1>1, <2>0
      <4>2. 0 <= p - x /\ p - x <= 2 * (v - y) BY <3>1
      <4>3. w = v + s[k].in /\ q \in {p, p + s[k].out} BY <3>2
      <4>4. 0 <= q - x /\ q - x <= 2 * (w - y)
        <5> DEFINE i == s[k].in
                   o == s[k].out
        <5>1. i \in Nat /\ o \in Nat /\ o <= 2 * i /\ w = v + i /\ (q = p \/ q = p + o) BY <3>3, <4>3
        <5> HIDE DEF p, q, v, w, x, y, i, o
        <5> QED BY <4>1, <4>2, <5>1
      <4> QED BY <4>4
    <3> QED BY <2>0, <3>4
  <2>2. CASE a = k BY <1>2, <2>0, <2>2
  <2>3. CASE ~(a <= k) BY <2>0, <2>3
  <2> QED BY <1>0, <2>1, <2>2, <2>3
<1>4. 0 \in T
  <2>1. a <= 0 => a = 0 BY <1>0
  <2> QED BY <1>0, <1>2, <2>1
<1> HIDE DEF T
<1>5. \A k \in 0 .. n : k \in T BY <1>0, <1>3, <1>4, Climb
<1> QED BY <1>5 DEF T

LEMMA NothingGood ==
    ASSUME NEW s \in Seq(Converter!CharType), IsText(s), NEW k \in 0 .. Len(s), ~(OutUpto(s, k) > 0)
    PROVE  GoodUpto(s, k) = <<>>
<1>0. Len(s) \in Nat BY LenProperties
<1>1. ASSUME NEW i \in 1 .. k, s[i].kind = "good" PROVE FALSE
  <2>1. i \in 1 .. Len(s) /\ i \in 0 .. Len(s) /\ i - 1 \in 0 .. Len(s) /\ i <= k /\ 0 <= i - 1 /\ 0 \in 0 .. Len(s)
    BY <1>0
  <2>2. OutUpto(s, i) = OutUpto(s, i - 1) + s[i].out BY <1>1, <2>1, UptoFacts
  <2>3. s[i].out \in Nat /\ s[i].out > 0 BY <1>1, <2>1, CharFacts DEF IsText
  <2>4. 0 <= OutUpto(s, i - 1) - OutUpto(s, 0) /\ 0 <= OutUpto(s, k) - OutUpto(s, i)
    BY <2>1, Doubles
  <2>5. OutUpto(s, 0) = 0 /\ OutUpto(s, i) \in Int /\ OutUpto(s, i - 1) \in Int /\ OutUpto(s, k) \in Int
    BY <2>1, UptoFacts
  <2> QED BY <2>2, <2>3, <2>4, <2>5
<1>2. GoodOf(s, 1, k) = {} BY <1>1 DEF GoodOf
<1>3. k \in Nat BY <1>0
<1>4. Lists(GoodUpto(s, k), {}) BY <1>2, <1>3, GoodUptoLists
<1> QED BY <1>4, ListsEmpty, OneList

LEMMA AllGood ==
    ASSUME NEW s \in Seq(Converter!CharType), \A i \in 1 .. Len(s) : s[i].kind = "good"
    PROVE  Len(GoodUpto(s, Len(s))) = Len(s)
<1> DEFINE n == Len(s)
           a == [i \in 1 .. n |-> i]
<1>0. n \in Nat BY LenProperties
<1>1. a \in [1 .. n -> Nat] BY <1>0
<1>2. a \in Seq(Nat) BY <1>0, <1>1, SeqDef
<1>3. Len(a) = n BY <1>0, <1>1, <1>2, LenProperties
<1>4. GoodOf(s, 1, n) = 1 .. n BY DEF GoodOf
<1>5. Lists(a, 1 .. n) BY <1>2, <1>3 DEF Lists
<1>6. Lists(GoodUpto(s, n), 1 .. n) BY <1>0, <1>4, GoodUptoLists
<1> HIDE DEF a
<1>7. GoodUpto(s, n) = a BY <1>5, <1>6, OneList
<1> QED BY <1>3, <1>7

(* What is left behind the first k.                                         *)
LEMMA LeftFacts ==
    ASSUME NEW s \in Seq(Converter!CharType), NEW a \in 0 .. Len(s)
    PROVE  Converter!BytesIn(SubSeq(s, a + 1, Len(s))) = InUpto(s, Len(s)) - InUpto(s, a)
<1> DEFINE n == Len(s)
           P(b) == SubSeq(s, a + 1, b)
           D(b) == Converter!BytesIn(P(b)) = InUpto(s, b) - InUpto(s, a)
           T == {b \in 0 .. n : a <= b => D(b)}
<1>0. n \in Nat /\ a \in 0 .. n BY LenProperties
<1>1. \A k \in 0 .. n : InUpto(s, k) \in Int BY UptoFacts
<1>2. D(a)
  <2>1. P(a) = <<>> BY <1>0, SubSeqEmpty
  <2>2. [i \in DOMAIN <<>> |-> <<>>[i].in] = <<>> OBVIOUS
  <2>3. Converter!BytesIn(<<>>) = 0 BY <2>2, SumEmpty, SameHelpers DEF Converter!BytesIn
  <2> HIDE DEF P
  <2> QED BY <1>0, <1>1, <2>1, <2>3
<1>3. ASSUME NEW k \in 1 .. n, k - 1 \in T PROVE k \in T
  <2>0. k \in 0 .. n /\ k - 1 \in 0 .. n OBVIOUS
  <2>1. CASE a <= k - 1
    <3>1. D(k - 1) BY <1>3, <2>1
    <3>2. InUpto(s, k) = InUpto(s, k - 1) + s[k].in BY UptoFacts
    <3>3. P(k) = Append(P(k - 1), s[k]) /\ P(k - 1) \in Seq(Converter!CharType) /\ s[k] \in Converter!CharType
      <4>1. \A i \in 1 .. n : s[i] \in Converter!CharType BY ElementOfSeq
      <4>2. \A i \in a + 1 .. k : i \in 1 .. n BY <1>0
      <4>3. /\ P(k) \in Seq(Converter!CharType) /\ Len(P(k)) = k - a
            /\ \A i \in 1 .. k - a : P(k)[i] = s[a + i]
        <5>1. \A i \in a + 1 .. k : s[i] \in Converter!CharType BY <4>1, <4>2
        <5>2. a + 1 <= k /\ a + 1 \in Int /\ k \in Int /\ k - (a + 1) + 1 = k - a BY <1>0, <2>1
        <5>3. /\ P(k) \in Seq(Converter!CharType) /\ Len(P(k)) = k - (a + 1) + 1
              /\ \A i \in 1 .. k - (a + 1) + 1 : P(k)[i] = s[a + 1 + i - 1]
          BY <5>1, <5>2, SubSeqProperties
        <5>4. \A i \in 1 .. k - a : i \in 1 .. k - (a + 1) + 1 /\ a + 1 + i - 1 = a + i BY <1>0, <5>2
        <5> HIDE DEF P
        <5>5. \A i \in 1 .. k - a : P(k)[i] = s[a + i] BY <5>3, <5>4
        <5> QED BY <5>2, <5>3, <5>5
      <4>4. /\ P(k - 1) \in Seq(Converter!CharType) /\ Len(P(k - 1)) = k - 1 - a
            /\ \A i \in 1 .. k - 1 - a : P(k - 1)[i] = s[a + i]
        <5>1. \A i \in a + 1 .. k - 1 : i \in a + 1 .. k BY <1>0
        <5>2. \A i \in a + 1 .. k - 1 : s[i] \in Converter!CharType BY <4>1, <4>2, <5>1
        <5>3. a + 1 \in Int /\ k - 1 \in Int /\ (a + 1 <= k - 1 => k - 1 - (a + 1) + 1 = k - 1 - a)
              /\ (~(a + 1 <= k - 1) => k - 1 - a = 0)
          BY <1>0, <2>1
        <5>4. \A i \in Int : a + 1 + i - 1 = a + i BY <1>0
        <5>5. CASE a + 1 <= k - 1
          <6>1. /\ P(k - 1) \in Seq(Converter!CharType) /\ Len(P(k - 1)) = k - 1 - (a + 1) + 1
                /\ \A i \in 1 .. k - 1 - (a + 1) + 1 : P(k - 1)[i] = s[a + 1 + i - 1]
            BY <5>2, <5>3, <5>5, SubSeqProperties
          <6> QED BY <5>3, <5>4, <5>5, <6>1
        <5>6. CASE ~(a + 1 <= k - 1)
          <6>1. P(k - 1) = <<>> BY <5>3, <5>6, SubSeqEmpty
          <6>2. <<>> \in Seq(Converter!CharType) /\ Len(<<>>) = 0 BY EmptySeq
          <6> HIDE DEF P
          <6> QED BY <5>3, <5>6, <6>1, <6>2
        <5> QED BY <5>5, <5>6
      <4>5. s[k] \in Converter!CharType BY <4>1
      <4> DEFINE v == Append(P(k - 1), s[k])
                 l == k - 1 - a
      <4>6. l \in Nat /\ l + 1 = k - a BY <1>0, <2>1
      <4> HIDE DEF P, l
      <4>7. /\ v \in Seq(Converter!CharType) /\ Len(v) = l + 1 /\ v[l + 1] = s[k]
            /\ \A i \in 1 .. l : v[i] = s[a + i]
        BY <4>4, <4>5, AppendProperties DEF l
      <4> HIDE DEF v
      <4>8. \A i \in 1 .. l + 1 : v[i] = P(k)[i]
        <5>1. \A i \in 1 .. l + 1 : i = l + 1 \/ i \in 1 .. l BY <4>6
        <5>2. a + (l + 1) = k BY <1>0 DEF l
        <5> QED BY <4>3, <4>6, <4>7, <5>1, <5>2
      <4>9. P(k) = v BY <4>3, <4>6, <4>7, <4>8, SeqEqual
      <4> QED BY <4>4, <4>5, <4>9 DEF v
    <3>4. Converter!BytesIn(P(k)) = Converter!BytesIn(P(k - 1)) + s[k].in BY <3>3, BytesInFacts
    <3>5. s[k].in \in Nat BY CharFacts
    <3>6. D(k)
      <4> HIDE DEF P
      <4> QED BY <1>0, <1>1, <2>0, <3>1, <3>2, <3>4, <3>5
    <3> QED BY <2>0, <3>6
  <2>2. CASE a = k BY <1>2, <2>0, <2>2
  <2>3. CASE ~(a <= k) BY <2>0, <2>3
  <2> QED BY <1>0, <2>1, <2>2, <2>3
<1>4. 0 \in T
  <2>1. a <= 0 => a = 0 BY <1>0
  <2> QED BY <1>0, <1>2, <2>1
<1> HIDE DEF T
<1>5. \A k \in 0 .. n : k \in T BY <1>0, <1>3, <1>4, Climb
<1>6. n \in 0 .. n /\ a <= n BY <1>0
<1> QED BY <1>5, <1>6 DEF T

GoodStop(s, stops) ==
    LET ends == {i \in DOMAIN s : s[i].kind \in stops}
        upto == IF ends = {} THEN Len(s) ELSE Min(ends) - 1
    IN  GoodUpto(s, upto)

LEMMA GoodStopIs ==
    ASSUME NEW s \in Seq(Converter!CharType), NEW stops, NEW r \in 0 .. Len(s),
           \A i \in 1 .. r : s[i].kind \notin stops,
           r = Len(s) \/ s[r + 1].kind \in stops
    PROVE  GoodStop(s, stops) = GoodUpto(s, r)
<1> DEFINE ends == {i \in DOMAIN s : s[i].kind \in stops}
           upto == IF ends = {} THEN Len(s) ELSE Min(ends) - 1
<1>1. Len(s) \in Nat /\ DOMAIN s = 1 .. Len(s) BY CharFacts
<1>2. CASE r = Len(s)
  <2>1. ends = {} BY <1>1, <1>2
  <2> HIDE DEF ends
  <2>2. upto = r BY <1>2, <2>1
  <2> HIDE DEF upto
  <2> QED BY <2>2 DEF GoodStop, upto, ends
<1>3. CASE r # Len(s)
  <2>0. r \in Nat /\ r + 1 \in 1 .. Len(s)
    <3> DEFINE n == Len(s)
    <3>1. n \in Nat /\ r \in 0 .. n /\ r # n BY <1>1, <1>3
    <3> HIDE DEF n
    <3>2. r \in Nat /\ r + 1 \in 1 .. n BY <3>1
    <3> QED BY <3>2 DEF n
  <2>1. r + 1 \in ends /\ ends \in SUBSET Nat /\ \A j \in ends : r + 1 <= j
    <3>1. r + 1 \in ends BY <1>1, <1>3, <2>0
    <3>2. \A j \in ends : j \in 1 .. Len(s) /\ ~(j \in 1 .. r) BY <1>1
    <3> HIDE DEF ends
    <3>3. ASSUME NEW j \in ends PROVE j \in Nat /\ r + 1 <= j
      <4> DEFINE n == Len(s)
      <4>1. n \in Nat /\ j \in 1 .. n /\ ~(j \in 1 .. r) BY <1>1, <3>2
      <4> HIDE DEF n
      <4>2. j \in Nat BY <4>1
      <4>3. ~(1 <= j /\ j <= r) BY <4>1, <4>2, <2>0
      <4> QED BY <2>0, <4>1, <4>2, <4>3
    <3> QED BY <3>1, <3>3
  <2> HIDE DEF ends
  <2>2. Min(ends) \in ends /\ \A j \in ends : Min(ends) <= j
    <3>1. ends # {} BY <2>1
    <3> QED BY <2>1, <3>1, MinFacts
  <2>3. Min(ends) = r + 1
    <3> DEFINE m == Min(ends)
    <3>1. m <= r + 1 /\ r + 1 <= m /\ m \in Nat BY <2>1, <2>2
    <3> HIDE DEF m
    <3>2. m = r + 1 BY <2>0, <3>1
    <3> QED BY <3>2 DEF m
  <2>4. upto = r
    <3>1. ends # {} BY <2>1
    <3>2. (r + 1) - 1 = r BY <2>0
    <3> QED BY <2>3, <3>1, <3>2
  <2> HIDE DEF upto
  <2> QED BY <2>4 DEF GoodStop, upto, ends
<1> QED BY <1>2, <1>3

LEMMA ConverterOps ==
    /\ \A nums : Converter!BytesOut(nums) = OutOf(input, nums)
    /\ \A a, b : Converter!Good(a, b) = GoodOf(input, a, b)
    /\ \A stops : Converter!GoodNumbers(stops) = GoodStop(input, stops)
<1>1. \A nums : Converter!BytesOut(nums) = OutOf(input, nums)
  BY SameHelpers DEF Converter!BytesOut, OutOf
<1>2. \A a, b : Converter!Good(a, b) = GoodOf(input, a, b) BY DEF Converter!Good, GoodOf
<1>3. ASSUME NEW stops PROVE Converter!GoodNumbers(stops) = GoodStop(input, stops)
  BY <1>2, SameHelpers DEF Converter!GoodNumbers, GoodStop, GoodUpto, Converter!Min, Min
<1> QED BY <1>1, <1>2, <1>3

LEMMA ConverterOpsNext ==
    /\ Converter!BytesOut(out)' = OutOf(input', out')
    /\ Converter!GoodNumbers({"bad", "cut"})' = GoodStop(input', {"bad", "cut"})
    /\ Converter!GoodNumbers({"cut"})' = GoodStop(input', {"cut"})
    /\ Converter!GoodNumbers({})' = GoodStop(input', {})
    /\ Converter!InLeft(taken)' = Converter!BytesIn(SubSeq(input', taken' + 1, Len(input')))
<1>1. Converter!BytesOut(out)' = OutOf(input', out')
  BY SameHelpers DEF Converter!BytesOut, OutOf
<1>2. \A a, b : Converter!Good(a, b)' = GoodOf(input', a, b) BY DEF Converter!Good, GoodOf
<1>3. ASSUME NEW stops PROVE Converter!GoodNumbers(stops)' = GoodStop(input', stops)
  BY <1>2, SameHelpers DEF Converter!GoodNumbers, GoodStop, GoodUpto, Converter!Min, Min
<1>4. Converter!InLeft(taken)' = Converter!BytesIn(SubSeq(input', taken' + 1, Len(input')))
  BY DEF Converter!InLeft
<1> QED BY <1>1, <1>3, <1>4

LoopOf(s, k) == OutUpto(s, k) + 2 * (InUpto(s, Len(s)) - InUpto(s, k))

(* While a function runs it has taken only what it may, and the buffer      *)
(* holds just that; a second call of iconv in cconvert has room for all.    *)
ConverterInv ==
    /\ fn \in {"none", "cconvert", "z_convert", "charconv", "utf8_to_gb"}
    /\ result \in {"none", "text", "source", "error"}
    /\ discard \in BOOLEAN /\ rounds \in Nat
    /\ fn = "none" =>
          /\ taken = 0 /\ out = <<>> /\ discard = FALSE /\ rounds = 0 /\ result = "none"
    /\ fn # "none" =>
          /\ input \in Inputs /\ size \in Nat /\ taken \in 0 .. Len(input)
          /\ out = GoodUpto(input, taken) /\ OutUpto(input, taken) <= size
    /\ fn # "none" /\ result = "none" =>
          \A i \in 1 .. taken : input[i].kind = "good" \/ (input[i].kind = "bad" /\ discard)
    /\ fn \in {"z_convert", "charconv"} => size = 4 * Converter!BytesIn(input)
    /\ fn = "z_convert" => input # <<>>
    /\ fn = "utf8_to_gb" => owned = FALSE
    /\ discard => fn = "z_convert"
    /\ fn = "cconvert" /\ result = "none" =>
          rounds = 0 \/ (rounds = 1 /\ LoopOf(input, taken) <= size)
    /\ Converter!ConvertedWhole

CallFacts(r) ==
    /\ r \in taken .. Len(input) /\ r \in 0 .. Len(input)
    /\ out \o Converter!Numbers(r) = GoodUpto(input, r)
    /\ \A i \in 1 .. r : input[i].kind = "good" \/ (input[i].kind = "bad" /\ discard)
    /\ OutUpto(input, r) <= size
    /\ \/ r = Len(input) /\ Converter!Errno = "none"
       \/ /\ r < Len(input)
          /\ \/ input[r + 1].kind = "cut" /\ Converter!Errno = "EINVAL"
             \/ input[r + 1].kind = "bad" /\ Converter!Errno = "EILSEQ" /\ ~discard
             \/ input[r + 1].kind = "good" /\ Converter!Errno = "E2BIG"
                /\ OutUpto(input, r + 1) > size

LEMMA InputType ==
    ASSUME ConverterInv, fn # "none"
    PROVE  /\ input \in Seq(Converter!CharType) /\ IsText(input) /\ Len(input) \in Nat
           /\ taken \in 0 .. Len(input) /\ size \in Nat
<1>1. input \in Inputs /\ taken \in 0 .. Len(input) /\ size \in Nat BY DEF ConverterInv
<1>2. IsText(input) BY <1>1, InputFacts
<1>3. input \in Seq(Converter!CharType) BY <1>2 DEF IsText
<1> QED BY <1>1, <1>2, <1>3, LenProperties

LEMMA Called ==
    ASSUME ConverterInv, fn # "none", result = "none"
    PROVE  CallFacts(Converter!Reached)
<1> DEFINE n == Len(input)
           U == {k \in taken .. n : Converter!Reaches(k)}
           r == Converter!Reached
<1>1. input \in Seq(Converter!CharType) /\ IsText(input) /\ n \in Nat /\ taken \in 0 .. n /\ size \in Nat
  BY InputType
<1>2. ASSUME NEW k \in taken .. n
      PROVE  /\ out \o Converter!Numbers(k) = GoodUpto(input, k)
             /\ Converter!BytesOut(out \o Converter!Numbers(k)) = OutUpto(input, k)
  <2>1. Converter!Numbers(k) = Ascending(GoodOf(input, taken + 1, k), k)
    BY SameHelpers, ConverterOps DEF Converter!Numbers
  <2>2. taken \in Nat /\ k \in Nat /\ taken <= k BY <1>1
  <2>3. out \o Converter!Numbers(k) = GoodUpto(input, k)
    BY <2>1, <2>2, GoodUptoConcat DEF ConverterInv
  <2> QED BY <2>3, ConverterOps DEF OutUpto
<1>3. \A k \in taken .. n :
         Converter!Reaches(k) <=> /\ \A i \in taken + 1 .. k : input[i].kind = "good" \/ (input[i].kind = "bad" /\ discard)
                                  /\ OutUpto(input, k) <= size
  BY <1>2 DEF Converter!Reaches
<1>4. taken \in U
  <2>1. taken \in taken .. n /\ taken + 1 .. taken = {} BY <1>1
  <2> QED BY <1>3, <2>1 DEF ConverterInv
<1>5. U \in SUBSET (0 .. n) /\ U # {} BY <1>1, <1>4
<1>6. r = Max(U) BY DEF Converter!Reached, Converter!Max, Max
<1> HIDE DEF U, r
<1>7. r \in U /\ \A j \in U : j <= r BY <1>1, <1>5, <1>6, MaxFacts
<1> USE DEF U
<1>8. r \in taken .. n /\ r \in 0 .. n /\ Converter!Reaches(r) BY <1>1, <1>7
<1>9. \A i \in 1 .. r : input[i].kind = "good" \/ (input[i].kind = "bad" /\ discard)
  <2>1. \A i \in 1 .. r : i \in 1 .. taken \/ i \in taken + 1 .. r BY <1>1, <1>8
  <2> QED BY <1>3, <1>8, <2>1 DEF ConverterInv
<1>10. CASE r = n
  <2>1. Converter!Errno = "none" BY <1>10 DEF Converter!Errno, r
  <2> QED BY <1>2, <1>3, <1>8, <1>9, <1>10, <2>1 DEF CallFacts, r
<1>11. CASE r # n
  <2>1. r < n /\ r + 1 \in 1 .. n /\ r + 1 \in taken .. n BY <1>1, <1>8, <1>11
  <2>2. input[r + 1].kind \in {"good", "bad", "cut"} BY <1>1, <2>1, CharFacts
  <2>3. Converter!Errno = [good |-> "E2BIG", bad |-> "EILSEQ", cut |-> "EINVAL"][input[r + 1].kind]
    BY <1>11 DEF Converter!Errno, r
  <2>4. ~Converter!Reaches(r + 1)
    <3>1. ~(r + 1 <= r) BY <1>1, <1>8
    <3> QED BY <1>7, <2>1, <3>1
  <2>5. \/ ~(OutUpto(input, r + 1) <= size)
        \/ ~(input[r + 1].kind = "good" \/ (input[r + 1].kind = "bad" /\ discard))
    <3>1. \A i \in taken + 1 .. r + 1 : i = r + 1 \/ i \in 1 .. r BY <1>1, <1>8
    <3> QED BY <1>3, <1>9, <2>1, <2>4, <3>1
  <2>6. OutUpto(input, r + 1) \in Int /\ OutUpto(input, r) \in Int
    <3>1. r + 1 \in 0 .. n BY <1>1, <2>1
    <3> QED BY <1>1, <1>8, <3>1, UptoFacts
  <2>7. input[r + 1].kind # "good" => OutUpto(input, r + 1) = OutUpto(input, r)
    <3>1. (r + 1) - 1 = r BY <1>1, <1>8
    <3> QED BY <1>1, <2>1, <3>1, UptoFacts
  <2>8. OutUpto(input, r) <= size BY <1>3, <1>8
  <2>9. CASE input[r + 1].kind = "cut"
    BY <1>2, <1>8, <1>9, <2>1, <2>3, <2>8, <2>9 DEF CallFacts, r
  <2>10. CASE input[r + 1].kind = "bad"
    <3>1. ~discard BY <2>5, <2>7, <2>8, <2>10
    <3> QED BY <1>2, <1>8, <1>9, <2>1, <2>3, <2>8, <2>10, <3>1 DEF CallFacts, r
  <2>11. CASE input[r + 1].kind = "good"
    <3>1. OutUpto(input, r + 1) > size BY <1>1, <2>5, <2>6, <2>11
    <3> QED BY <1>2, <1>8, <1>9, <2>1, <2>3, <2>8, <2>11, <3>1 DEF CallFacts, r
  <2> QED BY <2>2, <2>9, <2>10, <2>11
<1> QED BY <1>10, <1>11

(* What every call of iconv leaves, if the function goes on with its text.  *)
LEMMA AfterIconv ==
    ASSUME ConverterInv, fn # "none", result = "none", Converter!Iconv, input' = input
    PROVE  /\ CallFacts(taken') /\ taken' = Converter!Reached /\ rounds' = rounds + 1
           /\ out' = GoodUpto(input, taken')
           /\ Converter!BytesOut(out)' = OutUpto(input, taken') /\ OutUpto(input, taken') \in Int
           /\ taken' \in 0 .. Len(input)
<1>1. CallFacts(Converter!Reached) BY Called
<1>2. taken' = Converter!Reached /\ rounds' = rounds + 1 BY DEF Converter!Iconv
<1>3. out' = GoodUpto(input, taken') BY <1>1, <1>2 DEF CallFacts, Converter!Iconv
<1>4. Converter!BytesOut(out)' = OutUpto(input, taken') BY <1>3, ConverterOpsNext DEF OutUpto
<1>5. taken' \in 0 .. Len(input) BY <1>1, <1>2 DEF CallFacts
<1>6. OutUpto(input, taken') \in Int BY <1>5, InputType, UptoFacts
<1> QED BY <1>1, <1>2, <1>3, <1>4, <1>5, <1>6

ConverterCore ==
    /\ fn \in {"none", "cconvert", "z_convert", "charconv", "utf8_to_gb"}
    /\ result \in {"none", "text", "source", "error"}
    /\ discard \in BOOLEAN /\ rounds \in Nat
    /\ fn = "none" =>
          /\ taken = 0 /\ out = <<>> /\ discard = FALSE /\ rounds = 0 /\ result = "none"
    /\ fn # "none" =>
          /\ input \in Inputs /\ size \in Nat /\ taken \in 0 .. Len(input)
          /\ out = GoodUpto(input, taken) /\ OutUpto(input, taken) <= size
    /\ fn # "none" /\ result = "none" =>
          \A i \in 1 .. taken : input[i].kind = "good" \/ (input[i].kind = "bad" /\ discard)
    /\ fn \in {"z_convert", "charconv"} => size = 4 * Converter!BytesIn(input)
    /\ fn = "z_convert" => input # <<>>
    /\ fn = "utf8_to_gb" => owned = FALSE
    /\ discard => fn = "z_convert"
    /\ fn = "cconvert" /\ result = "none" =>
          rounds = 0 \/ (rounds = 1 /\ LoopOf(input, taken) <= size)

LEMMA CoreAtEnd ==
    ASSUME ConverterInv, fn # "none", result = "none", Converter!Iconv,
           UNCHANGED <<fn, input, size, discard>>, result' \in {"text", "source", "error"},
           fn = "utf8_to_gb" => owned' = FALSE
    PROVE  ConverterCore'
<1>1. /\ rounds' = rounds + 1 /\ out' = GoodUpto(input, taken') /\ taken' \in 0 .. Len(input)
      /\ OutUpto(input, taken') <= size
  BY AfterIconv DEF CallFacts
<1> QED BY <1>1 DEF ConverterInv, ConverterCore

LEMMA TailFacts ==
    ASSUME NEW s \in Seq(Converter!CharType), NEW a \in 0 .. Len(s)
    PROVE  Converter!BytesIn(SubSeq(s, a + 1, Len(s))) \in Nat
<1>1. Len(s) \in Nat /\ \A i \in 1 .. Len(s) : s[i] \in Converter!CharType BY LenProperties, ElementOfSeq
<1> DEFINE n == Len(s)
<1>2. a + 1 \in Int /\ n \in Int /\ \A i \in a + 1 .. n : i \in 1 .. n
  <2>1. n \in Nat /\ a \in 0 .. n BY <1>1
  <2> HIDE DEF n
  <2> QED BY <2>1
<1>3. \A i \in a + 1 .. n : s[i] \in Converter!CharType BY <1>1, <1>2
<1>4. CASE a + 1 <= n
  <2>1. SubSeq(s, a + 1, n) \in Seq(Converter!CharType) BY <1>2, <1>3, <1>4, SubSeqProperties
  <2> QED BY <2>1, BytesInFacts
<1>5. CASE ~(a + 1 <= n)
  <2>1. SubSeq(s, a + 1, n) = <<>> /\ <<>> \in Seq(Converter!CharType) BY <1>2, <1>5, SubSeqEmpty, EmptySeq
  <2> QED BY <2>1, BytesInFacts
<1> QED BY <1>4, <1>5

(* Where there is room for four times the text nothing is left out for want *)
(* of it.                                                                   *)
LEMMA FourTimes ==
    ASSUME ConverterInv, fn \in {"z_convert", "charconv"}, input # <<>>, NEW k \in 0 .. Len(input)
    PROVE  OutUpto(input, k) < size
<1> DEFINE n == Len(input)
           q == OutUpto(input, k)
           v == InUpto(input, k)
           w == InUpto(input, n)
<1>1. input \in Seq(Converter!CharType) /\ IsText(input) /\ n \in Nat BY InputType
<1>2. input # <<>> /\ size = 4 * Converter!BytesIn(input) /\ w = Converter!BytesIn(input)
  BY <1>1, UptoFacts DEF ConverterInv
<1>3. w \in Nat /\ w > 0 BY <1>1, <1>2, BytesInFacts
<1>4. n \in 0 .. n /\ 0 \in 0 .. n /\ 0 <= k /\ k <= n BY <1>1
<1>5. q - OutUpto(input, 0) <= 2 * (v - InUpto(input, 0)) BY <1>1, <1>4, Doubles
<1>6. OutUpto(input, 0) = 0 /\ InUpto(input, 0) = 0 /\ q \in Int /\ v \in Nat BY <1>1, UptoFacts
<1>7. w - v \in Nat BY <1>1, LeftFacts, TailFacts
<1>8. q <= 2 * v /\ size = 4 * w
  <2> HIDE DEF q, v, w
  <2> QED BY <1>2, <1>5, <1>6
<1> HIDE DEF q, v, w
<1>9. q < size BY <1>3, <1>6, <1>7, <1>8
<1> QED BY <1>9 DEF q

LEMMA GrowsOnce ==
    ASSUME ConverterInv, Converter!CConvertGrows
    PROVE  ConverterInv'
<1> DEFINE n == Len(input)
           r == taken'
<1>1. fn = "cconvert" /\ result = "none" /\ Converter!Errno = "E2BIG" /\ Converter!Iconv
      /\ input' = input /\ fn' = fn /\ discard' = discard
  BY DEF Converter!CConvertGrows, Converter!Running, Converter!Return
<1>2. /\ CallFacts(r) /\ rounds' = rounds + 1 /\ out' = GoodUpto(input, r)
      /\ Converter!BytesOut(out)' = OutUpto(input, r) /\ OutUpto(input, r) \in Int /\ r \in 0 .. n
  BY <1>1, AfterIconv
<1>3. input \in Seq(Converter!CharType) /\ IsText(input) /\ n \in Nat /\ taken \in 0 .. n /\ size \in Nat
      /\ input \in Inputs
  BY <1>1, InputType DEF ConverterInv
<1>4. r < n /\ r \in taken .. n /\ OutUpto(input, r) <= size /\ OutUpto(input, r + 1) > size /\ ~discard
      /\ \A i \in 1 .. r : input[i].kind = "good" \/ (input[i].kind = "bad" /\ discard)
  <2>1. discard = FALSE BY <1>1 DEF ConverterInv
  <2> QED BY <1>1, <1>2, <2>1 DEF CallFacts
<1>5. rounds = 0
  <2> SUFFICES ASSUME LoopOf(input, taken) <= size PROVE FALSE
    BY <1>1 DEF ConverterInv
  <2> DEFINE p == OutUpto(input, taken)
             q == OutUpto(input, r + 1)
             x == InUpto(input, taken)
             y == InUpto(input, r + 1)
             z == InUpto(input, n)
  <2>1. r + 1 \in 0 .. n /\ taken <= r + 1 /\ n \in 0 .. n
    <3> HIDE DEF r, n
    <3> QED BY <1>3, <1>4
  <2>2. q - p <= 2 * (y - x) BY <1>3, <2>1, Doubles
  <2>3. p \in Int /\ q \in Int /\ x \in Nat /\ y \in Nat /\ z \in Nat BY <1>3, <2>1, UptoFacts
  <2>4. z - y \in Nat BY <1>3, <2>1, LeftFacts, TailFacts
  <2>5. p + 2 * (z - x) <= size BY DEF LoopOf
  <2>6. q > size BY <1>4
  <2> HIDE DEF p, q, x, y, z
  <2> QED BY <1>3, <2>2, <2>3, <2>4, <2>5, <2>6
<1>6. CASE size' = Converter!Grown /\ UNCHANGED <<fn, input, cd, owned, discard, result>>
  <2> DEFINE q == OutUpto(input, r)
             left == InUpto(input, n) - InUpto(input, r)
  <2>2. Converter!InLeft(taken)' = left /\ left \in Nat
    <3>1. Converter!BytesIn(SubSeq(input, r + 1, n)) = left BY <1>2, <1>3, LeftFacts
    <3>2. left \in Nat BY <1>2, <1>3, <3>1, TailFacts
    <3>3. Converter!InLeft(taken)' = Converter!BytesIn(SubSeq(input', taken' + 1, Len(input')))
      BY ConverterOpsNext
    <3> HIDE DEF left
    <3> QED BY <1>1, <3>1, <3>2, <3>3
  <2>3. size' = size + left * 2 + 8
    <3>1. Converter!InLeft(r) = left
      BY <1>2, <1>3, LeftFacts DEF Converter!InLeft
    <3> HIDE DEF left
    <3> QED BY <1>6, <3>1 DEF Converter!Grown
  <2>4. q <= size /\ q + 2 * left <= size' /\ size' \in Nat /\ q <= size'
    <3>1. q \in Int /\ q <= size BY <1>2, <1>4
    <3> HIDE DEF q, left
    <3> QED BY <1>3, <2>2, <2>3, <3>1
  <2>5. ConverterCore'
    <3>1. LoopOf(input, r) <= size' BY <2>4 DEF LoopOf
    <3>2. rounds' = 1 /\ result' = "none" /\ owned' = owned /\ fn' = "cconvert" BY <1>1, <1>2, <1>5, <1>6
    <3>3. \A i \in 1 .. r : input[i].kind = "good" \/ (input[i].kind = "bad" /\ discard') BY <1>1, <1>4
    <3>4. discard' = FALSE BY <1>1 DEF ConverterInv
    <3>5. /\ input' \in Inputs /\ size' \in Nat /\ taken' \in 0 .. Len(input')
          /\ out' = GoodUpto(input', taken') /\ OutUpto(input', taken') <= size'
      BY <1>1, <1>2, <1>3, <2>4
    <3>6. \A i \in 1 .. taken' : input'[i].kind = "good" \/ (input'[i].kind = "bad" /\ discard')
      BY <1>1, <3>3
    <3>7. LoopOf(input', taken') <= size' BY <1>1, <3>1
    <3> QED BY <3>2, <3>4, <3>5, <3>6, <3>7 DEF ConverterCore
  <2>6. Converter!ConvertedWhole'
    <3>1. rounds' <= 2 /\ Converter!BytesOut(out)' <= size' BY <1>2, <1>5, <2>4
    <3> QED BY <1>1, <1>6, <3>1 DEF Converter!ConvertedWhole
  <2> QED BY <2>5, <2>6 DEF ConverterCore, ConverterInv
<1>7. CASE Converter!Return("error", TRUE, TRUE)
  <2>1. result' = "error" /\ UNCHANGED <<fn, input, size, discard>> /\ cd' = FALSE /\ owned' = FALSE
    BY <1>7 DEF Converter!Return
  <2>2. ConverterCore' BY <1>1, <2>1, CoreAtEnd
  <2>3. Converter!ConvertedWhole'
    <3>1. rounds' <= 2 /\ Converter!BytesOut(out)' <= size' BY <1>2, <1>4, <1>5, <2>1
    <3> QED BY <1>1, <2>1, <3>1 DEF Converter!ConvertedWhole
  <2> QED BY <2>2, <2>3 DEF ConverterCore, ConverterInv
<1> QED BY <1>6, <1>7 DEF Converter!CConvertGrows

LEMMA CConvertWhole ==
    ASSUME ConverterInv, Converter!CConvertEnds
    PROVE  ConverterInv'
<1> DEFINE n == Len(input)
           r == taken'
<1>1. fn = "cconvert" /\ result = "none" /\ Converter!Errno # "E2BIG" /\ Converter!Iconv
      /\ UNCHANGED <<fn, input, size, discard>> /\ cd' = FALSE
      /\ \/ Converter!Errno \in {"none", "EINVAL"} /\ result' = "text"
         \/ result' = "error" /\ owned' = FALSE
  BY DEF Converter!CConvertEnds, Converter!Running, Converter!Return
<1>2. /\ CallFacts(r) /\ rounds' = rounds + 1 /\ out' = GoodUpto(input, r)
      /\ Converter!BytesOut(out)' = OutUpto(input, r) /\ r \in 0 .. n
  BY <1>1, AfterIconv
<1>3. input \in Seq(Converter!CharType) BY <1>1, InputType
<1>4. discard = FALSE BY <1>1 DEF ConverterInv
<1>5. ConverterCore' BY <1>1, CoreAtEnd
<1>6. result' = "text" => out' = Converter!GoodNumbers({"bad", "cut"})'
  <2> SUFFICES ASSUME Converter!Errno \in {"none", "EINVAL"}
               PROVE  GoodUpto(input, r) = GoodStop(input, {"bad", "cut"})
    BY <1>1, <1>2, ConverterOpsNext
  <2>1. \A i \in 1 .. r : input[i].kind \notin {"bad", "cut"} BY <1>2, <1>4 DEF CallFacts
  <2>2. r = n \/ input[r + 1].kind \in {"bad", "cut"} BY <1>2 DEF CallFacts
  <2> QED BY <1>2, <1>3, <2>1, <2>2, GoodStopIs
<1>7. rounds' <= 2 /\ Converter!BytesOut(out)' <= size'
  <2>1. rounds \in {0, 1} BY <1>1 DEF ConverterInv
  <2>2. OutUpto(input, r) <= size BY <1>2 DEF CallFacts
  <2> QED BY <1>1, <1>2, <2>1, <2>2
<1>8. Converter!ConvertedWhole' BY <1>1, <1>6, <1>7 DEF Converter!ConvertedWhole
<1> QED BY <1>5, <1>8 DEF ConverterCore, ConverterInv

LEMMA ZConvertWhole ==
    ASSUME ConverterInv, Converter!ZConvertSkips \/ Converter!ZConvertEnds
    PROVE  ConverterInv'
<1> DEFINE n == Len(input)
           r == taken'
<1>1. fn = "z_convert" /\ result = "none" /\ Converter!Iconv /\ UNCHANGED <<fn, input, size>>
  BY DEF Converter!ZConvertSkips, Converter!ZConvertEnds, Converter!Running, Converter!Return
<1>2. /\ CallFacts(r) /\ rounds' = rounds + 1 /\ out' = GoodUpto(input, r)
      /\ Converter!BytesOut(out)' = OutUpto(input, r) /\ r \in 0 .. n
  BY <1>1, AfterIconv
<1>3. input \in Seq(Converter!CharType) /\ IsText(input) /\ n \in Nat BY <1>1, InputType
<1>z. input # <<>> BY <1>1 DEF ConverterInv
<1>4. Converter!BytesOut(out)' < size'
  BY <1>1, <1>2, <1>z, FourTimes
<1>5. CASE Converter!ZConvertSkips
  <2>1. discard' = TRUE /\ UNCHANGED <<cd, owned, result>> BY <1>5 DEF Converter!ZConvertSkips
  <2>2. OutUpto(input, r) <= size BY <1>2 DEF CallFacts
  <2>3. \A i \in 1 .. r : input[i].kind = "good" \/ input[i].kind = "bad" BY <1>2 DEF CallFacts
  <2>4. ConverterCore' BY <1>1, <1>2, <2>1, <2>2, <2>3 DEF ConverterCore, ConverterInv
  <2>5. Converter!ConvertedWhole' BY <1>1, <1>4, <2>1 DEF Converter!ConvertedWhole
  <2> QED BY <2>4, <2>5 DEF ConverterCore, ConverterInv
<1>6. CASE Converter!ZConvertEnds
  <2>1. /\ discard' = discard /\ cd' = FALSE /\ owned' = FALSE /\ Converter!Errno # "EILSEQ"
        /\ result' = IF Converter!Errno # "E2BIG" /\ Converter!BytesOut(out)' > 0 THEN "text" ELSE "source"
    BY <1>6 DEF Converter!ZConvertEnds, Converter!Return, Converter!Status, Converter!BytesOut
  <2>2. Converter!Errno # "E2BIG"
    <3> SUFFICES ASSUME r < n, OutUpto(input, r + 1) > size PROVE FALSE
      BY <1>2 DEF CallFacts
    <3>1. r + 1 \in 0 .. n
      <4>1. r < n /\ r \in 0 .. n /\ n \in Nat BY <1>2, <1>3
      <4> HIDE DEF r, n
      <4> QED BY <4>1
    <3>2. OutUpto(input, r + 1) < size /\ OutUpto(input, r + 1) \in Int 
      BY <1>1, <1>3, <1>z, <3>1, FourTimes, UptoFacts
    <3>3. size \in Nat BY <1>1 DEF ConverterInv
    <3> QED BY <3>2, <3>3
  <2>3. GoodUpto(input, r) = GoodStop(input, {"cut"})
    <3>1. \A i \in 1 .. r : input[i].kind \notin {"cut"} BY <1>2 DEF CallFacts
    <3>2. r = n \/ input[r + 1].kind \in {"cut"} BY <1>2, <2>1, <2>2 DEF CallFacts
    <3> QED BY <1>2, <1>3, <3>1, <3>2, GoodStopIs
  <2>4. result' = "text" => out' = Converter!GoodNumbers({"cut"})' BY <1>1, <1>2, <2>3, ConverterOpsNext
  <2>5. result' = "source" => Converter!GoodNumbers({"cut"})' = <<>>
    <3> SUFFICES ASSUME result' = "source" PROVE GoodUpto(input, r) = <<>>
      BY <1>1, <2>3, ConverterOpsNext
    <3>1. ~(OutUpto(input, r) > 0) BY <1>2, <2>1, <2>2
    <3> QED BY <1>2, <1>3, <3>1, NothingGood
  <2>6. result' \in {"text", "source"} BY <2>1
  <2>7. ConverterCore' BY <1>1, <2>1, <2>6, CoreAtEnd
  <2>8. Converter!ConvertedWhole' BY <1>1, <1>4, <2>1, <2>4, <2>5, <2>6 DEF Converter!ConvertedWhole
  <2> QED BY <2>7, <2>8 DEF ConverterCore, ConverterInv
<1> QED BY <1>5, <1>6

LEMMA OneCallWhole ==
    ASSUME ConverterInv, Converter!CharConvEnds \/ Converter!Utf8ToGbEnds
    PROVE  ConverterInv'
<1> DEFINE n == Len(input)
           r == taken'
<1>1. fn \in {"charconv", "utf8_to_gb"} /\ result = "none" /\ Converter!Iconv
      /\ UNCHANGED <<fn, input, size, discard>>
  BY DEF Converter!CharConvEnds, Converter!Utf8ToGbEnds, Converter!Running, Converter!Return
<1>2. /\ CallFacts(r) /\ rounds' = rounds + 1 /\ out' = GoodUpto(input, r)
      /\ Converter!BytesOut(out)' = OutUpto(input, r) /\ r \in 0 .. n
  BY <1>1, AfterIconv
<1>3. input \in Seq(Converter!CharType) /\ IsText(input) /\ n \in Nat BY <1>1, InputType
<1>4. CASE Converter!CharConvEnds
  <2>1. fn = "charconv" /\ result' = "text" /\ cd' = FALSE
    BY <1>4 DEF Converter!CharConvEnds, Converter!Running, Converter!Return
  <2>2. Converter!BytesOut(out)' < size' \/ input' = <<>>
    BY <1>1, <1>2, <2>1, FourTimes
  <2>3. ConverterCore' BY <1>1, <2>1, CoreAtEnd
  <2>4. Converter!ConvertedWhole' BY <1>1, <2>1, <2>2 DEF Converter!ConvertedWhole
  <2> QED BY <2>3, <2>4 DEF ConverterCore, ConverterInv
<1>5. CASE Converter!Utf8ToGbEnds
  <2>1. fn = "utf8_to_gb" /\ owned' = (owned /\ TRUE)
        /\ \/ Converter!Errno = "none" /\ result' = "text"
           \/ result' = "error"
    BY <1>5 DEF Converter!Utf8ToGbEnds, Converter!Running, Converter!Return
  <2>2. owned = FALSE /\ owned' = FALSE /\ discard = FALSE BY <2>1 DEF ConverterInv
  <2>3. result' \in {"text", "error"} BY <2>1
  <2>4. ConverterCore' BY <1>1, <2>1, <2>2, <2>3, CoreAtEnd
  <2>5. result' = "text" => out' = Converter!GoodNumbers({})' /\ Len(out') = Len(input')
    <3> SUFFICES ASSUME Converter!Errno = "none"
                 PROVE  GoodUpto(input, r) = GoodStop(input, {}) /\ Len(GoodUpto(input, r)) = Len(input)
      BY <1>1, <1>2, <2>1, ConverterOpsNext
    <3>1. r = n
      <4> HIDE DEF r, n
      <4> QED BY <1>2 DEF CallFacts, n
    <3>3. \A i \in 1 .. r : input[i].kind = "good"
      <4> HIDE DEF r, n
      <4> QED BY <1>2, <2>2 DEF CallFacts
    <3>2. GoodUpto(input, r) = GoodStop(input, {}) BY <1>2, <1>3, <3>1, <3>3, GoodStopIs
    <3> QED BY <1>3, <3>1, <3>2, <3>3, AllGood
  <2>6. Converter!ConvertedWhole' BY <1>1, <2>1, <2>2, <2>3, <2>5 DEF Converter!ConvertedWhole
  <2> QED BY <2>4, <2>6 DEF ConverterCore, ConverterInv
<1> QED BY <1>4, <1>5

LEMMA ConversionBegins ==
    ASSUME ConverterInv, NEW s \in Inputs,
           Converter!CConvert(s) \/ Converter!ZConvert(s) \/ Converter!CharConv(s) \/ Converter!Utf8ToGb(s)
    PROVE  ConverterInv'
<1>1. s \in Seq(Converter!CharType) BY InputFacts DEF IsText
<1>2. /\ fn = "none" /\ input' = s /\ UNCHANGED <<taken, out, discard, rounds, result>>
      /\ fn' \in {"cconvert", "z_convert", "charconv", "utf8_to_gb"}
      /\ fn' = "cconvert" => size' = Converter!BytesIn(s)
      /\ fn' \in {"z_convert", "charconv"} => size' = 4 * Converter!BytesIn(s)
      /\ fn' = "z_convert" => s # <<>>
      /\ fn' = "utf8_to_gb" => size' \in Room /\ owned' = FALSE
  BY DEF Converter!CConvert, Converter!ZConvert, Converter!CharConv, Converter!Utf8ToGb, Converter!Begin
<1>3. taken = 0 /\ out = <<>> /\ discard = FALSE /\ rounds = 0 /\ result = "none" BY <1>2 DEF ConverterInv
<1>4. Converter!BytesIn(s) \in Nat /\ (s # <<>> => Converter!BytesIn(s) > 0) BY <1>1, BytesInFacts
<1>5. size' \in Nat /\ (fn' \in {"z_convert", "charconv"} /\ s # <<>> => size' > 0)
  <2>1. Room \subseteq Nat BY HelpersAssumption DEF Converter!ConversionAssumption
  <2>2. CASE fn' = "cconvert" BY <1>2, <1>4, <2>2
  <2>3. CASE fn' \in {"z_convert", "charconv"}
    <3> DEFINE b == Converter!BytesIn(s)
    <3>1. b \in Nat /\ (s # <<>> => b > 0) /\ size' = 4 * b BY <1>2, <1>4, <2>3
    <3> HIDE DEF b
    <3> QED BY <3>1
  <2>4. CASE fn' = "utf8_to_gb" BY <1>2, <2>1, <2>4
  <2> QED BY <1>2, <2>2, <2>3, <2>4
<1>6. GoodUpto(s, 0) = <<>> /\ OutUpto(s, 0) = 0 /\ Len(s) \in Nat BY <1>1, UptoFacts, LenProperties
<1>7. 0 \in 0 .. Len(s) BY <1>6
<1>8. Converter!BytesOut(out)' = 0
  <2>1. Converter!BytesOut(out)' = OutOf(input', out') BY ConverterOpsNext
  <2>2. input' = s /\ out' = <<>> BY <1>2, <1>3
  <2>3. OutOf(s, <<>>) = 0 BY <1>6 DEF OutUpto
  <2> QED BY <2>1, <2>2, <2>3
<1>9. ConverterCore'
  <2>1. taken' = 0 /\ out' = <<>> /\ discard' = FALSE /\ rounds' = 0 /\ result' = "none" BY <1>2, <1>3
  <2>2. /\ input' \in Inputs /\ size' \in Nat /\ taken' \in 0 .. Len(input')
        /\ out' = GoodUpto(input', taken') /\ OutUpto(input', taken') <= size'
    BY <1>2, <1>5, <1>6, <1>7, <2>1
  <2>3. \A i \in 1 .. taken' : input'[i].kind = "good" \/ (input'[i].kind = "bad" /\ discard')
    BY <2>1
  <2>4. /\ fn' \in {"z_convert", "charconv"} => size' = 4 * Converter!BytesIn(input')
        /\ fn' = "z_convert" => input' # <<>>
    BY <1>2
  <2>5. /\ fn' \in {"none", "cconvert", "z_convert", "charconv", "utf8_to_gb"} /\ fn' # "none"
        /\ rounds' \in Nat /\ result' \in {"none", "text", "source", "error"}
        /\ fn' = "utf8_to_gb" => owned' = FALSE
    BY <1>2, <2>1
  <2> QED BY <2>1, <2>2, <2>3, <2>4, <2>5 DEF ConverterCore
<1>10. Converter!ConvertedWhole' BY <1>2, <1>3, <1>5, <1>8 DEF Converter!ConvertedWhole
<1> QED BY <1>9, <1>10 DEF ConverterCore, ConverterInv

LEMMA NextConverter == ConverterInv /\ [Converter!Next]_(Converter!vars) => ConverterInv'
<1> SUFFICES ASSUME ConverterInv, [Converter!Next]_(Converter!vars) PROVE ConverterInv'
  OBVIOUS
<1>1. CASE UNCHANGED Converter!vars
  BY <1>1 DEF Converter!vars, ConverterInv, Converter!ConvertedWhole, Converter!BytesOut,
     Converter!GoodNumbers, Converter!Good
<1> QED BY <1>1, GrowsOnce, CConvertWhole, ZConvertWhole, OneCallWhole, ConversionBegins
        DEF Converter!Next

LEMMA OnlyConverter ==
    ASSUME [Next]_vars
    PROVE  /\ part' = part
           /\ part = "conversion" => [Converter!Next]_(Converter!vars)
BY DEF Next, GrowText, TextParts, RunSegmenter, RunMessages, RunConverter, RunZipper, RunReplier,
     vars, conversionVars, callVars, Converter!vars

(* Texts of any length, with good, bad and cut characters anywhere, into    *)
(* buffers of any size: a conversion that returns a text returns all of it, *)
(* in order and within what was allocated, and leaves no descriptor open.   *)
(* charconv of an empty text is the exception: it writes a NUL behind an    *)
(* allocation of nothing.                                                   *)
THEOREM ConversionsWhole == Spec => []ConvertedWhole
<1> DEFINE Inv == part = "conversion" => ConverterInv
<1>1. Init => Inv
  <2> SUFFICES ASSUME Init PROVE ConverterInv OBVIOUS
  <2>1. fn = "none" /\ taken = 0 /\ out = <<>> /\ discard = FALSE /\ rounds = 0 /\ result = "none"
    BY DEF Init, Converter!Init
  <2> QED BY <2>1 DEF ConverterInv, Converter!ConvertedWhole
<1>2. Inv /\ [Next]_vars => Inv'
  BY OnlyConverter, NextConverter
<1>3. Inv => ConvertedWhole
  BY DEF ConverterInv, ConvertedWhole
<1> HIDE DEF Inv
<1> QED BY <1>1, <1>2, <1>3, PTL DEF Spec

-----------------------------------------------------------------------------
(***************************************************************************)
(* Texts: TextCodes, byte by byte.                                          *)
(***************************************************************************)

LEMMA Utf8Length ==
    ASSUME NEW t \in Seq(Bytes), t # <<>>
    PROVE  /\ IsUtf8(t) \in 0 .. 7 /\ IsUtf8(t) <= Len(t)
           /\ t[1] < 192 => IsUtf8(t) = 0
           /\ t[1] \in 192 .. 223 /\ 2 <= Len(t) => IsUtf8(t) = 2
           /\ t[1] \in 224 .. 239 /\ 3 <= Len(t) => IsUtf8(t) = 3
           /\ t[1] \in 240 .. 247 /\ 4 <= Len(t) => IsUtf8(t) = 4
<1> DEFINE U == {0} \cup {n \in 2 .. 7 : t[1] >= LeadMask(n) /\ n <= Len(t)}
           m == IsUtf8(t)
<1>1. Len(t) \in Nat /\ Len(t) >= 1 /\ t[1] \in 0 .. 255
  <2>1. Len(t) \in Nat \ {0} BY EmptySeq
  <2>2. 1 \in 1 .. Len(t) BY <2>1
  <2>3. t[1] \in Bytes BY <2>2, ElementOfSeq
  <2> QED BY <2>1, <2>3 DEF Bytes
<1>2. /\ LeadMask(2) = 192 /\ LeadMask(3) = 224 /\ LeadMask(4) = 240
      /\ LeadMask(5) = 248 /\ LeadMask(6) = 252 /\ LeadMask(7) = 254
  BY DEF LeadMask
<1>3. U \in SUBSET (0 .. 7) /\ U # {} OBVIOUS
<1>4. m = Max(U) BY DEF IsUtf8
<1> DEFINE c == t[1]
           l == Len(t)
<1>5. /\ \A n \in U : n = 0 \/ n \in 2 .. 7
      /\ 2 \in U <=> c >= 192 /\ 2 <= l
      /\ 3 \in U <=> c >= 224 /\ 3 <= l
      /\ 4 \in U <=> c >= 240 /\ 4 <= l
      /\ 5 \in U <=> c >= 248 /\ 5 <= l
      /\ 6 \in U <=> c >= 252 /\ 6 <= l
      /\ 7 \in U <=> c >= 254 /\ 7 <= l
  <2>1. /\ 2 \in U <=> c >= LeadMask(2) /\ 2 <= l
        /\ 3 \in U <=> c >= LeadMask(3) /\ 3 <= l
        /\ 4 \in U <=> c >= LeadMask(4) /\ 4 <= l
        /\ 5 \in U <=> c >= LeadMask(5) /\ 5 <= l
        /\ 6 \in U <=> c >= LeadMask(6) /\ 6 <= l
        /\ 7 \in U <=> c >= LeadMask(7) /\ 7 <= l
    OBVIOUS
  <2>2. \A n \in U : n = 0 \/ n \in 2 .. 7 OBVIOUS
  <2> HIDE DEF U, c, l
  <2> QED BY <1>2, <2>1, <2>2
<1> HIDE DEF U, m
<1>6. m \in U /\ \A j \in U : j <= m BY <1>3, <1>4, MaxFacts
<1>a. c \in 0 .. 255 /\ l \in Nat /\ l >= 1 BY <1>1
<1> HIDE DEF c, l
<1>7. m \in 0 .. 7 /\ m <= l BY <1>a, <1>5, <1>6
<1>8. c < 192 => m = 0 BY <1>a, <1>5, <1>6
<1>9. c \in 192 .. 223 /\ 2 <= l => m = 2
  <2> SUFFICES ASSUME c \in 192 .. 223, 2 <= l PROVE m = 2 OBVIOUS
  <2>1. 2 <= m BY <1>5, <1>6
  <2> QED BY <1>a, <1>5, <1>6, <2>1
<1>10. c \in 224 .. 239 /\ 3 <= l => m = 3
  <2> SUFFICES ASSUME c \in 224 .. 239, 3 <= l PROVE m = 3 OBVIOUS
  <2>1. 3 <= m BY <1>5, <1>6
  <2> QED BY <1>a, <1>5, <1>6, <2>1
<1>11. c \in 240 .. 247 /\ 4 <= l => m = 4
  <2> SUFFICES ASSUME c \in 240 .. 247, 4 <= l PROVE m = 4 OBVIOUS
  <2>1. 4 <= m BY <1>5, <1>6
  <2> QED BY <1>a, <1>5, <1>6, <2>1
<1> QED BY <1>7, <1>8, <1>9, <1>10, <1>11 DEF m, c, l

LEMMA CharLengthIs ==
    ASSUME NEW c \in 0 .. 255
    PROVE  /\ c < 128 => CharLength(c) = 1
           /\ c \in 194 .. 223 => CharLength(c) = 2
           /\ c \in 224 .. 239 => CharLength(c) = 3
           /\ c \in 240 .. 244 => CharLength(c) = 4
           /\ c \in 128 .. 193 \cup 245 .. 255 => CharLength(c) = 0
BY DEF CharLength

PieceAt(s, i) == Piece(SubSeq(s, i, Len(s)))

LEMMA PieceFacts ==
    ASSUME NEW s \in Seq(Bytes), NEW i \in 1 .. Len(s)
    PROVE  /\ PieceAt(s, i).length \in 1 .. Len(s) - i + 1 /\ PieceAt(s, i).gbk \in BOOLEAN
           /\ PieceAt(s, i).gbk => PieceAt(s, i).length = 2
           /\ CharLength(s[i]) > 0 /\ i + CharLength(s[i]) <= Len(s) + 1
                => PieceAt(s, i).length = CharLength(s[i]) /\ ~PieceAt(s, i).gbk
<1> DEFINE n == Len(s)
           t == SubSeq(s, i, n)
           m == IsUtf8(t)
           l == n - i + 1
           c == s[i]
           p == PieceAt(s, i)
           e == CharLength(c)
<1>1. t \in Seq(Bytes) /\ Len(t) = l /\ t # <<>> /\ n \in Nat /\ i \in 1 .. n
      /\ \A j \in 1 .. l : t[j] = s[i + j - 1]
  BY Rest
<1>2. l \in Nat /\ l >= 1 /\ i + 1 - 1 = i
  <2> HIDE DEF n
  <2> QED BY <1>1
<1>3. t[1] = c /\ c \in 0 .. 255
  <2>1. 1 \in 1 .. l BY <1>2
  <2>2. t[1] = s[i + 1 - 1] BY <1>1, <2>1
  <2>3. c \in Bytes BY ElementOfSeq
  <2> QED BY <1>2, <2>2, <2>3 DEF Bytes
<1>a. /\ c < 128 => e = 1
      /\ c \in 194 .. 223 => e = 2
      /\ c \in 224 .. 239 => e = 3
      /\ c \in 240 .. 244 => e = 4
      /\ c \in 128 .. 193 \cup 245 .. 255 => e = 0
  BY <1>3, CharLengthIs
<1>b. /\ m \in 0 .. 7 /\ m <= Len(t)
      /\ t[1] < 192 => m = 0
      /\ t[1] \in 192 .. 223 /\ 2 <= Len(t) => m = 2
      /\ t[1] \in 224 .. 239 /\ 3 <= Len(t) => m = 3
      /\ t[1] \in 240 .. 247 /\ 4 <= Len(t) => m = 4
  <2> HIDE DEF t
  <2> QED BY <1>1, Utf8Length
<1>5. p = IF m > 0 THEN [length |-> m, gbk |-> FALSE]
          ELSE IF IsGbk(t) THEN [length |-> 2, gbk |-> TRUE]
          ELSE [length |-> 1, gbk |-> FALSE]
  BY DEF PieceAt, Piece
<1>c. t[1] = c /\ Len(t) = l BY <1>1, <1>3
<1> DEFINE g == IsGbk(t)
<1>6. g => l > 2 /\ c \in 129 .. 254
  <2> HIDE DEF t, c, l
  <2> QED BY <1>c DEF IsGbk
<1> HIDE DEF t, c, l, e, m, p, g
<1>4. /\ m \in 0 .. 7 /\ m <= l
      /\ c < 192 => m = 0
      /\ c \in 192 .. 223 /\ 2 <= l => m = 2
      /\ c \in 224 .. 239 /\ 3 <= l => m = 3
      /\ c \in 240 .. 247 /\ 4 <= l => m = 4
  BY <1>b, <1>c
<1>7. p.length \in 1 .. l /\ p.gbk \in BOOLEAN /\ (p.gbk => p.length = 2)
  <2>1. CASE m > 0 BY <1>2, <1>4, <1>5, <2>1
  <2>2. CASE ~(m > 0) /\ g BY <1>2, <1>5, <1>6, <2>2 DEF g
  <2>3. CASE ~(m > 0) /\ ~g BY <1>2, <1>5, <2>3 DEF g
  <2> QED BY <2>1, <2>2, <2>3
<1>8. ASSUME e > 0, e <= l PROVE p.length = e /\ p.gbk = FALSE
  <2>2. CASE c < 128
    <3>1. m = 0 /\ e = 1 /\ ~g BY <1>3, <1>4, <1>6, <1>a, <2>2
    <3> QED BY <1>5, <3>1 DEF g
  <2>3. CASE ~(c < 128)
    <3>1. m = e /\ m > 0 BY <1>2, <1>3, <1>4, <1>8, <1>a, <2>3
    <3> QED BY <1>5, <3>1
  <2> QED BY <2>2, <2>3
<1>9. e > 0 /\ i + e <= n + 1 => e <= l
  <2>1. e \in Int BY <1>3, <1>a
  <2> HIDE DEF n
  <2> QED BY <1>1, <2>1 DEF l
<1> QED BY <1>7, <1>8, <1>9 DEF l, p, e, c

Turned(s, i) ==
    LET c == SubSeq(s, i, i + PieceAt(s, i).length - 1)
    IN  IF PieceAt(s, i).gbk THEN Transcoded(c) ELSE c

(* convert, position by position.                                           *)
Converts(f, s) ==
    /\ f[Len(s) + 1] = <<>>
    /\ \A i \in 1 .. Len(s) : f[i] = Turned(s, i) \o f[i + PieceAt(s, i).length]

LEMMA TurnedType ==
    ASSUME NEW s \in Seq(Bytes), NEW i \in 1 .. Len(s)
    PROVE  Turned(s, i) \in Seq(Nat)
<1> DEFINE n == Len(s)
           l == PieceAt(s, i).length
           c == SubSeq(s, i, i + l - 1)
<1>1. n \in Nat /\ \A j \in 1 .. n : s[j] \in Bytes BY LenProperties, ElementOfSeq
<1>2. l \in 1 .. n - i + 1 /\ (PieceAt(s, i).gbk => l = 2) BY PieceFacts
<1>3. i \in 1 .. n + 1 /\ i + l - 1 \in i - 1 .. n /\ i + l - 1 - i + 1 = l
  <2> HIDE DEF n, l
  <2> QED BY <1>1, <1>2
<1>4. c \in Seq(Bytes) /\ Len(c) = l
  <2> DEFINE e == i + l - 1
  <2>0. e \in i - 1 .. n /\ i \in 1 .. n + 1 /\ e - i + 1 = l
    <3> HIDE DEF n, l
    <3> QED BY <1>1, <1>2, <1>3
  <2> HIDE DEF e
  <2>1. SubSeq(s, i, e) \in Seq(Bytes) /\ Len(SubSeq(s, i, e)) = e - i + 1 BY <2>0, Slice
  <2> QED BY <2>0, <2>1 DEF e
<1>5. Bytes \subseteq Nat BY DEF Bytes
<1>6. CASE PieceAt(s, i).gbk
  <2>1. 1 \in 1 .. Len(c) /\ 2 \in 1 .. Len(c) BY <1>2, <1>4, <1>6
  <2>2. c[1] \in Nat /\ c[2] \in Nat BY <1>4, <1>5, <2>1, ElementOfSeq
  <2> HIDE DEF c
  <2>3. 256 * c[1] + c[2] \in Nat BY <2>2
  <2> DEFINE v == 256 * c[1] + c[2]
  <2>4. <<v>> \in Seq(Nat)
    <3> HIDE DEF v
    <3> QED BY <2>3 DEF v
  <2> QED BY <1>6, <2>4 DEF Turned, Transcoded, c
<1>7. CASE ~PieceAt(s, i).gbk
  <2>1. c \in Seq(Nat) BY <1>4, <1>5, SeqMonotonic
  <2> QED BY <1>7, <2>1 DEF Turned
<1> QED BY <1>6, <1>7

LEMMA ConvertIs ==
    ASSUME NEW s \in Seq(Bytes)
    PROVE  \E f \in [1 .. Len(s) + 1 -> Seq(Nat)] : Converts(f, s) /\ Convert(s) = f[1]
<1> DEFINE n == Len(s)
           V == Seq(Nat)
           B(f, i) == IF i > n THEN <<>> ELSE Turned(s, i) \o f[i + PieceAt(s, i).length]
           F(f) == [i \in 1 .. n + 1 |-> B(f, i)]
           u == CHOOSE f : f = F(f)
           h == [i \in 1 .. n + 1 |-> [f \in [1 .. n + 1 -> V] |-> B(f, i)]]
<1>1. n \in Nat /\ n + 1 \in Nat BY LenProperties
<1>2. \A i \in 1 .. n + 1 : i > n \/ (i \in 1 .. n /\ i + PieceAt(s, i).length \in i + 1 .. n + 1
                                      /\ i + PieceAt(s, i).length \in 1 .. n + 1)
  <2> TAKE i \in 1 .. n + 1
  <2> SUFFICES ASSUME ~(i > n) PROVE /\ i \in 1 .. n /\ i + PieceAt(s, i).length \in i + 1 .. n + 1
                                     /\ i + PieceAt(s, i).length \in 1 .. n + 1
    OBVIOUS
  <2>1. i \in 1 .. n
    <3> HIDE DEF n
    <3> QED BY <1>1
  <2> DEFINE l == PieceAt(s, i).length
  <2>2. l \in 1 .. n - i + 1 BY <2>1, PieceFacts
  <2> HIDE DEF l, n
  <2>3. i + l \in i + 1 .. n + 1 /\ i + l \in 1 .. n + 1 BY <1>1, <2>1, <2>2
  <2> QED BY <2>1, <2>3 DEF l
<1>3. \A i \in 1 .. n : Turned(s, i) \in V BY TurnedType
<1>4. <<>> \in V BY EmptySeq
<1> HIDE DEF n
<1>5. \A i \in 1 .. n + 1 : \A f \in [1 .. n + 1 -> V] : B(f, i) \in V
  <2> TAKE i \in 1 .. n + 1
  <2> TAKE f \in [1 .. n + 1 -> V]
  <2>1. CASE i > n BY <1>4, <2>1
  <2>2. CASE ~(i > n)
    <3>1. i \in 1 .. n /\ i + PieceAt(s, i).length \in 1 .. n + 1 BY <1>2, <2>2
    <3>2. Turned(s, i) \in Seq(Nat) /\ f[i + PieceAt(s, i).length] \in Seq(Nat) BY <1>3, <3>1
    <3>3. Turned(s, i) \o f[i + PieceAt(s, i).length] \in Seq(Nat) BY <3>2, ConcatProperties
    <3> QED BY <2>2, <3>3
  <2> QED BY <2>1, <2>2
<1>6. \A i \in 1 .. n + 1 : \A f, g : (\A j \in i + 1 .. n + 1 : f[j] = g[j]) => B(f, i) = B(g, i)
  BY <1>2
<1>7. h \in [1 .. n + 1 -> [[1 .. n + 1 -> V] -> V]] BY <1>5
<1>8. \A i \in 1 .. n + 1 : \A f \in [1 .. n + 1 -> V] : h[i][f] = B(f, i) OBVIOUS
<1> HIDE DEF h, V, B
<1>9. PICK f \in [1 .. n + 1 -> V] : LooksAhead(f, n + 1, h)
  <2>1. V # {} BY <1>4
  <2>2. \A i \in 1 .. n + 1 : \A a, b \in [1 .. n + 1 -> V] :
           (\A j \in i + 1 .. n + 1 : a[j] = b[j]) => h[i][a] = h[i][b]
    <3> TAKE i \in 1 .. n + 1
    <3> TAKE a, b \in [1 .. n + 1 -> V]
    <3> HAVE \A j \in i + 1 .. n + 1 : a[j] = b[j]
    <3>1. B(a, i) = B(b, i) BY <1>6
    <3> QED BY <1>8, <3>1
  <2> QED BY <1>1, <1>7, <2>1, <2>2, LookAhead
<1>10. \A i \in 1 .. n + 1 : f[i] = B(f, i) BY <1>8, <1>9 DEF LooksAhead
<1>11. f = F(f) BY <1>9, <1>10
<1>12. u = F(u) BY <1>11
<1> HIDE DEF u
<1>13. \A i \in 1 .. n + 1 : u[i] = B(u, i) BY <1>12
<1> DEFINE T == {i \in 1 .. n + 1 : u[i] = f[i]}
<1>14. \A i \in 1 .. n + 1 : (\A j \in i + 1 .. n + 1 : j \in T) => i \in T
  <2> TAKE i \in 1 .. n + 1
  <2> HAVE \A j \in i + 1 .. n + 1 : j \in T
  <2>1. B(u, i) = B(f, i) BY <1>6
  <2> QED BY <1>10, <1>13, <2>1
<1>15. \A i \in 1 .. n + 1 : i \in T
  <2> HIDE DEF T
  <2> QED BY <1>1, <1>14, Descend
<1>16. u[1] = f[1]
  <2>1. 1 \in 1 .. n + 1 BY <1>1
  <2> QED BY <1>15, <2>1
<1>17. Convert(s) = u[1] BY DEF Convert, u, B, Turned, PieceAt, n
<1>18. Converts(f, s)
  <2>1. n + 1 \in 1 .. n + 1 /\ n + 1 > n /\ \A i \in 1 .. n : i \in 1 .. n + 1 /\ ~(i > n) BY <1>1
  <2>2. f[n + 1] = <<>> BY <1>10, <2>1 DEF B
  <2>3. \A i \in 1 .. n : f[i] = Turned(s, i) \o f[i + PieceAt(s, i).length] BY <1>10, <2>1 DEF B
  <2> QED BY <2>2, <2>3 DEF Converts, n
<1> QED BY <1>9, <1>16, <1>17, <1>18 DEF n, V

LEMMA CharLengthType ==
    ASSUME NEW c \in 0 .. 255
    PROVE  CharLength(c) \in Int
<1> DEFINE e == CharLength(c)
<1>1. /\ c < 128 => e = 1
      /\ c \in 194 .. 223 => e = 2
      /\ c \in 224 .. 239 => e = 3
      /\ c \in 240 .. 244 => e = 4
      /\ c \in 128 .. 193 \cup 245 .. 255 => e = 0
  BY CharLengthIs
<1> HIDE DEF e
<1>2. e \in Int BY <1>1
<1> QED BY <1>2 DEF e

(* isgbk1, position by position.                                            *)
FindsGbk(f, s) ==
    /\ f[Len(s) + 1] = FALSE
    /\ \A i \in 1 .. Len(s) : f[i] = (PieceAt(s, i).gbk \/ f[i + PieceAt(s, i).length])

LEMMA StepOn ==
    ASSUME NEW s \in Seq(Bytes), NEW i \in 1 .. Len(s) + 1, ~(i > Len(s))
    PROVE  /\ i \in 1 .. Len(s) /\ i + PieceAt(s, i).length \in i + 1 .. Len(s) + 1
           /\ i + PieceAt(s, i).length \in 1 .. Len(s) + 1
<1> DEFINE n == Len(s)
<1>1. n \in Nat BY LenProperties
<1>2. i \in 1 .. n
  <2>1. i \in 1 .. n + 1 /\ ~(i > n) OBVIOUS
  <2> HIDE DEF n
  <2> QED BY <1>1, <2>1
<1> DEFINE l == PieceAt(s, i).length
<1>3. l \in 1 .. n - i + 1 BY <1>2, PieceFacts
<1> HIDE DEF l, n
<1>4. i + l \in i + 1 .. n + 1 /\ i + l \in 1 .. n + 1 BY <1>1, <1>2, <1>3
<1> QED BY <1>2, <1>4 DEF l, n

LEMMA IsGbk1Is ==
    ASSUME NEW s \in Seq(Bytes)
    PROVE  \E f \in [1 .. Len(s) + 1 -> BOOLEAN] : FindsGbk(f, s) /\ IsGbk1(s) = f[1]
<1> DEFINE n == Len(s)
           V == BOOLEAN
           B(f, i) == i <= n /\ (PieceAt(s, i).gbk \/ f[i + PieceAt(s, i).length])
           F(f) == [i \in 1 .. n + 1 |-> B(f, i)]
           u == CHOOSE f : f = F(f)
           h == [i \in 1 .. n + 1 |-> [f \in [1 .. n + 1 -> V] |-> B(f, i)]]
<1>1. n \in Nat /\ n + 1 \in Nat BY LenProperties
<1>2. \A i \in 1 .. n + 1 : i > n \/ (i \in 1 .. n /\ i + PieceAt(s, i).length \in i + 1 .. n + 1
                                      /\ i + PieceAt(s, i).length \in 1 .. n + 1)
  BY StepOn
<1> HIDE DEF n
<1>5. \A i \in 1 .. n + 1 : \A f \in [1 .. n + 1 -> V] : B(f, i) \in V OBVIOUS
<1>6. \A i \in 1 .. n + 1 : \A f, g : (\A j \in i + 1 .. n + 1 : f[j] = g[j]) => B(f, i) = B(g, i)
  <2> TAKE i \in 1 .. n + 1
  <2> TAKE f, g
  <2> HAVE \A j \in i + 1 .. n + 1 : f[j] = g[j]
  <2>1. CASE i > n
    <3>1. ~(i <= n) BY <1>1, <2>1
    <3> QED BY <3>1
  <2>2. CASE ~(i > n)
    <3>1. f[i + PieceAt(s, i).length] = g[i + PieceAt(s, i).length] BY <1>2, <2>2
    <3> QED BY <3>1
  <2> QED BY <2>1, <2>2
<1>7. h \in [1 .. n + 1 -> [[1 .. n + 1 -> V] -> V]] BY <1>5
<1>8. \A i \in 1 .. n + 1 : \A f \in [1 .. n + 1 -> V] : h[i][f] = B(f, i) OBVIOUS
<1>v. V # {} OBVIOUS
<1> HIDE DEF h, V, B
<1>9. PICK f \in [1 .. n + 1 -> V] : LooksAhead(f, n + 1, h)
  <2>2. \A i \in 1 .. n + 1 : \A a, b \in [1 .. n + 1 -> V] :
           (\A j \in i + 1 .. n + 1 : a[j] = b[j]) => h[i][a] = h[i][b]
    <3> TAKE i \in 1 .. n + 1
    <3> TAKE a, b \in [1 .. n + 1 -> V]
    <3> HAVE \A j \in i + 1 .. n + 1 : a[j] = b[j]
    <3>1. B(a, i) = B(b, i) BY <1>6
    <3> QED BY <1>8, <3>1
  <2> QED BY <1>1, <1>7, <1>v, <2>2, LookAhead
<1>10. \A i \in 1 .. n + 1 : f[i] = B(f, i) BY <1>8, <1>9 DEF LooksAhead
<1>11. f = F(f) BY <1>9, <1>10
<1>12. u = F(u) BY <1>11
<1> HIDE DEF u
<1>13. \A i \in 1 .. n + 1 : u[i] = B(u, i) BY <1>12
<1> DEFINE T == {i \in 1 .. n + 1 : u[i] = f[i]}
<1>14. \A i \in 1 .. n + 1 : (\A j \in i + 1 .. n + 1 : j \in T) => i \in T
  <2> TAKE i \in 1 .. n + 1
  <2> HAVE \A j \in i + 1 .. n + 1 : j \in T
  <2>1. B(u, i) = B(f, i) BY <1>6
  <2> QED BY <1>10, <1>13, <2>1
<1>15. \A i \in 1 .. n + 1 : i \in T
  <2> HIDE DEF T
  <2> QED BY <1>1, <1>14, Descend
<1>16. u[1] = f[1]
  <2>1. 1 \in 1 .. n + 1 BY <1>1
  <2> QED BY <1>15, <2>1
<1>17. IsGbk1(s) = u[1] BY DEF IsGbk1, u, B, PieceAt, n
<1>18. FindsGbk(f, s)
  <2>1. n + 1 \in 1 .. n + 1 /\ ~(n + 1 <= n) /\ \A i \in 1 .. n : i \in 1 .. n + 1 /\ i <= n BY <1>1
  <2>2. f[n + 1] = FALSE BY <1>10, <2>1 DEF B
  <2>3. \A i \in 1 .. n : f[i] = (PieceAt(s, i).gbk \/ f[i + PieceAt(s, i).length])
    BY <1>10, <2>1 DEF B
  <2> QED BY <2>2, <2>3 DEF FindsGbk, n
<1> QED BY <1>9, <1>16, <1>17, <1>18 DEF n, V

(* Well-formed text, position by position.                                  *)
Decodes(f, s) ==
    \A i \in 1 .. Len(s) : f[i] =>
        /\ CharLength(s[i]) > 0 /\ i + CharLength(s[i]) <= Len(s) + 1
        /\ f[i + CharLength(s[i])]

LEMMA WellFormedIs ==
    ASSUME NEW s \in Seq(Bytes)
    PROVE  \E f \in [1 .. Len(s) + 1 -> BOOLEAN] : Decodes(f, s) /\ WellFormed(s) = f[1]
<1> DEFINE n == Len(s)
           V == BOOLEAN
           l(i) == CharLength(s[i])
           W(i) == \A j \in i + 1 .. i + l(i) - 1 : s[j] \in Tail1
           B(f, i) == \/ i = n + 1
                      \/ /\ l(i) > 0 /\ i + l(i) <= n + 1
                         /\ W(i)
                         /\ f[i + l(i)]
           F(f) == [i \in 1 .. n + 1 |-> B(f, i)]
           u == CHOOSE f : f = F(f)
           h == [i \in 1 .. n + 1 |-> [f \in [1 .. n + 1 -> V] |-> B(f, i)]]
<1>1. n \in Nat /\ n + 1 \in Nat BY LenProperties
<1>2. \A i \in 1 .. n + 1 : i = n + 1 \/ (i \in 1 .. n /\ (l(i) > 0 /\ i + l(i) <= n + 1 => i + l(i) \in i + 1 .. n + 1))
  <2> TAKE i \in 1 .. n + 1
  <2> SUFFICES ASSUME i # n + 1 PROVE i \in 1 .. n /\ (l(i) > 0 /\ i + l(i) <= n + 1 => i + l(i) \in i + 1 .. n + 1)
    OBVIOUS
  <2>1. i \in 1 .. n
    <3> HIDE DEF n
    <3> QED BY <1>1
  <2>2. l(i) \in Int
    <3>1. s[i] \in 0 .. 255 BY <2>1, ElementOfSeq DEF Bytes
    <3> QED BY <3>1, CharLengthType
  <2> HIDE DEF n, l
  <2> QED BY <1>1, <2>1, <2>2
<1> HIDE DEF n, l, W
<1>5. \A i \in 1 .. n + 1 : \A f \in [1 .. n + 1 -> V] : B(f, i) \in V OBVIOUS
<1>6. \A i \in 1 .. n + 1 : \A f, g : (\A j \in i + 1 .. n + 1 : f[j] = g[j]) => B(f, i) = B(g, i)
  <2> TAKE i \in 1 .. n + 1
  <2> TAKE f, g
  <2> HAVE \A j \in i + 1 .. n + 1 : f[j] = g[j]
  <2>1. CASE i = n + 1 BY <2>1
  <2>2. CASE i # n + 1
    <3>1. CASE l(i) > 0 /\ i + l(i) <= n + 1
      <4>1. f[i + l(i)] = g[i + l(i)] BY <1>2, <2>2, <3>1
      <4> QED BY <4>1
    <3>2. CASE ~(l(i) > 0 /\ i + l(i) <= n + 1)
      <4>1. B(f, i) = FALSE /\ B(g, i) = FALSE BY <2>2, <3>2
      <4> QED BY <4>1
    <3> QED BY <3>1, <3>2
  <2> QED BY <2>1, <2>2
<1>7. h \in [1 .. n + 1 -> [[1 .. n + 1 -> V] -> V]] BY <1>5
<1>8. \A i \in 1 .. n + 1 : \A f \in [1 .. n + 1 -> V] : h[i][f] = B(f, i) OBVIOUS
<1>v. V # {} OBVIOUS
<1> HIDE DEF h, V, B
<1>9. PICK f \in [1 .. n + 1 -> V] : LooksAhead(f, n + 1, h)
  <2>2. \A i \in 1 .. n + 1 : \A a, b \in [1 .. n + 1 -> V] :
           (\A j \in i + 1 .. n + 1 : a[j] = b[j]) => h[i][a] = h[i][b]
    <3> TAKE i \in 1 .. n + 1
    <3> TAKE a, b \in [1 .. n + 1 -> V]
    <3> HAVE \A j \in i + 1 .. n + 1 : a[j] = b[j]
    <3>1. B(a, i) = B(b, i) BY <1>6
    <3> QED BY <1>8, <3>1
  <2> QED BY <1>1, <1>7, <1>v, <2>2, LookAhead
<1>10. \A i \in 1 .. n + 1 : f[i] = B(f, i) BY <1>8, <1>9 DEF LooksAhead
<1>11. f = F(f) BY <1>9, <1>10
<1>12. u = F(u) BY <1>11
<1> HIDE DEF u
<1>13. \A i \in 1 .. n + 1 : u[i] = B(u, i) BY <1>12
<1> DEFINE T == {i \in 1 .. n + 1 : u[i] = f[i]}
<1>14. \A i \in 1 .. n + 1 : (\A j \in i + 1 .. n + 1 : j \in T) => i \in T
  <2> TAKE i \in 1 .. n + 1
  <2> HAVE \A j \in i + 1 .. n + 1 : j \in T
  <2>1. B(u, i) = B(f, i) BY <1>6
  <2> QED BY <1>10, <1>13, <2>1
<1>15. \A i \in 1 .. n + 1 : i \in T
  <2> HIDE DEF T
  <2> QED BY <1>1, <1>14, Descend
<1>16. u[1] = f[1]
  <2>1. 1 \in 1 .. n + 1 BY <1>1
  <2> QED BY <1>15, <2>1
<1>17. WellFormed(s) = u[1] BY DEF WellFormed, u, B, n, l, W
<1>18. Decodes(f, s)
  <2>1. \A i \in 1 .. n : i \in 1 .. n + 1 /\ i # n + 1 BY <1>1
  <2>2. \A i \in 1 .. n : f[i] => l(i) > 0 /\ i + l(i) <= n + 1 /\ f[i + l(i)]
    BY <1>10, <2>1 DEF B
  <2> QED BY <2>2 DEF Decodes, n, l
<1> QED BY <1>9, <1>16, <1>17, <1>18 DEF n, V

(* From a position where a character begins, well-formed text is copied.    *)
LEMMA AnyUtf8Passes ==
    ASSUME NEW s \in Seq(Bytes)
    PROVE  Utf8Passes(s)
<1> DEFINE n == Len(s)
<1>1. n \in Nat BY LenProperties
<1>2. PICK c \in [1 .. n + 1 -> Seq(Nat)] : Converts(c, s) /\ Convert(s) = c[1] BY ConvertIs
<1>3. PICK g \in [1 .. n + 1 -> BOOLEAN] : FindsGbk(g, s) /\ IsGbk1(s) = g[1] BY IsGbk1Is
<1>4. PICK w \in [1 .. n + 1 -> BOOLEAN] : Decodes(w, s) /\ WellFormed(s) = w[1] BY WellFormedIs
<1> DEFINE T == {i \in 1 .. n + 1 : w[i] => c[i] = SubSeq(s, i, n) /\ ~g[i]}
<1>5. ASSUME NEW i \in 1 .. n + 1, \A j \in i + 1 .. n + 1 : j \in T PROVE i \in T
  <2>1. CASE i = n + 1
    <3>1. SubSeq(s, i, n) = <<>>
      <4>1. i \in Int /\ n \in Int /\ n < i BY <1>1, <2>1
      <4> QED BY <4>1, SubSeqEmpty
    <3>2. c[n + 1] = <<>> /\ g[n + 1] = FALSE BY <1>2, <1>3 DEF Converts, FindsGbk
    <3> QED BY <2>1, <3>1, <3>2
  <2>2. CASE i # n + 1
    <3> SUFFICES ASSUME w[i] PROVE c[i] = SubSeq(s, i, n) /\ ~g[i] OBVIOUS
    <3>1. i \in 1 .. n
      <4> HIDE DEF n
      <4> QED BY <1>1, <2>2
    <3> DEFINE l == CharLength(s[i])
               d == SubSeq(s, i, i + l - 1)
    <3>2. l > 0 /\ i + l <= n + 1 /\ w[i + l] BY <1>4, <3>1 DEF Decodes
    <3>3. PieceAt(s, i).length = l /\ ~PieceAt(s, i).gbk BY <3>1, <3>2, PieceFacts
    <3>4. l \in Int
      <4>1. s[i] \in 0 .. 255 BY <3>1, ElementOfSeq DEF Bytes
      <4> QED BY <4>1, CharLengthType
    <3>5. i + l \in i + 1 .. n + 1 /\ i + l - 1 \in i - 1 .. n /\ i \in 1 .. n + 1
          /\ n \in i + l - 1 .. n /\ (i + l - 1) + 1 = i + l
      <4> HIDE DEF n, l
      <4> QED BY <1>1, <3>1, <3>2, <3>4
    <3>6. c[i + l] = SubSeq(s, i + l, n) /\ ~g[i + l] BY <1>5, <3>2, <3>5
    <3>7. c[i] = Turned(s, i) \o c[i + PieceAt(s, i).length]
          /\ g[i] = (PieceAt(s, i).gbk \/ g[i + PieceAt(s, i).length])
      BY <1>2, <1>3, <3>1 DEF Converts, FindsGbk
    <3>8. Turned(s, i) = d BY <3>3 DEF Turned
    <3>9. d \o SubSeq(s, i + l, n) = SubSeq(s, i, n)
      <4> DEFINE k == i + l - 1
      <4>1. k \in i - 1 .. Len(s) /\ Len(s) \in k .. Len(s) /\ k + 1 = i + l BY <3>5
      <4> HIDE DEF k
      <4>2. SubSeq(s, i, k) \o SubSeq(s, k + 1, Len(s)) = SubSeq(s, i, Len(s))
        BY <3>5, <4>1, ConcatAdjacentSubSeq
      <4> QED BY <4>1, <4>2 DEF k
    <3> HIDE DEF l
    <3> QED BY <3>3, <3>6, <3>7, <3>8, <3>9
  <2> QED BY <2>1, <2>2
<1>6. \A i \in 1 .. n + 1 : i \in T
  <2>1. n + 1 \in Nat BY <1>1
  <2> HIDE DEF T, n
  <2> QED BY <1>5, <2>1, Descend
<1>7. w[1] => c[1] = s /\ ~g[1]
  <2>1. 1 \in 1 .. n + 1 BY <1>1
  <2>2. SubSeq(s, 1, n) = s BY SubSeqFull
  <2> QED BY <1>6, <2>1, <2>2
<1> QED BY <1>2, <1>3, <1>4, <1>7 DEF Utf8Passes

(* Reading, position by position.                                           *)
Reads(u, e) ==
    /\ u[Len(e) + 1] = <<>>
    /\ \A i \in 1 .. Len(e) :
          u[i] = IF e[i] = Backslash /\ i < Len(e) THEN <<e[i + 1]>> \o u[i + 2]
                 ELSE <<e[i]>> \o u[i + 1]

LEMMA UnescapeIs ==
    ASSUME NEW s \in Seq(Bytes)
    PROVE  \E f \in [1 .. Len(s) + 1 -> Seq(Bytes)] : Reads(f, s) /\ Unescape(s) = f[1]
<1> DEFINE n == Len(s)
           V == Seq(Bytes)
           Q(i) == s[i] = Backslash /\ i < n
           B(f, i) == CASE i > n -> <<>>
                        [] s[i] = Backslash /\ i < n -> <<s[i + 1]>> \o f[i + 2]
                        [] OTHER -> <<s[i]>> \o f[i + 1]
           C(f, i) == IF i > n THEN <<>>
                      ELSE IF s[i] = Backslash /\ i < n THEN <<s[i + 1]>> \o f[i + 2]
                      ELSE <<s[i]>> \o f[i + 1]
           F(f) == [i \in 1 .. n + 1 |-> B(f, i)]
           u == CHOOSE f : f = F(f)
           h == [i \in 1 .. n + 1 |-> [f \in [1 .. n + 1 -> V] |-> C(f, i)]]
<1>1. n \in Nat /\ n + 1 \in Nat /\ \A i \in 1 .. n : s[i] \in Bytes BY LenProperties, ElementOfSeq
<1>a. <<>> \in V BY EmptySeq
<1> HIDE DEF n
<1>2. \A i \in 1 .. n + 1 : i > n \/ (~(i > n) /\ i \in 1 .. n /\ i + 1 \in i + 1 .. n + 1 /\ i + 1 \in 1 .. n + 1
                                      /\ (i < n => i + 2 \in i + 1 .. n + 1 /\ i + 2 \in 1 .. n + 1 /\ i + 1 \in 1 .. n))
  BY <1>1
<1>b. \A i \in 1 .. n + 1 : \A f : B(f, i) = C(f, i) BY <1>1
<1>5. \A i \in 1 .. n + 1 : \A f \in [1 .. n + 1 -> V] : C(f, i) \in V
  <2> TAKE i \in 1 .. n + 1
  <2> TAKE f \in [1 .. n + 1 -> V]
  <2>1. CASE i > n BY <1>a, <2>1
  <2>2. CASE ~(i > n) /\ Q(i)
    <3>1. s[i + 1] \in Bytes /\ f[i + 2] \in Seq(Bytes) BY <1>1, <1>2, <2>2
    <3>2. <<s[i + 1]>> \in Seq(Bytes) BY <3>1
    <3>3. <<s[i + 1]>> \o f[i + 2] \in Seq(Bytes) BY <3>1, <3>2, ConcatProperties
    <3> QED BY <2>2, <3>3
  <2>3. CASE ~(i > n) /\ ~Q(i)
    <3>1. s[i] \in Bytes /\ f[i + 1] \in Seq(Bytes) BY <1>1, <1>2, <2>3
    <3>2. <<s[i]>> \in Seq(Bytes) BY <3>1
    <3>3. <<s[i]>> \o f[i + 1] \in Seq(Bytes) BY <3>1, <3>2, ConcatProperties
    <3> QED BY <2>3, <3>3
  <2> QED BY <2>1, <2>2, <2>3
<1>6. \A i \in 1 .. n + 1 : \A f, g : (\A j \in i + 1 .. n + 1 : f[j] = g[j]) => C(f, i) = C(g, i)
  <2> TAKE i \in 1 .. n + 1
  <2> TAKE f, g
  <2> HAVE \A j \in i + 1 .. n + 1 : f[j] = g[j]
  <2>1. CASE i > n BY <2>1
  <2>2. CASE ~(i > n) /\ Q(i)
    <3>1. f[i + 2] = g[i + 2] BY <1>2, <2>2
    <3> QED BY <2>2, <3>1
  <2>3. CASE ~(i > n) /\ ~Q(i)
    <3>1. f[i + 1] = g[i + 1] BY <1>2, <2>3
    <3> QED BY <2>3, <3>1
  <2> QED BY <2>1, <2>2, <2>3
<1>7. h \in [1 .. n + 1 -> [[1 .. n + 1 -> V] -> V]] BY <1>5
<1>8. \A i \in 1 .. n + 1 : \A f \in [1 .. n + 1 -> V] : h[i][f] = C(f, i) OBVIOUS
<1>v. V # {} BY <1>a
<1>17. Unescape(s) = u[1] BY DEF Unescape, n
<1> HIDE DEF h, V, B, C
<1>9. PICK f \in [1 .. n + 1 -> V] : LooksAhead(f, n + 1, h)
  <2>2. \A i \in 1 .. n + 1 : \A a, b \in [1 .. n + 1 -> V] :
           (\A j \in i + 1 .. n + 1 : a[j] = b[j]) => h[i][a] = h[i][b]
    <3> TAKE i \in 1 .. n + 1
    <3> TAKE a, b \in [1 .. n + 1 -> V]
    <3> HAVE \A j \in i + 1 .. n + 1 : a[j] = b[j]
    <3>1. C(a, i) = C(b, i) BY <1>6
    <3> QED BY <1>8, <3>1
  <2> QED BY <1>1, <1>7, <1>v, <2>2, LookAhead
<1>10. \A i \in 1 .. n + 1 : f[i] = C(f, i) BY <1>8, <1>9 DEF LooksAhead
<1>11. f = F(f) BY <1>9, <1>10, <1>b
<1>12. u = F(u) BY <1>11
<1> HIDE DEF u
<1>13. \A i \in 1 .. n + 1 : u[i] = C(u, i) BY <1>12, <1>b
<1> DEFINE T == {i \in 1 .. n + 1 : u[i] = f[i]}
<1>14. \A i \in 1 .. n + 1 : (\A j \in i + 1 .. n + 1 : j \in T) => i \in T
  <2> TAKE i \in 1 .. n + 1
  <2> HAVE \A j \in i + 1 .. n + 1 : j \in T
  <2>1. C(u, i) = C(f, i) BY <1>6
  <2> QED BY <1>10, <1>13, <2>1
<1>15. \A i \in 1 .. n + 1 : i \in T
  <2> HIDE DEF T
  <2> QED BY <1>1, <1>14, Descend
<1>16. u[1] = f[1]
  <2>1. 1 \in 1 .. n + 1 BY <1>1
  <2> QED BY <1>15, <2>1
<1>18. Reads(f, s)
  <2>1. n + 1 \in 1 .. n + 1 /\ n + 1 > n /\ \A i \in 1 .. n : i \in 1 .. n + 1 /\ ~(i > n) BY <1>1
  <2>2. f[n + 1] = <<>> BY <1>10, <2>1 DEF C
  <2>3. \A i \in 1 .. n : f[i] = IF s[i] = Backslash /\ i < n THEN <<s[i + 1]>> \o f[i + 2]
                                 ELSE <<s[i]>> \o f[i + 1]
    BY <1>10, <2>1 DEF C
  <2> QED BY <2>2, <2>3 DEF Reads, n
<1> QED BY <1>9, <1>16, <1>17, <1>18 DEF n, V

Escaped(c, esc) == IF c \in esc THEN <<Backslash, c>> ELSE IF Dropped(c) THEN <<>> ELSE <<c>>

Left(c) == IF Dropped(c) THEN <<>> ELSE <<c>>

(* Every byte of the text adds up to two to the escaped one.                *)
LEMMA EscapeIs ==
    ASSUME NEW s \in Seq(Bytes), NEW esc \in SUBSET Bytes
    PROVE  /\ Escape(s, esc) = FlattenSeq([i \in 1 .. Len(s) |-> Escaped(s[i], esc)])
           /\ Undropped(s) = FlattenSeq([i \in 1 .. Len(s) |-> Left(s[i])])
           /\ [i \in 1 .. Len(s) |-> Escaped(s[i], esc)] \in Seq(Seq(Bytes))
           /\ [i \in 1 .. Len(s) |-> Left(s[i])] \in Seq(Seq(Bytes))
           /\ Len([i \in 1 .. Len(s) |-> Escaped(s[i], esc)]) = Len(s)
           /\ Len([i \in 1 .. Len(s) |-> Left(s[i])]) = Len(s)
<1> DEFINE n == Len(s)
           a == [i \in 1 .. n |-> Escaped(s[i], esc)]
           b == [i \in 1 .. n |-> Left(s[i])]
<1>1. n \in Nat /\ DOMAIN s = 1 .. n /\ \A i \in 1 .. n : s[i] \in Bytes BY LenProperties, ElementOfSeq
<1>2. [i \in DOMAIN s |->
        CASE s[i] \in esc -> <<Backslash, s[i]>>
          [] s[i] \notin esc /\ Dropped(s[i]) -> <<>>
          [] OTHER -> <<s[i]>>] = a
  <2>1. \A c : (CASE c \in esc -> <<Backslash, c>>
                  [] c \notin esc /\ Dropped(c) -> <<>>
                  [] OTHER -> <<c>>) = Escaped(c, esc)
    BY DEF Escaped
  <2> QED BY <1>1, <2>1
<1>3. [i \in DOMAIN s |-> IF Dropped(s[i]) THEN <<>> ELSE <<s[i]>>] = b
  BY <1>1 DEF Left
<1>4. Escape(s, esc) = FlattenSeq(a) BY <1>2 DEF Escape
<1>5. Undropped(s) = FlattenSeq(b) BY <1>3 DEF Undropped
<1>6. Backslash \in Bytes /\ <<>> \in Seq(Bytes) BY EmptySeq DEF Backslash, Bytes
<1>7. \A c \in Bytes : <<c>> \in Seq(Bytes) /\ <<Backslash, c>> \in Seq(Bytes) BY <1>6
<1>8. \A c \in Bytes : Escaped(c, esc) \in Seq(Bytes) /\ Left(c) \in Seq(Bytes)
  BY <1>6, <1>7 DEF Escaped, Left
<1>9. a \in [1 .. n -> Seq(Bytes)] /\ b \in [1 .. n -> Seq(Bytes)] BY <1>1, <1>8
<1> HIDE DEF a, b
<1> DEFINE S == Seq(Bytes)
<1>10. a \in Seq(S) /\ b \in Seq(S)
  <2>1. n \in Nat /\ a \in [1 .. n -> S] /\ b \in [1 .. n -> S] BY <1>1, <1>9
  <2> HIDE DEF n, S
  <2> QED BY <2>1, SeqDef
<1>11. Len(a) = n /\ Len(b) = n BY <1>1, <1>9, <1>10, LenProperties
<1> QED BY <1>4, <1>5, <1>10, <1>11 DEF a, b

LEMMA EscapeUndone ==
    ASSUME NEW s \in Seq(Bytes), NEW esc \in SUBSET JsonEscaped, Backslash \in esc
    PROVE  /\ Unescape(Escape(s, esc)) = Undropped(s)
           /\ Len(Escape(s, esc)) <= 2 * Len(s)
<1> DEFINE n == Len(s)
           a == [i \in 1 .. n |-> Escaped(s[i], esc)]
           b == [i \in 1 .. n |-> Left(s[i])]
           e == Escape(s, esc)
           d == Undropped(s)
<1>0. esc \in SUBSET Bytes BY DEF JsonEscaped, Backslash, Bytes
<1>1. n \in Nat /\ \A i \in 1 .. n : s[i] \in Bytes BY LenProperties, ElementOfSeq
<1>2. /\ e = FlattenSeq(a) /\ d = FlattenSeq(b) /\ a \in Seq(Seq(Bytes)) /\ b \in Seq(Seq(Bytes))
      /\ Len(a) = n /\ Len(b) = n
  BY <1>0, EscapeIs
<1>3. \A k \in 1 .. n : a[k] = Escaped(s[k], esc) /\ b[k] = Left(s[k]) OBVIOUS
<1>4. \A c \in Bytes : c \in esc => ~Dropped(c) BY DEF Dropped
<1>5. \A c : /\ Len(<<Backslash, c>>) = 2 /\ Len(<<>>) = 0 /\ Len(<<c>>) = 1
             /\ <<Backslash, c>>[1] = Backslash /\ <<Backslash, c>>[2] = c
             /\ <<c>>[1] = c
  OBVIOUS
<1> HIDE DEF a, b, e, d
<1>6. e \in Seq(Bytes) /\ \E p \in [0 .. n -> Nat] : Lies(e, a, p)
  <2>1. e \in Seq(Bytes) /\ \E p \in [0 .. Len(a) -> Nat] : Lies(e, a, p) BY <1>2, FlattenLies
  <2> QED BY <1>2, <2>1
<1>7. d \in Seq(Bytes) /\ \E q \in [0 .. n -> Nat] : Lies(d, b, q)
  <2>1. d \in Seq(Bytes) /\ \E q \in [0 .. Len(b) -> Nat] : Lies(d, b, q) BY <1>2, FlattenLies
  <2> QED BY <1>2, <2>1
<1>8. PICK p \in [0 .. n -> Nat] : Lies(e, a, p) BY <1>6
<1>9. PICK q \in [0 .. n -> Nat] : Lies(d, b, q) BY <1>7
<1>10. PICK u \in [1 .. Len(e) + 1 -> Seq(Bytes)] : Reads(u, e) /\ Unescape(e) = u[1]
  BY <1>6, UnescapeIs
<1> DEFINE m == Len(d)
           x == Len(e)
<1>11. m \in Nat /\ x \in Nat BY <1>6, <1>7, LenProperties
<1>12. ASSUME NEW k \in 1 .. n
       PROVE  /\ k - 1 \in 0 .. n /\ p[k - 1] \in Nat /\ q[k - 1] \in Nat /\ p[k] \in Nat /\ q[k] \in Nat
              /\ s[k] \in Bytes /\ p[k] <= x /\ q[k] <= m
              /\ \/ /\ s[k] \in esc /\ p[k] = p[k - 1] + 2 /\ q[k] = q[k - 1] + 1
                    /\ e[p[k - 1] + 1] = Backslash /\ e[p[k - 1] + 2] = s[k] /\ d[q[k - 1] + 1] = s[k]
                 \/ /\ p[k] = p[k - 1] /\ q[k] = q[k - 1]
                 \/ /\ s[k] # Backslash /\ p[k] = p[k - 1] + 1 /\ q[k] = q[k - 1] + 1
                    /\ e[p[k - 1] + 1] = s[k] /\ d[q[k - 1] + 1] = s[k]
  <2>1. k - 1 \in 0 .. n /\ p[k - 1] \in Nat /\ q[k - 1] \in Nat /\ p[k] \in Nat /\ q[k] \in Nat
    <3>1. k - 1 \in 0 .. n /\ k \in 0 .. n
      <4> HIDE DEF n
      <4> QED BY <1>1
    <3> HIDE DEF n
    <3> QED BY <1>8, <1>9, <3>1
  <2>2. /\ p[k] = p[k - 1] + Len(a[k]) /\ p[k] <= x
        /\ \A j \in 1 .. Len(a[k]) : e[p[k - 1] + j] = a[k][j]
    BY <1>2, <1>8 DEF Lies
  <2>3. /\ q[k] = q[k - 1] + Len(b[k]) /\ q[k] <= m
        /\ \A j \in 1 .. Len(b[k]) : d[q[k - 1] + j] = b[k][j]
    BY <1>2, <1>9 DEF Lies
  <2> DEFINE c == s[k]
  <2>4. c \in Bytes BY <1>1
  <2> HIDE DEF c
  <2>5. a[k] = Escaped(c, esc) /\ b[k] = Left(c) BY <1>3 DEF c
  <2>6. CASE c \in esc
    <3>1. a[k] = <<Backslash, c>> /\ b[k] = <<c>> BY <1>4, <2>4, <2>5, <2>6 DEF Escaped, Left
    <3>2. Len(a[k]) = 2 /\ Len(b[k]) = 1 /\ a[k][1] = Backslash /\ a[k][2] = c /\ b[k][1] = c
      BY <1>5, <3>1
    <3>3. e[p[k - 1] + 1] = Backslash /\ e[p[k - 1] + 2] = c /\ d[q[k - 1] + 1] = c
      <4>1. 1 \in 1 .. Len(a[k]) /\ 2 \in 1 .. Len(a[k]) /\ 1 \in 1 .. Len(b[k]) BY <3>2
      <4> QED BY <2>2, <2>3, <3>2, <4>1
    <3> QED BY <2>1, <2>2, <2>3, <2>4, <2>6, <3>2, <3>3 DEF c
  <2>7. CASE c \notin esc /\ Dropped(c)
    <3>1. a[k] = <<>> /\ b[k] = <<>> BY <2>5, <2>7 DEF Escaped, Left
    <3>2. Len(a[k]) = 0 /\ Len(b[k]) = 0 BY <1>5, <3>1
    <3>3. p[k] = p[k - 1] /\ q[k] = q[k - 1] BY <2>1, <2>2, <2>3, <3>2
    <3> QED BY <2>1, <2>2, <2>3, <2>4, <3>3 DEF c
  <2>8. CASE c \notin esc /\ ~Dropped(c)
    <3>1. a[k] = <<c>> /\ b[k] = <<c>> BY <2>5, <2>8 DEF Escaped, Left
    <3>2. Len(a[k]) = 1 /\ Len(b[k]) = 1 /\ a[k][1] = c /\ b[k][1] = c BY <1>5, <3>1
    <3>3. e[p[k - 1] + 1] = c /\ d[q[k - 1] + 1] = c
      <4>1. 1 \in 1 .. Len(a[k]) /\ 1 \in 1 .. Len(b[k]) BY <3>2
      <4> QED BY <2>2, <2>3, <3>2, <4>1
    <3>4. c # Backslash BY <2>8
    <3>5. p[k] = p[k - 1] + 1 /\ q[k] = q[k - 1] + 1 BY <2>2, <2>3, <3>2
    <3> QED BY <2>1, <2>2, <2>3, <2>4, <3>3, <3>4, <3>5 DEF c
  <2> QED BY <2>6, <2>7, <2>8
<1>13. p[0] = 0 /\ q[0] = 0 /\ p[n] = x /\ q[n] = m BY <1>2, <1>8, <1>9 DEF Lies
<1> HIDE DEF n, m, x
<1>14. x <= 2 * n
  <2> DEFINE T == {k \in 0 .. n : p[k] <= 2 * k}
  <2>1. 0 \in T BY <1>1, <1>13
  <2>2. ASSUME NEW k \in 1 .. n, k - 1 \in T PROVE k \in T
    <3>1. p[k - 1] <= 2 * (k - 1) /\ k \in 0 .. n BY <1>1, <2>2
    <3>2. p[k - 1] \in Nat /\ (p[k] = p[k - 1] \/ p[k] = p[k - 1] + 1 \/ p[k] = p[k - 1] + 2) BY <1>12
    <3> QED BY <3>1, <3>2
  <2>3. \A k \in 0 .. n : k \in T
    <3> HIDE DEF T
    <3> QED BY <1>1, <2>1, <2>2, Climb
  <2>4. n \in T
    <3>1. n \in 0 .. n BY <1>1
    <3> QED BY <2>3, <3>1
  <2> QED BY <1>13, <2>4
<1> DEFINE T == {i \in 1 .. n + 1 : u[p[i - 1] + 1] = SubSeq(d, q[i - 1] + 1, m)}
<1>15. ASSUME NEW i \in 1 .. n + 1, \A j \in i + 1 .. n + 1 : j \in T PROVE i \in T
  <2>1. CASE i = n + 1
    <3>1. i - 1 = n BY <1>1, <2>1
    <3>2. SubSeq(d, m + 1, m) = <<>>
      <4>1. m + 1 \in Int /\ m \in Int /\ m < m + 1 BY <1>11
      <4> QED BY <4>1, SubSeqEmpty
    <3>3. u[x + 1] = <<>> BY <1>10 DEF Reads, x
    <3> QED BY <1>13, <3>1, <3>2, <3>3
  <2>2. CASE i # n + 1
    <3>1. i \in 1 .. n /\ i + 1 \in i + 1 .. n + 1 /\ (i + 1) - 1 = i BY <1>1, <2>2
    <3>2. u[p[i] + 1] = SubSeq(d, q[i] + 1, m) BY <1>15, <3>1
    <3> DEFINE P == p[i - 1]
               Q == q[i - 1]
               c == s[i]
    <3>3. /\ P \in Nat /\ Q \in Nat /\ c \in Bytes /\ p[i] <= x /\ q[i] <= m
          /\ \/ /\ c \in esc /\ p[i] = P + 2 /\ q[i] = Q + 1
                /\ e[P + 1] = Backslash /\ e[P + 2] = c /\ d[Q + 1] = c
             \/ /\ p[i] = P /\ q[i] = Q
             \/ /\ c # Backslash /\ p[i] = P + 1 /\ q[i] = Q + 1
                /\ e[P + 1] = c /\ d[Q + 1] = c
      BY <1>12, <3>1
    <3> HIDE DEF P, Q, c
    <3>4. u[P + 1] = SubSeq(d, Q + 1, m)
      <4>1. CASE c \in esc /\ p[i] = P + 2 /\ q[i] = Q + 1
                 /\ e[P + 1] = Backslash /\ e[P + 2] = c /\ d[Q + 1] = c
        <5>1. P + 1 \in 1 .. x /\ P + 1 < x /\ Q + 1 \in 1 .. m /\ m \in Q + 1 .. m /\ (P + 1) + 1 = P + 2
              /\ (P + 1) + 2 = (P + 2) + 1 /\ (Q + 1) + 1 = Q + 1 + 1
          BY <1>11, <3>3, <4>1
        <5>2. u[P + 1] = <<e[(P + 1) + 1]>> \o u[(P + 1) + 2] BY <1>10, <4>1, <5>1 DEF Reads, x
        <5>3. SubSeq(d, Q + 1, m) = <<d[Q + 1]>> \o SubSeq(d, (Q + 1) + 1, m)
          BY <1>7, <5>1, SubSeqRecursiveFirst DEF m
        <5> QED BY <3>2, <4>1, <5>1, <5>2, <5>3
      <4>2. CASE p[i] = P /\ q[i] = Q BY <3>2, <4>2
      <4>3. CASE c # Backslash /\ p[i] = P + 1 /\ q[i] = Q + 1
                 /\ e[P + 1] = c /\ d[Q + 1] = c
        <5>1. P + 1 \in 1 .. x /\ Q + 1 \in 1 .. m /\ m \in Q + 1 .. m
          BY <1>11, <3>3, <4>3
        <5>2. u[P + 1] = <<e[P + 1]>> \o u[(P + 1) + 1] BY <1>10, <4>3, <5>1 DEF Reads, x
        <5>3. SubSeq(d, Q + 1, m) = <<d[Q + 1]>> \o SubSeq(d, (Q + 1) + 1, m)
          BY <1>7, <5>1, SubSeqRecursiveFirst DEF m
        <5> QED BY <3>2, <4>3, <5>2, <5>3
      <4> QED BY <3>3, <4>1, <4>2, <4>3
    <3> QED BY <3>4 DEF P, Q
  <2> QED BY <2>1, <2>2
<1>16. \A i \in 1 .. n + 1 : i \in T
  <2>1. n + 1 \in Nat BY <1>1
  <2> HIDE DEF T
  <2> QED BY <1>15, <2>1, Descend
<1>17. u[1] = d
  <2>1. 1 \in 1 .. n + 1 /\ 1 - 1 = 0 /\ 0 + 1 = 1 BY <1>1
  <2>2. u[p[1 - 1] + 1] = SubSeq(d, q[1 - 1] + 1, m) BY <1>16, <2>1
  <2>3. u[1] = SubSeq(d, 1, m) BY <1>13, <2>1, <2>2
  <2> QED BY <1>7, <2>3, SubSeqFull DEF m
<1> QED BY <1>10, <1>14, <1>17 DEF d, e, x, n

LEMMA TrimType ==
    ASSUME NEW s \in Seq(Bytes)
    PROVE  BoostTrim(s) \in Seq(Bytes)
<1> DEFINE v == Visible(s)
           n == Len(s)
<1>1. n \in Nat /\ DOMAIN s = 1 .. n BY LenProperties
<1>2. v \in SUBSET (1 .. n) BY <1>1 DEF Visible
<1> HIDE DEF v
<1>3. CASE v = {} BY <1>3, EmptySeq DEF BoostTrim, v
<1>4. CASE v # {}
  <2>1. v \in SUBSET (0 .. n) /\ v \in SUBSET Nat BY <1>2
  <2>2. Min(v) \in 1 .. n /\ Max(v) \in 1 .. n /\ Min(v) <= Max(v)
    <3> HIDE DEF n
    <3> QED BY <1>1, <1>2, <1>4, <2>1, MaxFacts, MinFacts
  <2> DEFINE a == Min(v)
             b == Max(v)
  <2>3. a \in 1 .. n + 1 /\ b \in a - 1 .. n
    <3> HIDE DEF n, a, b
    <3> QED BY <1>1, <2>2 DEF a, b
  <2>4. SubSeq(s, a, b) \in Seq(Bytes)
    <3> HIDE DEF a, b
    <3> QED BY <2>3, Slice
  <2> QED BY <1>4, <2>4 DEF BoostTrim, v
<1> QED BY <1>3, <1>4

(* Every position lies in one of the pieces.                                *)
Tiled(e, ss, p) == \A x \in 1 .. Len(e) : \E k \in 1 .. Len(ss) :
                      \E i \in 1 .. Len(ss[k]) : x = p[k - 1] + i

LEMMA Covers ==
    ASSUME NEW ss, NEW e, Len(ss) \in Nat, NEW p \in [0 .. Len(ss) -> Nat], Lies(e, ss, p),
           \A k \in 1 .. Len(ss) : Len(ss[k]) \in Nat
    PROVE  Tiled(e, ss, p)
<1> DEFINE n == Len(ss)
           In(x) == \E k \in 1 .. n : \E i \in 1 .. Len(ss[k]) : x = p[k - 1] + i
           T == {k \in 0 .. n : \A x \in 1 .. p[k] : In(x)}
<1>1. n \in Nat /\ p[0] = 0 /\ p[n] = Len(e) BY DEF Lies
<1>2. 0 \in T BY <1>1
<1>3. ASSUME NEW k \in 1 .. n, k - 1 \in T PROVE k \in T
  <2>1. /\ p[k] = p[k - 1] + Len(ss[k]) /\ Len(ss[k]) \in Nat
    BY DEF Lies
  <2>2. k \in 0 .. n /\ k - 1 \in 0 .. n
    <3> HIDE DEF n
    <3> QED BY <1>1
  <2>3. p[k - 1] \in Nat BY <2>2
  <2> DEFINE m == Len(ss[k])
             y == p[k - 1]
  <2>4. ASSUME NEW x \in 1 .. p[k] PROVE In(x)
    <3>1. CASE x \in 1 .. y BY <1>3, <3>1
    <3>2. CASE ~(x \in 1 .. y)
      <4>1. x - y \in 1 .. m /\ x = y + (x - y)
        <5>1. p[k] = y + m /\ y \in Nat /\ m \in Nat BY <2>1, <2>3
        <5> HIDE DEF y, m
        <5> QED BY <3>2, <5>1
      <4> QED BY <4>1
    <3> QED BY <3>1, <3>2
  <2> HIDE DEF In
  <2> QED BY <2>2, <2>4
<1> HIDE DEF T
<1>4. \A k \in 0 .. n : k \in T
  <2> HIDE DEF n
  <2> QED BY <1>1, <1>2, <1>3, Climb
<1>5. n \in T
  <2>1. n \in 0 .. n
    <3> HIDE DEF n
    <3> QED BY <1>1
  <2> QED BY <1>4, <2>1
<1> QED BY <1>1, <1>5 DEF T, Tiled

LEMMA NotNul ==
    ASSUME NEW esc \in SUBSET JsonEscaped, NEW c \in Bytes
    PROVE  /\ Len(Escaped(c, esc)) \in Nat
           /\ c # Nul => \A i \in 1 .. Len(Escaped(c, esc)) : Escaped(c, esc)[i] # Nul
           /\ c = Nul => Len(Escaped(c, esc)) = 1 /\ Escaped(c, esc)[1] = Nul
<1>1. /\ Len(<<Backslash, c>>) = 2 /\ Len(<<>>) = 0 /\ Len(<<c>>) = 1
      /\ <<Backslash, c>>[1] = Backslash /\ <<Backslash, c>>[2] = c /\ <<c>>[1] = c
  OBVIOUS
<1>2. Backslash # Nul /\ Nul \notin esc /\ ~Dropped(Nul) BY DEF Backslash, Nul, JsonEscaped, Dropped
<1> DEFINE w == Escaped(c, esc)
<1>3. CASE c \in esc
  <2>1. w = <<Backslash, c>> BY <1>3 DEF Escaped
  <2> HIDE DEF w
  <2>2. \A i \in 1 .. 2 : i = 1 \/ i = 2 OBVIOUS
  <2>3. Len(w) = 2 /\ w[1] = Backslash /\ w[2] = c BY <1>1, <2>1
  <2> QED BY <1>2, <1>3, <2>2, <2>3 DEF w
<1>4. CASE c \notin esc /\ Dropped(c)
  <2>1. w = <<>> BY <1>4 DEF Escaped
  <2> HIDE DEF w
  <2>2. Len(w) = 0 BY <1>1, <2>1
  <2> QED BY <1>2, <1>4, <2>2 DEF w
<1>5. CASE c \notin esc /\ ~Dropped(c)
  <2>1. w = <<c>> BY <1>5 DEF Escaped
  <2> HIDE DEF w
  <2>2. Len(w) = 1 /\ w[1] = c BY <1>1, <2>1
  <2> QED BY <2>2 DEF w
<1> QED BY <1>3, <1>4, <1>5

(* The text up to its first NUL.                                            *)
LEMMA CutAtNul ==
    ASSUME NEW s \in Seq(Bytes), Nuls(s) # {}
    PROVE  LET j == Min(Nuls(s))
           IN  /\ j \in 1 .. Len(s) /\ s[j] = Nul
               /\ CString(s) \in Seq(Bytes) /\ Len(CString(s)) = j - 1
               /\ \A i \in 1 .. j - 1 : CString(s)[i] = s[i] /\ s[i] # Nul
<1> DEFINE n == Len(s)
           j == Min(Nuls(s))
           c == SubSeq(s, 1, j - 1)
<1>1. n \in Nat /\ DOMAIN s = 1 .. n BY LenProperties
<1>2. Nuls(s) \in SUBSET Nat /\ Nuls(s) \subseteq 1 .. n BY <1>1 DEF Nuls
<1>3. j \in Nuls(s) /\ \A i \in Nuls(s) : j <= i BY <1>2, MinFacts
<1>4. j \in 1 .. n /\ s[j] = Nul BY <1>1, <1>3 DEF Nuls
<1> HIDE DEF j
<1>5. /\ 1 \in 1 .. n + 1 /\ j - 1 \in 1 - 1 .. n /\ (j - 1) - 1 + 1 = j - 1
      /\ \A i \in 1 .. j - 1 : 1 + i - 1 = i /\ i \in 1 .. n /\ ~(j <= i)
  <2> HIDE DEF n
  <2> QED BY <1>1, <1>4
<1>6. /\ c \in Seq(Bytes) /\ Len(c) = j - 1 /\ \A i \in 1 .. j - 1 : c[i] = s[i]
  BY <1>5, Slice
<1>7. \A i \in 1 .. j - 1 : s[i] # Nul BY <1>1, <1>3, <1>5 DEF Nuls
<1>8. CString(s) = c BY DEF CString, j
<1> HIDE DEF c
<1> QED BY <1>4, <1>6, <1>7, <1>8 DEF j

LEMMA CutIs ==
    ASSUME NEW e \in Seq(Bytes), NEW c \in Seq(Bytes), Len(c) < Len(e),
           \A i \in 1 .. Len(c) : e[i] = c[i] /\ c[i] # Nul, e[Len(c) + 1] = Nul
    PROVE  CString(e) = c
<1> DEFINE m == Len(c)
           n == Len(e)
           j == Min(Nuls(e))
<1>1. m \in Nat /\ n \in Nat /\ DOMAIN e = 1 .. n /\ m < n BY LenProperties
<1>a. (\A i \in 1 .. m : e[i] = c[i] /\ c[i] # Nul) /\ e[m + 1] = Nul OBVIOUS
<1> HIDE DEF m, n
<1>2. m + 1 \in Nuls(e) BY <1>1, <1>a DEF Nuls
<1>3. \A i \in Nuls(e) : i \in 1 .. n /\ m + 1 <= i
  <2> TAKE i \in Nuls(e)
  <2>1. i \in 1 .. n /\ e[i] = Nul BY <1>1 DEF Nuls
  <2>2. i \notin 1 .. m BY <1>a, <2>1
  <2> QED BY <1>1, <2>1, <2>2
<1>4. Nuls(e) \in SUBSET Nat BY <1>3
<1>5. j \in Nuls(e) /\ \A i \in Nuls(e) : j <= i BY <1>2, <1>4, MinFacts
<1> HIDE DEF j
<1>6. j = m + 1
  <2>1. j <= m + 1 /\ m + 1 <= j /\ j \in Nat BY <1>2, <1>3, <1>4, <1>5
  <2> QED BY <1>1, <2>1
<1>7. CString(e) \in Seq(Bytes) /\ Len(CString(e)) = j - 1 /\ \A i \in 1 .. j - 1 : CString(e)[i] = e[i]
  BY <1>2, CutAtNul DEF j
<1>8. j - 1 = m BY <1>1, <1>6
<1>9. Len(CString(e)) = Len(c) /\ \A i \in 1 .. Len(c) : CString(e)[i] = c[i]
  BY <1>7, <1>8, <1>a DEF m
<1> QED BY <1>7, <1>9, SeqEqual

(* Cutting commutes with escaping, which neither adds nor drops a NUL.      *)
LEMMA CutEscape ==
    ASSUME NEW s \in Seq(Bytes), NEW esc \in SUBSET JsonEscaped
    PROVE  /\ CString(s) \in Seq(Bytes)
           /\ CString(Escape(s, esc)) = Escape(CString(s), esc)
<1> DEFINE P(t) == [i \in 1 .. Len(t) |-> Escaped(t[i], esc)]
<1>0. esc \in SUBSET Bytes BY DEF JsonEscaped, Backslash, Bytes
<1>1. ASSUME NEW t \in Seq(Bytes)
      PROVE  /\ Len(t) \in Nat /\ (\A i \in 1 .. Len(t) : t[i] \in Bytes) /\ Len(P(t)) = Len(t)
             /\ \A k \in 1 .. Len(t) : P(t)[k] = Escaped(t[k], esc) /\ Len(P(t)[k]) \in Nat
             /\ Escape(t, esc) \in Seq(Bytes) /\ Len(Escape(t, esc)) \in Nat
             /\ \E p \in [0 .. Len(t) -> Nat] : Lies(Escape(t, esc), P(t), p)
  <2>1. /\ Escape(t, esc) = FlattenSeq(P(t)) /\ P(t) \in Seq(Seq(Bytes)) /\ Len(P(t)) = Len(t)
    BY <1>0, EscapeIs
  <2>2. Len(t) \in Nat /\ \A i \in 1 .. Len(t) : t[i] \in Bytes BY LenProperties, ElementOfSeq
  <2>3. \A k \in 1 .. Len(t) : P(t)[k] = Escaped(t[k], esc) OBVIOUS
  <2> HIDE DEF P
  <2>4. Escape(t, esc) \in Seq(Bytes) /\ \E p \in [0 .. Len(t) -> Nat] : Lies(Escape(t, esc), P(t), p)
    <3>1. /\ FlattenSeq(P(t)) \in Seq(Bytes)
          /\ \E p \in [0 .. Len(P(t)) -> Nat] : Lies(FlattenSeq(P(t)), P(t), p)
      BY <2>1, FlattenLies
    <3> QED BY <2>1, <3>1
  <2>5. \A k \in 1 .. Len(t) : Len(P(t)[k]) \in Nat BY <2>2, <2>3, NotNul
  <2> QED BY <2>1, <2>2, <2>3, <2>4, <2>5, LenProperties
<1> HIDE DEF P
<1>2. ASSUME NEW t \in Seq(Bytes), \A i \in 1 .. Len(t) : t[i] # Nul
      PROVE  \A x \in 1 .. Len(Escape(t, esc)) : Escape(t, esc)[x] # Nul
  <2> DEFINE e == Escape(t, esc)
  <2>1. PICK p \in [0 .. Len(t) -> Nat] : Lies(e, P(t), p) BY <1>1
  <2> HIDE DEF e
  <2>2. Len(P(t)) = Len(t) /\ Len(t) \in Nat /\ \A k \in 1 .. Len(t) : Len(P(t)[k]) \in Nat BY <1>1
  <2>3. \A x \in 1 .. Len(e) : \E k \in 1 .. Len(t) : \E i \in 1 .. Len(P(t)[k]) : x = p[k - 1] + i
    <3> DEFINE ss == P(t)
    <3>1. /\ Len(ss) = Len(t) /\ Len(ss) \in Nat /\ p \in [0 .. Len(ss) -> Nat] /\ Lies(e, ss, p)
          /\ \A k \in 1 .. Len(ss) : Len(ss[k]) \in Nat
      BY <2>1, <2>2
    <3> HIDE DEF ss
    <3>2. Tiled(e, ss, p) BY <3>1, Covers
    <3> QED BY <3>1, <3>2 DEF ss, Tiled
  <2>4. ASSUME NEW x \in 1 .. Len(e) PROVE e[x] # Nul
    <3>1. PICK k \in 1 .. Len(t) : \E i \in 1 .. Len(P(t)[k]) : x = p[k - 1] + i BY <2>3
    <3>2. PICK i \in 1 .. Len(P(t)[k]) : x = p[k - 1] + i BY <3>1
    <3>3. e[x] = P(t)[k][i] BY <2>1, <2>2, <3>2 DEF Lies
    <3>4. P(t)[k] = Escaped(t[k], esc) /\ t[k] \in Bytes /\ t[k] # Nul BY <1>1, <1>2
    <3> QED BY <3>2, <3>3, <3>4, NotNul
  <2> QED BY <2>4 DEF e
<1>3. CASE Nuls(s) = {}
  <2> DEFINE e == Escape(s, esc)
  <2>1. \A i \in 1 .. Len(s) : s[i] # Nul BY <1>3, LenProperties DEF Nuls
  <2>2. e \in Seq(Bytes) /\ \A x \in 1 .. Len(e) : e[x] # Nul BY <1>1, <1>2, <2>1
  <2> HIDE DEF e
  <2>3. Nuls(e) = {} BY <2>2, LenProperties DEF Nuls
  <2> QED BY <1>3, <2>3 DEF CString, e
<1>4. CASE Nuls(s) # {}
  <2> DEFINE j == Min(Nuls(s))
             c == CString(s)
             e == Escape(s, esc)
             d == Escape(c, esc)
  <2>1. /\ j \in 1 .. Len(s) /\ s[j] = Nul /\ c \in Seq(Bytes) /\ Len(c) = j - 1
        /\ \A i \in 1 .. j - 1 : c[i] = s[i] /\ s[i] # Nul
    BY <1>4, CutAtNul
  <2> HIDE DEF j, c
  <2>2. /\ Len(s) \in Nat /\ Len(P(s)) = Len(s) /\ e \in Seq(Bytes) /\ Len(e) \in Nat
        /\ \A k \in 1 .. Len(s) : P(s)[k] = Escaped(s[k], esc) /\ s[k] \in Bytes
    BY <1>1
  <2>3. /\ Len(c) \in Nat /\ Len(P(c)) = Len(c) /\ d \in Seq(Bytes) /\ Len(d) \in Nat
        /\ \A k \in 1 .. Len(c) : P(c)[k] = Escaped(c[k], esc) /\ Len(P(c)[k]) \in Nat
    BY <1>1, <2>1
  <2>4. PICK p \in [0 .. Len(s) -> Nat] : Lies(e, P(s), p) BY <1>1
  <2>5. PICK q \in [0 .. Len(c) -> Nat] : Lies(d, P(c), q) BY <1>1, <2>1
  <2>6. \A x \in 1 .. Len(d) : d[x] # Nul BY <1>2, <2>1
  <2> HIDE DEF e, d
  <2>7. \A k \in 1 .. j - 1 : k \in 1 .. Len(s) /\ k \in 1 .. Len(c) /\ P(s)[k] = P(c)[k]
    BY <2>1, <2>2, <2>3
  <2>8. \A k \in 0 .. j - 1 : p[k] = q[k]
    <3> DEFINE T == {k \in 0 .. j - 1 : p[k] = q[k]}
    <3>1. j - 1 \in Nat BY <2>1
    <3>2. 0 \in T BY <2>4, <2>5, <3>1 DEF Lies
    <3>3. ASSUME NEW k \in 1 .. j - 1, k - 1 \in T PROVE k \in T
      <4>1. p[k] = p[k - 1] + Len(P(s)[k]) /\ q[k] = q[k - 1] + Len(P(c)[k])
        BY <2>2, <2>3, <2>4, <2>5, <2>7 DEF Lies
      <4>2. k \in 0 .. j - 1 BY <3>1
      <4> QED BY <2>7, <3>3, <4>1, <4>2
    <3> HIDE DEF T
    <3>4. \A k \in 0 .. j - 1 : k \in T BY <3>1, <3>2, <3>3, Climb
    <3> QED BY <3>4 DEF T
  <2>9. \A x \in 1 .. Len(d) : e[x] = d[x]
    <3> TAKE x \in 1 .. Len(d)
    <3> DEFINE ss == P(c)
    <3>a. /\ Len(ss) = Len(c) /\ Len(ss) \in Nat /\ q \in [0 .. Len(ss) -> Nat] /\ Lies(d, ss, q)
          /\ \A k \in 1 .. Len(ss) : Len(ss[k]) \in Nat
      BY <2>3, <2>5
    <3> HIDE DEF ss
    <3>b. Tiled(d, ss, q) BY <3>a, Covers
    <3>1. PICK k \in 1 .. Len(c) : \E i \in 1 .. Len(P(c)[k]) : x = q[k - 1] + i
      BY <3>a, <3>b DEF ss, Tiled
    <3>2. PICK i \in 1 .. Len(P(c)[k]) : x = q[k - 1] + i BY <3>1
    <3>3. k \in 1 .. j - 1 /\ k - 1 \in 0 .. j - 1 BY <2>1
    <3>4. d[x] = P(c)[k][i] BY <2>3, <2>5, <3>2 DEF Lies
    <3>5. x = p[k - 1] + i /\ i \in 1 .. Len(P(s)[k]) /\ k \in 1 .. Len(s)
      BY <2>7, <2>8, <3>2, <3>3
    <3>6. e[x] = P(s)[k][i] BY <2>2, <2>4, <3>5 DEF Lies
    <3> QED BY <2>7, <3>3, <3>4, <3>6
  <2>10. p[j - 1] = Len(d)
    <3>1. j - 1 \in 0 .. j - 1 /\ Len(c) = j - 1 BY <2>1
    <3> QED BY <2>3, <2>5, <2>8, <3>1 DEF Lies
  <2>11. e[Len(d) + 1] = Nul /\ Len(d) < Len(e)
    <3>1. P(s)[j] = Escaped(Nul, esc) /\ Nul \in Bytes BY <2>1, <2>2
    <3>2. Len(P(s)[j]) = 1 /\ P(s)[j][1] = Nul BY <3>1, NotNul
    <3>3. /\ p[j] = p[j - 1] + Len(P(s)[j]) /\ p[j] <= Len(e)
          /\ \A i \in 1 .. Len(P(s)[j]) : e[p[j - 1] + i] = P(s)[j][i]
      BY <2>1, <2>2, <2>4 DEF Lies
    <3>4. 1 \in 1 .. Len(P(s)[j]) BY <3>2
    <3>5. e[Len(d) + 1] = Nul BY <2>10, <3>2, <3>3, <3>4
    <3>6. Len(d) + 1 <= Len(e) BY <2>10, <3>2, <3>3
    <3> QED BY <2>2, <2>3, <3>5, <3>6
  <2>12. CString(e) = d BY <2>2, <2>3, <2>6, <2>9, <2>11, CutIs
  <2> QED BY <2>1, <2>12 DEF c, d, e
<1>5. Nuls(s) = {} => CString(s) \in Seq(Bytes) BY DEF CString
<1> QED BY <1>3, <1>4, <1>5, CutAtNul

LEMMA AnyEscapeUndone ==
    ASSUME NEW s \in Seq(Bytes)
    PROVE  EscapesUndone(s)
<1>1. Backslash \in JsonEscaped BY DEF JsonEscaped
<1>2. {34, Backslash, 47} \in SUBSET JsonEscaped BY DEF JsonEscaped
<1>3. CString(s) \in Seq(Bytes) /\ Utojson(s) = Escape(CString(s), JsonEscaped)
  BY CutEscape DEF Utojson
<1>4. Unescape(Utojson(s)) = Undropped(CString(s)) /\ Len(Escape(s, JsonEscaped)) <= 2 * Len(s)
  BY <1>1, <1>3, EscapeUndone
<1> DEFINE b == BoostTrim(s)
<1>5. b \in Seq(Bytes) BY TrimType
<1> HIDE DEF b
<1>6. /\ CString(b) \in Seq(Bytes)
      /\ CString(Escape(b, {34, Backslash, 47})) = Escape(CString(b), {34, Backslash, 47})
  BY <1>2, <1>5, CutEscape
<1>7. Unescape(CString(Escape(b, {34, Backslash, 47}))) = Undropped(CString(b))
  BY <1>2, <1>6, EscapeUndone
<1> QED BY <1>4, <1>7 DEF EscapesUndone, Sutojson, b

(* A step grows the text, or leaves it, or is the segmenter's.              *)
LEMMA OnlyText ==
    ASSUME [Next]_vars
    PROVE  /\ part' = part
           /\ part # "segment" => text' = text \/ \E c \in Symbols[part] : text' = Append(text, c)
<1>1. CASE GrowText
  BY <1>1 DEF GrowText
<1>2. CASE RunSegmenter
  BY <1>2 DEF RunSegmenter
<1>3. CASE RunMessages
  BY <1>3 DEF RunMessages, textVars
<1>4. CASE RunConverter
  BY <1>4 DEF RunConverter, textVars
<1>5. CASE RunZipper
  BY <1>5 DEF RunZipper, textVars
<1>6. CASE RunReplier
  BY <1>6 DEF RunReplier, textVars
<1>7. CASE UNCHANGED vars
  BY <1>7 DEF vars, textVars
<1> QED BY <1>1, <1>2, <1>3, <1>4, <1>5, <1>6, <1>7 DEF Next

(* What the symbols of a text are.                                          *)
SymbolInv == part \in TextParts => text \in Seq(Symbols[part])

LEMMA InitSymbols == Init => SymbolInv
<1>1. \A X : <<>> \in Seq(X) BY EmptySeq
<1> QED BY <1>1 DEF Init, Segmenter!Init, SymbolInv

LEMMA NextSymbols == SymbolInv /\ [Next]_vars => SymbolInv'
<1> SUFFICES ASSUME SymbolInv, [Next]_vars, part' \in TextParts PROVE text' \in Seq(Symbols[part'])
  BY DEF SymbolInv
<1>1. part' = part /\ part \in TextParts /\ part # "segment" /\ text \in Seq(Symbols[part])
  BY OnlyText DEF SymbolInv, TextParts
<1>2. text' = text \/ \E c \in Symbols[part] : text' = Append(text, c) BY <1>1, OnlyText
<1> DEFINE X == Symbols[part]
<1> HIDE DEF X
<1>4. \A c \in X : Append(text, c) \in Seq(X) BY <1>1, AppendProperties DEF X
<1> QED BY <1>1, <1>2, <1>4 DEF X

LEMMA BytesOnly == SymbolInv /\ part \in ByteParts => text \in Seq(Bytes)
<1> SUFFICES ASSUME SymbolInv, part \in ByteParts PROVE text \in Seq(Bytes) OBVIOUS
<1>1. text \in Seq(Symbols[part]) /\ Symbols[part] \subseteq Bytes
  BY HelpersAssumption DEF HelpersAssumption, SymbolInv, ByteParts, TextParts, Bytes
<1> DEFINE X == Symbols[part]
<1> HIDE DEF X
<1>2. X \subseteq Bytes /\ text \in Seq(X) BY <1>1 DEF X
<1>3. Len(text) \in Nat /\ text \in [1 .. Len(text) -> X] BY <1>2, LenProperties
<1>4. text \in [1 .. Len(text) -> Bytes]
  <2> HIDE DEF Bytes
  <2> QED BY <1>2, <1>3
<1> QED BY <1>3, <1>4, SeqDef

(* Texts of any length: what is UTF-8 already is never taken for GBK and    *)
(* passes the conversion as it is, and reading undoes the escapes of        *)
(* Utojson and Sutojson up to the first NUL of the text, where they cut it, *)
(* within the buffer they allocate.                                         *)
THEOREM TextsPass == Spec => []TextsSurvive
<1>1. SymbolInv => TextsSurvive
  BY BytesOnly, AnyUtf8Passes, AnyEscapeUndone DEF TextsSurvive, ByteParts
<1> QED BY <1>1, InitSymbols, NextSymbols, PTL DEF Spec

-----------------------------------------------------------------------------
(***************************************************************************)
(* Paths: from an uri to a file.                                            *)
(***************************************************************************)

(* The hexadecimal digits.                                                  *)
LEMMA HexDigits ==
    \A k \in 0 .. 15 : /\ ToHex(k) \in Bytes /\ IsHex(ToHex(k))
                       /\ FromHex(ToHex(k)) = k
BY DEF ToHex, FromHex, IsHex, Digit, Lower, Bytes

LEMMA HexBytes ==
    ASSUME NEW c \in Bytes
    PROVE  /\ c \div 16 \in 0 .. 15 /\ c % 16 \in 0 .. 15 /\ 16 * (c \div 16) + (c % 16) = c
           /\ c % 256 = c
<1>1. c \in 0 .. 255 BY DEF Bytes
<1>2. c \div 16 \in 0 .. 15 BY <1>1, SMT
<1>3. c % 16 \in 0 .. 15 BY <1>1, SMT
<1>4. c = 16 * (c \div 16) + (c % 16)
  <2> HIDE DEF Bytes
  <2> QED BY <1>1
<1>5. c % 256 = c BY <1>1, SMT
<1> QED BY <1>2, <1>3, <1>4, <1>5

LEMMA FromHexType ==
    /\ \A c \in Bytes : FromHex(c) \in Int
    /\ \A c, d \in Bytes : HexNumber(c, d) \in Int
<1>1. \A c \in Bytes : FromHex(c) \in Int
  BY DEF FromHex, Digit, Lower, Bytes
<1>2. \A c, d \in Bytes : HexNumber(c, d) \in Int
  <2> TAKE c, d \in Bytes
  <2> DEFINE x == FromHex(c)
             y == FromHex(d)
  <2>1. x \in Int /\ y \in Int BY <1>1
  <2> HIDE DEF x, y
  <2>2. HexNumber(c, d) \in {16 * x + y, x, y, -y, -256}
    BY DEF HexNumber, NoNumber, x, y
  <2> QED BY <2>1, <2>2
<1> QED BY <1>1, <1>2

(* Decoding, position by position.                                          *)
Lax(u, e) ==
    /\ u[Len(e) + 1] = <<>>
    /\ \A i \in 1 .. Len(e) :
          u[i] = IF e[i] = Percent
                 THEN IF i + 2 > Len(e) THEN u[i + 1]
                      ELSE <<16 * FromHex(e[i + 1]) + FromHex(e[i + 2])>> \o u[i + 3]
                 ELSE <<IF e[i] = Plus THEN Blank ELSE e[i]>> \o u[i + 1]

LEMMA LaxDecodeIs ==
    ASSUME NEW s \in Seq(Bytes)
    PROVE  \E f \in [1 .. Len(s) + 1 -> Seq(Int)] : Lax(f, s) /\ LaxDecode(s) = f[1]
<1> DEFINE n == Len(s)
           V == Seq(Int)
           B(f, i) == IF i > n THEN <<>>
                      ELSE IF s[i] = Percent
                           THEN IF i + 2 > n THEN f[i + 1]
                                ELSE <<16 * FromHex(s[i + 1]) + FromHex(s[i + 2])>> \o f[i + 3]
                      ELSE <<IF s[i] = Plus THEN Blank ELSE s[i]>> \o f[i + 1]
           F(f) == [i \in 1 .. n + 1 |-> B(f, i)]
           u == CHOOSE f : f = F(f)
           h == [i \in 1 .. n + 1 |-> [f \in [1 .. n + 1 -> V] |-> B(f, i)]]
           H(i) == 16 * FromHex(s[i + 1]) + FromHex(s[i + 2])
           K(i) == IF s[i] = Plus THEN Blank ELSE s[i]
           R(i) == ~(i + 2 > n)
           P(i) == s[i] = Percent
<1>1. n \in Nat /\ n + 1 \in Nat /\ (\A i \in 1 .. n : s[i] \in Bytes /\ s[i] \in Int)
  <2>1. n \in Nat /\ \A i \in 1 .. n : s[i] \in Bytes BY LenProperties, ElementOfSeq
  <2>2. n + 1 \in Nat BY <2>1
  <2>3. \A c \in Bytes : c \in Int BY DEF Bytes
  <2> QED BY <2>1, <2>2, <2>3
<1>a. <<>> \in V BY EmptySeq
<1>17. LaxDecode(s) = u[1] BY DEF LaxDecode, n
<1> HIDE DEF n
<1>2. \A i \in 1 .. n + 1 : i > n \/ (~(i > n) /\ i \in 1 .. n /\ i + 1 \in i + 1 .. n + 1 /\ i + 1 \in 1 .. n + 1
        /\ (R(i) => i + 3 \in i + 1 .. n + 1 /\ i + 3 \in 1 .. n + 1 /\ i + 1 \in 1 .. n /\ i + 2 \in 1 .. n))
  BY <1>1
<1>b. \A i \in 1 .. n + 1 : \A f : B(f, i) = IF i > n THEN <<>>
                      ELSE IF P(i) THEN IF R(i) THEN <<H(i)>> \o f[i + 3] ELSE f[i + 1]
                      ELSE <<K(i)>> \o f[i + 1]
  OBVIOUS
<1>3. \A i \in 1 .. n + 1 : ~(i > n) => K(i) \in Int /\ (R(i) => H(i) \in Int)
  <2> TAKE i \in 1 .. n + 1
  <2> HAVE ~(i > n)
  <2>1. R(i) => FromHex(s[i + 1]) \in Int /\ FromHex(s[i + 2]) \in Int BY <1>1, <1>2, FromHexType
  <2>2. s[i] \in Int BY <1>1, <1>2
  <2> QED BY <2>1, <2>2 DEF Blank
<1>4. \A x \in Int, v \in V : <<x>> \o v \in V
  <2> TAKE x \in Int, v \in V
  <2>1. <<x>> \in Seq(Int) BY SMT
  <2> QED BY <2>1, ConcatProperties
<1> HIDE DEF H, K, V, B, R, P
<1>5. \A i \in 1 .. n + 1 : \A f \in [1 .. n + 1 -> V] : B(f, i) \in V
  <2> TAKE i \in 1 .. n + 1
  <2> TAKE f \in [1 .. n + 1 -> V]
  <2>1. CASE i > n BY <1>a, <1>b, <2>1
  <2>2. CASE ~(i > n)
    <3>1. f[i + 1] \in V /\ K(i) \in Int /\ (R(i) => f[i + 3] \in V /\ H(i) \in Int)
      BY <1>2, <1>3, <2>2
    <3>2. <<K(i)>> \o f[i + 1] \in V /\ (R(i) => <<H(i)>> \o f[i + 3] \in V) BY <1>4, <3>1
    <3> QED BY <1>b, <2>2, <3>1, <3>2
  <2> QED BY <2>1, <2>2
<1>6. \A i \in 1 .. n + 1 : \A f, g : (\A j \in i + 1 .. n + 1 : f[j] = g[j]) => B(f, i) = B(g, i)
  <2> TAKE i \in 1 .. n + 1
  <2> TAKE f, g
  <2> HAVE \A j \in i + 1 .. n + 1 : f[j] = g[j]
  <2>1. CASE i > n BY <1>b, <2>1
  <2>2. CASE ~(i > n)
    <3>1. f[i + 1] = g[i + 1] /\ (R(i) => f[i + 3] = g[i + 3]) BY <1>2, <2>2
    <3> QED BY <1>b, <2>2, <3>1
  <2> QED BY <2>1, <2>2
<1>7. h \in [1 .. n + 1 -> [[1 .. n + 1 -> V] -> V]] BY <1>5
<1>8. \A i \in 1 .. n + 1 : \A f \in [1 .. n + 1 -> V] : h[i][f] = B(f, i) OBVIOUS
<1>v. V # {} BY <1>a
<1> HIDE DEF h
<1>9. PICK f \in [1 .. n + 1 -> V] : LooksAhead(f, n + 1, h)
  <2>2. \A i \in 1 .. n + 1 : \A a, b \in [1 .. n + 1 -> V] :
           (\A j \in i + 1 .. n + 1 : a[j] = b[j]) => h[i][a] = h[i][b]
    <3> TAKE i \in 1 .. n + 1
    <3> TAKE a, b \in [1 .. n + 1 -> V]
    <3> HAVE \A j \in i + 1 .. n + 1 : a[j] = b[j]
    <3>1. B(a, i) = B(b, i) BY <1>6
    <3> QED BY <1>8, <3>1
  <2> QED BY <1>1, <1>7, <1>v, <2>2, LookAhead
<1>10. \A i \in 1 .. n + 1 : f[i] = B(f, i) BY <1>8, <1>9 DEF LooksAhead
<1>11. f = F(f) BY <1>9, <1>10
<1>12. u = F(u) BY <1>11
<1> HIDE DEF u
<1>13. \A i \in 1 .. n + 1 : u[i] = B(u, i) BY <1>12
<1> DEFINE T == {i \in 1 .. n + 1 : u[i] = f[i]}
<1>14. \A i \in 1 .. n + 1 : (\A j \in i + 1 .. n + 1 : j \in T) => i \in T
  <2> TAKE i \in 1 .. n + 1
  <2> HAVE \A j \in i + 1 .. n + 1 : j \in T
  <2>1. B(u, i) = B(f, i) BY <1>6
  <2> QED BY <1>10, <1>13, <2>1
<1>15. \A i \in 1 .. n + 1 : i \in T
  <2> HIDE DEF T
  <2> QED BY <1>1, <1>14, Descend
<1>16. u[1] = f[1]
  <2>1. 1 \in 1 .. n + 1 BY <1>1
  <2> QED BY <1>15, <2>1
<1>18. Lax(f, s)
  <2>1. n + 1 \in 1 .. n + 1 /\ n + 1 > n /\ \A i \in 1 .. n : i \in 1 .. n + 1 /\ ~(i > n) BY <1>1
  <2>2. f[n + 1] = <<>> BY <1>10, <2>1 DEF B
  <2>3. \A i \in 1 .. n : f[i] = B(f, i) /\ ~(i > n) BY <1>10, <2>1
  <2> QED BY <2>2, <2>3 DEF Lax, n, B
<1> QED BY <1>9, <1>16, <1>17, <1>18 DEF n, V

Strict(u, e) ==
    /\ u[Len(e) + 1] = [ok |-> TRUE, out |-> <<>>]
    /\ \A i \in 1 .. Len(e) :
          u[i] = IF e[i] = Percent
                 THEN IF i + 2 > Len(e) \/ HexNumber(e[i + 1], e[i + 2]) = NoNumber
                      THEN Failed
                      ELSE IF u[i + 3].ok
                           THEN [ok |-> TRUE,
                                 out |-> <<HexNumber(e[i + 1], e[i + 2]) % 256>> \o u[i + 3].out]
                           ELSE Failed
                 ELSE IF u[i + 1].ok
                      THEN [ok |-> TRUE,
                            out |-> <<IF e[i] = Plus THEN Blank ELSE e[i]>> \o u[i + 1].out]
                      ELSE Failed

Decoded == [ok : BOOLEAN, out : Seq(Bytes)]

LEMMA UrlDecodeIs ==
    ASSUME NEW s \in Seq(Bytes)
    PROVE  \E f \in [1 .. Len(s) + 1 -> Decoded] : Strict(f, s) /\ UrlDecode(s) = f[1]
<1> DEFINE n == Len(s)
           V == Decoded
           B(f, i) == IF i > n THEN [ok |-> TRUE, out |-> <<>>]
                      ELSE IF s[i] = Percent
                           THEN IF i + 2 > n \/ HexNumber(s[i + 1], s[i + 2]) = NoNumber
                                THEN Failed
                                ELSE IF f[i + 3].ok
                                     THEN [ok |-> TRUE,
                                           out |-> <<HexNumber(s[i + 1], s[i + 2]) % 256>> \o f[i + 3].out]
                                     ELSE Failed
                           ELSE IF f[i + 1].ok
                                THEN [ok |-> TRUE,
                                      out |-> <<IF s[i] = Plus THEN Blank ELSE s[i]>> \o f[i + 1].out]
                                ELSE Failed
           F(f) == [i \in 1 .. n + 1 |-> B(f, i)]
           u == CHOOSE f : f = F(f)
           h == [i \in 1 .. n + 1 |-> [f \in [1 .. n + 1 -> V] |-> B(f, i)]]
           H(i) == HexNumber(s[i + 1], s[i + 2]) % 256
           K(i) == IF s[i] = Plus THEN Blank ELSE s[i]
           R(i) == ~(i + 2 > n \/ HexNumber(s[i + 1], s[i + 2]) = NoNumber)
           P(i) == s[i] = Percent
           Put(c, d) == IF d.ok THEN [ok |-> TRUE, out |-> <<c>> \o d.out] ELSE Failed
<1>1. n \in Nat /\ n + 1 \in Nat /\ (\A i \in 1 .. n : s[i] \in Bytes)
  <2>1. n \in Nat /\ \A i \in 1 .. n : s[i] \in Bytes BY LenProperties, ElementOfSeq
  <2>2. n + 1 \in Nat BY <2>1
  <2> QED BY <2>1, <2>2
<1>a. [ok |-> TRUE, out |-> <<>>] \in V /\ Failed \in V
  <2>1. <<>> \in Seq(Bytes) BY EmptySeq
  <2> QED BY <2>1 DEF Decoded, Failed
<1>17. UrlDecode(s) = u[1] BY DEF UrlDecode, n
<1> HIDE DEF n
<1>2. \A i \in 1 .. n + 1 : i > n \/ (~(i > n) /\ i \in 1 .. n /\ i + 1 \in i + 1 .. n + 1 /\ i + 1 \in 1 .. n + 1
        /\ (R(i) => i + 3 \in i + 1 .. n + 1 /\ i + 3 \in 1 .. n + 1 /\ i + 1 \in 1 .. n /\ i + 2 \in 1 .. n))
  <2> TAKE i \in 1 .. n + 1
  <2>1. R(i) => ~(i + 2 > n) OBVIOUS
  <2> HIDE DEF R
  <2> QED BY <1>1, <2>1
<1>b. \A i \in 1 .. n + 1 : \A f : B(f, i) = IF i > n THEN [ok |-> TRUE, out |-> <<>>]
                      ELSE IF P(i) THEN IF R(i) THEN Put(H(i), f[i + 3]) ELSE Failed
                      ELSE Put(K(i), f[i + 1])
  OBVIOUS
<1>3. \A i \in 1 .. n + 1 : ~(i > n) => K(i) \in Bytes /\ (R(i) => H(i) \in Bytes)
  <2> TAKE i \in 1 .. n + 1
  <2> HAVE ~(i > n)
  <2>1. R(i) => HexNumber(s[i + 1], s[i + 2]) \in Int BY <1>1, <1>2, FromHexType
  <2>2. s[i] \in Bytes BY <1>1, <1>2
  <2>3. \A x \in Int : x % 256 \in Bytes BY DEF Bytes
  <2>4. Blank \in Bytes BY DEF Blank, Bytes
  <2> HIDE DEF R
  <2> QED BY <2>1, <2>2, <2>3, <2>4
<1>4. \A x \in Bytes, d \in V : Put(x, d) \in V
  <2> TAKE x \in Bytes, d \in V
  <2>1. <<x>> \in Seq(Bytes) BY SMT
  <2>2. d.out \in Seq(Bytes) BY DEF Decoded
  <2>3. <<x>> \o d.out \in Seq(Bytes) BY <2>1, <2>2, ConcatProperties
  <2> QED BY <1>a, <2>3 DEF Decoded
<1> HIDE DEF H, K, V, B, R, P, Put
<1>5. \A i \in 1 .. n + 1 : \A f \in [1 .. n + 1 -> V] : B(f, i) \in V
  <2> TAKE i \in 1 .. n + 1
  <2> TAKE f \in [1 .. n + 1 -> V]
  <2>1. CASE i > n BY <1>a, <1>b, <2>1
  <2>2. CASE ~(i > n)
    <3>1. f[i + 1] \in V /\ K(i) \in Bytes /\ (R(i) => f[i + 3] \in V /\ H(i) \in Bytes)
      BY <1>2, <1>3, <2>2
    <3>2. Put(K(i), f[i + 1]) \in V /\ (R(i) => Put(H(i), f[i + 3]) \in V) BY <1>4, <3>1
    <3> QED BY <1>a, <1>b, <2>2, <3>1, <3>2
  <2> QED BY <2>1, <2>2
<1>6. \A i \in 1 .. n + 1 : \A f, g : (\A j \in i + 1 .. n + 1 : f[j] = g[j]) => B(f, i) = B(g, i)
  <2> TAKE i \in 1 .. n + 1
  <2> TAKE f, g
  <2> HAVE \A j \in i + 1 .. n + 1 : f[j] = g[j]
  <2>1. CASE i > n BY <1>b, <2>1
  <2>2. CASE ~(i > n)
    <3>1. f[i + 1] = g[i + 1] /\ (R(i) => f[i + 3] = g[i + 3]) BY <1>2, <2>2
    <3> QED BY <1>b, <2>2, <3>1
  <2> QED BY <2>1, <2>2
<1>7. h \in [1 .. n + 1 -> [[1 .. n + 1 -> V] -> V]] BY <1>5
<1>8. \A i \in 1 .. n + 1 : \A f \in [1 .. n + 1 -> V] : h[i][f] = B(f, i) OBVIOUS
<1>v. V # {} BY <1>a
<1> HIDE DEF h
<1>9. PICK f \in [1 .. n + 1 -> V] : LooksAhead(f, n + 1, h)
  <2>2. \A i \in 1 .. n + 1 : \A a, b \in [1 .. n + 1 -> V] :
           (\A j \in i + 1 .. n + 1 : a[j] = b[j]) => h[i][a] = h[i][b]
    <3> TAKE i \in 1 .. n + 1
    <3> TAKE a, b \in [1 .. n + 1 -> V]
    <3> HAVE \A j \in i + 1 .. n + 1 : a[j] = b[j]
    <3>1. B(a, i) = B(b, i) BY <1>6
    <3> QED BY <1>8, <3>1
  <2> QED BY <1>1, <1>7, <1>v, <2>2, LookAhead
<1>10. \A i \in 1 .. n + 1 : f[i] = B(f, i) BY <1>8, <1>9 DEF LooksAhead
<1>11. f = F(f) BY <1>9, <1>10
<1>12. u = F(u) BY <1>11
<1> HIDE DEF u
<1>13. \A i \in 1 .. n + 1 : u[i] = B(u, i) BY <1>12
<1> DEFINE T == {i \in 1 .. n + 1 : u[i] = f[i]}
<1>14. \A i \in 1 .. n + 1 : (\A j \in i + 1 .. n + 1 : j \in T) => i \in T
  <2> TAKE i \in 1 .. n + 1
  <2> HAVE \A j \in i + 1 .. n + 1 : j \in T
  <2>1. B(u, i) = B(f, i) BY <1>6
  <2> QED BY <1>10, <1>13, <2>1
<1>15. \A i \in 1 .. n + 1 : i \in T
  <2> HIDE DEF T
  <2> QED BY <1>1, <1>14, Descend
<1>16. u[1] = f[1]
  <2>1. 1 \in 1 .. n + 1 BY <1>1
  <2> QED BY <1>15, <2>1
<1>18. Strict(f, s)
  <2>1. n + 1 \in 1 .. n + 1 /\ n + 1 > n /\ \A i \in 1 .. n : i \in 1 .. n + 1 /\ ~(i > n) BY <1>1
  <2>2. f[n + 1] = [ok |-> TRUE, out |-> <<>>] BY <1>10, <2>1 DEF B
  <2>3. \A i \in 1 .. n : f[i] = B(f, i) /\ ~(i > n) BY <1>10, <2>1
  <2> QED BY <2>2, <2>3 DEF Strict, n, B
<1> QED BY <1>9, <1>16, <1>17, <1>18 DEF n, V

(* Where a byte stands last.                                                *)
LEMMA LastOfIs ==
    ASSUME NEW p \in Seq(Bytes), NEW c
    PROVE  /\ LastOf(c, p) \in 0 .. Len(p) /\ Len(p) \in Nat
           /\ LastOf(c, p) > 0 => p[LastOf(c, p)] = c
           /\ \A j \in 1 .. Len(p) : p[j] = c => j <= LastOf(c, p) /\ LastOf(c, p) > 0
<1> DEFINE n == Len(p)
           U == {i \in 1 .. n : p[i] = c}
           l == LastOf(c, p)
<1>1. n \in Nat BY LenProperties
<1>2. l = IF U # {} THEN Max(U) ELSE 0
  BY DEF LastOf, SelectLastInSeq, Max
<1> HIDE DEF l
<1>3. U \in SUBSET (0 .. n) OBVIOUS
<1>4. CASE U = {}
  <2>1. l = 0 BY <1>2, <1>4
  <2>2. \A j \in 1 .. n : p[j] # c BY <1>4
  <2> HIDE DEF n
  <2>3. l \in 0 .. n /\ ~(l > 0) BY <1>1, <2>1
  <2> QED BY <1>1, <2>2, <2>3 DEF n, l
<1>5. CASE U # {}
  <2>1. l \in U /\ \A j \in U : j <= l
    <3> HIDE DEF U
    <3> QED BY <1>1, <1>2, <1>3, <1>5, MaxFacts
  <2>2. l \in 0 .. n /\ l > 0 /\ p[l] = c
    <3>1. l \in 1 .. n /\ p[l] = c BY <2>1
    <3> HIDE DEF n
    <3> QED BY <1>1, <3>1
  <2>3. \A j \in 1 .. n : p[j] = c => j <= l BY <2>1
  <2> QED BY <1>1, <2>2, <2>3 DEF l
<1> QED BY <1>4, <1>5

(* What url_encode makes of a byte, and how each decoder reads it.          *)
LEMMA EncodedIs ==
    ASSUME NEW c \in Bytes
    PROVE  \/ /\ EncodedByte(c) = <<c>> /\ c # Percent /\ c # Plus
           \/ /\ EncodedByte(c) = <<Plus>> /\ c = Blank
           \/ \E x, y \in Bytes :
                /\ EncodedByte(c) = <<Percent, x, y>>
                /\ 16 * FromHex(x) + FromHex(y) = c
                /\ HexNumber(x, y) = c
<1>1. CASE c \in Kept
  <2>1. EncodedByte(c) = <<c>> BY <1>1 DEF EncodedByte
  <2>2. c # Percent /\ c # Plus
    BY <1>1 DEF Kept, Digit, Lower, Upper, Minus, Dot, Percent, Plus
  <2> QED BY <2>1, <2>2
<1>2. CASE c \notin Kept /\ c = Blank
  BY <1>2 DEF EncodedByte
<1>3. CASE c \notin Kept /\ c # Blank
  <2> DEFINE q == c \div 16
             r == c % 16
             x == ToHex(q)
             y == ToHex(r)
  <2>1. q \in 0 .. 15 /\ r \in 0 .. 15 /\ 16 * q + r = c BY HexBytes
  <2>2. EncodedByte(c) = <<Percent, x, y>> BY <1>3 DEF EncodedByte
  <2> HIDE DEF q, r
  <2>3. x \in Bytes /\ y \in Bytes /\ IsHex(x) /\ IsHex(y)
        /\ FromHex(x) = q /\ FromHex(y) = r
    BY <2>1, HexDigits
  <2> HIDE DEF x, y
  <2>4. HexNumber(x, y) = 16 * FromHex(x) + FromHex(y)
    <3>1. ~IsHex(Plus) /\ ~IsHex(Minus)
      BY DEF IsHex, Digit, Plus, Minus
    <3>2. x # Plus /\ x # Minus BY <2>3, <3>1
    <3> HIDE DEF x, y
    <3> QED BY <2>3, <3>2, Zenon DEF HexNumber
  <2> QED BY <2>1, <2>2, <2>3, <2>4
<1> QED BY <1>1, <1>2, <1>3

LEMMA EncodeIs ==
    ASSUME NEW s \in Seq(Bytes)
    PROVE  LET a == [i \in 1 .. Len(s) |-> EncodedByte(s[i])]
           IN  /\ UrlEncode(s) = FlattenSeq(a) /\ a \in Seq(Seq(Bytes)) /\ Len(a) = Len(s)
<1> DEFINE n == Len(s)
           a == [i \in 1 .. n |-> EncodedByte(s[i])]
           S == Seq(Bytes)
<1>1. n \in Nat /\ DOMAIN s = 1 .. n /\ \A i \in 1 .. n : s[i] \in Bytes BY LenProperties, ElementOfSeq
<1>2. UrlEncode(s) = FlattenSeq(a) BY <1>1 DEF UrlEncode
<1>3. \A c \in Bytes : EncodedByte(c) \in S
  <2> TAKE c \in Bytes
  <2>1. Percent \in Bytes /\ Plus \in Bytes BY DEF Percent, Plus, Bytes
  <2>2. \A x \in Bytes : <<x>> \in S OBVIOUS
  <2>3. \A x, y, z \in Bytes : <<x, y, z>> \in S OBVIOUS
  <2> HIDE DEF S
  <2> QED BY EncodedIs, <2>1, <2>2, <2>3
<1>4. a \in [1 .. n -> S] BY <1>1, <1>3
<1>5. a \in Seq(S) /\ Len(a) = n
  <2> HIDE DEF n, S, a
  <2>1. a \in Seq(S) BY <1>1, <1>4, SeqDef
  <2> QED BY <1>1, <1>4, <2>1, LenProperties
<1> QED BY <1>2, <1>5

LEMMA ThreeOn ==
    ASSUME NEW p \in Nat, NEW q \in Nat, NEW x \in Nat, q = p + 3, q <= x
    PROVE  /\ p + 1 \in 1 .. x /\ ~((p + 1) + 2 > x)
           /\ (p + 1) + 1 = p + 2 /\ (p + 1) + 2 = p + 3 /\ (p + 1) + 3 = (p + 3) + 1
OBVIOUS

LEMMA EncodeUndone ==
    ASSUME NEW s \in Seq(Bytes)
    PROVE  /\ UrlEncode(s) \in Seq(Bytes)
           /\ LaxDecode(UrlEncode(s)) = s
           /\ UrlDecode(UrlEncode(s)) = [ok |-> TRUE, out |-> s]
<1> DEFINE n == Len(s)
           a == [i \in 1 .. n |-> EncodedByte(s[i])]
           e == UrlEncode(s)
<1>1. n \in Nat /\ \A i \in 1 .. n : s[i] \in Bytes BY LenProperties, ElementOfSeq
<1>2. e = FlattenSeq(a) /\ a \in Seq(Seq(Bytes)) /\ Len(a) = n BY EncodeIs
<1>3. \A k \in 1 .. n : a[k] = EncodedByte(s[k]) OBVIOUS
<1> HIDE DEF a, e
<1>4. e \in Seq(Bytes) /\ \E p \in [0 .. n -> Nat] : Lies(e, a, p)
  <2>1. e \in Seq(Bytes) /\ \E p \in [0 .. Len(a) -> Nat] : Lies(e, a, p) BY <1>2, FlattenLies
  <2> QED BY <1>2, <2>1
<1>5. PICK p \in [0 .. n -> Nat] : Lies(e, a, p) BY <1>4
<1> DEFINE x == Len(e)
<1>6. x \in Nat BY <1>4, LenProperties
<1>7. PICK f \in [1 .. x + 1 -> Seq(Int)] : Lax(f, e) /\ LaxDecode(e) = f[1] BY <1>4, LaxDecodeIs
<1>8. PICK g \in [1 .. x + 1 -> Decoded] : Strict(g, e) /\ UrlDecode(e) = g[1] BY <1>4, UrlDecodeIs
<1>9. p[0] = 0 /\ p[n] = x BY <1>2, <1>5 DEF Lies
<1>10. /\ \A c : Len(<<c>>) = 1 /\ <<c>>[1] = c
       /\ \A c, d, b : Len(<<c, d, b>>) = 3 /\ <<c, d, b>>[1] = c /\ <<c, d, b>>[2] = d /\ <<c, d, b>>[3] = b
  OBVIOUS
<1> DEFINE Put(c, d) == IF d.ok THEN [ok |-> TRUE, out |-> <<c>> \o d.out] ELSE Failed
<1>11. ASSUME NEW k \in 1 .. n
       PROVE  /\ p[k] \in Nat /\ p[k] <= x
              /\ f[p[k - 1] + 1] = <<s[k]>> \o f[p[k] + 1]
              /\ g[p[k - 1] + 1] = Put(s[k], g[p[k] + 1])
  <2>0. k - 1 \in 0 .. n /\ k \in 0 .. n
    <3> HIDE DEF n
    <3> QED BY <1>1
  <2> DEFINE P == p[k - 1]
             c == s[k]
  <2>1. P \in Nat /\ p[k] \in Nat
    <3> HIDE DEF n
    <3> QED BY <1>5, <2>0
  <2>2. /\ p[k] = P + Len(a[k]) /\ p[k] <= x
        /\ \A j \in 1 .. Len(a[k]) : e[P + j] = a[k][j]
    BY <1>2, <1>5 DEF Lies
  <2>3. c \in Bytes BY <1>1
  <2> HIDE DEF P, c, x
  <2>4. a[k] = EncodedByte(c) BY <1>3 DEF c
  <2>5. CASE \/ a[k] = <<c>> /\ c # Percent /\ c # Plus
             \/ a[k] = <<Plus>> /\ c = Blank
    <3>0. PICK b : a[k] = <<b>> BY <2>5
    <3>1. Len(a[k]) = 1 /\ 1 \in 1 .. Len(a[k])
      <4>1. Len(a[k]) = 1 BY <1>10, <3>0
      <4> QED BY <4>1
    <3>2. p[k] = P + 1 /\ e[P + 1] = a[k][1] BY <2>2, <3>1
    <3>3. P + 1 \in 1 .. x BY <1>6, <2>1, <2>2, <3>2
    <3>4. Percent # Plus BY DEF Percent, Plus
    <3>5. e[P + 1] # Percent /\ (IF e[P + 1] = Plus THEN Blank ELSE e[P + 1]) = c
      BY <1>10, <2>5, <3>2, <3>4
    <3>6. f[P + 1] = <<c>> \o f[(P + 1) + 1] BY <1>7, <3>3, <3>5 DEF Lax, x
    <3>7. g[P + 1] = Put(c, g[(P + 1) + 1]) BY <1>8, <3>3, <3>5 DEF Strict, x
    <3> QED BY <2>1, <2>2, <3>2, <3>6, <3>7 DEF P, c
  <2>6. ASSUME NEW y \in Bytes, NEW z \in Bytes, a[k] = <<Percent, y, z>>,
               16 * FromHex(y) + FromHex(z) = c, HexNumber(y, z) = c
        PROVE  f[P + 1] = <<c>> \o f[p[k] + 1] /\ g[P + 1] = Put(c, g[p[k] + 1])
    <3>1. Len(a[k]) = 3 BY <1>10, <2>6
    <3>2. p[k] = P + 3 /\ e[P + 1] = Percent /\ e[P + 2] = y /\ e[P + 3] = z
      <4>1. 1 \in 1 .. Len(a[k]) /\ 2 \in 1 .. Len(a[k]) /\ 3 \in 1 .. Len(a[k]) BY <3>1
      <4> QED BY <1>10, <2>2, <2>6, <3>1, <4>1
    <3>3. P + 1 \in 1 .. x /\ ~((P + 1) + 2 > x) /\ (P + 1) + 1 = P + 2 /\ (P + 1) + 2 = P + 3
          /\ (P + 1) + 3 = (P + 3) + 1
      <4>1. p[k] = P + 3 /\ p[k] <= x BY <2>2, <3>2
      <4> QED BY <1>6, <2>1, <4>1, ThreeOn
    <3>4. c # NoNumber /\ c % 256 = c
      <4>1. c # NoNumber BY <2>3 DEF NoNumber, Bytes
      <4> QED BY <2>3, <4>1, HexBytes
    <3>5. f[P + 1] = <<16 * FromHex(e[(P + 1) + 1]) + FromHex(e[(P + 1) + 2])>> \o f[(P + 1) + 3]
      BY <1>7, <3>2, <3>3 DEF Lax, x
    <3>6. f[P + 1] = <<c>> \o f[p[k] + 1] BY <2>6, <3>2, <3>3, <3>5
    <3>7. g[P + 1] = IF (P + 1) + 2 > x \/ HexNumber(e[(P + 1) + 1], e[(P + 1) + 2]) = NoNumber
                     THEN Failed
                     ELSE Put(HexNumber(e[(P + 1) + 1], e[(P + 1) + 2]) % 256, g[(P + 1) + 3])
      BY <1>8, <3>2, <3>3 DEF Strict, x
    <3> HIDE DEF Put
    <3>8. g[P + 1] = Put(c, g[p[k] + 1]) BY <2>6, <3>2, <3>3, <3>4, <3>7
    <3> QED BY <3>6, <3>8
  <2>7. \/ a[k] = <<c>> /\ c # Percent /\ c # Plus
        \/ a[k] = <<Plus>> /\ c = Blank
        \/ \E y, z \in Bytes : /\ a[k] = <<Percent, y, z>>
                              /\ 16 * FromHex(y) + FromHex(z) = c /\ HexNumber(y, z) = c
    BY <2>3, <2>4, EncodedIs
  <2>8. CASE \E y, z \in Bytes : /\ a[k] = <<Percent, y, z>>
                                /\ 16 * FromHex(y) + FromHex(z) = c /\ HexNumber(y, z) = c
    <3>1. f[P + 1] = <<c>> \o f[p[k] + 1] /\ g[P + 1] = Put(c, g[p[k] + 1])
      <4> HIDE DEF Put
      <4> QED BY <2>6, <2>8
    <3> QED BY <2>1, <2>2, <3>1 DEF P, c
  <2> QED BY <2>5, <2>7, <2>8
<1> HIDE DEF x
<1> DEFINE t(i) == SubSeq(s, i, n)
           T == {i \in 1 .. n + 1 : f[p[i - 1] + 1] = t(i) /\ g[p[i - 1] + 1] = [ok |-> TRUE, out |-> t(i)]}
<1>12. ASSUME NEW i \in 1 .. n + 1, \A j \in i + 1 .. n + 1 : j \in T PROVE i \in T
  <2>1. CASE i = n + 1
    <3>1. i - 1 = n
      <4> HIDE DEF n
      <4> QED BY <1>1, <2>1
    <3>2. t(i) = <<>>
      <4>1. i \in Int /\ n \in Int /\ n < i
        <5> HIDE DEF n
        <5> QED BY <1>1, <2>1
      <4> QED BY <4>1, SubSeqEmpty
    <3>3. f[x + 1] = <<>> /\ g[x + 1] = [ok |-> TRUE, out |-> <<>>] BY <1>7, <1>8 DEF Lax, Strict, x
    <3> HIDE DEF n, t
    <3> QED BY <1>9, <3>1, <3>2, <3>3
  <2>2. CASE i # n + 1
    <3>1. i \in 1 .. n /\ i + 1 \in i + 1 .. n + 1 /\ (i + 1) - 1 = i /\ n \in i .. n
      <4> HIDE DEF n
      <4> QED BY <1>1, <2>2
    <3>2. f[p[i] + 1] = t(i + 1) /\ g[p[i] + 1] = [ok |-> TRUE, out |-> t(i + 1)]
      <4>1. i + 1 \in T BY <1>12, <3>1
      <4> HIDE DEF t, n
      <4> QED BY <3>1, <4>1
    <3>3. t(i) = <<s[i]>> \o t(i + 1) BY <3>1, SubSeqRecursiveFirst
    <3>4. f[p[i - 1] + 1] = <<s[i]>> \o f[p[i] + 1] /\ g[p[i - 1] + 1] = Put(s[i], g[p[i] + 1])
      BY <1>11, <3>1
    <3> HIDE DEF t, n
    <3>5. g[p[i - 1] + 1] = [ok |-> TRUE, out |-> t(i)] BY <3>2, <3>3, <3>4
    <3> QED BY <3>2, <3>3, <3>4, <3>5
  <2> QED BY <2>1, <2>2
<1>13. 1 \in T
  <2>1. n + 1 \in Nat /\ 1 \in 1 .. n + 1 BY <1>1
  <2> HIDE DEF T, n
  <2>2. \A i \in 1 .. n + 1 : i \in T BY <1>12, <2>1, Descend
  <2> QED BY <2>1, <2>2
<1>14. t(1) = s BY SubSeqFull
<1>15. p[1 - 1] + 1 = 1 BY <1>9
<1> HIDE DEF t, n
<1> QED BY <1>4, <1>7, <1>8, <1>13, <1>14, <1>15 DEF e

LEMMA RootType == DocRoot \in Seq(Bytes) /\ Index \in Seq(Bytes) /\ ~DotDot(Index)
BY HelpersAssumption DEF HelpersAssumption, RequestPathAssumption, Bytes

(* Two dots in a row lie in one of two texts, if the second one does not    *)
(* begin with one.                                                          *)
LEMMA DotsApart ==
    ASSUME NEW s \in Seq(Bytes), NEW t \in Seq(Bytes), DotDot(s \o t),
           \/ t # <<>> /\ t[1] # Dot
           \/ s # <<>> /\ s[Len(s)] # Dot
    PROVE  DotDot(s) \/ DotDot(t)
<1> DEFINE k == Len(s)
           n == Len(t)
           u == s \o t
<1>1. k \in Nat /\ n \in Nat BY LenProperties
<1>2. Len(u) = k + n /\ \A i \in 1 .. k + n : u[i] = IF i <= k THEN s[i] ELSE t[i - k]
  BY ConcatProperties
<1>3. PICK i \in 1 .. Len(u) - 1 : u[i] = Dot /\ u[i + 1] = Dot BY DEF DotDot
<1>4. \/ t[1] # Dot \/ (k > 0 /\ s[k] # Dot)
  <2>1. s # <<>> => k > 0 BY <1>1, EmptySeq
  <2> QED BY <2>1
<1> HIDE DEF u, k, n
<1>5. i \in 1 .. k + n /\ i + 1 \in 1 .. k + n /\ i \in Int BY <1>1, <1>2, <1>3
<1>6. CASE i + 1 <= k
  <2>1. i \in 1 .. k - 1 /\ i <= k BY <1>1, <1>5, <1>6
  <2>2. s[i] = Dot /\ s[i + 1] = Dot BY <1>2, <1>3, <1>5, <1>6, <2>1
  <2> QED BY <2>1, <2>2 DEF DotDot, k
<1>7. CASE i > k
  <2> DEFINE j == i - k
  <2>1. j \in 1 .. n - 1 /\ ~(i <= k) /\ ~(i + 1 <= k) /\ (i + 1) - k = j + 1 BY <1>1, <1>5, <1>7
  <2>2. t[j] = Dot /\ t[j + 1] = Dot
    <3>1. u[i] = t[i - k] /\ u[i + 1] = t[(i + 1) - k] BY <1>2, <1>5, <2>1
    <3> HIDE DEF j
    <3> QED BY <1>3, <2>1, <3>1 DEF j
  <2> HIDE DEF j
  <2> QED BY <2>1, <2>2 DEF DotDot, n
<1>8. CASE i = k
  <2>1. i <= k /\ ~(i + 1 <= k) /\ (i + 1) - k = 1 BY <1>1, <1>8
  <2>2. s[k] = Dot /\ t[1] = Dot BY <1>2, <1>3, <1>5, <1>8, <2>1
  <2> QED BY <1>4, <2>2
<1> QED BY <1>1, <1>5, <1>6, <1>7, <1>8

(* The path with its index, and below the root.                             *)
LEMMA PathLies ==
    ASSUME NEW o \in Seq(Bytes), Absolute(o)
    PROVE  LET p == WithIndex(o)
               path == UnderRoot(p)
           IN  /\ p \in Seq(Bytes) /\ Len(p) \in Nat \ {0} /\ p[1] = Slash /\ path \in Seq(Bytes)
               /\ \E k \in Nat : Len(path) = k + Len(p) /\ \A j \in 1 .. Len(p) : path[k + j] = p[j]
               /\ BelowRoot(path) \/ (path = p /\ IsPrefix(DocRoot, path))
               /\ DotDot(path) => DotDot(DocRoot)
               /\ p = IF Last(o) = Slash THEN o \o Index ELSE o
<1> DEFINE p == WithIndex(o)
           path == UnderRoot(p)
<1>1. o # <<>> /\ o[1] = Slash /\ ~DotDot(o) BY DEF Absolute
<1>2. Len(o) \in Nat /\ Len(o) > 0 BY <1>1, LenProperties, EmptySeq
<1>3. p = IF Last(o) = Slash THEN o \o Index ELSE o BY DEF WithIndex
<1> HIDE DEF p
<1>4. Slash # Dot BY DEF Slash, Dot
<1>5. p \in Seq(Bytes) /\ Len(p) \in Nat \ {0} /\ p[1] = Slash /\ ~DotDot(p)
  <2>1. CASE Last(o) = Slash
    <3>1. p = o \o Index BY <1>3, <2>1
    <3>2. p \in Seq(Bytes) /\ Len(p) = Len(o) + Len(Index)
          /\ \A i \in 1 .. Len(o) + Len(Index) : p[i] = IF i <= Len(o) THEN o[i] ELSE Index[i - Len(o)]
      BY <3>1, RootType, ConcatProperties
    <3>3. Len(Index) \in Nat BY RootType, LenProperties
    <3>4. p[1] = o[1] /\ Len(p) \in Nat \ {0}
      <4>1. 1 \in 1 .. Len(o) + Len(Index) /\ 1 <= Len(o) BY <1>2, <3>3
      <4> QED BY <1>2, <3>2, <3>3, <4>1
    <3>5. ~DotDot(p) BY <1>1, <1>4, <2>1, <3>1, RootType, DotsApart DEF Last
    <3> QED BY <1>1, <3>2, <3>4, <3>5
  <2>2. CASE Last(o) # Slash BY <1>1, <1>2, <1>3, <2>2
  <2> QED BY <2>1, <2>2
<1> DEFINE n == Len(p)
           Below(k) == Len(path) = k + n /\ \A j \in 1 .. n : path[k + j] = p[j]
<1>6. CASE IsPrefix(DocRoot, p)
  <2>1. path = p BY <1>6 DEF UnderRoot
  <2>2. Below(0) /\ 0 \in Nat
    <3>1. \A j \in 1 .. n : 0 + j = j BY <1>5
    <3> QED BY <1>5, <2>1, <3>1
  <2>3. \E k \in Nat : Below(k) BY <2>2
  <2> HIDE DEF path
  <2> QED BY <1>3, <1>5, <1>6, <2>1, <2>3 DEF p, path
<1>7. CASE ~IsPrefix(DocRoot, p)
  <2> DEFINE k == Len(DocRoot)
  <2>1. path = DocRoot \o p BY <1>7 DEF UnderRoot
  <2>2. k \in Nat /\ n \in Nat BY <1>5, RootType, LenProperties
  <2>3. path \in Seq(Bytes) /\ Len(path) = k + n
        /\ \A i \in 1 .. k + n : path[i] = IF i <= k THEN DocRoot[i] ELSE p[i - k]
    BY <1>5, <2>1, RootType, ConcatProperties
  <2>4. BelowRoot(path)
    <3> DEFINE root == DocRoot \o <<Slash>>
    <3>1. DocRoot \in Seq(Bytes) /\ p \in Seq(Bytes) /\ p[1] = Slash /\ Len(p) >= 1 /\ Slash \in Bytes
      BY <1>5, RootType DEF Slash, Bytes
    <3>2. /\ root \in Seq(Bytes) /\ Len(root) = k + 1 /\ root[k + 1] = Slash
          /\ \A i \in 1 .. k : root[i] = DocRoot[i]
      <4>1. <<Slash>> \in Seq(Bytes) /\ Len(<<Slash>>) = 1 /\ <<Slash>>[1] = Slash BY <3>1
      <4> HIDE DEF k
      <4>2. /\ root \in Seq(Bytes) /\ Len(root) = k + 1
            /\ \A i \in 1 .. k + 1 : root[i] = IF i <= k THEN DocRoot[i] ELSE <<Slash>>[i - k]
        BY <3>1, <4>1, ConcatProperties DEF k
      <4>3. k + 1 \in 1 .. k + 1 /\ ~(k + 1 <= k) /\ (k + 1) - k = 1 BY <2>2
      <4>4. \A i \in 1 .. k : i \in 1 .. k + 1 /\ i <= k BY <2>2
      <4> QED BY <4>1, <4>2, <4>3, <4>4
    <3> HIDE DEF root, path, k
    <3>3. Len(root) <= Len(path) BY <1>5, <2>2, <2>3, <3>2
    <3>4. \A i \in 1 .. Len(root) : path[i] = root[i]
      <4> TAKE i \in 1 .. Len(root)
      <4>1. i \in 1 .. k + n /\ (i \in 1 .. k \/ i = k + 1) BY <1>5, <2>2, <3>2
      <4>2. CASE i \in 1 .. k BY <2>2, <2>3, <3>2, <4>1, <4>2
      <4>3. CASE i = k + 1
        <5>1. ~(i <= k) /\ i - k = 1 BY <2>2, <4>3
        <5> QED BY <2>3, <3>1, <3>2, <4>1, <4>3, <5>1
      <4> QED BY <4>1, <4>2, <4>3
    <3> QED BY <2>3, <3>2, <3>3, <3>4, PrefixIs DEF BelowRoot, root
  <2>5. DotDot(path) => DotDot(DocRoot)
    <3>1. p # <<>> BY <1>5, EmptySeq
    <3> QED BY <1>4, <1>5, <2>1, <3>1, RootType, DotsApart
  <2> HIDE DEF path
  <2>6. \A j \in 1 .. n : path[k + j] = p[j]
    <3> HIDE DEF k, n
    <3>1. \A j \in 1 .. n : k + j \in 1 .. k + n /\ ~(k + j <= k) /\ (k + j) - k = j BY <2>2
    <3> QED BY <2>3, <3>1
  <2>7. \E m \in Nat : Below(m) BY <2>2, <2>3, <2>6
  <2> QED BY <1>3, <1>5, <2>3, <2>4, <2>5, <2>7 DEF p, path
<1> QED BY <1>6, <1>7

(* The file name and what follows its last dot.                             *)
LEMMA NameLies ==
    ASSUME NEW p \in Seq(Bytes), Len(p) \in Nat \ {0}, p[1] = Slash, NEW path \in Seq(Bytes),
           NEW k \in Nat, Len(path) = k + Len(p), \A j \in 1 .. Len(p) : path[k + j] = p[j]
    PROVE  LET slash == LastOf(Slash, p)
               dot == LastOf(Dot, p)
               name == Behind(slash, p)
               ext == IF dot > slash THEN Behind(dot, p) ELSE <<>>
           IN  /\ IsSuffix(name, path)
               /\ Slash \notin ToSet(name)
               /\ path[Len(path) - Len(name)] = Slash
               /\ Dot \in ToSet(name) =>
                     IsSuffix(<<Dot>> \o ext, name) /\ Dot \notin ToSet(ext)
<1> DEFINE n == Len(p)
           slash == LastOf(Slash, p)
           dot == LastOf(Dot, p)
           name == Behind(slash, p)
           ext == IF dot > slash THEN Behind(dot, p) ELSE <<>>
<1>1. n \in Nat /\ n > 0 OBVIOUS
<1>2. slash \in 0 .. n /\ (slash > 0 => p[slash] = Slash)
      /\ \A j \in 1 .. n : p[j] = Slash => j <= slash /\ slash > 0
  BY LastOfIs
<1>3. dot \in 0 .. n /\ (dot > 0 => p[dot] = Dot)
      /\ \A j \in 1 .. n : p[j] = Dot => j <= dot /\ dot > 0
  BY LastOfIs
<1>4. slash \in 1 .. n /\ p[slash] = Slash
  <2>1. 1 \in 1 .. n BY <1>1
  <2>2. slash > 0 BY <1>2, <2>1
  <2> HIDE DEF n, slash
  <2> QED BY <1>2, <2>2
<1>5. ASSUME NEW i \in 1 .. n
      PROVE  /\ Behind(i, p) \in Seq(Bytes) /\ Len(Behind(i, p)) = n - i
             /\ \A j \in 1 .. n - i : Behind(i, p)[j] = p[i + j]
  <2>1. i + 1 \in 1 .. n + 1 /\ n \in (i + 1) - 1 .. n /\ n - (i + 1) + 1 = n - i
        /\ \A j \in 1 .. n - i : (i + 1) + j - 1 = i + j
    <3> HIDE DEF n
    <3> QED BY <1>1
  <2> DEFINE b == SubSeq(p, i + 1, n)
             a == i + 1
  <2>2. a \in 1 .. n + 1 /\ n \in a - 1 .. n BY <2>1
  <2>3. SubSeq(p, a, n) \in Seq(Bytes) /\ Len(SubSeq(p, a, n)) = n - a + 1
        /\ \A j \in 1 .. n - a + 1 : SubSeq(p, a, n)[j] = p[a + j - 1]
    <3> HIDE DEF a
    <3> QED BY <2>2, Slice
  <2>4. b \in Seq(Bytes) /\ Len(b) = n - i BY <2>1, <2>3
  <2>5. \A j \in 1 .. n - i : b[j] = p[i + j]
    <3> TAKE j \in 1 .. n - i
    <3>1. j \in 1 .. n - a + 1 /\ a + j - 1 = i + j BY <2>1
    <3> QED BY <2>3, <3>1
  <2> QED BY <2>4, <2>5 DEF Behind
<1>6. name \in Seq(Bytes) /\ Len(name) = n - slash /\ \A j \in 1 .. n - slash : name[j] = p[slash + j]
  BY <1>4, <1>5
<1>7. \A j \in 1 .. n : path[k + j] = p[j] /\ Len(path) = k + n OBVIOUS
<1> HIDE DEF name, slash, n
<1>8. /\ n - slash \in Nat /\ k + slash \in Nat /\ k + n = (k + slash) + (n - slash)
      /\ (k + n) - (n - slash) = k + slash
      /\ \A j \in 1 .. n - slash : slash + j \in 1 .. n /\ ~(slash + j <= slash)
                                   /\ (k + slash) + j = k + (slash + j)
  BY <1>1, <1>4
<1>9. Len(path) = k + n BY <1>1, <1>7
<1>10. IsSuffix(name, path)
  <2>1. Len(path) = (k + slash) + Len(name) BY <1>6, <1>8, <1>9
  <2>2. \A j \in 1 .. Len(name) : path[(k + slash) + j] = name[j]
    <3> TAKE j \in 1 .. Len(name)
    <3>1. j \in 1 .. n - slash BY <1>6
    <3>2. name[j] = p[slash + j] /\ path[k + (slash + j)] = p[slash + j] BY <1>6, <1>7, <1>8, <3>1
    <3> QED BY <1>8, <3>1, <3>2
  <2> QED BY <1>6, <1>8, <2>1, <2>2, SuffixIs
<1>11. path[Len(path) - Len(name)] = Slash BY <1>4, <1>6, <1>7, <1>8, <1>9
<1>12. DOMAIN name = 1 .. n - slash BY <1>6, LenProperties
<1>13. Slash \notin ToSet(name)
  <2> SUFFICES ASSUME NEW j \in 1 .. n - slash, name[j] = Slash PROVE FALSE
    BY <1>12 DEF ToSet
  <2>1. p[slash + j] = Slash /\ slash + j \in 1 .. n BY <1>6, <1>8
  <2> QED BY <1>2, <1>8, <2>1
<1>14. ASSUME Dot \in ToSet(name)
       PROVE  IsSuffix(<<Dot>> \o ext, name) /\ Dot \notin ToSet(ext)
  <2>1. PICK j \in 1 .. n - slash : name[j] = Dot BY <1>12, <1>14 DEF ToSet
  <2>2. p[slash + j] = Dot /\ slash + j \in 1 .. n BY <1>6, <1>8, <2>1
  <2>3. dot > slash /\ dot \in 1 .. n /\ p[dot] = Dot
    <3>1. slash + j <= dot /\ dot > 0 BY <1>3, <2>2
    <3> HIDE DEF dot
    <3> QED BY <1>1, <1>3, <1>4, <2>1, <3>1
  <2> DEFINE b == Behind(dot, p)
             q == <<Dot>>
             r == q \o b
             d == dot - slash - 1
  <2>4. ext = b BY <2>3
  <2>5. b \in Seq(Bytes) /\ Len(b) = n - dot /\ \A i \in 1 .. n - dot : b[i] = p[dot + i]
    BY <1>5, <2>3 DEF n
  <2> HIDE DEF b, dot, ext
  <2>6. q \in Seq(Bytes) /\ Len(q) = 1 /\ q[1] = Dot
    <3>1. Dot \in Bytes BY DEF Dot, Bytes
    <3> QED BY <3>1
  <2> HIDE DEF q
  <2>7. n - dot \in Nat BY <1>1, <2>3
  <2>a. r \in Seq(Bytes) /\ Len(r) = Len(q) + Len(b)
        /\ \A i \in 1 .. Len(q) + Len(b) : r[i] = IF i <= Len(q) THEN q[i] ELSE b[i - Len(q)]
    <3>1. q \in Seq(Bytes) /\ b \in Seq(Bytes) BY <2>5, <2>6
    <3> HIDE DEF n
    <3> QED BY ONLY <3>1, ConcatProperties
  <2> HIDE DEF r
  <2>8. r \in Seq(Bytes) /\ Len(r) = 1 + (n - dot)
        /\ \A i \in 1 .. 1 + (n - dot) : r[i] = IF i <= 1 THEN q[i] ELSE b[i - 1]
    BY <2>5, <2>6, <2>a
  <2>9. /\ d \in Nat /\ n - slash = d + (1 + (n - dot))
        /\ \A i \in 1 .. 1 + (n - dot) : /\ d + i \in 1 .. n - slash /\ slash + (d + i) = (dot - 1) + i
                                         /\ (i = 1 => (dot - 1) + i = dot)
                                         /\ (i # 1 => i - 1 \in 1 .. n - dot /\ ~(i <= 1) /\ dot + (i - 1) = (dot - 1) + i)
    BY <1>1, <1>4, <2>3
  <2> HIDE DEF d
  <2>10. \A i \in 1 .. 1 + (n - dot) : name[d + i] = r[i]
    <3> TAKE i \in 1 .. 1 + (n - dot)
    <3>1. name[d + i] = p[(dot - 1) + i]
      <4>1. name[d + i] = p[slash + (d + i)] BY <1>6, <2>9
      <4> QED BY <2>9, <4>1
    <3>2. CASE i = 1
      <4>1. r[i] = q[1] BY <2>8, <3>2
      <4> QED BY <2>3, <2>6, <2>9, <3>1, <3>2, <4>1
    <3>3. CASE i # 1
      <4>1. r[i] = b[i - 1] /\ b[i - 1] = p[dot + (i - 1)] BY <2>5, <2>8, <2>9, <3>3
      <4> QED BY <2>9, <3>1, <3>3, <4>1
    <3> QED BY <3>2, <3>3
  <2>11. IsSuffix(r, name)
    <3>1. Len(name) = d + Len(r) BY <1>6, <2>8, <2>9
    <3>2. \A i \in 1 .. Len(r) : name[d + i] = r[i] BY <2>8, <2>10
    <3> QED BY <1>6, <2>8, <2>9, <3>1, <3>2, SuffixIs
  <2>12. Dot \notin ToSet(b)
    <3>1. DOMAIN b = 1 .. n - dot BY <2>5, LenProperties
    <3> SUFFICES ASSUME NEW i \in 1 .. n - dot, b[i] = Dot PROVE FALSE
      BY <3>1 DEF ToSet
    <3>2. p[dot + i] = Dot BY <2>5
    <3>3. dot + i \in 1 .. n /\ ~(dot + i <= dot) BY <1>1, <2>3
    <3> QED BY <1>3, <3>2, <3>3
  <2> QED BY <2>4, <2>11, <2>12 DEF r, q
<1> QED BY <1>10, <1>11, <1>13, <1>14 DEF name, slash

(* What is found for a uri.                                                 *)
LEMMA FullPathIs ==
    ASSUME NEW s \in Seq(Bytes)
    PROVE  LET d == UrlDecode(s)
               p == WithIndex(d.out)
               slash == LastOf(Slash, p)
               dot == LastOf(Dot, p)
               found == FullPath(s)
           IN  /\ d \in Decoded
               /\ found.ok <=> d.ok /\ Absolute(d.out)
               /\ found.ok => /\ found.path = UnderRoot(p)
                              /\ found.filename = Behind(slash, p)
                              /\ found.extension = IF dot > slash THEN Behind(dot, p) ELSE <<>>
<1> DEFINE d == UrlDecode(s)
           found == FullPath(s)
<1>1. d \in Decoded
  <2>1. PICK f \in [1 .. Len(s) + 1 -> Decoded] : d = f[1] BY UrlDecodeIs
  <2>2. Len(s) \in Nat BY LenProperties
  <2>3. 1 \in 1 .. Len(s) + 1 BY <2>2
  <2> QED BY <2>1, <2>3
<1>2. d.ok \in BOOLEAN BY <1>1 DEF Decoded
<1>3. CASE d.ok /\ Absolute(d.out)
  <2> DEFINE p == WithIndex(d.out)
             slash == LastOf(Slash, p)
             dot == LastOf(Dot, p)
  <2>1. found = [ok |-> TRUE, path |-> UnderRoot(p), filename |-> Behind(slash, p),
                 extension |-> IF dot > slash THEN Behind(dot, p) ELSE <<>>]
    BY <1>3 DEF FullPath
  <2> HIDE DEF p, slash, dot, found
  <2>2. /\ found.ok = TRUE /\ found.path = UnderRoot(p)
        /\ found.filename = Behind(slash, p)
        /\ found.extension = IF dot > slash THEN Behind(dot, p) ELSE <<>>
    BY <2>1
  <2> QED BY <1>1, <1>3, <2>2 DEF p, slash, dot, found
<1>4. CASE ~(d.ok /\ Absolute(d.out))
  <2>1. found = [ok |-> FALSE] BY <1>4 DEF FullPath
  <2> HIDE DEF found
  <2>2. found.ok = FALSE BY <2>1
  <2> QED BY <1>1, <1>4, <2>2 DEF found
<1> QED BY <1>3, <1>4

LEMMA AnyPathFound ==
    ASSUME NEW s \in Seq(Bytes)
    PROVE  PathFound(s)
<1> DEFINE e == UrlEncode(s)
           asked == FullPath(e)
           raw == FullPath(s)
<1>1. /\ e \in Seq(Bytes) /\ LaxDecode(e) = s
      /\ UrlDecode(e) = [ok |-> TRUE, out |-> s]
  BY EncodeUndone
<1>2. UrlDecode(e).ok = TRUE /\ UrlDecode(e).out = s BY <1>1
<1> HIDE DEF e
<1>3. /\ asked.ok <=> Absolute(s)
      /\ asked.ok => asked.path = UnderRoot(WithIndex(s))
  BY <1>1, <1>2, FullPathIs
<1> HIDE DEF asked
<1>4. asked.ok <=> s # <<>> /\ s[1] = Slash /\ ~DotDot(s)
  BY <1>3 DEF Absolute
<1>5. ASSUME asked.ok
      PROVE  /\ IsSuffix(WithIndex(s), asked.path)
             /\ BelowRoot(asked.path) \/ (asked.path = WithIndex(s) /\ IsPrefix(DocRoot, asked.path))
  <2> DEFINE p == WithIndex(s)
             path == UnderRoot(p)
  <2>1. /\ p \in Seq(Bytes) /\ path \in Seq(Bytes)
        /\ BelowRoot(path) \/ (path = p /\ IsPrefix(DocRoot, path))
        /\ \E k \in Nat : Len(path) = k + Len(p) /\ \A j \in 1 .. Len(p) : path[k + j] = p[j]
    BY <1>3, <1>5, PathLies
  <2>2. asked.path = path BY <1>3, <1>5
  <2> HIDE DEF p, path
  <2>3. IsSuffix(p, path) BY <2>1, SuffixIs
  <2> QED BY <2>1, <2>2, <2>3 DEF p
<1>6. ASSUME raw.ok
      PROVE  /\ \/ BelowRoot(raw.path)
                \/ raw.path = WithIndex(UrlDecode(s).out) /\ IsPrefix(DocRoot, raw.path)
             /\ DotDot(raw.path) => DotDot(DocRoot)
             /\ IsSuffix(raw.filename, raw.path)
             /\ Slash \notin ToSet(raw.filename)
             /\ raw.path[Len(raw.path) - Len(raw.filename)] = Slash
             /\ Dot \in ToSet(raw.filename) =>
                   /\ IsSuffix(<<Dot>> \o raw.extension, raw.filename)
                   /\ Dot \notin ToSet(raw.extension)
  <2> DEFINE o == UrlDecode(s).out
             p == WithIndex(o)
             path == UnderRoot(p)
             slash == LastOf(Slash, p)
             dot == LastOf(Dot, p)
  <2>1. /\ UrlDecode(s) \in Decoded /\ Absolute(o)
        /\ raw.path = path /\ raw.filename = Behind(slash, p)
        /\ raw.extension = IF dot > slash THEN Behind(dot, p) ELSE <<>>
    BY <1>6, FullPathIs
  <2>2. o \in Seq(Bytes) BY <2>1 DEF Decoded
  <2> HIDE DEF o, raw
  <2>3. /\ p \in Seq(Bytes) /\ Len(p) \in Nat \ {0} /\ p[1] = Slash /\ path \in Seq(Bytes)
        /\ \E k \in Nat : Len(path) = k + Len(p) /\ \A j \in 1 .. Len(p) : path[k + j] = p[j]
        /\ BelowRoot(path) \/ (path = p /\ IsPrefix(DocRoot, path))
        /\ DotDot(path) => DotDot(DocRoot)
    BY <2>1, <2>2, PathLies
  <2> HIDE DEF p, path
  <2> DEFINE name == Behind(slash, p)
             ext == IF dot > slash THEN Behind(dot, p) ELSE <<>>
  <2>4. /\ IsSuffix(name, path) /\ Slash \notin ToSet(name)
        /\ path[Len(path) - Len(name)] = Slash
        /\ Dot \in ToSet(name) =>
              IsSuffix(<<Dot>> \o ext, name) /\ Dot \notin ToSet(ext)
    BY <2>3, NameLies
  <2>5. raw.path = path /\ raw.filename = name /\ raw.extension = ext BY <2>1
  <2>6. p = WithIndex(UrlDecode(s).out) BY DEF p, o
  <2> HIDE DEF name, ext
  <2> QED BY <2>3, <2>4, <2>5, <2>6
<1> QED BY <1>1, <1>4, <1>5, <1>6 DEF PathFound, e, asked

(* Uris of any length: url_decode undoes url_encode, an encoded uri is      *)
(* accepted when it is absolute and without "..", and what get_fullpath     *)
(* accepts lies below the document root, or begins with the root's text     *)
(* and is taken as it came; it has no ".." but the root's, and its file's   *)
(* name and extension are those at the end of the path.                     *)
THEOREM PathsAlwaysFound == Spec => []PathsFound
<1>1. SymbolInv => PathsFound
  BY BytesOnly, AnyPathFound DEF PathsFound, ByteParts
<1> QED BY <1>1, InitSymbols, NextSymbols, PTL DEF Spec

-----------------------------------------------------------------------------
(***************************************************************************)
(* Parameters: the pairs between the cuts, and the parts of a form.         *)
(***************************************************************************)

(* The first equals sign.                                                   *)
LEMMA EqualsIs ==
    ASSUME NEW X, NEW s \in Seq(X)
    PROVE  /\ Equals(s) \in 0 .. Len(s) /\ Len(s) \in Nat
           /\ Equals(s) > 0 =>
                 s[Equals(s)] = "=" /\ \A j \in 1 .. Equals(s) - 1 : s[j] # "="
           /\ \A j \in 1 .. Len(s) : s[j] = "=" => Equals(s) > 0
<1> DEFINE n == Len(s)
           U == {i \in 1 .. n : s[i] = "="}
           q == Equals(s)
<1>1. n \in Nat BY LenProperties
<1>2. q = IF U # {} THEN Min(U) ELSE 0
  BY DEF Equals, SelectInSeq, Min
<1> HIDE DEF q
<1>3. U \in SUBSET Nat OBVIOUS
<1>4. CASE U = {}
  <2>1. q = 0 BY <1>2, <1>4
  <2>2. \A j \in 1 .. n : s[j] # "=" BY <1>4
  <2> HIDE DEF n
  <2>3. q \in 0 .. n /\ ~(q > 0) BY <1>1, <2>1
  <2> QED BY <1>1, <2>2, <2>3 DEF n, q
<1>5. CASE U # {}
  <2>1. q \in U /\ \A j \in U : q <= j
    <3> HIDE DEF U
    <3> QED BY <1>2, <1>3, <1>5, MinFacts
  <2>2. q \in 1 .. n /\ s[q] = "=" BY <2>1
  <2>3. \A j \in 1 .. n : s[j] = "=" => q <= j BY <2>1
  <2> HIDE DEF n, U
  <2>4. q \in 0 .. n /\ q > 0 /\ \A j \in 1 .. q - 1 : j \in 1 .. n /\ ~(q <= j) BY <1>1, <2>2
  <2> QED BY <1>1, <2>2, <2>3, <2>4 DEF q, n
<1> QED BY <1>4, <1>5

(* A part of a part.                                                        *)
LEMMA SliceOfSlice ==
    ASSUME NEW X, NEW s \in Seq(X), NEW a \in 1 .. Len(s) + 1, NEW b \in a - 1 .. Len(s),
           NEW i \in 1 .. b - a + 2, NEW j \in i - 1 .. b - a + 1
    PROVE  SubSeq(SubSeq(s, a, b), i, j) = SubSeq(s, a + i - 1, a + j - 1)
<1> DEFINE n == Len(s)
           t == SubSeq(s, a, b)
           m == b - a + 1
           c == a + i - 1
           d == a + j - 1
<1>1. n \in Nat BY LenProperties
<1>2. t \in Seq(X) /\ Len(t) = m /\ (\A k \in 1 .. m : t[k] = s[a + k - 1]) /\ m \in Nat BY Slice
<1>3. a \in 1 .. n + 1 /\ b \in a - 1 .. n /\ i \in 1 .. b - a + 2 /\ j \in i - 1 .. b - a + 1 OBVIOUS
<1> HIDE DEF n, t
<1>4. /\ c \in 1 .. n + 1 /\ d \in c - 1 .. n /\ d - c + 1 = j - i + 1
      /\ i \in 1 .. m + 1 /\ j \in i - 1 .. m
      /\ \A k \in 1 .. j - i + 1 : i + k - 1 \in 1 .. m /\ a + (i + k - 1) - 1 = c + k - 1
  BY <1>1, <1>3
<1> HIDE DEF m, c, d
<1>5. /\ SubSeq(t, i, j) \in Seq(X) /\ Len(SubSeq(t, i, j)) = j - i + 1
      /\ \A k \in 1 .. j - i + 1 : SubSeq(t, i, j)[k] = t[i + k - 1]
  <2>1. i \in 1 .. Len(t) + 1 /\ j \in i - 1 .. Len(t) BY <1>2, <1>4
  <2> QED BY <1>2, <2>1, Slice
<1>6. /\ SubSeq(s, c, d) \in Seq(X) /\ Len(SubSeq(s, c, d)) = d - c + 1
      /\ \A k \in 1 .. d - c + 1 : SubSeq(s, c, d)[k] = s[c + k - 1]
  <2>1. c \in 1 .. Len(s) + 1 /\ d \in c - 1 .. Len(s) BY <1>4 DEF n
  <2> QED BY <2>1, Slice
<1> DEFINE x == SubSeq(t, i, j)
           y == SubSeq(s, c, d)
           l == j - i + 1
<1>7. \A k \in 1 .. l : x[k] = y[k]
  <2> TAKE k \in 1 .. l
  <2> DEFINE g == i + k - 1
  <2>1. g \in 1 .. m /\ a + g - 1 = c + k - 1 BY <1>4
  <2>2. x[k] = t[g] /\ y[k] = s[c + k - 1] BY <1>4, <1>5, <1>6
  <2> HIDE DEF g
  <2>3. t[g] = s[a + g - 1] BY <1>2, <2>1
  <2> QED BY <2>1, <2>2, <2>3
<1>8. x \in Seq(X) /\ y \in Seq(X) /\ Len(x) = l /\ Len(y) = l BY <1>4, <1>5, <1>6
<1> HIDE DEF x, y, l
<1>9. x = y BY <1>7, <1>8, SeqEqual
<1> QED BY <1>9 DEF x, y, c, d, t

(* The pieces between the cuts: where each one begins and ends.             *)
Begin(e, k) == IF k = 1 THEN 1 ELSE e[k - 1] + 1

Cuts(e, s, c) ==
    /\ e \in Seq(Nat) /\ Len(e) \in Nat
    /\ \A k \in 1 .. Len(e) :
          /\ Begin(e, k) \in 1 .. Len(s) + 1 /\ e[k] \in Begin(e, k) .. Len(s) + 1
          /\ Begin(e, k) = 1 \/ s[Begin(e, k) - 1] = c
          /\ e[k] <= Len(s) => s[e[k]] = c
          /\ \A i \in Begin(e, k) .. e[k] - 1 : s[i] # c
    /\ \A j, k \in 1 .. Len(e) : j < k => e[j] < Begin(e, k)
    /\ \A a, b \in 1 .. Len(s) :
          /\ a <= b /\ (\A i \in a .. b : s[i] # c)
          /\ a = 1 \/ s[a - 1] = c
          /\ b = Len(s) \/ s[b + 1] = c
          => \E k \in 1 .. Len(e) : Begin(e, k) = a /\ e[k] = b + 1

LEMMA EndsCut ==
    ASSUME NEW X, NEW s \in Seq(X), NEW c
    PROVE  Cuts(Ends(s, c), s, c)
<1> DEFINE n == Len(s)
           S == {i \in 1 .. n + 1 : i <= n => s[i] = c}
           e == Ends(s, c)
           m == Len(e)
<1>1. n \in Nat BY LenProperties
<1>2. Lists(e, S)
  <2>1. n + 1 \in Nat /\ S \in SUBSET (1 .. n + 1) BY <1>1
  <2>2. e = Ascending(S, n + 1) BY DEF Ends
  <2> HIDE DEF S, e, n
  <2> QED BY <2>1, <2>2, AscendingLists
<1>3. /\ e \in Seq(Nat) /\ m \in Nat /\ (\A k \in 1 .. m : e[k] \in S)
      /\ (\A i, j \in 1 .. m : i < j => e[i] < e[j])
      /\ \A x \in S : \E k \in 1 .. m : e[k] = x
  BY <1>2, LenProperties DEF Lists
<1>4. /\ \A x \in S : x \in 1 .. n + 1 /\ (x <= n => s[x] = c)
      /\ \A x \in 1 .. n : s[x] = c => x \in S
      /\ n + 1 \in S
  <2>1. (\A x \in 1 .. n : x \in 1 .. n + 1) /\ n + 1 \in 1 .. n + 1 /\ ~(n + 1 <= n) BY <1>1
  <2> QED BY <2>1
<1> HIDE DEF S, e, m, n
<1>5. ASSUME NEW k \in 1 .. m
      PROVE  /\ Begin(e, k) \in 1 .. n + 1 /\ e[k] \in Begin(e, k) .. n + 1 /\ e[k] \in 1 .. n + 1
             /\ Begin(e, k) = 1 \/ s[Begin(e, k) - 1] = c
             /\ e[k] <= n => s[e[k]] = c
  <2>1. e[k] \in 1 .. n + 1 /\ (e[k] <= n => s[e[k]] = c) BY <1>3, <1>4
  <2>2. CASE k = 1
    <3>1. Begin(e, k) = 1 BY <2>2 DEF Begin
    <3> QED BY <1>1, <2>1, <3>1
  <2>3. CASE k # 1
    <3>1. Begin(e, k) = e[k - 1] + 1 BY <2>3 DEF Begin
    <3>2. k - 1 \in 1 .. m /\ k - 1 < k BY <1>3, <2>3
    <3>3. e[k - 1] \in 1 .. n + 1 /\ (e[k - 1] <= n => s[e[k - 1]] = c) /\ e[k - 1] < e[k]
      BY <1>3, <1>4, <3>2
    <3> HIDE DEF Begin
    <3>4. Begin(e, k) \in 1 .. n + 1 /\ e[k] \in Begin(e, k) .. n + 1 /\ Begin(e, k) - 1 = e[k - 1]
          /\ e[k - 1] <= n
      BY <1>1, <2>1, <3>1, <3>3
    <3> QED BY <2>1, <3>3, <3>4
  <2> QED BY <2>2, <2>3
(* A cut lies at the end of a piece or of an earlier one, or behind it.     *)
<1>6. ASSUME NEW k \in 1 .. m, NEW x \in S
      PROVE  x < Begin(e, k) \/ x = e[k] \/ x > e[k]
  <2>1. PICK l \in 1 .. m : e[l] = x BY <1>3
  <2>2. CASE l > k BY <1>3, <2>1, <2>2
  <2>3. CASE l = k BY <2>1, <2>3
  <2>4. CASE l < k
    <3>1. Begin(e, k) = e[k - 1] + 1 /\ k - 1 \in 1 .. m BY <1>3, <2>4 DEF Begin
    <3>2. l = k - 1 \/ l < k - 1 BY <1>3, <2>4
    <3>4. e[l] \in Int /\ e[k - 1] \in Int
      <4>1. e[l] \in 1 .. n + 1 /\ e[k - 1] \in 1 .. n + 1 BY <1>5, <3>1
      <4> QED BY <4>1
    <3>5. l < k - 1 => e[l] < e[k - 1] BY <1>3, <3>1
    <3>3. e[l] <= e[k - 1] BY <3>2, <3>4, <3>5
    <3> QED BY <2>1, <3>1, <3>3, <3>4
  <2> QED BY <1>3, <2>2, <2>3, <2>4
<1>7. ASSUME NEW k \in 1 .. m, NEW i \in Begin(e, k) .. e[k] - 1 PROVE s[i] # c
  <2>1. i \in 1 .. n /\ ~(i < Begin(e, k)) /\ i # e[k] /\ ~(i > e[k]) BY <1>1, <1>5
  <2> QED BY <1>4, <1>6, <2>1
<1>8. ASSUME NEW j \in 1 .. m, NEW k \in 1 .. m, j < k PROVE e[j] < Begin(e, k)
  <2>1. e[j] \in S /\ e[j] < e[k] BY <1>3, <1>8
  <2>2. e[j] \in Int /\ e[k] \in Int BY <1>5
  <2> QED BY <1>6, <2>1, <2>2
<1>9. ASSUME NEW a \in 1 .. n, NEW b \in 1 .. n, a <= b, \A i \in a .. b : s[i] # c,
             a = 1 \/ s[a - 1] = c, b = n \/ s[b + 1] = c
      PROVE  \E k \in 1 .. m : Begin(e, k) = a /\ e[k] = b + 1
  <2>1. b + 1 \in S
    <3>1. b = n \/ b + 1 \in 1 .. n BY <1>1
    <3> QED BY <1>4, <1>9, <3>1
  <2>2. PICK k \in 1 .. m : e[k] = b + 1 BY <1>3, <2>1
  <2>3. ASSUME NEW x \in S, x < b + 1 PROVE x < a
    <3>1. x \in 1 .. n + 1 /\ (x <= n => s[x] = c) BY <1>4
    <3>2. x \in a .. b => x <= n BY <1>1
    <3>3. x \notin a .. b BY <1>9, <3>1, <3>2
    <3> QED BY <2>3, <3>1, <3>3
  <2>4. CASE k = 1
    <3>1. Begin(e, k) = 1 BY <2>4 DEF Begin
    <3>2. a = 1
      <4> SUFFICES ASSUME a # 1 PROVE FALSE OBVIOUS
      <4>1. a - 1 \in 1 .. n /\ a - 1 < b + 1 BY <1>1, <1>9
      <4>2. a - 1 \in S BY <1>4, <1>9, <4>1
      <4>3. PICK l \in 1 .. m : e[l] = a - 1 BY <1>3, <4>2
      <4>4. l = k \/ k < l BY <1>3, <2>4
      <4>5. e[k] <= e[l] BY <1>3, <1>5, <4>4
      <4> QED BY <1>5, <2>2, <4>1, <4>3, <4>5
    <3> QED BY <2>2, <3>1, <3>2
  <2>5. CASE k # 1
    <3>1. Begin(e, k) = e[k - 1] + 1 /\ k - 1 \in 1 .. m /\ k - 1 < k BY <1>3, <2>5 DEF Begin
    <3>2. e[k - 1] \in S /\ e[k - 1] < b + 1 /\ e[k - 1] \in 1 .. n + 1 BY <1>3, <1>5, <2>2, <3>1
    <3>3. e[k - 1] < a BY <2>3, <3>2
    <3>4. a # 1 BY <3>2, <3>3
    <3>5. a - 1 \in 1 .. n /\ a - 1 < b + 1 BY <1>1, <1>9, <3>4
    <3>6. a - 1 \in S BY <1>4, <1>9, <3>4, <3>5
    <3>7. a - 1 < Begin(e, k) BY <1>6, <2>2, <3>5, <3>6
    <3>8. Begin(e, k) = a BY <3>1, <3>2, <3>3, <3>7
    <3> QED BY <2>2, <3>8
  <2> QED BY <2>4, <2>5
<1> QED BY <1>3, <1>5, <1>7, <1>8, <1>9 DEF Cuts, e, m, n

PieceOf(e, s, k) == SubSeq(s, Begin(e, k), e[k] - 1)

StretchOf(e, s, k) ==
    <<Begin(e, k), Begin(e, k) + Equals(PieceOf(e, s, k)) - 1, e[k] - 1>>

LEMMA SplitIs ==
    ASSUME NEW X, NEW s \in Seq(X), NEW c
    PROVE  LET e == Ends(s, c)
           IN  /\ Len(e) \in Nat /\ Split(s, c) = [k \in 1 .. Len(e) |-> PieceOf(e, s, k)]
               /\ Split(s, c) \in Seq(Seq(X)) /\ Len(Split(s, c)) = Len(e)
               /\ \A k \in 1 .. Len(e) :
                     LET p == PieceOf(e, s, k)
                     IN  /\ p \in Seq(X) /\ Len(p) = e[k] - Begin(e, k)
                         /\ \A j \in 1 .. e[k] - Begin(e, k) : p[j] = s[Begin(e, k) + j - 1]
<1> DEFINE e == Ends(s, c)
           m == Len(e)
           n == Len(s)
           f == [k \in 1 .. m |-> PieceOf(e, s, k)]
<1>1. Cuts(e, s, c) BY EndsCut
<1>2. e \in Seq(Nat) /\ m \in Nat /\ DOMAIN e = 1 .. m BY <1>1, LenProperties DEF Cuts
<1>3. Split(s, c) = f
  <2>1. \A k : (IF k = 1 THEN 1 ELSE e[k - 1] + 1) = Begin(e, k) BY DEF Begin
  <2>2. Split(s, c) = [k \in 1 .. m |-> SubSeq(s, IF k = 1 THEN 1 ELSE e[k - 1] + 1, e[k] - 1)]
    BY <1>2 DEF Split
  <2> QED BY <2>1, <2>2 DEF PieceOf
<1> HIDE DEF e
<1>4. ASSUME NEW k \in 1 .. m
      PROVE  /\ PieceOf(e, s, k) \in Seq(X) /\ Len(PieceOf(e, s, k)) = e[k] - Begin(e, k)
             /\ \A j \in 1 .. e[k] - Begin(e, k) : PieceOf(e, s, k)[j] = s[Begin(e, k) + j - 1]
  <2> DEFINE b == Begin(e, k)
             d == e[k] - 1
  <2>1. n \in Nat BY LenProperties
  <2>2. b \in 1 .. n + 1 /\ e[k] \in b .. n + 1 BY <1>1 DEF Cuts
  <2> HIDE DEF n, b
  <2>3. d \in b - 1 .. n /\ d - b + 1 = e[k] - b BY <2>1, <2>2
  <2> HIDE DEF d
  <2>4. SubSeq(s, b, d) \in Seq(X) /\ Len(SubSeq(s, b, d)) = d - b + 1
        /\ \A j \in 1 .. d - b + 1 : SubSeq(s, b, d)[j] = s[b + j - 1]
    BY <2>2, <2>3, Slice DEF n
  <2> QED BY <2>3, <2>4 DEF PieceOf, b, d
<1>5. f \in Seq(Seq(X)) /\ Len(f) = m
  <2> DEFINE S == Seq(X)
  <2>1. f \in [1 .. m -> S] BY <1>4
  <2> HIDE DEF f, m, S
  <2>2. f \in Seq(S) BY <1>2, <2>1, SeqDef
  <2>3. Len(f) = m BY <1>2, <2>1, <2>2, LenProperties
  <2> QED BY <2>2, <2>3 DEF S
<1> QED BY <1>2, <1>3, <1>4, <1>5 DEF e

(* A piece with a sign is one of the stretches of the text.                 *)
LEMMA PieceIsStretch ==
    ASSUME NEW X, NEW s \in Seq(X), NEW c, NEW k \in 1 .. Len(Ends(s, c))
    PROVE  LET e == Ends(s, c)
               p == PieceOf(e, s, k)
               t == StretchOf(e, s, k)
           IN  /\ Equals(p) > 0 => t \in Stretches(s, c) /\ Pair(p) = PairIn(s, t)
               /\ \A u \in Stretches(s, c) :
                     u[1] = Begin(e, k) /\ e[k] = u[3] + 1 => Equals(p) > 0 /\ t = u
<1> DEFINE e == Ends(s, c)
           p == PieceOf(e, s, k)
           t == StretchOf(e, s, k)
           n == Len(s)
           b == Begin(e, k)
           q == Equals(p)
           d == e[k] - 1
           St(a, m, z) == /\ a \in 1 .. n /\ m \in 1 .. n /\ z \in 1 .. n
                          /\ a <= m /\ m <= z
                          /\ s[m] = "=" /\ \A i \in a .. m - 1 : s[i] # "="
                          /\ \A i \in a .. z : s[i] # c
                          /\ a = 1 \/ s[a - 1] = c
                          /\ z = n \/ s[z + 1] = c
<1>0. \A a, m, z : <<a, m, z>> \in Stretches(s, c) <=> St(a, m, z)
  BY DEF Stretches
<1>z. \A u \in Stretches(s, c) : u = <<u[1], u[2], u[3]>>
  BY DEF Stretches
<1>1. Cuts(e, s, c) BY EndsCut
<1>2. n \in Nat BY LenProperties
<1>3. /\ b \in 1 .. n + 1 /\ e[k] \in b .. n + 1 /\ (b = 1 \/ s[b - 1] = c)
      /\ (e[k] <= n => s[e[k]] = c) /\ (\A i \in b .. e[k] - 1 : s[i] # c)
  BY <1>1 DEF Cuts
<1>4. p \in Seq(X) /\ Len(p) = e[k] - b /\ \A j \in 1 .. e[k] - b : p[j] = s[b + j - 1]
  BY SplitIs
<1> HIDE DEF e, p
<1>5. /\ q \in 0 .. Len(p) /\ (q > 0 => p[q] = "=" /\ \A j \in 1 .. q - 1 : p[j] # "=")
      /\ \A j \in 1 .. Len(p) : p[j] = "=" => q > 0
  BY <1>4, EqualsIs
<1>6. t = <<b, b + q - 1, d>> BY DEF StretchOf, p
<1> HIDE DEF q, b, t, n
<1>7. ASSUME q > 0 PROVE t \in Stretches(s, c) /\ Pair(p) = PairIn(s, t)
  <2> DEFINE m == b + q - 1
  <2> DEFINE y == e[k]
  <2>a. n \in Nat /\ b \in 1 .. n + 1 /\ y \in b .. n + 1 /\ q \in 0 .. y - b /\ q > 0 /\ d = y - 1
    <3>1. q \in 0 .. Len(p) /\ Len(p) = e[k] - b BY <1>4, <1>5
    <3> QED BY <1>2, <1>3, <1>7, <3>1
  <2>b. m = b + q - 1 OBVIOUS
  <2> HIDE DEF y, d, m
  <2>c. q \in 1 .. y - b /\ b \in 1 .. n BY <2>a
  <2>d. d \in 1 .. n /\ m \in 1 .. n /\ b <= m /\ m <= d BY <2>a, <2>b
  <2>e. ASSUME NEW i \in b .. m - 1
        PROVE  i - b + 1 \in 1 .. q - 1 /\ i - b + 1 \in 1 .. y - b /\ b + (i - b + 1) - 1 = i
    BY <2>a, <2>b
  <2>f. (d = n \/ d + 1 <= n) /\ d + 1 = y BY <2>a
  <2>1. /\ q \in 1 .. e[k] - b /\ b \in 1 .. n /\ d \in 1 .. n /\ m \in 1 .. n /\ b <= m /\ m <= d
        /\ (\A i \in b .. m - 1 : i - b + 1 \in 1 .. q - 1 /\ i - b + 1 \in 1 .. e[k] - b /\ b + (i - b + 1) - 1 = i)
        /\ (d = n \/ d + 1 <= n) /\ d + 1 = e[k]
    BY <2>c, <2>d, <2>e, <2>f DEF y
  <2>2. s[m] = "=" BY <1>4, <1>5, <1>7, <2>1 DEF m
  <2>3. \A i \in b .. m - 1 : s[i] # "="
    <3> TAKE i \in b .. m - 1
    <3> DEFINE j == i - b + 1
    <3>1. j \in 1 .. q - 1 /\ j \in 1 .. e[k] - b /\ b + j - 1 = i BY <2>1
    <3> HIDE DEF j
    <3> QED BY <1>4, <1>5, <1>7, <3>1
  <2>4. d = n \/ s[d + 1] = c BY <1>3, <2>1
  <2> HIDE DEF d, m
  <2>5. \A i \in b .. d : s[i] # c BY <1>3 DEF d
  <2>6. St(b, m, d) BY <1>3, <2>1, <2>2, <2>3, <2>4, <2>5
  <2>7. t = <<b, m, d>> BY <1>6 DEF m
  <2>8. t \in Stretches(s, c)
    <3> HIDE DEF St
    <3> QED BY <1>0, <2>6, <2>7
  <2>9. t[1] = b /\ t[2] = m /\ t[3] = d BY <2>7
  <2>10. p = SubSeq(s, b, d) BY DEF p, PieceOf, b, d
  <2>11. b \in 1 .. Len(s) + 1 /\ d \in b - 1 .. Len(s)
    <3>1. b \in 1 .. n + 1 /\ d \in b - 1 .. n BY <1>2, <2>1
    <3> QED BY <3>1 DEF n
  <2> DEFINE l == Len(p)
             q1 == q - 1
             q2 == q + 1
  <2>12. /\ 1 \in 1 .. d - b + 2 /\ q1 \in 1 - 1 .. d - b + 1 /\ b + 1 - 1 = b /\ b + q1 - 1 = m - 1
         /\ q2 \in 1 .. d - b + 2 /\ l \in q2 - 1 .. d - b + 1 /\ b + q2 - 1 = m + 1 /\ b + l - 1 = d
    <3>1. l = y - b /\ q1 = q - 1 /\ q2 = q + 1 BY <1>4 DEF y
    <3> HIDE DEF l, q1, q2
    <3>2. 1 \in 1 .. d - b + 2 /\ q1 \in 1 - 1 .. d - b + 1 /\ b + 1 - 1 = b /\ b + q1 - 1 = m - 1
      BY <2>a, <2>b, <3>1
    <3>3. q2 \in 1 .. d - b + 2 /\ l \in q2 - 1 .. d - b + 1 /\ b + q2 - 1 = m + 1 /\ b + l - 1 = d
      BY <2>a, <2>b, <3>1
    <3> QED BY <3>2, <3>3
  <2> HIDE DEF l, q1, q2
  <2>13. SubSeq(SubSeq(s, b, d), 1, q1) = SubSeq(s, b + 1 - 1, b + q1 - 1)
    BY <2>11, <2>12, SliceOfSlice
  <2>14. SubSeq(SubSeq(s, b, d), q2, l) = SubSeq(s, b + q2 - 1, b + l - 1)
    BY <2>11, <2>12, SliceOfSlice
  <2>15. SubSeq(p, 1, q1) = SubSeq(s, b, m - 1) /\ SubSeq(p, q2, l) = SubSeq(s, m + 1, d)
    BY <2>10, <2>12, <2>13, <2>14
  <2>16. Pair(p) = [name |-> SubSeq(p, 1, q1), value |-> SubSeq(p, q2, l)]
    BY DEF Pair, q, q1, q2, l
  <2>17. PairIn(s, t) = [name |-> SubSeq(s, b, m - 1), value |-> SubSeq(s, m + 1, d)]
    BY <2>9 DEF PairIn
  <2> QED BY <2>8, <2>15, <2>16, <2>17
<1>8. ASSUME NEW u \in Stretches(s, c), u[1] = b, e[k] = u[3] + 1 PROVE q > 0 /\ t = u
  <2>1. PICK m, z : u = <<b, m, z>> /\ e[k] = z + 1 BY <1>8, <1>z
  <2>2. St(b, m, z)
    <3> HIDE DEF St
    <3> QED BY <1>0, <2>1
  <2> DEFINE j == m - b + 1
  <2>3. j \in 1 .. e[k] - b /\ b + j - 1 = m /\ d = z BY <1>2, <1>3, <2>1, <2>2
  <2>4. p[j] = "=" /\ j \in 1 .. Len(p)
    <3> HIDE DEF j
    <3>1. p[j] = s[b + j - 1] BY <1>4, <2>3
    <3> QED BY <1>4, <2>2, <2>3, <3>1
  <2> HIDE DEF j
  <2>5. q > 0 BY <1>5, <2>4
  <2>6. q <= j
    <3> SUFFICES ASSUME ~(q <= j) PROVE FALSE OBVIOUS
    <3>1. j \in 1 .. q - 1 BY <1>4, <1>5, <2>3, <2>4
    <3> QED BY <1>5, <2>4, <2>5, <3>1
  <2>7. ~(q < j)
    <3> SUFFICES ASSUME q < j PROVE FALSE OBVIOUS
    <3> DEFINE i == b + q - 1
    <3>1. i \in b .. m - 1 /\ q \in 1 .. e[k] - b BY <1>2, <1>3, <1>4, <1>5, <2>3, <2>5 DEF j
    <3>2. s[i] = "=" BY <1>4, <1>5, <2>5, <3>1
    <3> HIDE DEF i
    <3> QED BY <2>2, <3>1, <3>2
  <2>8. q = j BY <1>4, <1>5, <2>3, <2>6, <2>7
  <2> QED BY <1>6, <2>1, <2>3, <2>5, <2>8
<1> QED BY <1>7, <1>8 DEF e, p, b, q, t

(* pp are the pairs at the stretches, from the first to the last.           *)
Finds(pp, l, at, s, c) ==
    /\ pp = [k \in 1 .. l |-> PairIn(s, at[k])]
    /\ \A j, k \in 1 .. l : j < k => at[j][3] < at[k][1]
    /\ \A t \in Stretches(s, c) : \E k \in 1 .. l : at[k] = t

LEMMA PairsAre ==
    ASSUME NEW X, NEW s \in Seq(X), NEW c
    PROVE  \E l \in Nat : \E at \in [1 .. l -> Stretches(s, c)] :
              Finds(Pairs(s, c), l, at, s, c)
<1> DEFINE e == Ends(s, c)
           m == Len(e)
           p(k) == PieceOf(e, s, k)
           t(k) == StretchOf(e, s, k)
           F == {k \in 1 .. m : Equals(p(k)) > 0}
           found == Ascending(F, m)
           l == Len(found)
           at == [k \in 1 .. l |-> t(found[k])]
           St == Stretches(s, c)
<1>1. m \in Nat /\ Split(s, c) = [k \in 1 .. m |-> p(k)] /\ Len(Split(s, c)) = m
  BY SplitIs
<1>2. Cuts(e, s, c) BY EndsCut
<1>3. \A k \in 1 .. m :
         /\ Equals(p(k)) > 0 => t(k) \in St /\ Pair(p(k)) = PairIn(s, t(k))
         /\ \A u \in St : u[1] = Begin(e, k) /\ e[k] = u[3] + 1 => Equals(p(k)) > 0 /\ t(k) = u
  BY PieceIsStretch
<1>4. \A k : t(k)[1] = Begin(e, k) /\ t(k)[3] = e[k] - 1 BY DEF StretchOf
<1>5. \A u \in St : /\ u[1] \in 1 .. Len(s) /\ u[3] \in 1 .. Len(s) /\ u[1] <= u[3]
                    /\ (\A i \in u[1] .. u[3] : s[i] # c)
                    /\ (u[1] = 1 \/ s[u[1] - 1] = c) /\ (u[3] = Len(s) \/ s[u[3] + 1] = c)
  <2> TAKE u \in St
  <2>1. Len(s) \in Nat BY LenProperties
  <2>2. /\ u[1] \in 1 .. Len(s) /\ u[2] \in 1 .. Len(s) /\ u[3] \in 1 .. Len(s) /\ u[1] <= u[2] /\ u[2] <= u[3]
        /\ (\A i \in u[1] .. u[3] : s[i] # c)
        /\ (u[1] = 1 \/ s[u[1] - 1] = c) /\ (u[3] = Len(s) \/ s[u[3] + 1] = c)
    BY DEF Stretches
  <2> QED BY <2>1, <2>2
<1> HIDE DEF e, p, t
<1>6. Pairs(s, c) = [k \in DOMAIN found |-> Pair(p(found[k]))]
  <2> DEFINE pc == Split(s, c)
             fo == Ascending({k \in DOMAIN pc : Equals(pc[k]) > 0}, Len(pc))
  <2>1. DOMAIN pc = 1 .. m /\ Len(pc) = m /\ \A k \in 1 .. m : pc[k] = p(k) BY <1>1
  <2>2. Pairs(s, c) = [k \in DOMAIN fo |-> Pair(pc[fo[k]])] BY DEF Pairs
  <2> HIDE DEF pc
  <2>3. fo = found BY <2>1
  <2>4. \A k \in DOMAIN found : found[k] \in 1 .. m
    <3>1. Lists(found, F)
      <4>1. F \in SUBSET (1 .. m) OBVIOUS
      <4> HIDE DEF F, m
      <4> QED BY <1>1, <4>1, AscendingLists
    <3>2. DOMAIN found = 1 .. Len(found) BY <3>1, LenProperties DEF Lists
    <3>3. \A k \in DOMAIN found : found[k] \in F BY <3>1, <3>2 DEF Lists
    <3> QED BY <3>3
  <2> HIDE DEF fo, found, F
  <2> QED BY <2>1, <2>2, <2>3, <2>4
<1>7. /\ l \in Nat /\ DOMAIN found = 1 .. l /\ (\A k \in 1 .. l : found[k] \in F)
      /\ (\A j, k \in 1 .. l : j < k => found[j] < found[k])
      /\ \A x \in F : \E k \in 1 .. l : found[k] = x
  <2>1. F \in SUBSET (1 .. m) OBVIOUS
  <2> HIDE DEF F, m
  <2>2. Lists(found, F) BY <1>1, <2>1, AscendingLists
  <2> QED BY <2>2, LenProperties DEF Lists
<1>8. \A k \in 1 .. l : found[k] \in 1 .. m /\ Equals(p(found[k])) > 0 BY <1>7
<1>f. \A x \in 1 .. m : Equals(p(x)) > 0 => x \in F OBVIOUS
<1> HIDE DEF found, l, F, m, St
<1>9. at \in [1 .. l -> St] BY <1>3, <1>8
<1>10. Pairs(s, c) = [k \in 1 .. l |-> PairIn(s, at[k])]
  <2>1. \A k \in 1 .. l : at[k] = t(found[k]) OBVIOUS
  <2> HIDE DEF at
  <2>2. \A k \in 1 .. l : Pair(p(found[k])) = PairIn(s, at[k]) BY <1>3, <1>8, <2>1
  <2> QED BY <1>6, <1>7, <2>2
<1>11. ASSUME NEW j \in 1 .. l, NEW k \in 1 .. l, j < k PROVE at[j][3] < at[k][1]
  <2>1. at[j] = t(found[j]) /\ at[k] = t(found[k]) OBVIOUS
  <2>2. e[found[j]] < Begin(e, found[k])
    <3>1. found[j] \in 1 .. Len(e) /\ found[k] \in 1 .. Len(e) /\ found[j] < found[k] BY <1>7, <1>8, <1>11 DEF m
    <3> QED BY <1>2, <3>1 DEF Cuts
  <2> HIDE DEF at
  <2>3. at[j][3] = e[found[j]] - 1 /\ at[k][1] = Begin(e, found[k]) BY <1>4, <2>1
  <2>4. e[found[j]] \in Int /\ Begin(e, found[k]) \in Int
    <3>1. found[j] \in 1 .. Len(e) /\ found[k] \in 1 .. Len(e) BY <1>8 DEF m
    <3>2. e[found[j]] \in Begin(e, found[j]) .. Len(s) + 1 /\ Begin(e, found[k]) \in 1 .. Len(s) + 1
          /\ Begin(e, found[j]) \in 1 .. Len(s) + 1
      BY <1>2, <3>1 DEF Cuts
    <3>3. Len(s) \in Nat BY LenProperties
    <3> QED BY <3>2, <3>3
  <2> QED BY <2>2, <2>3, <2>4
<1>12. ASSUME NEW u \in St PROVE \E k \in 1 .. l : at[k] = u
  <2>1. \E k \in 1 .. Len(e) : Begin(e, k) = u[1] /\ e[k] = u[3] + 1
    <3> DEFINE a == u[1]
               b == u[3]
    <3>1. /\ a \in 1 .. Len(s) /\ b \in 1 .. Len(s) /\ a <= b /\ (\A i \in a .. b : s[i] # c)
          /\ (a = 1 \/ s[a - 1] = c) /\ (b = Len(s) \/ s[b + 1] = c)
      BY <1>5
    <3> HIDE DEF a, b
    <3>2. \E k \in 1 .. Len(e) : Begin(e, k) = a /\ e[k] = b + 1 BY <1>2, <3>1 DEF Cuts
    <3> QED BY <3>2 DEF a, b
  <2>2. PICK k \in 1 .. m : Begin(e, k) = u[1] /\ e[k] = u[3] + 1 BY <2>1 DEF m
  <2>3. Equals(p(k)) > 0 /\ t(k) = u BY <1>3, <2>2
  <2>4. PICK j \in 1 .. l : found[j] = k BY <1>7, <1>f, <2>3
  <2>5. at[j] = u BY <2>3, <2>4
  <2> QED BY <2>5
<1> QED BY <1>7, <1>9, <1>10, <1>11, <1>12 DEF Finds, St

(* A map from pairs: the last pair of a name decides.                       *)
LEMMA AsMapIs ==
    ASSUME NEW l \in Nat, NEW pp, Len(pp) = l
    PROVE  LET map == AsMap(pp)
               N(j) == Trim2(pp[j].name)
           IN  /\ DOMAIN map = {N(j) : j \in 1 .. l}
               /\ \A j \in 1 .. l : (\A i \in 1 .. l : N(i) = N(j) => i <= j)
                                       => map[N(j)] = Trim2(pp[j].value)
<1> DEFINE N(j) == Trim2(pp[j].name)
           W(j) == Trim2(pp[j].value)
           NN == {N(j) : j \in 1 .. l}
           WW == {W(j) : j \in 1 .. l}
           V == UNION {[D -> WW] : D \in SUBSET NN}
           P(v, k) == [x \in DOMAIN v \cup {N(k)} |-> IF x = N(k) THEN W(k) ELSE v[x]]
           h == [k \in 1 .. l |-> [v \in V |-> P(v, k)]]
           F(f) == [k \in 0 .. l |-> IF k = 0 THEN <<>> ELSE P(f[k - 1], k)]
           u == CHOOSE f : f = F(f)
<1>1. AsMap(pp) = u[l] BY DEF AsMap
<1>2. <<>> \in V /\ DOMAIN <<>> = {}
  <2>1. <<>> \in [{} -> WW] OBVIOUS
  <2> HIDE DEF WW, NN
  <2> QED BY <2>1
<1>n. \A k \in 1 .. l : N(k) \in NN /\ W(k) \in WW OBVIOUS
<1> HIDE DEF N, W, NN, WW
<1>3. ASSUME NEW v \in V, NEW k \in 1 .. l PROVE P(v, k) \in V
  <2>1. PICK D \in SUBSET NN : v \in [D -> WW] OBVIOUS
  <2>2. P(v, k) \in [D \cup {N(k)} -> WW] /\ D \cup {N(k)} \in SUBSET NN BY <1>n, <2>1
  <2> HIDE DEF P
  <2> QED BY <2>2
<1>d. \A v, k : DOMAIN P(v, k) = DOMAIN v \cup {N(k)} OBVIOUS
<1>e. \A v, k : P(v, k)[N(k)] = W(k) /\ \A x \in DOMAIN v : x # N(k) => P(v, k)[x] = v[x] OBVIOUS
<1> HIDE DEF P, V
<1>4. h \in [1 .. l -> [V -> V]] /\ \A k \in 1 .. l, v \in V : h[k][v] = P(v, k) BY <1>3
<1> HIDE DEF h
<1>5. PICK f \in [0 .. l -> V] : Computes(f, l, <<>>, h)
  BY <1>2, <1>4, Recursion
<1>6. f = F(f)
  <2>1. \A k \in 0 .. l : k = 0 \/ (k \in 1 .. l /\ k - 1 \in 0 .. l) OBVIOUS
  <2>2. ASSUME NEW k \in 0 .. l PROVE f[k] = IF k = 0 THEN <<>> ELSE P(f[k - 1], k)
    BY <1>4, <1>5, <2>1 DEF Computes
  <2> QED BY <2>2
<1>7. u = F(u) BY <1>6
<1> HIDE DEF u
<1>8. u[0] = <<>> /\ \A k \in 1 .. l : u[k] = P(u[k - 1], k)
  <2>1. \A k \in 0 .. l : u[k] = IF k = 0 THEN <<>> ELSE P(u[k - 1], k) BY <1>7
  <2>2. 0 \in 0 .. l /\ \A k \in 1 .. l : k \in 0 .. l /\ k # 0 OBVIOUS
  <2> QED BY <2>1, <2>2
<1> DEFINE Good(k) == /\ DOMAIN u[k] = {N(j) : j \in 1 .. k}
                      /\ \A j \in 1 .. k : (\A i \in 1 .. k : N(i) = N(j) => i <= j)
                                             => u[k][N(j)] = W(j)
           T == {k \in 0 .. l : Good(k)}
<1>9. 0 \in T
  <2>1. 0 \in 0 .. l /\ 1 .. 0 = {} OBVIOUS
  <2> QED BY <1>2, <1>8, <2>1
<1>10. ASSUME NEW k \in 1 .. l, k - 1 \in T PROVE k \in T
  <2>1. Good(k - 1) /\ u[k] = P(u[k - 1], k) BY <1>8, <1>10
  <2>2. k \in 1 .. k /\ (\A j \in 1 .. k : j = k \/ j \in 1 .. k - 1) /\ (\A j \in 1 .. k - 1 : j \in 1 .. k /\ j < k)
    OBVIOUS
  <2>3. DOMAIN u[k] = {N(j) : j \in 1 .. k}
    <3>1. DOMAIN u[k] = DOMAIN u[k - 1] \cup {N(k)} BY <1>d, <2>1
    <3>2. {N(j) : j \in 1 .. k} = {N(j) : j \in 1 .. k - 1} \cup {N(k)} BY <2>2
    <3> QED BY <2>1, <3>1, <3>2
  <2>4. ASSUME NEW j \in 1 .. k, \A i \in 1 .. k : N(i) = N(j) => i <= j PROVE u[k][N(j)] = W(j)
    <3>1. CASE j = k BY <1>e, <2>1, <3>1
    <3>2. CASE j # k
      <4>1. j \in 1 .. k - 1 /\ ~(k <= j) BY <2>2, <3>2
      <4>2. N(k) # N(j) BY <2>2, <2>4, <4>1
      <4>3. u[k - 1][N(j)] = W(j) /\ N(j) \in DOMAIN u[k - 1] BY <2>1, <2>2, <2>4, <4>1
      <4> QED BY <1>e, <2>1, <4>2, <4>3
    <3> QED BY <3>1, <3>2
  <2>5. Good(k) BY <2>3, <2>4
  <2> HIDE DEF Good
  <2> QED BY <2>5
<1>11. \A k \in 0 .. l : k \in T
  <2> HIDE DEF T
  <2> QED BY <1>9, <1>10, Climb
<1>12. Good(l)
  <2>1. l \in 0 .. l OBVIOUS
  <2> HIDE DEF Good
  <2> QED BY <1>11, <2>1
<1> QED BY <1>1, <1>12 DEF N, W

LEMMA PairsHeld ==
    ASSUME NEW X, NEW s \in Seq(X), NEW c
    PROVE  /\ HoldsPairs(Pairs(s, c), s, c)
           /\ HoldsLast(AsMap(Pairs(s, c)), s, c)
<1> DEFINE pp == Pairs(s, c)
           St == Stretches(s, c)
           map == AsMap(pp)
           N(j) == Trim2(pp[j].name)
<1>1. PICK l \in Nat : \E at \in [1 .. l -> St] : Finds(pp, l, at, s, c)
  <2> HIDE DEF pp, St
  <2> QED BY PairsAre DEF pp, St
<1>2. PICK at \in [1 .. l -> St] : Finds(pp, l, at, s, c) BY <1>1
<1> HIDE DEF pp
<1>3. /\ DOMAIN pp = 1 .. l /\ (\A k \in 1 .. l : pp[k] = PairIn(s, at[k]))
      /\ (\A j, k \in 1 .. l : j < k => at[j][3] < at[k][1])
      /\ \A t \in St : \E k \in 1 .. l : at[k] = t
  BY <1>2 DEF Finds
<1>4. Len(pp) = l
  <2>1. pp = [k \in 1 .. l |-> PairIn(s, at[k])] BY <1>2 DEF Finds
  <2> DEFINE R == {PairIn(s, at[k]) : k \in 1 .. l}
  <2>2. pp \in [1 .. l -> R] BY <2>1
  <2> HIDE DEF R
  <2>3. pp \in Seq(R) BY <2>2, SeqDef
  <2> QED BY <1>3, <2>3, LenProperties
<1>5. HoldsPairs(pp, s, c)
  <2> HIDE DEF St
  <2>1. \E a \in [DOMAIN pp -> St] :
           /\ \A k \in DOMAIN pp : pp[k] = PairIn(s, a[k])
           /\ \A j, k \in DOMAIN pp : j < k => a[j][3] < a[k][1]
           /\ \A t \in St : \E k \in DOMAIN pp : a[k] = t
    <3>1. at \in [DOMAIN pp -> St] BY <1>3
    <3>2. /\ \A k \in DOMAIN pp : pp[k] = PairIn(s, at[k])
          /\ \A j, k \in DOMAIN pp : j < k => at[j][3] < at[k][1]
          /\ \A t \in St : \E k \in DOMAIN pp : at[k] = t
      BY <1>3
    <3> QED BY <3>1, <3>2
  <2> QED BY <2>1 DEF HoldsPairs, St
<1>6. \A k \in 1 .. l : at[k] \in St /\ at[k][1] \in Int /\ at[k][3] \in Int /\ at[k][1] <= at[k][3]
  <2> TAKE k \in 1 .. l
  <2>1. at[k] \in St OBVIOUS
  <2>2. \A u \in St : /\ u[1] \in 1 .. Len(s) /\ u[2] \in 1 .. Len(s) /\ u[3] \in 1 .. Len(s)
                      /\ u[1] <= u[2] /\ u[2] <= u[3]
    BY DEF Stretches
  <2> HIDE DEF St
  <2>3. \A a, b, d \in 1 .. Len(s) : a <= b /\ b <= d => a \in Int /\ d \in Int /\ a <= d
    <3>1. Len(s) \in Nat BY LenProperties
    <3> QED BY <3>1
  <2> QED BY <2>1, <2>2, <2>3
<1>7. /\ DOMAIN map = {N(j) : j \in 1 .. l}
      /\ \A j \in 1 .. l : (\A i \in 1 .. l : N(i) = N(j) => i <= j)
                              => map[N(j)] = Trim2(pp[j].value)
  BY <1>4, AsMapIs
<1>8. \A j \in 1 .. l : /\ N(j) = NameIn(s, at[j])
                        /\ Trim2(pp[j].value) = ValueIn(s, at[j])
  BY <1>3 DEF NameIn, ValueIn
<1> HIDE DEF N, map, St
<1>9. DOMAIN map = {NameIn(s, t) : t \in St} BY <1>3, <1>6, <1>7, <1>8
<1>10. ASSUME NEW t \in St, \A u \in St : NameIn(s, u) = NameIn(s, t) => u[1] <= t[1]
       PROVE  map[NameIn(s, t)] = ValueIn(s, t)
  <2>1. PICK j \in 1 .. l : at[j] = t BY <1>3
  <2>2. ASSUME NEW i \in 1 .. l, N(i) = N(j) PROVE i <= j
    <3>1. at[i][1] <= at[j][1] BY <1>6, <1>8, <1>10, <2>1, <2>2
    <3>2. j < i => at[j][3] < at[i][1] BY <1>3
    <3>3. ~(j < i) BY <1>6, <3>1, <3>2
    <3> QED BY <3>3
  <2> QED BY <1>7, <1>8, <2>1, <2>2
<1>11. HoldsLast(map, s, c) BY <1>9, <1>10 DEF HoldsLast, St
<1> QED BY <1>5, <1>11 DEF map, pp

(* The part behind the last question mark.                                  *)
LEMMA QueryType ==
    ASSUME NEW X, NEW s \in Seq(X)
    PROVE  Query(s) \in Seq(X)
<1> DEFINE n == Len(s)
           U == {i \in 1 .. n : s[i] = "?"}
           q == IF U # {} THEN Max(U) ELSE 0
<1>1. n \in Nat BY LenProperties
<1>2. Query(s) = SubSeq(s, q + 1, n)
  BY DEF Query, SelectLastInSeq, Max
<1>3. U \in SUBSET (0 .. n) /\ U \in SUBSET (1 .. n) BY <1>1
<1> HIDE DEF U, n
<1>4. q \in 0 .. n
  <2>1. U # {} => Max(U) \in U BY <1>1, <1>3, MaxFacts
  <2>2. U # {} => Max(U) \in 0 .. n BY <1>3, <2>1
  <2> QED BY <1>1, <2>2
<1> HIDE DEF q
<1>5. q + 1 \in 1 .. n + 1 /\ n \in (q + 1) - 1 .. n BY <1>1, <1>4
<1>6. q + 1 \in 1 .. Len(s) + 1 /\ n \in (q + 1) - 1 .. Len(s) BY <1>5 DEF n
<1> QED BY <1>2, <1>6, Slice

LEMMA PairsAlways ==
    ASSUME NEW X, NEW s \in Seq(X)
    PROVE  PairsFound(s)
<1>1. Query(s) \in Seq(X) BY QueryType
<1> QED BY <1>1, PairsHeld
  DEF PairsFound, ParameterMap, UploadMap, ParameterVect

LEMMA FormAlways ==
    ASSUME NEW X, NEW parts \in Seq(X), \A p \in X : InputLengths(p)
    PROVE  FormFound(parts)
<1> DEFINE n == Len(parts)
           v == FormVect(parts)
           P(k) == PartParameter(parts[k])
<1>1. n \in Nat /\ DOMAIN parts = 1 .. n /\ \A k \in 1 .. n : parts[k] \in X BY LenProperties, ElementOfSeq
<1>2. v = [k \in 1 .. n |-> P(k)] BY <1>1 DEF FormVect
<1>3. Len(v) = n
  <2> DEFINE R == {P(k) : k \in 1 .. n}
  <2> HIDE DEF v, n
  <2>2. v \in [1 .. n -> R] BY <1>2
  <2> HIDE DEF R
  <2>3. v \in Seq(R) BY <1>1, <2>2, SeqDef
  <2> QED BY <1>1, <2>2, <2>3, LenProperties
<1>4. ASSUME NEW k \in 1 .. n
      PROVE  /\ parts[k].file = NoFile =>
                   v[k] = [name |-> parts[k].name, value |-> parts[k].lines[1]]
             /\ parts[k].file # NoFile /\ parts[k].name \in {"files[]", "filedata"} =>
                   v[k] = [name |-> "filename", value |-> parts[k].file]
  <2>1. v[k] = PartParameter(parts[k]) BY <1>2
  <2>2. InputLengths(parts[k]) BY <1>1
  <2> DEFINE p == parts[k]
  <2> HIDE DEF p, v
  <2>3. p.name = "files[]" => 8 \in p.length + 1 .. p.length + 3
    BY <2>2 DEF InputLengths, p
  <2>4. p.name = "filedata" => 9 \in p.length + 1 .. p.length + 3
    BY <2>2 DEF InputLengths, p
  <2>5. v[k] = PartParameter(p) BY <2>1 DEF p
  <2>6. p.name \in {"files[]", "filedata"} => SearchFrom(p) \in p.length + 1 .. p.length + 3
    BY <2>3, <2>4 DEF SearchFrom
  <2> QED BY <2>5, <2>6 DEF PartParameter, FileSeen, p
<1> QED BY <1>1, <1>3, <1>4 DEF FormFound

(* Cookies, queries and forms of every length, over every alphabet: the     *)
(* parameters that stand in a request are those that getParameterMap,       *)
(* getUplodParameterMap, getParameterVect and getUplodParameterVect return. *)
THEOREM ParametersAlwaysFound == Spec => []ParametersFound
<1>1. SymbolInv => ParametersFound
  <2> SUFFICES ASSUME SymbolInv PROVE ParametersFound OBVIOUS
  <2>1. ASSUME part = "pairs" PROVE PairsFound(text)
    <3>1. text \in Seq(Symbols["pairs"]) BY <2>1 DEF SymbolInv, TextParts
    <3> QED BY <3>1, PairsAlways
  <2>2. ASSUME part = "form" PROVE FormFound(text)
    <3>1. text \in Seq(Symbols["form"]) BY <2>2 DEF SymbolInv, TextParts
    <3>2. \A p \in Symbols["form"] : InputLengths(p) BY HelpersAssumption DEF HelpersAssumption
    <3> QED BY <3>1, <3>2, FormAlways
  <2> QED BY <2>1, <2>2 DEF ParametersFound
<1> QED BY <1>1, InitSymbols, NextSymbols, PTL DEF Spec

-----------------------------------------------------------------------------
(***************************************************************************)
(* Words: the chunks of segment, and the first word of the best.            *)
(***************************************************************************)

LEMMA SegmentsSame ==
    \A s : Segmenter!SumOf(s) = SumOf(s)
BY DEF Segmenter!SumOf, SumOf

LEMMA NatsAreInts == \A s \in Seq(Nat) : s \in Seq(Int)
<1> TAKE s \in Seq(Nat)
<1>1. Len(s) \in Nat /\ s \in [1 .. Len(s) -> Nat] BY LenProperties
<1>2. s \in [1 .. Len(s) -> Int] BY <1>1
<1> QED BY <1>1, <1>2, SeqDef

LEMMA SumNat ==
    ASSUME NEW s \in Seq(Nat)
    PROVE  SumOf(s) \in Nat
<1> DEFINE n == Len(s)
<1>1. n \in Nat /\ s \in Seq(Int) /\ \A k \in 1 .. n : s[k] \in Nat BY NatsAreInts, LenProperties, ElementOfSeq
<1>2. PICK f \in [0 .. n -> Int] :
         /\ f[0] = 0 /\ \A k \in 1 .. n : f[k] = f[k - 1] + s[k]
         /\ SumOf(s) = f[n]
  BY <1>1, SumIs
<1> DEFINE T == {k \in 0 .. n : f[k] \in Nat}
<1> HIDE DEF n
<1>3. 0 \in T BY <1>1, <1>2
<1>4. ASSUME NEW k \in 1 .. n, k - 1 \in T PROVE k \in T
  <2>1. f[k - 1] \in Nat /\ s[k] \in Nat /\ f[k] = f[k - 1] + s[k] BY <1>1, <1>2, <1>4
  <2> QED BY <2>1, <1>1
<1>5. \A k \in 0 .. n : k \in T
  <2> HIDE DEF T
  <2> QED BY <1>1, <1>3, <1>4, Climb
<1>6. n \in 0 .. n BY <1>1
<1> QED BY <1>2, <1>5, <1>6

LEMMA Whole ==
    ASSUME NEW X, NEW s \in Seq(X)
    PROVE  SubSeq(s, 1, Len(s)) = s
<1> DEFINE n == Len(s)
           t == SubSeq(s, 1, n)
<1>1. n \in Nat BY LenProperties
<1>2. 1 \in 1 .. Len(s) + 1 /\ n \in 1 - 1 .. Len(s) BY <1>1
<1>3. t \in Seq(X) /\ Len(t) = n - 1 + 1 /\ \A j \in 1 .. n - 1 + 1 : t[j] = s[1 + j - 1] BY <1>2, Slice
<1> HIDE DEF t, n
<1>4. n - 1 + 1 = n /\ \A j \in 1 .. n : 1 + j - 1 = j BY <1>1
<1>5. Len(t) = n /\ \A j \in 1 .. n : t[j] = s[j] BY <1>3, <1>4
<1>6. Len(s) = n BY DEF n
<1>7. t = s BY <1>3, <1>5, <1>6, SeqEqual
<1> QED BY <1>7 DEF t, n

(* The words of a chunk from position at, and the positions between them.   *)
Walk(c, p, at) ==
    /\ c \in Seq(Nat) /\ p \in [0 .. Len(c) -> Nat] /\ p[0] = at
    /\ \A i \in 1 .. Len(c) :
          /\ p[i - 1] < Len(text) /\ c[i] \in Segmenter!Matches(p[i - 1]) \cup {1}
          /\ p[i] = p[i - 1] + c[i]

LEMMA WordLength ==
    ASSUME text \in Seq(STRING), NEW at \in Nat, at < Len(text), NEW n \in Segmenter!Matches(at) \cup {1}
    PROVE  n \in Nat /\ n >= 1 /\ at + n <= Len(text)
<1>1. Len(text) \in Nat BY LenProperties
<1>2. n \in 1 .. Len(text) - at \/ n = 1 BY DEF Segmenter!Matches
<1> QED BY <1>1, <1>2

LEMMA WalkFacts ==
    ASSUME text \in Seq(STRING), NEW at \in 0 .. Len(text), NEW c, NEW p, Walk(c, p, at)
    PROVE  /\ Len(c) \in Nat /\ c \in Seq(Nat) /\ \A i \in 1 .. Len(c) : c[i] \in Nat /\ c[i] >= 1
           /\ \A i \in 0 .. Len(c) : p[i] \in Nat /\ p[i] <= Len(text)
                                     /\ at + Segmenter!Total(SubSeq(c, 1, i)) = p[i]
           /\ Segmenter!Total(c) \in Nat /\ at + Segmenter!Total(c) = p[Len(c)]
<1> DEFINE m == Len(c)
           L == Len(text)
           S(i) == SubSeq(c, 1, i)
           T == {i \in 0 .. m : S(i) \in Seq(Nat) /\ p[i] <= L /\ at + SumOf(S(i)) = p[i]}
<1>1. c \in Seq(Nat) /\ m \in Nat /\ L \in Nat /\ c \in Seq(Int) BY NatsAreInts, LenProperties DEF Walk
<1>2. \A i \in 0 .. m : p[i] \in Nat BY DEF Walk
<1>3. \A i \in 1 .. m : /\ p[i - 1] < L /\ c[i] \in Segmenter!Matches(p[i - 1]) \cup {1}
                        /\ p[i] = p[i - 1] + c[i]
  BY DEF Walk
<1>0. p[0] = at /\ at \in Nat /\ at <= L
  <2>1. L \in Nat BY <1>1
  <2> QED BY <2>1 DEF Walk
<1>4. \A i \in 1 .. m : i - 1 \in 0 .. m /\ i \in 0 .. m BY <1>1
<1>5. ASSUME NEW i \in 1 .. m PROVE c[i] \in Nat /\ c[i] >= 1 /\ p[i] <= L
  <2>1. p[i - 1] \in Nat /\ p[i - 1] < Len(text) BY <1>2, <1>3, <1>4
  <2>2. c[i] \in Segmenter!Matches(p[i - 1]) \cup {1} BY <1>3
  <2>3. c[i] \in Nat /\ c[i] >= 1 /\ p[i - 1] + c[i] <= L BY <2>1, <2>2, WordLength
  <2> QED BY <1>3, <2>3
<1>6. 0 \in T
  <2>1. S(0) = <<>>
    <3>1. 1 \in 1 .. Len(c) + 1 /\ 0 \in 1 - 1 .. Len(c) BY <1>1
    <3>2. S(0) \in Seq(Nat) /\ Len(S(0)) = 0 - 1 + 1 BY <1>1, <3>1, Slice
    <3> QED BY <3>2, EmptySeq
  <2>2. S(0) \in Seq(Nat) BY <2>1, EmptySeq
  <2>3. SumOf(S(0)) = 0 BY <2>1, SumEmpty
  <2> HIDE DEF S
  <2>4. 0 \in 0 .. m BY <1>1
  <2>5. p[0] <= L /\ at + SumOf(S(0)) = p[0] BY <1>0, <2>3
  <2> QED BY <2>2, <2>4, <2>5
<1>7. ASSUME NEW k \in 1 .. m, k - 1 \in T PROVE k \in T
  <2>1. S(k) = Append(S(k - 1), c[k]) /\ S(k - 1) \in Seq(Nat) /\ c[k] \in Nat BY <1>1, Grown
  <2>2. S(k) \in Seq(Nat) BY <2>1, AppendProperties
  <2>3. SumOf(S(k)) = SumOf(S(k - 1)) + c[k] /\ SumOf(S(k - 1)) \in Int
    <3>1. S(k - 1) \in Seq(Int) /\ c[k] \in Int BY <2>1, NatsAreInts
    <3> QED BY <2>1, <3>1, SumAppend, SumType
  <2>4. at + SumOf(S(k - 1)) = p[k - 1] /\ p[k] = p[k - 1] + c[k] BY <1>3, <1>7
  <2>5. at + SumOf(S(k)) = p[k]
    <3> HIDE DEF S
    <3> QED BY <1>0, <2>1, <2>3, <2>4
  <2> HIDE DEF S
  <2> QED BY <1>4, <1>5, <2>2, <2>5
<1>8. \A k \in 0 .. m : k \in T
  <2> HIDE DEF T, m
  <2> QED BY <1>1, <1>6, <1>7, Climb
<1>9. \A s : Segmenter!Total(s) = SumOf(s) BY SegmentsSame DEF Segmenter!Total
<1>10. SumOf(c) \in Int /\ S(m) = c BY <1>1, SumType, Whole
<1>11. at + SumOf(c) = p[m]
  <2>1. m \in T
    <3>1. m \in 0 .. m BY <1>1
    <3> HIDE DEF T, m
    <3> QED BY <1>8, <3>1
  <2> QED BY <1>10, <2>1
<1>12. SumOf(c) \in Nat BY <1>1, SumNat
<1> QED BY <1>1, <1>2, <1>5, <1>8, <1>9, <1>11, <1>12

LEMMA DepthType == Depth \in Nat \ {0}
BY HelpersAssumption DEF HelpersAssumption, Segmenter!SegmentAssumption

LEMMA ChunkLevels ==
    ASSUME text \in Seq(STRING), NEW at \in 0 .. Len(text)
    PROVE  \E u : /\ u[0] = {<<>>} /\ Segmenter!Chunks(at) = u[Depth]
                  /\ \A k \in 1 .. Depth : u[k] = UNION {Segmenter!Longer(at, c) : c \in u[k - 1]}
<1> DEFINE n == Depth
           V == SUBSET Seq(Nat)
           G(v) == UNION {Segmenter!Longer(at, c) : c \in v}
           h == [k \in 1 .. n |-> [v \in V |-> G(v)]]
           F(f) == [k \in 0 .. n |-> IF k = 0 THEN {<<>>} ELSE G(f[k - 1])]
           u == CHOOSE f : f = F(f)
<1>1. Segmenter!Chunks(at) = u[n] BY DEF Segmenter!Chunks
<1>2. n \in Nat BY DepthType
<1>3. {<<>>} \in V BY EmptySeq
<1>4. ASSUME NEW c \in Seq(Nat) PROVE Segmenter!Longer(at, c) \subseteq Seq(Nat)
  <2> DEFINE q == at + Segmenter!Total(c)
  <2>1. q \in Int
    <3>1. SumOf(c) \in Int /\ Len(text) \in Nat BY NatsAreInts, SumType, LenProperties
    <3> QED BY <3>1, SegmentsSame DEF Segmenter!Total
  <2>2. ASSUME NEW k \in Segmenter!Matches(q) \cup {1} PROVE Append(c, k) \in Seq(Nat)
    <3> HIDE DEF q
    <3>1. Len(text) \in Nat BY LenProperties
    <3>2. k \in 1 .. Len(text) - q \/ k = 1 BY DEF Segmenter!Matches
    <3>3. k \in Nat BY <2>1, <3>1, <3>2
    <3> QED BY <3>3, AppendProperties
  <2> QED BY <2>2 DEF Segmenter!Longer
<1>5. \A v \in V : G(v) \in V BY <1>4
<1> HIDE DEF V, G, n
<1>6. h \in [1 .. n -> [V -> V]] /\ \A k \in 1 .. n, v \in V : h[k][v] = G(v) BY <1>5
<1> HIDE DEF h
<1>7. PICK f \in [0 .. n -> V] : Computes(f, n, {<<>>}, h) BY <1>2, <1>3, <1>6, Recursion
<1>8. f = F(f)
  <2>1. \A k \in 0 .. n : k = 0 \/ (k \in 1 .. n /\ k - 1 \in 0 .. n) BY <1>2
  <2>2. ASSUME NEW k \in 0 .. n PROVE f[k] = IF k = 0 THEN {<<>>} ELSE G(f[k - 1])
    BY <1>6, <1>7, <2>1 DEF Computes
  <2> QED BY <2>2
<1>9. u = F(u) BY <1>8
<1> HIDE DEF u
<1>10. u[0] = {<<>>} /\ \A k \in 1 .. n : u[k] = G(u[k - 1])
  <2>1. \A k \in 0 .. n : u[k] = IF k = 0 THEN {<<>>} ELSE G(u[k - 1]) BY <1>9
  <2>2. 0 \in 0 .. n /\ \A k \in 1 .. n : k \in 0 .. n /\ k # 0 BY <1>2
  <2> QED BY <2>1, <2>2
<1> QED BY <1>1, <1>10 DEF G, n

(* A chunk has k words, or fewer that come to the end of the text.          *)
Fills(c, k, at) == \E p : Walk(c, p, at) /\ (Len(c) = k \/ (Len(c) <= k /\ p[Len(c)] = Len(text)))

LEMMA WalkOn ==
    ASSUME text \in Seq(STRING), NEW at \in 0 .. Len(text), NEW c, NEW p, Walk(c, p, at),
           p[Len(c)] # Len(text), NEW w \in Segmenter!Matches(p[Len(c)]) \cup {1}
    PROVE  \E q : /\ Walk(Append(c, w), q, at) /\ Len(Append(c, w)) = Len(c) + 1
                  /\ q[Len(c) + 1] = p[Len(c)] + w
<1> DEFINE m == Len(c)
           d == Append(c, w)
           q == [i \in 0 .. m + 1 |-> IF i = m + 1 THEN p[m] + w ELSE p[i]]
<1>1. m \in Nat /\ c \in Seq(Nat) /\ (\A i \in 0 .. m : p[i] \in Nat /\ p[i] <= Len(text)) /\ Len(text) \in Nat
  BY WalkFacts, LenProperties
<1>2. p[m] \in Nat /\ p[m] < Len(text)
  <2>1. m \in 0 .. m BY <1>1
  <2> HIDE DEF m
  <2>2. p[m] \in Nat /\ p[m] <= Len(text) BY <1>1, <2>1
  <2>3. p[m] # Len(text) BY DEF m
  <2> QED BY <1>1, <2>2, <2>3
<1>3. w \in Nat /\ w >= 1 BY <1>2, WordLength
<1>4. d \in Seq(Nat) /\ Len(d) = m + 1 /\ d[m + 1] = w /\ \A i \in 1 .. m : d[i] = c[i]
  BY <1>1, <1>3, AppendProperties
<1>5. p[0] = at /\ \A i \in 1 .. m : p[i - 1] < Len(text) /\ c[i] \in Segmenter!Matches(p[i - 1]) \cup {1}
                                    /\ p[i] = p[i - 1] + c[i]
  BY DEF Walk
<1>w. w \in Segmenter!Matches(p[m]) \cup {1} OBVIOUS
<1> HIDE DEF m, d
<1>6. q \in [0 .. m + 1 -> Nat] /\ q[0] = at /\ (\A i \in 0 .. m : q[i] = p[i]) /\ q[m + 1] = p[m] + w
  <2>1. \A i \in 0 .. m + 1 : i = m + 1 \/ i \in 0 .. m BY <1>1
  <2>2. 0 # m + 1 /\ 0 \in 0 .. m + 1 /\ m + 1 \in 0 .. m + 1 /\ \A i \in 0 .. m : i # m + 1 /\ i \in 0 .. m + 1 BY <1>1
  <2>3. p[m] + w \in Nat BY <1>2, <1>3
  <2> QED BY <1>1, <1>5, <2>1, <2>2, <2>3
<1> HIDE DEF q
<1>7. ASSUME NEW i \in 1 .. m + 1
      PROVE  /\ q[i - 1] < Len(text) /\ d[i] \in Segmenter!Matches(q[i - 1]) \cup {1}
             /\ q[i] = q[i - 1] + d[i]
  <2>1. CASE i \in 1 .. m
    <3>1. i - 1 \in 0 .. m /\ i \in 0 .. m BY <1>1, <2>1
    <3>2. q[i] = p[i] /\ q[i - 1] = p[i - 1] /\ d[i] = c[i] BY <1>4, <1>6, <2>1, <3>1
    <3> QED BY <1>5, <2>1, <3>2
  <2>2. CASE i = m + 1
    <3>1. i - 1 = m /\ m \in 0 .. m BY <1>1, <2>2
    <3>2. q[i] = p[m] + w /\ q[i - 1] = p[m] /\ d[i] = w BY <1>4, <1>6, <2>2, <3>1
    <3> QED BY <1>2, <1>w, <3>2
  <2>3. i \in 1 .. m \/ i = m + 1 BY <1>1
  <2> QED BY <2>1, <2>2, <2>3
<1>8. Walk(d, q, at) BY <1>4, <1>6, <1>7 DEF Walk
<1> QED BY <1>4, <1>6, <1>8 DEF m, d

LEMMA WalkBack ==
    ASSUME text \in Seq(STRING), NEW at \in 0 .. Len(text), NEW d, NEW q, Walk(d, q, at), Len(d) > 0
    PROVE  LET m == Len(d) - 1
               c == SubSeq(d, 1, m)
           IN  /\ d = Append(c, d[m + 1]) /\ Len(c) = m /\ q[m] < Len(text)
               /\ d[m + 1] \in Segmenter!Matches(q[m]) \cup {1}
               /\ Walk(c, [i \in 0 .. m |-> q[i]], at)
<1> DEFINE m == Len(d) - 1
           c == SubSeq(d, 1, m)
           p == [i \in 0 .. m |-> q[i]]
<1>1. Len(d) \in Nat /\ d \in Seq(Nat) /\ Len(text) \in Nat BY WalkFacts, LenProperties
<1>2. m \in Nat /\ m + 1 = Len(d) /\ m + 1 \in 1 .. Len(d) /\ 1 \in 1 .. Len(d) + 1 /\ m \in 1 - 1 .. Len(d)
      /\ m - 1 + 1 = m /\ (\A i \in 1 .. m : 1 + i - 1 = i) /\ (m + 1) - 1 = m
  BY <1>1
<1>3. q \in [0 .. Len(d) -> Nat] /\ q[0] = at
      /\ \A i \in 1 .. Len(d) : /\ q[i - 1] < Len(text) /\ d[i] \in Segmenter!Matches(q[i - 1]) \cup {1}
                                /\ q[i] = q[i - 1] + d[i]
  BY DEF Walk
<1> HIDE DEF m
<1>4. c \in Seq(Nat) /\ Len(c) = m /\ \A i \in 1 .. m : c[i] = d[i]
  <2>1. c \in Seq(Nat) /\ Len(c) = m - 1 + 1 /\ \A j \in 1 .. m - 1 + 1 : c[j] = d[1 + j - 1] BY <1>1, <1>2, Slice
  <2> HIDE DEF c
  <2> QED BY <1>2, <2>1
<1>5. d = Append(c, d[m + 1])
  <2> DEFINE k == m + 1
  <2>1. k \in 1 .. Len(d) /\ k - 1 = m /\ SubSeq(d, 1, k) = d BY <1>1, <1>2, Whole
  <2> HIDE DEF k
  <2>2. SubSeq(d, 1, k) = Append(SubSeq(d, 1, k - 1), d[k]) BY <1>1, <2>1, Grown
  <2> QED BY <2>1, <2>2 DEF k
<1> HIDE DEF c
<1>6. \A i \in 0 .. m : i \in 0 .. Len(d) BY <1>2
<1>7. \A i \in 1 .. m : i \in 1 .. Len(d) /\ i - 1 \in 0 .. m /\ i \in 0 .. m BY <1>2
<1>8. 0 \in 0 .. m BY <1>2
<1>9. p \in [0 .. m -> Nat] /\ p[0] = at BY <1>3, <1>6, <1>8
<1>10. ASSUME NEW i \in 1 .. m
       PROVE  p[i - 1] < Len(text) /\ c[i] \in Segmenter!Matches(p[i - 1]) \cup {1} /\ p[i] = p[i - 1] + c[i]
  <2>1. p[i - 1] = q[i - 1] /\ p[i] = q[i] /\ c[i] = d[i] BY <1>4, <1>7
  <2> QED BY <1>3, <1>7, <2>1
<1>11. Walk(c, p, at)
  <2> HIDE DEF p
  <2> QED BY <1>4, <1>9, <1>10 DEF Walk
<1>12. q[m] < Len(text) /\ d[m + 1] \in Segmenter!Matches(q[m]) \cup {1} BY <1>2, <1>3
<1> QED BY <1>4, <1>5, <1>11, <1>12 DEF m, c

LEMMA ChunksAre ==
    ASSUME text \in Seq(STRING), NEW at \in 0 .. Len(text)
    PROVE  \A c : c \in Segmenter!Chunks(at) <=> Fills(c, Depth, at)
<1> DEFINE D == Depth
           L == Len(text)
<1>1. D \in Nat /\ L \in Nat BY DepthType, LenProperties
<1>2. PICK u : /\ u[0] = {<<>>} /\ Segmenter!Chunks(at) = u[D]
               /\ \A k \in 1 .. D : u[k] = UNION {Segmenter!Longer(at, c) : c \in u[k - 1]}
  BY ChunkLevels
<1> DEFINE T == {k \in 0 .. D : \A c : c \in u[k] <=> Fills(c, k, at)}
<1> HIDE DEF D
<1>3. 0 \in T
  <2>1. Fills(<<>>, 0, at)
    <3> DEFINE p == [i \in 0 .. 0 |-> at]
    <3>1. at \in Nat BY <1>1
    <3>2. Len(<<>>) = 0 /\ <<>> \in Seq(Nat) /\ 1 .. 0 = {} BY EmptySeq
    <3>3. p \in [0 .. 0 -> Nat] /\ p[0] = at BY <3>1
    <3> HIDE DEF p
    <3>4. Walk(<<>>, p, at) BY <3>2, <3>3 DEF Walk
    <3> QED BY <3>2, <3>4 DEF Fills
  <2>2. ASSUME NEW c, Fills(c, 0, at) PROVE c = <<>>
    <3>1. PICK p : Walk(c, p, at) /\ (Len(c) = 0 \/ Len(c) <= 0) BY <2>2 DEF Fills
    <3>2. c \in Seq(Nat) /\ Len(c) \in Nat BY <3>1, WalkFacts
    <3>3. Len(c) = 0 BY <3>1, <3>2
    <3> QED BY <3>2, <3>3, EmptySeq
  <2> QED BY <1>1, <1>2, <2>1, <2>2
<1>4. ASSUME NEW k \in 1 .. D, k - 1 \in T PROVE k \in T
  <2>1. \A c : c \in u[k - 1] <=> Fills(c, k - 1, at) BY <1>4
  <2>2. u[k] = UNION {Segmenter!Longer(at, c) : c \in u[k - 1]} BY <1>2
  <2>3. k - 1 \in Nat /\ k \in 0 .. D BY <1>1
  <2>4. ASSUME NEW c, NEW p, Walk(c, p, at)
        PROVE  Segmenter!Longer(at, c) =
                 IF p[Len(c)] = L THEN {c} ELSE {Append(c, w) : w \in Segmenter!Matches(p[Len(c)]) \cup {1}}
    <3>1. at + Segmenter!Total(c) = p[Len(c)] BY <2>4, WalkFacts
    <3> QED BY <3>1 DEF Segmenter!Longer
  <2>5. ASSUME NEW d, d \in u[k] PROVE Fills(d, k, at)
    <3>1. PICK c : c \in u[k - 1] /\ d \in Segmenter!Longer(at, c) BY <2>2, <2>5
    <3>2. PICK p : Walk(c, p, at) /\ (Len(c) = k - 1 \/ (Len(c) <= k - 1 /\ p[Len(c)] = L))
      BY <2>1, <3>1 DEF Fills
    <3>3. Len(c) \in Nat BY <3>2, WalkFacts
    <3>4. CASE p[Len(c)] = L
      <4>1. d = c BY <2>4, <3>1, <3>2, <3>4
      <4>2. Len(c) <= k BY <2>3, <3>2, <3>3
      <4> QED BY <3>2, <3>4, <4>1, <4>2 DEF Fills
    <3>5. CASE p[Len(c)] # L
      <4>1. PICK w \in Segmenter!Matches(p[Len(c)]) \cup {1} : d = Append(c, w) BY <2>4, <3>1, <3>2, <3>5
      <4>2. PICK q : Walk(d, q, at) /\ Len(d) = Len(c) + 1 BY <3>2, <3>5, <4>1, WalkOn
      <4>3. Len(d) = k BY <2>3, <3>2, <3>5, <4>2
      <4> QED BY <4>2, <4>3 DEF Fills
    <3> QED BY <3>4, <3>5
  <2>6. ASSUME NEW d, Fills(d, k, at) PROVE d \in u[k]
    <3>1. PICK q : Walk(d, q, at) /\ (Len(d) = k \/ (Len(d) <= k /\ q[Len(d)] = L)) BY <2>6 DEF Fills
    <3>2. Len(d) \in Nat BY <3>1, WalkFacts
    <3>3. CASE Len(d) = k
      <4> DEFINE m == Len(d) - 1
                 c == SubSeq(d, 1, m)
                 p == [i \in 0 .. m |-> q[i]]
      <4>1. Len(d) > 0 BY <2>3, <3>3
      <4>2. /\ d = Append(c, d[m + 1]) /\ Len(c) = m /\ q[m] < L
            /\ d[m + 1] \in Segmenter!Matches(q[m]) \cup {1} /\ Walk(c, p, at)
        BY <3>1, <4>1, WalkBack
      <4>3. m = k - 1 /\ m \in 0 .. m BY <2>3, <3>3
      <4>4. p[m] = q[m] BY <4>3
      <4>5. q[m] # L /\ q[m] \in Nat
        <5>1. m \in 0 .. Len(d) BY <3>2, <4>1
        <5> HIDE DEF m
        <5>2. q[m] \in Nat BY <3>1, <5>1, WalkFacts
        <5> QED BY <1>1, <4>2, <5>2
      <4> HIDE DEF m, c, p
      <4>6. c \in u[k - 1] BY <2>1, <4>2, <4>3 DEF Fills
      <4>7. d \in Segmenter!Longer(at, c) BY <2>4, <4>2, <4>4, <4>5
      <4> QED BY <2>2, <4>6, <4>7
    <3>4. CASE Len(d) # k
      <4>1. Len(d) <= k - 1 /\ q[Len(d)] = L BY <2>3, <3>1, <3>2, <3>4
      <4>2. d \in u[k - 1] BY <2>1, <3>1, <4>1 DEF Fills
      <4>3. d \in Segmenter!Longer(at, d) BY <2>4, <3>1, <4>1
      <4> QED BY <2>2, <4>2, <4>3
    <3> QED BY <3>3, <3>4
  <2> QED BY <2>3, <2>5, <2>6
<1>5. \A k \in 0 .. D : k \in T
  <2> HIDE DEF T
  <2> QED BY <1>1, <1>3, <1>4, Climb
<1>6. D \in T
  <2>1. D \in 0 .. D BY <1>1
  <2> HIDE DEF T
  <2> QED BY <1>5, <2>1
<1> QED BY <1>2, <1>6 DEF D

(* What is no chunk yet can be lengthened to one, and then reaches further. *)
LEMMA Lengthened ==
    ASSUME text \in Seq(STRING), NEW at \in 0 .. Len(text), NEW c, NEW p, Walk(c, p, at), Len(c) <= Depth
    PROVE  \E d \in Segmenter!Chunks(at) :
              /\ at + Segmenter!Total(d) >= p[Len(c)]
              /\ p[Len(c)] = Len(text) => d = c
              /\ p[Len(c)] # Len(text) /\ Len(c) < Depth => at + Segmenter!Total(d) > p[Len(c)]
<1> DEFINE D == Depth
           L == Len(text)
           R(x, r) == \E d \in Segmenter!Chunks(at) :
                         /\ at + Segmenter!Total(d) >= r[Len(x)]
                         /\ r[Len(x)] = L => d = x
                         /\ r[Len(x)] # L /\ Len(x) < D => at + Segmenter!Total(d) > r[Len(x)]
           T == {k \in 0 .. D : \A x, r : Walk(x, r, at) /\ Len(x) = D - k => R(x, r)}
<1>1. D \in Nat /\ L \in Nat BY DepthType, LenProperties
<1>2. \A x : x \in Segmenter!Chunks(at) <=> Fills(x, D, at) BY ChunksAre
<1>3. ASSUME NEW x, NEW r, Walk(x, r, at)
      PROVE  /\ Len(x) \in Nat /\ r[Len(x)] \in Nat /\ at + Segmenter!Total(x) = r[Len(x)]
  <2>1. Len(x) \in Nat /\ \A i \in 0 .. Len(x) : r[i] \in Nat BY <1>3, WalkFacts
  <2>2. Len(x) \in 0 .. Len(x) BY <2>1
  <2>3. at + Segmenter!Total(x) = r[Len(x)] BY <1>3, WalkFacts
  <2> QED BY <2>1, <2>2, <2>3
<1> HIDE DEF D
<1>4. 0 \in T
  <2>1. ASSUME NEW x, NEW r, Walk(x, r, at), Len(x) = D - 0 PROVE R(x, r)
    <3>1. Len(x) = D BY <1>1, <2>1
    <3>2. x \in Segmenter!Chunks(at) BY <1>2, <2>1, <3>1 DEF Fills
    <3>3. at + Segmenter!Total(x) >= r[Len(x)] /\ ~(Len(x) < D) BY <1>1, <1>3, <2>1, <3>1
    <3> QED BY <3>2, <3>3
  <2> HIDE DEF R
  <2> QED BY <1>1, <2>1
<1>5. ASSUME NEW k \in 1 .. D, k - 1 \in T PROVE k \in T
  <2>1. ASSUME NEW x, NEW r, Walk(x, r, at), Len(x) = D - k PROVE R(x, r)
    <3>1. CASE r[Len(x)] = L
      <4>1. Len(x) <= D BY <1>1, <2>1
      <4>2. x \in Segmenter!Chunks(at) BY <1>2, <2>1, <3>1, <4>1 DEF Fills
      <4>3. at + Segmenter!Total(x) >= r[Len(x)] BY <1>3, <2>1
      <4> QED BY <3>1, <4>2, <4>3
    <3>2. CASE r[Len(x)] # L
      <4> DEFINE y == Append(x, 1)
      <4>1. PICK q : Walk(y, q, at) /\ Len(y) = Len(x) + 1 /\ q[Len(x) + 1] = r[Len(x)] + 1
        BY <2>1, <3>2, WalkOn
      <4>2. Len(y) = D - (k - 1) BY <1>1, <2>1, <4>1
      <4> HIDE DEF y
      <4>3. R(y, q)
        <5> HIDE DEF R
        <5> QED BY <1>5, <4>1, <4>2
      <4>4. PICK d \in Segmenter!Chunks(at) : at + Segmenter!Total(d) >= q[Len(y)] BY <4>3
      <4>5. PICK t : Walk(d, t, at) BY <1>2, <4>4 DEF Fills
      <4>6. at + Segmenter!Total(d) \in Nat BY <1>3, <4>5
      <4>7. at + Segmenter!Total(d) > r[Len(x)]
        <5>1. r[Len(x)] \in Nat /\ q[Len(y)] = r[Len(x)] + 1 BY <1>3, <2>1, <4>1
        <5> QED BY <4>4, <4>6, <5>1
      <4>8. at + Segmenter!Total(d) >= r[Len(x)] BY <1>3, <2>1, <4>6, <4>7
      <4> QED BY <3>2, <4>4, <4>7, <4>8
    <3> QED BY <3>1, <3>2
  <2> HIDE DEF R
  <2>2. k \in 0 .. D BY <1>1
  <2> QED BY <2>1, <2>2
<1>6. \A k \in 0 .. D : k \in T
  <2> HIDE DEF T
  <2> QED BY <1>1, <1>4, <1>5, Climb
<1>7. R(c, p)
  <2> DEFINE k == D - Len(c)
  <2>1. Len(c) \in Nat /\ Len(c) <= D BY <1>3 DEF D
  <2>2. k \in 0 .. D /\ Len(c) = D - k BY <1>1, <2>1
  <2> HIDE DEF R, k
  <2>3. k \in T
    <3> HIDE DEF T
    <3> QED BY <1>6, <2>2
  <2> QED BY <2>2, <2>3
<1> QED BY <1>7 DEF D

LEMMA WordIs ==
    ASSUME text \in Seq(STRING), NEW at \in 0 .. Len(text), NEW n \in Nat, at + n <= Len(text)
    PROVE  /\ Segmenter!Word(at, n) \in Seq(STRING) /\ Len(Segmenter!Word(at, n)) = n
           /\ \A j \in 1 .. n : Segmenter!Word(at, n)[j] = text[at + j]
           /\ Segmenter!Word(at, n) \in Seq(Alnum)
                <=> \A k \in at + 1 .. at + n : text[k] \in Alnum
<1> DEFINE w == Segmenter!Word(at, n)
           a == at + 1
           b == at + n
           L == Len(text)
<1>1. L \in Nat BY LenProperties
<1>2. a \in 1 .. L + 1 /\ b \in a - 1 .. L /\ b - a + 1 = n /\ (\A j \in 1 .. n : a + j - 1 = at + j) BY <1>1
<1>3. w = SubSeq(text, a, b) BY DEF Segmenter!Word
<1> HIDE DEF w, a, b
<1>4. w \in Seq(STRING) /\ Len(w) = b - a + 1 /\ \A j \in 1 .. b - a + 1 : w[j] = text[a + j - 1]
  BY <1>2, <1>3, Slice
<1>5. Len(w) = n /\ \A j \in 1 .. n : w[j] = text[at + j] BY <1>2, <1>4
<1>6. w \in [1 .. n -> STRING] BY <1>4, <1>5, LenProperties
<1>7. w \in Seq(Alnum) <=> \A j \in 1 .. n : w[j] \in Alnum
  <2>1. ASSUME w \in Seq(Alnum) PROVE \A j \in 1 .. n : w[j] \in Alnum BY <1>5, <2>1, ElementOfSeq
  <2>2. ASSUME \A j \in 1 .. n : w[j] \in Alnum PROVE w \in Seq(Alnum)
    <3>1. w \in [1 .. n -> Alnum] BY <1>6, <2>2
    <3> QED BY <3>1, SeqDef
  <2> QED BY <2>1, <2>2
<1>8. (\A j \in 1 .. n : at + j \in at + 1 .. at + n)
      /\ \A k \in at + 1 .. at + n : k - at \in 1 .. n /\ at + (k - at) = k
  BY <1>1
<1>9. w \in Seq(Alnum) <=> \A k \in at + 1 .. at + n : text[k] \in Alnum
  <2>1. ASSUME \A k \in at + 1 .. at + n : text[k] \in Alnum PROVE \A j \in 1 .. n : w[j] \in Alnum
    BY <1>5, <1>8, <2>1
  <2>2. ASSUME \A j \in 1 .. n : w[j] \in Alnum, NEW k \in at + 1 .. at + n PROVE text[k] \in Alnum
    <3> DEFINE j == k - at
    <3>1. j \in 1 .. n /\ at + j = k BY <1>8
    <3> HIDE DEF j
    <3>2. w[j] = text[k] BY <1>5, <3>1
    <3> QED BY <2>2, <3>1, <3>2
  <2> QED BY <1>7, <2>1, <2>2
<1> QED BY <1>4, <1>5, <1>9 DEF w

LEMMA ChunkWalks ==
    ASSUME text \in Seq(STRING), NEW at \in 0 .. Len(text), NEW x \in Segmenter!Chunks(at)
    PROVE  \E p : /\ Walk(x, p, at) /\ Len(x) <= Depth /\ (p[Len(x)] = Len(text) \/ Len(x) = Depth)
                  /\ (at < Len(text) => Len(x) >= 1)
<1>1. PICK p : Walk(x, p, at) /\ (Len(x) = Depth \/ (Len(x) <= Depth /\ p[Len(x)] = Len(text)))
  BY ChunksAre DEF Fills
<1>2. Len(x) \in Nat /\ Depth \in Nat \ {0} BY <1>1, WalkFacts, DepthType
<1>3. p[0] = at BY <1>1 DEF Walk
<1>4. Len(text) \in Nat BY LenProperties
<1>5. at < Len(text) => Len(x) >= 1
  <2> SUFFICES ASSUME at < Len(text), ~(Len(x) >= 1) PROVE FALSE OBVIOUS
  <2>1. Len(x) = 0 BY <1>2
  <2>2. at = Len(text) BY <1>1, <1>2, <1>3, <2>1
  <2> QED BY <1>4, <2>2
<1>6. Len(x) <= Depth BY <1>1, <1>2
<1> QED BY <1>1, <1>5, <1>6

(* A best chunk that begins with a letter or digit begins with its run.     *)
LEMMA WholeRun ==
    ASSUME text \in Seq(STRING), NEW at \in 0 .. Len(text), at < Len(text), text[at + 1] \in Alnum,
           NEW x \in Segmenter!Chunks(at), \A y \in Segmenter!Chunks(at) : ~Segmenter!Worse(at, x, y)
    PROVE  /\ \A k \in at + 1 .. at + x[1] : text[k] \in Alnum
           /\ at + x[1] < Len(text) => text[at + x[1] + 1] \notin Alnum
<1> DEFINE L == Len(text)
           m == Len(x)
           E == {e \in at + 1 .. L : \A k \in at + 1 .. e : text[k] \in Alnum}
<1>1. L \in Nat /\ at \in Nat /\ at < L /\ Depth \in Nat \ {0} BY LenProperties, DepthType
<1>2. PICK p : /\ Walk(x, p, at) /\ Len(x) <= Depth /\ (p[Len(x)] = Len(text) \/ Len(x) = Depth)
               /\ (at < Len(text) => Len(x) >= 1)
  BY ChunkWalks
<1>3. /\ m \in Nat /\ x \in Seq(Nat) /\ (\A i \in 1 .. m : x[i] \in Nat /\ x[i] >= 1)
      /\ (\A i \in 0 .. m : p[i] \in Nat /\ p[i] <= L)
      /\ Segmenter!Total(x) \in Nat /\ at + Segmenter!Total(x) = p[m]
  BY <1>2, WalkFacts
<1>4. p[0] = at /\ \A i \in 1 .. m : /\ p[i - 1] < L /\ x[i] \in Segmenter!Matches(p[i - 1]) \cup {1}
                                     /\ p[i] = p[i - 1] + x[i]
  BY <1>2 DEF Walk
<1>5. PICK q \in E : \A e \in E : e <= q
  <2>1. at + 1 \in E
    <3>1. at + 1 \in at + 1 .. L /\ \A k \in at + 1 .. at + 1 : k = at + 1 BY <1>1
    <3> QED BY <3>1
  <2>2. E \in SUBSET (0 .. L)
    <3>1. \A e \in at + 1 .. L : e \in 0 .. L BY <1>1
    <3> QED BY <3>1
  <2> HIDE DEF E, L
  <2> QED BY <1>1, <2>1, <2>2, GreatestOf
<1>6. q \in at + 1 .. L /\ (\A k \in at + 1 .. q : text[k] \in Alnum) BY <1>5
<1>7. q < L => text[q + 1] \notin Alnum
  <2> SUFFICES ASSUME q < L, text[q + 1] \in Alnum PROVE FALSE OBVIOUS
  <2>1. q + 1 \in at + 1 .. L /\ (\A k \in at + 1 .. q + 1 : k \in at + 1 .. q \/ k = q + 1) /\ ~(q + 1 <= q)
    BY <1>1, <1>6
  <2>2. q + 1 \in E BY <1>6, <2>1
  <2> HIDE DEF E
  <2> QED BY <1>5, <2>1, <2>2
<1>m. m >= 1 /\ 1 \in 1 .. m /\ m <= Depth
  <2>1. m >= 1 BY <1>1, <1>2
  <2> QED BY <1>2, <1>3, <2>1
<1> HIDE DEF E, m, L
<1>8. ASSUME NEW i \in 1 .. m, at <= p[i - 1], p[i - 1] < q PROVE p[i] <= q
  <2> DEFINE a == p[i - 1]
             n == x[i]
  <2>1. i - 1 \in 0 .. m BY <1>3
  <2>2. a \in Nat /\ a < L /\ n \in Nat /\ n >= 1 /\ p[i] = a + n /\ n \in Segmenter!Matches(a) \cup {1}
        /\ at <= a /\ a < q
    BY <1>3, <1>4, <1>8, <2>1
  <2> HIDE DEF a, n
  <2>3. CASE n = 1 BY <1>6, <2>2, <2>3
  <2>4. CASE n # 1
    <3>1. text[a + 1] \in Alnum
      <4>1. a + 1 \in at + 1 .. q BY <1>1, <1>6, <2>2
      <4> QED BY <1>6, <4>1
    <3>2. n \in Segmenter!Matches(a) BY <2>2, <2>4
    <3>3. Segmenter!Word(a, n) \in Seq(Alnum) /\ n \in 1 .. L - a
      BY <3>1, <3>2 DEF Segmenter!Matches, L
    <3>4. \A k \in a + 1 .. a + n : text[k] \in Alnum
      <4>1. a \in 0 .. L /\ a + n <= L BY <1>1, <2>2, <3>3
      <4> QED BY <2>2, <3>3, <4>1, WordIs DEF L
    <3> SUFFICES ASSUME ~(p[i] <= q) PROVE FALSE OBVIOUS
    <3>5. q + 1 \in a + 1 .. a + n /\ q < L BY <1>1, <1>6, <2>2, <3>3
    <3> QED BY <1>7, <3>4, <3>5
  <2> QED BY <2>3, <2>4
<1>9. p[1] = at + x[1] /\ p[1] <= q /\ x[1] \in Nat /\ x[1] >= 1
  <2>1. p[1] <= q
    <3> DEFINE z == 1 - 1
    <3>1. z = 0 OBVIOUS
    <3>2. at <= p[0] /\ p[0] < q BY <1>1, <1>4, <1>6
    <3> QED BY <1>8, <1>m, <3>1, <3>2
  <2> QED BY <1>3, <1>4, <1>m, <2>1
<1>10. ASSUME p[1] # q PROVE FALSE
  <2>1. p[1] < q BY <1>1, <1>6, <1>9, <1>10
  <2> DEFINE r == q - at
             Hit(i) == (at <= p[i] /\ p[i] < q) \/ \E j \in 2 .. i : p[j] = q
             T == {i \in 0 .. m : Hit(i)}
  <2>2. 0 \in T BY <1>1, <1>3, <1>4, <1>6
  <2>3. ASSUME NEW k \in 1 .. m, k - 1 \in T PROVE k \in T
    <3>1. k - 1 \in 0 .. m /\ k \in 0 .. m BY <1>3
    <3>2. CASE \E j \in 2 .. k - 1 : p[j] = q
      <4>1. PICK j \in 2 .. k - 1 : p[j] = q BY <3>2
      <4>2. j \in 2 .. k BY <1>3
      <4> QED BY <3>1, <4>1, <4>2
    <3>3. CASE at <= p[k - 1] /\ p[k - 1] < q
      <4>1. p[k] <= q BY <1>8, <3>3
      <4>2. p[k] = p[k - 1] + x[k] /\ p[k - 1] \in Nat /\ x[k] \in Nat /\ p[k] \in Nat BY <1>3, <1>4, <3>1
      <4>3. at <= p[k] BY <1>1, <3>3, <4>2
      <4>4. CASE p[k] = q
        <5>1. k # 1 BY <2>1, <1>10, <4>4
        <5>2. k \in 2 .. k BY <1>3, <5>1
        <5> QED BY <3>1, <4>4, <5>2
      <4>5. CASE p[k] # q
        <5>1. p[k] < q BY <1>6, <4>1, <4>2, <4>5
        <5> QED BY <3>1, <4>3, <5>1
      <4> QED BY <4>4, <4>5
    <3> QED BY <2>3, <3>2, <3>3
  <2>4. Hit(m)
    <3>1. \A k \in 0 .. m : k \in T
      <4> HIDE DEF T
      <4> QED BY <1>3, <2>2, <2>3, Climb
    <3>2. m \in 0 .. m BY <1>3
    <3> HIDE DEF Hit
    <3> QED BY <3>1, <3>2
  <2>5. r \in Nat /\ r >= 1 /\ at + r = q /\ r \in Segmenter!Matches(at)
    <3>1. r \in Nat /\ r >= 1 /\ at + r = q /\ r \in 1 .. L - at /\ at \in 0 .. L /\ at + r <= L BY <1>1, <1>6
    <3> HIDE DEF r
    <3>2. Segmenter!Word(at, r) \in Seq(Alnum) BY <1>6, <3>1, WordIs DEF L
    <3> QED BY <3>1, <3>2 DEF Segmenter!Matches, L
  <2> HIDE DEF r
  <2>6. ASSUME NEW d \in Segmenter!Chunks(at), at + Segmenter!Total(d) > p[m] PROVE FALSE
    <3>1. PICK t : Walk(d, t, at) BY ChunkWalks
    <3>2. Segmenter!Total(d) \in Nat BY <3>1, WalkFacts
    <3>3. Segmenter!Total(x) < Segmenter!Total(d) BY <1>1, <1>3, <2>6, <3>2
    <3> QED BY <3>3 DEF Segmenter!Worse
  <2>7. CASE at <= p[m] /\ p[m] < q
    <3> DEFINE y == <<r>>
               t == [i \in 0 .. 1 |-> IF i = 0 THEN at ELSE q]
    <3>1. y \in Seq(Nat) /\ Len(y) = 1 /\ y[1] = r BY <2>5
    <3>2. t \in [0 .. 1 -> Nat] /\ t[0] = at /\ t[1] = q BY <1>1, <1>6
    <3> HIDE DEF y, t
    <3>3. ASSUME NEW i \in 1 .. 1
          PROVE  t[i - 1] < L /\ y[i] \in Segmenter!Matches(t[i - 1]) \cup {1} /\ t[i] = t[i - 1] + y[i]
      <4>1. i = 1 /\ i - 1 = 0 OBVIOUS
      <4> QED BY <1>1, <2>5, <3>1, <3>2, <4>1
    <3>4. Walk(y, t, at) BY <3>1, <3>2, <3>3 DEF Walk, L
    <3>5. Len(y) <= Depth BY <1>1, <3>1
    <3>6. PICK d \in Segmenter!Chunks(at) : at + Segmenter!Total(d) >= t[Len(y)] BY <3>4, <3>5, Lengthened
    <3>7. at + Segmenter!Total(d) > p[m]
      <4>1. PICK s : Walk(d, s, at) BY ChunkWalks
      <4>2. Segmenter!Total(d) \in Nat BY <4>1, WalkFacts
      <4>3. p[m] \in Nat BY <1>1, <1>3
      <4> QED BY <1>1, <1>6, <2>7, <3>1, <3>2, <3>6, <4>2, <4>3
    <3> QED BY <2>6, <3>7
  <2>8. ASSUME NEW j \in 2 .. m, p[j] = q PROVE FALSE
    <3> DEFINE b == j + 1
               l == m - j
               z == SubSeq(x, b, m)
               y == <<r>> \o z
               t == [i \in 0 .. l + 1 |-> IF i = 0 THEN at ELSE p[i + j - 1]]
    <3>0. /\ b \in 1 .. m + 1 /\ m \in b - 1 .. m /\ m - b + 1 = l /\ l \in Nat /\ l + 1 < m
          /\ \A i \in 1 .. l : b + i - 1 = i + j
      BY <1>3
    <3>1. z \in Seq(Nat) /\ Len(z) = l /\ \A i \in 1 .. l : z[i] = x[i + j]
      <4>1. b \in 1 .. Len(x) + 1 /\ m \in b - 1 .. Len(x) BY <3>0 DEF m
      <4> HIDE DEF b
      <4>2. z \in Seq(Nat) /\ Len(z) = m - b + 1 /\ \A i \in 1 .. m - b + 1 : z[i] = x[b + i - 1]
        BY <1>3, <4>1, Slice
      <4> HIDE DEF z, l
      <4> QED BY <3>0, <4>2
    <3>2. y \in Seq(Nat) /\ Len(y) = l + 1 /\ y[1] = r /\ \A i \in 2 .. l + 1 : y[i] = x[i - 1 + j]
      <4> DEFINE o == <<r>>
      <4>1. o \in Seq(Nat) /\ Len(o) = 1 /\ o[1] = r BY <2>5
      <4> HIDE DEF z, l, o
      <4>2. /\ o \o z \in Seq(Nat) /\ Len(o \o z) = Len(o) + Len(z)
            /\ \A i \in 1 .. Len(o) + Len(z) : (o \o z)[i] = IF i <= Len(o) THEN o[i] ELSE z[i - Len(o)]
        BY ONLY <3>1, <4>1, ConcatProperties
      <4>3. y = o \o z BY DEF o
      <4> HIDE DEF y
      <4>9. Len(o) + Len(z) = l + 1
        <5>1. Len(o) = 1 /\ Len(z) = l BY <3>1, <4>1
        <5> QED BY <3>0, <5>1
      <4>4. \A i \in 1 .. l + 1 : y[i] = IF i <= 1 THEN o[i] ELSE z[i - 1]
        <5> TAKE i \in 1 .. l + 1
        <5>1. i \in 1 .. Len(o) + Len(z) BY <4>9
        <5>2. (o \o z)[i] = IF i <= Len(o) THEN o[i] ELSE z[i - Len(o)] BY ONLY <4>2, <5>1
        <5> QED BY <4>1, <4>3, <5>2
      <4>5. 1 \in 1 .. l + 1 /\ \A i \in 2 .. l + 1 : i \in 1 .. l + 1 /\ ~(i <= 1) /\ i - 1 \in 1 .. l BY <3>0
      <4>6. y[1] = r BY <4>1, <4>4, <4>5
      <4>7. \A i \in 2 .. l + 1 : y[i] = x[i - 1 + j] BY <3>1, <4>4, <4>5
      <4>8. Len(y) = l + 1 BY <4>2, <4>3, <4>9
      <4> QED BY <4>2, <4>3, <4>6, <4>7, <4>8
    <3>3. /\ \A i \in 1 .. l + 1 : i \in 0 .. l + 1 /\ i + j - 1 \in 0 .. m /\ i # 0
          /\ \A i \in 2 .. l + 1 : /\ i - 1 + j \in 1 .. m /\ i - 1 \in 1 .. l + 1 /\ i - 1 \in 0 .. l + 1 /\ i - 1 # 0
                                   /\ (i - 1) + j - 1 = (i - 1 + j) - 1 /\ i + j - 1 = i - 1 + j
          /\ 0 \in 0 .. l + 1 /\ 1 \in 0 .. l + 1 /\ 1 + j - 1 = j /\ (l + 1) + j - 1 = m
      BY <1>3
    <3> HIDE DEF l, z, y
    <3>4. t \in [0 .. l + 1 -> Nat] /\ t[0] = at /\ t[1] = q /\ t[l + 1] = p[m]
          /\ \A i \in 2 .. l + 1 : t[i] = p[i - 1 + j] /\ t[i - 1] = p[(i - 1 + j) - 1]
      <4>1. \A i \in 0 .. l + 1 : i = 0 \/ i \in 1 .. l + 1 BY <3>0
      <4>2. \A i \in 1 .. l + 1 : t[i] = p[i + j - 1] BY <3>3
      <4>3. t[0] = at BY <3>3
      <4>4. \A i \in 1 .. l + 1 : p[i + j - 1] \in Nat BY <1>3, <3>3
      <4>5. t \in [0 .. l + 1 -> Nat]
        <5>1. \A i \in 0 .. l + 1 : t[i] \in Nat BY <1>1, <4>1, <4>2, <4>3, <4>4
        <5> QED BY <5>1
      <4>6. 1 \in 1 .. l + 1 /\ l + 1 \in 1 .. l + 1 /\ \A i \in 2 .. l + 1 : i \in 1 .. l + 1 BY <3>0
      <4> HIDE DEF t
      <4>7. t[1] = q /\ t[l + 1] = p[m] BY <2>8, <3>3, <4>2, <4>6
      <4>8. \A i \in 2 .. l + 1 : t[i] = p[i - 1 + j] /\ t[i - 1] = p[(i - 1 + j) - 1] BY <3>3, <4>2, <4>6
      <4> QED BY <4>3, <4>5, <4>7, <4>8
    <3> HIDE DEF t
    <3>5. ASSUME NEW i \in 1 .. l + 1
          PROVE  t[i - 1] < L /\ y[i] \in Segmenter!Matches(t[i - 1]) \cup {1} /\ t[i] = t[i - 1] + y[i]
      <4>1. i = 1 \/ i \in 2 .. l + 1 BY <3>0
      <4>2. CASE i = 1
        <5>1. i - 1 = 0 BY <4>2
        <5> QED BY <1>1, <2>5, <3>2, <3>4, <4>2, <5>1
      <4>3. CASE i \in 2 .. l + 1
        <5> DEFINE k == i - 1 + j
        <5>1. k \in 1 .. m /\ t[i] = p[k] /\ t[i - 1] = p[k - 1] /\ y[i] = x[k] BY <3>2, <3>3, <3>4, <4>3
        <5> HIDE DEF k
        <5> QED BY <1>4, <5>1
      <4> QED BY <4>1, <4>2, <4>3
    <3>6. Walk(y, t, at) BY <3>2, <3>4, <3>5 DEF Walk, L
    <3>7. Len(y) < m /\ Len(y) <= Depth /\ Len(y) < Depth /\ Len(y) \in Nat BY <1>1, <1>3, <1>m, <3>0, <3>2
    <3>8. PICK d \in Segmenter!Chunks(at) :
              /\ t[Len(y)] = Len(text) => d = y
              /\ t[Len(y)] # Len(text) /\ Len(y) < Depth => at + Segmenter!Total(d) > t[Len(y)]
      BY <3>6, <3>7, Lengthened
    <3>9. t[Len(y)] = p[m] BY <3>2, <3>4
    <3>10. p[m] = L BY <2>6, <3>7, <3>8, <3>9 DEF L
    <3>11. d = y BY <3>8, <3>9, <3>10 DEF L
    <3>12. Segmenter!Total(y) \in Nat /\ at + Segmenter!Total(y) = p[m] BY <3>6, <3>9, WalkFacts
    <3>13. Segmenter!Total(x) = Segmenter!Total(y) BY <1>1, <1>3, <3>12
    <3>14. Len(x) > Len(y) BY <1>3, <3>7 DEF m
    <3>15. Segmenter!Worse(at, x, y) BY <3>13, <3>14 DEF Segmenter!Worse
    <3> QED BY <3>11, <3>15
  <2> QED BY <2>4, <2>7, <2>8
<1>11. p[1] = q BY <1>10
<1> QED BY <1>6, <1>7, <1>9, <1>11 DEF L

LEMMA SquareType ==
    /\ \A x \in Int : x * x \in Nat
    /\ \A a \in Nat, b \in Nat \ {0} : b * (a \div b) \in Nat /\ b * b \in Nat \ {0}
<1>1. \A x \in Int : x * x \in Nat
  <2> TAKE x \in Int
  <2>1. x * x \in Int OBVIOUS
  <2>2. x * x >= 0 BY SMT
  <2> QED BY <2>1, <2>2
<1>2. ASSUME NEW a \in Nat, NEW b \in Nat \ {0} PROVE b * (a \div b) \in Nat
  <2>1. a \div b \in Int /\ a \div b >= 0 BY SMT
  <2> DEFINE c == a \div b
  <2>2. c \in Nat BY <2>1
  <2> HIDE DEF c
  <2>3. b * c \in Nat BY <2>2
  <2> QED BY <2>3 DEF c
<1>3. \A b \in Nat \ {0} : b * b \in Nat \ {0}
  <2> TAKE b \in Nat \ {0}
  <2>1. b * b \in Int /\ b * b > 0 BY SMT
  <2> QED BY <2>1
<1> QED BY <1>1, <1>2, <1>3

LEMMA DeviationType ==
    ASSUME NEW c \in Seq(Nat), Len(c) >= 1
    PROVE  Segmenter!Deviation(c) \in Nat
<1> DEFINE k == Len(c)
           kk == k * k
           off(i) == k * c[i] - Segmenter!Total(c)
           G(v, i) == kk * (v \div kk) + off(i) * off(i)
           h == [i \in 1 .. k |-> [v \in Nat |-> G(v, i)]]
           F(f) == [i \in 0 .. k |-> IF i = 0 THEN 0 ELSE G(f[i - 1], i)]
           u == CHOOSE f : f = F(f)
<1>1. Segmenter!Deviation(c) = u[k] BY DEF Segmenter!Deviation
<1>2. k \in Nat \ {0} /\ (\A i \in 1 .. k : c[i] \in Nat) /\ Segmenter!Total(c) \in Nat
  <2>1. k \in Nat /\ (\A i \in 1 .. k : c[i] \in Nat) BY LenProperties, ElementOfSeq
  <2>2. Segmenter!Total(c) \in Nat BY SumNat, SegmentsSame DEF Segmenter!Total
  <2> QED BY <2>1, <2>2
<1> HIDE DEF k
<1>3. ASSUME NEW v \in Nat, NEW i \in 1 .. k PROVE G(v, i) \in Nat
  <2>1. kk \in Nat \ {0} BY <1>2, SquareType
  <2> HIDE DEF kk
  <2>2. kk * (v \div kk) \in Nat BY <2>1, SquareType
  <2>3. off(i) \in Int
    <3>1. c[i] \in Nat BY <1>2
    <3>2. k * c[i] \in Int BY <1>2, <3>1
    <3> QED BY <1>2, <3>2
  <2> HIDE DEF off
  <2>4. off(i) * off(i) \in Nat BY <2>3, SquareType
  <2> QED BY <2>2, <2>4
<1> HIDE DEF G
<1>4. h \in [1 .. k -> [Nat -> Nat]] /\ \A i \in 1 .. k, v \in Nat : h[i][v] = G(v, i) BY <1>3
<1> HIDE DEF h
<1>5. PICK f \in [0 .. k -> Nat] : Computes(f, k, 0, h)
  <2>1. k \in Nat /\ 0 \in Nat BY <1>2
  <2> QED BY <1>4, <2>1, Recursion
<1>6. f = F(f)
  <2>1. \A i \in 0 .. k : i = 0 \/ (i \in 1 .. k /\ i - 1 \in 0 .. k) BY <1>2
  <2>2. ASSUME NEW i \in 0 .. k PROVE f[i] = IF i = 0 THEN 0 ELSE G(f[i - 1], i)
    BY <1>4, <1>5, <2>1 DEF Computes
  <2> QED BY <2>2
<1>7. u = F(u) BY <1>6
<1> HIDE DEF u
<1>8. u[0] = 0 /\ \A i \in 1 .. k : u[i] = G(u[i - 1], i)
  <2>1. \A i \in 0 .. k : u[i] = IF i = 0 THEN 0 ELSE G(u[i - 1], i) BY <1>7
  <2>2. 0 \in 0 .. k /\ \A i \in 1 .. k : i \in 0 .. k /\ i # 0 BY <1>2
  <2> QED BY <2>1, <2>2
<1> DEFINE T == {i \in 0 .. k : u[i] \in Nat}
<1>9. 0 \in T BY <1>2, <1>8
<1>10. ASSUME NEW i \in 1 .. k, i - 1 \in T PROVE i \in T
  <2>1. u[i] \in Nat BY <1>3, <1>8, <1>10
  <2>2. i \in 0 .. k BY <1>2
  <2> QED BY <2>1, <2>2
<1>11. \A i \in 0 .. k : i \in T
  <2>1. k \in Nat BY <1>2
  <2> HIDE DEF T
  <2> QED BY <1>9, <1>10, <2>1, Climb
<1>12. k \in 0 .. k BY <1>2
<1> QED BY <1>1, <1>11, <1>12

(* The logarithms of the characters of the text are bounded.                *)
LEMMA DegreeBounded ==
    ASSUME text \in Seq(STRING), \A c \in DOMAIN freqs : freqs[c] \in Nat, NEW at \in 0 .. Len(text)
    PROVE  \E B \in Nat : \A x \in Segmenter!Chunks(at) :
              Segmenter!Degree(at, x) \in Nat /\ Segmenter!Degree(at, x) <= B * Segmenter!Total(x)
<1> DEFINE L == Len(text)
           Lg(i) == Segmenter!Log(text[i])
           T == {k \in 0 .. L : \E B \in Nat : \A i \in 1 .. k : Lg(i) <= B}
<1>1. L \in Nat BY LenProperties
<1>2. \A i : Lg(i) \in Nat BY DEF Segmenter!Log
<1> HIDE DEF Lg
<1>3. 0 \in T
  <2>1. 0 \in 0 .. L /\ 1 .. 0 = {} /\ 0 \in Nat BY <1>1
  <2> QED BY <2>1
<1>4. ASSUME NEW k \in 1 .. L, k - 1 \in T PROVE k \in T
  <2>1. PICK b \in Nat : \A i \in 1 .. k - 1 : Lg(i) <= b BY <1>4
  <2> DEFINE c == IF Lg(k) <= b THEN b ELSE Lg(k)
  <2>2. c \in Nat /\ b <= c /\ Lg(k) <= c BY <1>2
  <2> HIDE DEF c
  <2>3. \A i \in 1 .. k : Lg(i) <= c
    <3> TAKE i \in 1 .. k
    <3>1. i = k \/ i \in 1 .. k - 1 BY <1>1
    <3>2. i \in 1 .. k - 1 => Lg(i) <= b BY <2>1
    <3>3. Lg(i) \in Nat BY <1>2
    <3> QED BY <2>2, <3>1, <3>2, <3>3
  <2>4. k \in 0 .. L BY <1>1
  <2> QED BY <2>2, <2>3, <2>4
<1>5. PICK B \in Nat : \A i \in 1 .. L : Lg(i) <= B
  <2>1. \A k \in 0 .. L : k \in T
    <3> HIDE DEF T, L
    <3> QED BY <1>1, <1>3, <1>4, Climb
  <2>2. L \in 0 .. L BY <1>1
  <2> HIDE DEF L
  <2> QED BY <2>1, <2>2
<1>6. ASSUME NEW x \in Segmenter!Chunks(at)
      PROVE  Segmenter!Degree(at, x) \in Nat /\ Segmenter!Degree(at, x) <= B * Segmenter!Total(x)
  <2> DEFINE m == Len(x)
             D(i) == IF x[i] # 1 THEN 0 ELSE Lg(at + Segmenter!Total(SubSeq(x, 1, i)))
             s == [i \in 1 .. m |-> D(i)]
  <2>1. PICK p : Walk(x, p, at) BY ChunkWalks
  <2>2. /\ m \in Nat /\ x \in Seq(Nat) /\ (\A i \in 1 .. m : x[i] \in Nat /\ x[i] >= 1)
        /\ \A i \in 0 .. m : p[i] \in Nat /\ p[i] <= L /\ at + Segmenter!Total(SubSeq(x, 1, i)) = p[i]
    BY <2>1, WalkFacts
  <2>3. ASSUME NEW i \in 1 .. m PROVE D(i) \in Nat /\ D(i) <= B * x[i]
    <3>1. x[i] \in Nat /\ x[i] >= 1 BY <2>2
    <3>2. i \in 0 .. m /\ i - 1 \in 0 .. m BY <2>2
    <3>3. p[i] = p[i - 1] + x[i] /\ p[i] <= L /\ p[i - 1] \in Nat /\ at + Segmenter!Total(SubSeq(x, 1, i)) = p[i]
      BY <2>1, <2>2, <3>2 DEF Walk
    <3>4. p[i] \in 1 .. L BY <1>1, <3>1, <3>3
    <3>5. Lg(p[i]) <= B /\ Lg(p[i]) \in Nat BY <1>2, <1>5, <3>4
    <3>6. CASE x[i] # 1
      <4>1. D(i) = 0 BY <3>6
      <4>2. B * x[i] \in Nat BY <3>1
      <4> QED BY <4>1, <4>2
    <3>7. CASE x[i] = 1
      <4>1. D(i) = Lg(p[i]) BY <3>3, <3>7
      <4>2. B * x[i] = B BY <3>7
      <4> HIDE DEF D
      <4> QED BY <3>5, <4>1, <4>2
    <3> QED BY <3>6, <3>7
  <2>4. Segmenter!Degree(at, x) = SumOf(s)
    <3>1. DOMAIN x = 1 .. m BY <2>2, LenProperties
    <3>2. Segmenter!Degree(at, x) = SumOf([i \in 1 .. m |-> D(i)])
      BY <3>1, SegmentsSame DEF Segmenter!Degree, Lg
    <3> QED BY <3>2
  <2> HIDE DEF D
  <2>5. s \in Seq(Nat) /\ Len(s) = m /\ \A i \in 1 .. m : s[i] = D(i)
    <3>1. s \in [1 .. m -> Nat] BY <2>3
    <3>2. \A i \in 1 .. m : s[i] = D(i) OBVIOUS
    <3> HIDE DEF s, m
    <3>3. s \in Seq(Nat) BY <2>2, <3>1, SeqDef
    <3>4. Len(s) = m BY <2>2, <3>1, <3>3, LenProperties
    <3> QED BY <3>2, <3>3, <3>4
  <2> HIDE DEF s
  <2>6. SumOf(s) \in Nat BY <2>5, SumNat
  <2>7. SumOf(s) <= B * SumOf(x)
    <3>1. Len(s) = Len(x) /\ \A i \in 1 .. Len(s) : s[i] <= B * x[i] BY <2>3, <2>5
    <3> QED BY <2>2, <2>5, <3>1, SumBound
  <2> QED BY <2>4, <2>6, <2>7, SegmentsSame DEF Segmenter!Total
<1> QED BY <1>5, <1>6

LEMMA LeastBy ==
    ASSUME NEW U, U # {}, NEW f \in [U -> Nat]
    PROVE  {x \in U : \A y \in U : f[x] <= f[y]} # {}
<1> DEFINE V == {f[x] : x \in U}
<1>1. V \in SUBSET Nat /\ V # {} OBVIOUS
<1>2. PICK m \in V : \A j \in V : m <= j
  <2> HIDE DEF V
  <2> QED BY <1>1, LeastOf
<1>3. PICK x \in U : f[x] = m BY <1>2
<1>4. \A y \in U : f[x] <= f[y] BY <1>2, <1>3
<1> QED BY <1>4

LEMMA MostBy ==
    ASSUME NEW U, U # {}, NEW n \in Nat, NEW f \in [U -> 0 .. n]
    PROVE  {x \in U : \A y \in U : f[y] <= f[x]} # {}
<1> DEFINE V == {f[x] : x \in U}
<1>1. V \in SUBSET (0 .. n) /\ V # {} OBVIOUS
<1>2. PICK m \in V : \A j \in V : j <= m
  <2> HIDE DEF V
  <2> QED BY <1>1, GreatestOf
<1>3. PICK x \in U : f[x] = m BY <1>2
<1>4. \A y \in U : f[y] <= f[x] BY <1>2, <1>3
<1> QED BY <1>4

(* y beats x, as Worse puts it.                                             *)
Beaten(t, l, v, g, x, y) ==
    \/ t[x] < t[y]
    \/ /\ t[x] = t[y]
       /\ \/ l[x] > l[y]
          \/ /\ l[x] = l[y]
             /\ v[x] > v[y] \/ (v[x] = v[y] /\ g[x] < g[y])

(* One measure after the other finds one that no other beats: the first and *)
(* the last as large as can be, the two between as small.                   *)
LEMMA OneIsBest ==
    ASSUME NEW U, U # {}, NEW n \in Nat, NEW t \in [U -> 0 .. n], NEW l \in [U -> Nat],
           NEW v \in [U -> Nat], NEW g \in [U -> Nat], NEW B \in Nat,
           \A x \in U : g[x] <= B * t[x]
    PROVE  \E x \in U : \A y \in U : ~Beaten(t, l, v, g, x, y)
<1> DEFINE U1 == {x \in U : \A y \in U : t[y] <= t[x]}
           l1 == [x \in U1 |-> l[x]]
           U2 == {x \in U1 : \A y \in U1 : l1[x] <= l1[y]}
           v2 == [x \in U2 |-> v[x]]
           U3 == {x \in U2 : \A y \in U2 : v2[x] <= v2[y]}
           g3 == [x \in U3 |-> g[x]]
<1>1. U1 # {} /\ \A x \in U1 : x \in U /\ \A y \in U : t[y] <= t[x]
  <2>0. U # {} /\ n \in Nat /\ t \in [U -> 0 .. n] OBVIOUS
  <2>1. {x \in U : \A y \in U : t[y] <= t[x]} # {} BY ONLY <2>0, MostBy
  <2>2. \A x \in U1 : x \in U /\ \A y \in U : t[y] <= t[x] OBVIOUS
  <2> QED BY <2>1, <2>2
<1>0. \A x \in U, y \in U : x \in U1 /\ t[y] = t[x] => y \in U1 OBVIOUS
<1> HIDE DEF U1
<1>2. l1 \in [U1 -> Nat] /\ \A x \in U1 : l1[x] = l[x] BY <1>1
<1> HIDE DEF l1
<1>3. U2 # {} BY <1>1, <1>2, LeastBy
<1>4. /\ \A x \in U2 : x \in U1 /\ \A y \in U1 : l[x] <= l[y]
      /\ \A x \in U2, y \in U1 : l[y] = l[x] => y \in U2
  BY <1>2
<1> HIDE DEF U2
<1>5. v2 \in [U2 -> Nat] /\ \A x \in U2 : v2[x] = v[x] BY <1>1, <1>4
<1> HIDE DEF v2
<1>6. U3 # {} BY <1>3, <1>5, LeastBy
<1>7. /\ \A x \in U3 : x \in U2 /\ \A y \in U2 : v[x] <= v[y]
      /\ \A x \in U3, y \in U2 : v[y] = v[x] => y \in U3
  BY <1>5
<1> HIDE DEF U3
<1>8. PICK z : z \in U3 BY <1>6
<1>9. z \in U BY <1>1, <1>4, <1>7, <1>8
<1> DEFINE N == B * t[z]
<1>10. t[z] \in Nat BY <1>9
<1>11. N \in Nat BY <1>10
<1>12. ASSUME NEW x \in U3 PROVE g[x] \in 0 .. N
  <2>1. x \in U1 /\ z \in U1 /\ x \in U BY <1>1, <1>4, <1>7, <1>8
  <2>2. t[x] \in 0 .. n BY <2>1
  <2>5. t[x] <= t[z] /\ t[z] <= t[x] BY <1>1, <1>9, <2>1, Zenon
  <2>6. t[x] \in Nat BY <2>2
  <2>7. \A a, b \in Nat : a <= b /\ b <= a => a = b OBVIOUS
  <2>3. t[x] = t[z] BY ONLY <1>10, <2>5, <2>6, <2>7, Zenon
  <2>4. g[x] <= N /\ g[x] \in Nat BY <2>1, <2>3
  <2> HIDE DEF N
  <2> QED BY <1>11, <2>4
<1> HIDE DEF N
<1>13. g3 \in [U3 -> 0 .. N] /\ \A x \in U3 : g3[x] = g[x] BY <1>12
<1> HIDE DEF g3
<1>14. {x \in U3 : \A y \in U3 : g3[y] <= g3[x]} # {} BY ONLY <1>6, <1>11, <1>13, MostBy
<1>15. PICK x : x \in U3 /\ \A y \in U3 : g[y] <= g[x] BY <1>13, <1>14
<1>16. x \in U2 /\ x \in U1 /\ x \in U BY <1>1, <1>4, <1>7, <1>15
<1>17. ASSUME NEW y \in U PROVE ~Beaten(t, l, v, g, x, y)
  <2>0. /\ t[x] \in Nat /\ t[y] \in Nat /\ l[x] \in Nat /\ l[y] \in Nat
        /\ v[x] \in Nat /\ v[y] \in Nat /\ g[x] \in Nat /\ g[y] \in Nat
    BY <1>16
  <2>1. t[y] <= t[x] BY <1>1, <1>16
  <2>2. t[x] = t[y] => y \in U1 BY <1>0, <1>16
  <2>3. y \in U1 => l[x] <= l[y] BY <1>4, <1>16
  <2>4. y \in U1 /\ l[x] = l[y] => y \in U2 BY <1>4, <1>16
  <2>5. y \in U2 => v[x] <= v[y] BY <1>7, <1>15
  <2>6. y \in U2 /\ v[x] = v[y] => y \in U3 BY <1>7, <1>15
  <2>7. y \in U3 => g[y] <= g[x] BY <1>15
  <2> QED BY <2>0, <2>1, <2>2, <2>3, <2>4, <2>5, <2>6, <2>7 DEF Beaten
<1> QED BY <1>16, <1>17

(* Some chunk is not worse than any other.                                  *)
LEMMA BestExists ==
    ASSUME text \in Seq(STRING), NEW at \in 0 .. Len(text), at < Len(text),
           \A c \in DOMAIN freqs : freqs[c] \in Nat
    PROVE  \E x \in Segmenter!Chunks(at) :
              \A y \in Segmenter!Chunks(at) : ~Segmenter!Worse(at, x, y)
<1> DEFINE U == Segmenter!Chunks(at)
           L == Len(text)
           t == [x \in U |-> Segmenter!Total(x)]
           l == [x \in U |-> Len(x)]
           v == [x \in U |-> Segmenter!Deviation(x)]
           g == [x \in U |-> Segmenter!Degree(at, x)]
<1>1. L \in Nat /\ at \in Nat BY LenProperties
<1>2. U # {}
  <2> DEFINE p == [i \in 0 .. 0 |-> at]
  <2>1. <<>> \in Seq(Nat) /\ Len(<<>>) = 0 BY EmptySeq
  <2>2. Walk(<<>>, p, at) BY <1>1, <2>1 DEF Walk
  <2>3. Len(<<>>) <= Depth BY <2>1, DepthType
  <2> HIDE DEF p
  <2> QED BY <2>2, <2>3, Lengthened
<1>3. ASSUME NEW x \in U
      PROVE  /\ x \in Seq(Nat) /\ Len(x) \in Nat /\ Len(x) >= 1
             /\ Segmenter!Total(x) \in 0 .. L /\ Segmenter!Deviation(x) \in Nat
  <2>1. PICK p : Walk(x, p, at) /\ Len(x) >= 1 BY ChunkWalks
  <2>2. /\ x \in Seq(Nat) /\ Len(x) \in Nat /\ Segmenter!Total(x) \in Nat
        /\ at + Segmenter!Total(x) = p[Len(x)] /\ \A i \in 0 .. Len(x) : p[i] <= L
    BY <2>1, WalkFacts
  <2>3. Len(x) \in 0 .. Len(x) BY <2>2
  <2>4. Segmenter!Total(x) \in 0 .. L BY <1>1, <2>2, <2>3
  <2> QED BY <2>1, <2>2, <2>4, DeviationType
<1>4. PICK B \in Nat : \A x \in U : Segmenter!Degree(at, x) \in Nat
                                    /\ Segmenter!Degree(at, x) <= B * Segmenter!Total(x)
  BY DegreeBounded
<1> HIDE DEF U
<1>5. t \in [U -> 0 .. L] /\ l \in [U -> Nat] /\ v \in [U -> Nat] /\ g \in [U -> Nat]
  BY <1>3, <1>4
<1>6. /\ \A x \in U : t[x] = Segmenter!Total(x) /\ l[x] = Len(x)
      /\ \A x \in U : v[x] = Segmenter!Deviation(x) /\ g[x] = Segmenter!Degree(at, x)
  OBVIOUS
<1>7. \A x \in U : g[x] <= B * t[x] BY <1>4
<1> HIDE DEF t, l, v, g, L
<1>8. PICK x \in U : \A y \in U : ~Beaten(t, l, v, g, x, y)
  BY <1>1, <1>2, <1>5, <1>7, OneIsBest
<1>9. \A y \in U : ~Segmenter!Worse(at, x, y) BY <1>6, <1>8 DEF Segmenter!Worse, Beaten
<1> QED BY <1>9 DEF U

(* The word taken is the first of a chunk that is not worse than any other. *)
LEMMA FirstWordIs ==
    ASSUME text \in Seq(STRING), NEW at \in 0 .. Len(text), at < Len(text),
           \A c \in DOMAIN freqs : freqs[c] \in Nat
    PROVE  /\ \E x \in Segmenter!Chunks(at) :
                 /\ \A y \in Segmenter!Chunks(at) : ~Segmenter!Worse(at, x, y)
                 /\ Segmenter!FirstWord(at) = x[1]
           /\ Segmenter!FirstWord(at) \in Nat /\ Segmenter!FirstWord(at) >= 1
           /\ at + Segmenter!FirstWord(at) <= Len(text)
           /\ Segmenter!FirstWord(at) \in Segmenter!Matches(at) \cup {1}
<1> DEFINE U == Segmenter!Chunks(at)
           best == {x \in U : \A y \in U : ~Segmenter!Worse(at, x, y)}
           firsts == {x[1] : x \in best}
           R(n) == Segmenter!Rank(at, n)
           r == [n \in firsts |-> R(n)]
           w == CHOOSE n \in firsts : \A m \in firsts : R(n) <= R(m)
<1>1. Segmenter!FirstWord(at) = w BY DEF Segmenter!FirstWord
<1>2. firsts # {} BY BestExists
<1>3. ASSUME NEW x \in U
      PROVE  x[1] \in Nat /\ x[1] >= 1 /\ at + x[1] <= Len(text) /\ x[1] \in Segmenter!Matches(at) \cup {1}
  <2>1. PICK p : Walk(x, p, at) /\ Len(x) >= 1 BY ChunkWalks
  <2>2. Len(x) \in Nat BY <2>1, WalkFacts
  <2>3. 1 \in 1 .. Len(x) /\ 1 - 1 = 0 BY <2>1, <2>2
  <2>4. x[1] \in Segmenter!Matches(p[0]) \cup {1} /\ p[0] = at BY <2>1, <2>3 DEF Walk
  <2>5. at \in Nat BY LenProperties
  <2> QED BY <2>4, <2>5, WordLength
<1>4. \A n \in firsts : n \in Nat BY <1>3
<1>5. \A n \in firsts : R(n) \in Nat
  <2>1. Len(text) \in Nat BY LenProperties
  <2> QED BY <1>4, <2>1 DEF Segmenter!Rank
<1> HIDE DEF firsts, R
<1>6. r \in [firsts -> Nat] /\ \A n \in firsts : r[n] = R(n) BY <1>5
<1> HIDE DEF r
<1>7. PICK n \in firsts : \A m \in firsts : r[n] <= r[m] BY <1>2, <1>6, LeastBy
<1>8. \A m \in firsts : R(n) <= R(m) BY <1>6, <1>7
<1>9. w \in firsts BY <1>8
<1> HIDE DEF w
<1>10. PICK x \in best : w = x[1] BY <1>9 DEF firsts
<1> QED BY <1>1, <1>3, <1>10

(* How many characters the first i words of s have.                         *)
LengthTo(s, i) == SumOf([k \in 1 .. i |-> Len(s[k])])

LEMMA ReachIs == \A i : Segmenter!Reach(i) = LengthTo(ret, i)
BY SegmentsSame DEF Segmenter!Reach, LengthTo

LEMMA LengthToFacts ==
    ASSUME NEW s \in Seq(Seq(STRING)), NEW x \in Seq(STRING)
    PROVE  LET r == Append(s, x)
           IN  /\ \A i \in 0 .. Len(s) : LengthTo(r, i) = LengthTo(s, i)
               /\ LengthTo(r, Len(s) + 1) = LengthTo(s, Len(s)) + Len(x)
<1> DEFINE r == Append(s, x)
           m == Len(s)
           B(t, i) == [k \in 1 .. i |-> Len(t[k])]
<1>1. /\ r \in Seq(Seq(STRING)) /\ Len(r) = m + 1 /\ r[m + 1] = x /\ m \in Nat
      /\ \A k \in 1 .. m : r[k] = s[k] /\ s[k] \in Seq(STRING)
  BY AppendProperties, LenProperties, ElementOfSeq
<1> HIDE DEF r, m
<1>2. ASSUME NEW i \in 0 .. m PROVE LengthTo(r, i) = LengthTo(s, i)
  <2>1. \A k \in 1 .. i : k \in 1 .. m BY <1>1
  <2>2. B(r, i) = B(s, i) BY <1>1, <2>1
  <2> QED BY <2>2 DEF LengthTo
<1>3. B(s, m) \in Seq(Int) /\ Len(B(s, m)) = m /\ Len(x) \in Int
  <2>1. \A k \in 1 .. m : Len(s[k]) \in Int BY <1>1, LenProperties
  <2>2. B(s, m) \in [1 .. m -> Int] BY <2>1
  <2> HIDE DEF B
  <2>3. B(s, m) \in Seq(Int) BY <1>1, <2>2, SeqDef
  <2> QED BY <1>1, <2>2, <2>3, LenProperties
<1>4. B(r, m + 1) = Append(B(s, m), Len(x))
  <2> DEFINE u == B(r, m + 1)
             v == Append(B(s, m), Len(x))
  <2>1. \A k \in 1 .. m : B(s, m)[k] = Len(s[k]) OBVIOUS
  <2>2. \A k \in 1 .. m + 1 : u[k] = Len(r[k]) OBVIOUS
  <2>3. u \in [1 .. m + 1 -> Int]
    <3>1. \A k \in 1 .. m + 1 : Len(r[k]) \in Int BY <1>1, ElementOfSeq, LenProperties
    <3> QED BY <3>1
  <2>4. u \in Seq(Int) BY <1>1, <2>3, SeqDef
  <2> HIDE DEF B, u
  <2>5. v \in Seq(Int) /\ Len(v) = m + 1 /\ v[m + 1] = Len(x) /\ \A k \in 1 .. m : v[k] = B(s, m)[k]
    BY <1>3, AppendProperties
  <2>6. Len(u) = m + 1 BY <1>1, <2>3, <2>4, LenProperties
  <2> HIDE DEF v
  <2>7. \A k \in 1 .. m + 1 : u[k] = v[k]
    <3>1. \A k \in 1 .. m + 1 : k \in 1 .. m \/ k = m + 1 BY <1>1
    <3>2. m + 1 \in 1 .. m + 1 BY <1>1
    <3> QED BY <1>1, <2>1, <2>2, <2>5, <3>1, <3>2
  <2>8. u = v BY <2>4, <2>5, <2>6, <2>7, SeqEqual
  <2> QED BY <2>8 DEF u, v
<1>5. LengthTo(r, m + 1) = LengthTo(s, m) + Len(x) BY <1>3, <1>4, SumAppend DEF LengthTo
<1> QED BY <1>2, <1>5 DEF r, m

(* What holds while segment runs.                                           *)
WordsInv ==
    /\ text \in Seq(STRING) /\ start \in 0 .. Len(text) /\ ret \in Seq(Seq(STRING))
    /\ start = 0 => ret = <<>>
    /\ flines \in 0 .. Len(Frequencies)
    /\ \A c \in DOMAIN freqs : freqs[c] \in Nat
    /\ Segmenter!RunsTakenWhole

LEMMA NothingTaken ==
    ASSUME start = 0, ret = <<>>
    PROVE  Segmenter!RunsTakenWhole
<1>1. DOMAIN ret = {} /\ Len(ret) = 0 BY EmptySeq
<1>2. [k \in 1 .. 0 |-> Len(ret[k])] = <<>> OBVIOUS
<1>3. Segmenter!Reach(0) = 0 BY <1>2, SumEmpty, SegmentsSame DEF Segmenter!Reach
<1> QED BY <1>1, <1>3 DEF Segmenter!RunsTakenWhole

LEMMA InitWords == Init => WordsInv
<1> SUFFICES ASSUME Init PROVE WordsInv OBVIOUS
<1>1. /\ text = <<>> /\ start = 0 /\ ret = <<>> /\ flines = 0 /\ freqs = <<>>
  BY DEF Init, Segmenter!Init
<1>2. text \in Seq(STRING) /\ Len(text) = 0 /\ ret \in Seq(Seq(STRING)) BY <1>1, EmptySeq
<1>3. Len(Frequencies) \in Nat
  BY HelpersAssumption, LenProperties DEF Segmenter!SegmentAssumption
<1>4. DOMAIN freqs = {} BY <1>1
<1>5. Segmenter!RunsTakenWhole BY <1>1, <1>2, NothingTaken
<1> QED BY <1>1, <1>2, <1>3, <1>4, <1>5 DEF WordsInv

LEMMA WordTaken ==
    ASSUME WordsInv, Segmenter!TakeWord
    PROVE  WordsInv'
<1> DEFINE L == Len(text)
           n == Segmenter!FirstWord(start)
           w == Segmenter!Word(start, n)
           m == Len(ret)
           r == Append(ret, w)
<1>1. /\ text \in Seq(STRING) /\ L \in Nat /\ start \in 0 .. L /\ start < L /\ start \in Nat
      /\ ret \in Seq(Seq(STRING)) /\ m \in Nat /\ text' = text /\ freqs' = freqs /\ flines' = flines
      /\ \A c \in DOMAIN freqs : freqs[c] \in Nat
  BY LenProperties DEF WordsInv, Segmenter!TakeWord, Segmenter!loadVars
<1>2. PICK x \in Segmenter!Chunks(start) :
         /\ \A y \in Segmenter!Chunks(start) : ~Segmenter!Worse(start, x, y)
         /\ n = x[1]
  BY <1>1, FirstWordIs
<1>3. n \in Nat /\ n >= 1 /\ start + n <= L /\ n \in Segmenter!Matches(start) \cup {1}
  BY <1>1, FirstWordIs
<1>4. start' = start + n /\ ret' = r /\ words' = words
  BY DEF Segmenter!TakeWord, Segmenter!loadVars
<1> HIDE DEF n
<1>5. /\ w \in Seq(STRING) /\ Len(w) = n /\ (\A j \in 1 .. n : w[j] = text[start + j])
      /\ w \in Seq(Alnum) <=> \A k \in start + 1 .. start + n : text[k] \in Alnum
  BY <1>1, <1>3, WordIs
<1> HIDE DEF w
<1>7. /\ r \in Seq(Seq(STRING)) /\ Len(r) = m + 1 /\ r[m + 1] = w
      /\ \A i \in 1 .. m : r[i] = ret[i]
  BY <1>1, <1>5, AppendProperties
<1>8. /\ \A i \in 0 .. m : LengthTo(r, i) = LengthTo(ret, i)
      /\ LengthTo(r, m + 1) = LengthTo(ret, m) + n
  BY <1>1, <1>5, LengthToFacts
<1>9. LengthTo(ret, m) = start BY ReachIs DEF WordsInv, Segmenter!RunsTakenWhole
<1>10. /\ LengthTo(r, m + 1) = start + n /\ LengthTo(r, m) = start
  <2>1. m \in 0 .. m BY <1>1
  <2> QED BY <1>8, <1>9, <2>1
<1> HIDE DEF r
<1> DEFINE Good(s, i) == /\ s[i] = Segmenter!Word(LengthTo(s, i - 1), Len(s[i]))
                         /\ s[i][1] \in Alnum =>
                                /\ s[i] \in Seq(Alnum)
                                /\ LengthTo(s, i) < Len(text) => text[LengthTo(s, i) + 1] \notin Alnum
                         /\ s[i][1] \notin Alnum => Len(s[i]) = 1 \/ s[i] \in words
<1>11. \A i \in 1 .. m : Good(ret, i)
  <2>1. DOMAIN ret = 1 .. m BY <1>1, LenProperties
  <2> QED BY <2>1, ReachIs DEF WordsInv, Segmenter!RunsTakenWhole
<1>12. \A i \in 1 .. m : Good(r, i)
  <2>1. \A i \in 1 .. m : i \in 0 .. m /\ i - 1 \in 0 .. m BY <1>1
  <2> QED BY <1>7, <1>8, <1>11, <2>1
<1>13. Good(r, m + 1)
  <2>1. (m + 1) - 1 = m BY <1>1
  <2>2. w = Segmenter!Word(start, Len(w)) BY <1>5 DEF w
  <2>3. 1 \in 1 .. n BY <1>3
  <2>4. w[1] = text[start + 1] BY <1>5, <2>3
  <2>5. ASSUME text[start + 1] \in Alnum
        PROVE  /\ \A k \in start + 1 .. start + n : text[k] \in Alnum
               /\ start + n < L => text[start + n + 1] \notin Alnum
    BY <1>1, <1>2, <2>5, WholeRun
  <2>6. text[start + 1] \notin Alnum => n = 1 \/ w \in words
    BY <1>3 DEF Segmenter!Matches, w
  <2> QED BY <1>5, <1>7, <1>10, <2>1, <2>2, <2>4, <2>5, <2>6
<1> HIDE DEF Good
<1>14. \A i \in 1 .. m + 1 : Good(r, i)
  <2>1. \A i \in 1 .. m + 1 : i \in 1 .. m \/ i = m + 1 BY <1>1
  <2> QED BY <1>12, <1>13, <2>1
<1>15. Segmenter!RunsTakenWhole'
  <2>1. DOMAIN r = 1 .. m + 1 BY <1>7, LenProperties
  <2>2. \A i : Segmenter!Reach(i)' = LengthTo(r, i)
    BY <1>4, SegmentsSame DEF Segmenter!Reach, LengthTo
  <2>3. \A s, i : Segmenter!Word(s, i)' = Segmenter!Word(s, i) BY <1>1 DEF Segmenter!Word
  <2>4. Segmenter!Reach(Len(ret))' = start' BY <1>4, <1>7, <1>10, <2>2
  <2>5. \A i \in DOMAIN ret' : Good(ret', i) BY <1>4, <1>14, <2>1
  <2> QED BY <1>1, <1>4, <2>2, <2>3, <2>4, <2>5 DEF Segmenter!RunsTakenWhole, Good
<1>16. start + n \in 0 .. L /\ start + n # 0 BY <1>1, <1>3
<1>17. /\ text' \in Seq(STRING) /\ start' \in 0 .. Len(text') /\ ret' \in Seq(Seq(STRING))
       /\ start' # 0
  BY <1>1, <1>4, <1>7, <1>16
<1>18. flines' \in 0 .. Len(Frequencies) /\ \A c \in DOMAIN freqs' : freqs'[c] \in Nat
  BY <1>1 DEF WordsInv
<1> QED BY <1>15, <1>17, <1>18 DEF WordsInv

LEMMA FrequenciesKept ==
    ASSUME WordsInv, Segmenter!LoadFrequency
    PROVE  flines' \in 0 .. Len(Frequencies) /\ \A c \in DOMAIN freqs' : freqs'[c] \in Nat
<1> DEFINE line == Frequencies[flines + 1]
<1>1. Frequencies \in Seq([ch : STRING, log : Nat]) /\ Len(Frequencies) \in Nat
  BY HelpersAssumption, LenProperties DEF Segmenter!SegmentAssumption, Segmenter!FreqType
<1>2. /\ flines \in 0 .. Len(Frequencies) /\ flines < Len(Frequencies) /\ flines' = flines + 1
      /\ freqs' = [c \in DOMAIN freqs \cup {line.ch} |-> IF c \in DOMAIN freqs THEN freqs[c] ELSE line.log]
      /\ \A c \in DOMAIN freqs : freqs[c] \in Nat
  BY DEF WordsInv, Segmenter!LoadFrequency
<1>3. flines + 1 \in 1 .. Len(Frequencies) /\ flines' \in 0 .. Len(Frequencies) BY <1>1, <1>2
<1>4. line \in [ch : STRING, log : Nat] BY <1>1, <1>3, ElementOfSeq
<1>5. line.log \in Nat BY <1>4
<1> HIDE DEF line
<1> QED BY <1>2, <1>3, <1>5

LEMMA NextWords == WordsInv /\ [Segmenter!Next]_(Segmenter!vars) => WordsInv'
<1> SUFFICES ASSUME WordsInv, [Segmenter!Next]_(Segmenter!vars) PROVE WordsInv'
  OBVIOUS
<1> DEFINE Same == text' = text /\ start' = start /\ ret' = ret
<1>1. ASSUME Same, words \subseteq words', flines' \in 0 .. Len(Frequencies),
             \A c \in DOMAIN freqs' : freqs'[c] \in Nat
      PROVE  WordsInv'
  BY <1>1 DEF WordsInv, Segmenter!RunsTakenWhole, Segmenter!Reach, Segmenter!Word
<1>2. CASE Segmenter!LoadLine
  <2>1. Same /\ flines' = flines /\ freqs' = freqs /\ words \subseteq words'
    BY <1>2 DEF Segmenter!LoadLine
  <2> QED BY <1>1, <2>1 DEF WordsInv
<1>3. CASE Segmenter!LoadFrequency
  <2>1. Same /\ words' = words BY <1>3 DEF Segmenter!LoadFrequency
  <2> QED BY <1>1, <1>3, <2>1, FrequenciesKept
<1>4. ASSUME NEW s \in Texts, Segmenter!Segment(s) PROVE WordsInv'
  <2>1. /\ text = <<>> /\ text' = s /\ start' = start /\ ret' = ret /\ flines' = flines /\ freqs' = freqs
    BY <1>4 DEF Segmenter!Segment, Segmenter!loadVars
  <2>2. s \in Seq(STRING) /\ Len(s) \in Nat
    BY HelpersAssumption, LenProperties DEF Segmenter!SegmentAssumption
  <2>3. start = 0 /\ ret = <<>>
    <3>1. start \in 0 .. Len(text) /\ (start = 0 => ret = <<>>) BY DEF WordsInv
    <3>2. Len(text) = 0 BY <2>1, EmptySeq
    <3> QED BY <3>1, <3>2
  <2>4. /\ text' \in Seq(STRING) /\ start' = 0 /\ ret' = <<>> BY <2>1, <2>2, <2>3
  <2>5. ret' \in Seq(Seq(STRING)) /\ start' \in 0 .. Len(text') BY <2>1, <2>2, <2>4, EmptySeq
  <2>6. Segmenter!RunsTakenWhole'
    <3>1. DOMAIN ret' = {} /\ Len(ret') = 0 BY <2>4, EmptySeq
    <3>2. [k \in 1 .. 0 |-> Len(ret'[k])] = <<>> OBVIOUS
    <3>3. Segmenter!Reach(0)' = 0 BY <3>2, SumEmpty, SegmentsSame DEF Segmenter!Reach
    <3> QED BY <2>4, <3>1, <3>3 DEF Segmenter!RunsTakenWhole
  <2>7. flines' \in 0 .. Len(Frequencies) /\ \A c \in DOMAIN freqs' : freqs'[c] \in Nat
    BY <2>1 DEF WordsInv
  <2> QED BY <2>4, <2>5, <2>6, <2>7 DEF WordsInv
<1>5. CASE Segmenter!TakeWord BY <1>5, WordTaken
<1>6. CASE UNCHANGED Segmenter!vars
  <2>1. Same /\ flines' = flines /\ freqs' = freqs /\ words' = words
    BY <1>6 DEF Segmenter!vars, Segmenter!loadVars
  <2> QED BY <1>1, <2>1 DEF WordsInv
<1> QED BY <1>2, <1>3, <1>4, <1>5, <1>6 DEF Segmenter!Next

(* For every text, dictionary, table of frequencies and depth: the words    *)
(* that segment takes are the text again; one that begins with a letter or  *)
(* digit takes its run to the end, however match_all cuts the run and       *)
(* whatever parts of it the dictionary holds.  Every other one is a single  *)
(* character or a word of the dictionary, behind which a run may be cut.    *)
THEOREM RunsAlwaysTaken == Spec => []RunsTakenWhole
<1> DEFINE Inv == part = "segment" => WordsInv
<1>1. Init => Inv
  BY InitWords
<1>2. Inv /\ [Next]_vars => Inv'
  BY OnlyOne, NextWords
<1>3. Inv => RunsTakenWhole
  BY DEF WordsInv, RunsTakenWhole
<1> HIDE DEF Inv
<1> QED BY <1>1, <1>2, <1>3, PTL DEF Spec
=============================================================================
