----------------------------- MODULE UploadProofs -----------------------------
(***************************************************************************)
(* Proofs about an upload, for whatever is uploaded and a buffer of any     *)
(* size.                                                                    *)
(***************************************************************************)
EXTENDS Upload, SequenceTheorems, WellFoundedInduction, TLAPS

Total == up.hdr + Len(Body(up))

(* Until the content begins the buffer holds all that was received.         *)
Prefix ==
    /\ f_offset = got /\ file = <<>>
    /\ \A i \in 1 .. got : buffer[i] = Stream(up)[i]
    /\ \A i \in got + 1 .. Cap : buffer[i] = "junk"

(* The file holds all that was received of the content and behind it.       *)
Received ==
    /\ Len(file) = got - NameAt
    /\ \A i \in 1 .. Len(file) : file[i] = Stream(up)[NameAt + i]

(* Behind the opening line, no boundary is left in the buffer.              *)
NoBoundary == \A i \in NameAt - 1 .. Cap : buffer[i] # "b"

ReadInv == mode = "read" => got = 0 /\ ~wfirst /\ Prefix /\ reply = "none"

ReceiveInv ==
    mode = "receive" =>
        /\ recv_datalen = got /\ reply = "none" /\ (~wfirst => Prefix)
        /\ wfirst =>
             /\ f_offset = 0 /\ got >= NameAt
             /\ ~up.db => Received
             /\ up.db => f_len = Len(file)
             /\ up.db /\ clean => got > Total \/ (got <= ContentEnd /\ Received /\ NoBoundary)

Inductive == TypeOK /\ ReadInv /\ ReceiveInv /\ StoredExactly /\ LengthAsSaved /\ HoldsBeginning

-----------------------------------------------------------------------------
(***************************************************************************)
(* Least and greatest numbers of a set.                                     *)
(***************************************************************************)
LEMMA LeastOf ==
    ASSUME NEW U \in SUBSET Nat, U # {}
    PROVE  \E m \in U : \A j \in U : m <= j
<1> DEFINE R == OpToRel(<, Nat)
<1>1. IsWellFoundedOn(R, Nat) BY NatLessThanWellFounded
<1>2. \A x, y \in Nat : y < x => <<y, x>> \in R BY DEF OpToRel
<1> HIDE DEF R
<1>3. PICK m \in U : \A j \in U : ~(<<j, m>> \in R) BY <1>1, WFMin
<1>4. \A j \in U : ~(j < m) BY <1>2, <1>3
<1> QED BY <1>4

LEMMA MinFacts ==
    ASSUME NEW U \in SUBSET Nat, U # {}
    PROVE  Min(U) \in U /\ \A j \in U : Min(U) <= j
BY LeastOf DEF Min

LEMMA MaxFacts ==
    ASSUME NEW i \in Nat, NEW U \in SUBSET (0 .. i), U # {}
    PROVE  Max(U) \in U /\ \A j \in U : j <= Max(U)
<1> DEFINE V == {i - j : j \in U}
<1>0. \A j \in U : j \in 0 .. i OBVIOUS
<1>1. V \in SUBSET Nat /\ V # {}
  <2>1. \A j \in U : i - j \in Nat BY <1>0
  <2>2. PICK j \in U : TRUE OBVIOUS
  <2>3. i - j \in V BY <2>2
  <2> QED BY <2>1, <2>3
<1>2. PICK v \in V : \A w \in V : v <= w BY <1>1, LeastOf
<1>3. PICK m \in U : v = i - m BY <1>2
<1>4. ASSUME NEW j \in U PROVE m >= j
  <2>1. i - j \in V OBVIOUS
  <2>2. i - m <= i - j BY <1>2, <1>3, <2>1
  <2> QED BY <1>0, <2>2
<1>5. \E k \in U : \A j \in U : k >= j BY <1>3, <1>4
<1> HIDE DEF V
<1> QED BY <1>5 DEF Max

-----------------------------------------------------------------------------
(***************************************************************************)
(* Where the parts of an upload are in what the client sends.               *)
(***************************************************************************)
LEMMA RepFacts ==
    ASSUME NEW s \in Symbols, NEW k \in Nat
    PROVE  /\ Rep(s, k) \in Seq(Symbols) /\ Len(Rep(s, k)) = k
           /\ \A i \in 1 .. k : Rep(s, k)[i] = s
BY DEF Rep

LEMMA Cat ==
    ASSUME NEW s \in Seq(Symbols), NEW t \in Seq(Symbols)
    PROVE  /\ s \o t \in Seq(Symbols) /\ Len(s \o t) = Len(s) + Len(t)
           /\ \A i \in 1 .. Len(s) : (s \o t)[i] = s[i]
           /\ \A i \in 1 .. Len(t) : (s \o t)[Len(s) + i] = t[i]
<1>p. PICK k \in Nat, l \in Nat : k = Len(s) /\ l = Len(t) BY LenProperties
<1>1. /\ s \o t \in Seq(Symbols) /\ Len(s \o t) = k + l
      /\ \A i \in 1 .. k + l : (s \o t)[i] = IF i <= k THEN s[i] ELSE t[i - k]
  BY <1>p, ConcatProperties
<1>2. \A i \in 1 .. k : i \in 1 .. k + l /\ i <= k OBVIOUS
<1>3. \A i \in 1 .. l : k + i \in 1 .. k + l /\ ~(k + i <= k) /\ (k + i) - k = i OBVIOUS
<1> QED BY <1>p, <1>1, <1>2, <1>3

LEMMA UploadFacts ==
    ASSUME up \in Uploads
    PROVE  /\ up.hdr \in Nat \ {0} /\ up.dashes \in Nat /\ up.dashes >= 2
           /\ up.epilogue \in Nat /\ up.extra \in Nat /\ up.hdr <= Cap /\ Cap \in Nat \ {0}
           /\ up.content \in Seq({"x", "-"}) /\ up.content \in Seq(Symbols) /\ Len(up.content) \in Nat
           /\ NameAt \in Nat /\ ContentAt \in Nat /\ ContentEnd \in Nat
           /\ NameAt = up.hdr + up.dashes + 3 /\ ContentAt = NameAt + 1
           /\ ContentEnd = NameAt + Len(up.content) /\ up.db \in BOOLEAN
<1>1. up \in UploadType /\ up.dashes >= 2 /\ up.hdr <= Cap BY UploadsAssumption
<1>2. up.content \in Seq({"x", "-"}) BY <1>1 DEF UploadType
<1>3. {"x", "-"} \subseteq Symbols BY DEF Symbols
<1>4. up.content \in Seq(Symbols) BY <1>2, <1>3, SeqMonotonic
<1>5. Len(up.content) \in Nat BY <1>2, LenProperties
<1> QED BY <1>1, <1>2, <1>4, <1>5, CapAssumption DEF UploadType, NameAt, ContentAt, ContentEnd

LEMMA ClosingFacts ==
    ASSUME up \in Uploads
    PROVE  /\ Closing(up) \in Seq(Symbols) /\ Len(Closing(up)) = up.dashes + 7
           /\ Closing(up)[1] = "cr" /\ Closing(up)[2] = "lf"
           /\ \A i \in 1 .. up.dashes : Closing(up)[2 + i] = "-"
           /\ Closing(up)[up.dashes + 3] = "b" /\ Closing(up)[up.dashes + 4] = "-"
           /\ Closing(up)[up.dashes + 5] = "-" /\ Closing(up)[up.dashes + 6] = "cr"
           /\ Closing(up)[up.dashes + 7] = "lf"
<1>d. PICK d \in Nat : d = up.dashes BY UploadFacts
<1> DEFINE A == <<"cr", "lf">>
           D == Rep("-", d)
           T == <<"b", "-", "-", "cr", "lf">>
<1>1. A \in Seq(Symbols) /\ Len(A) = 2 /\ A[1] = "cr" /\ A[2] = "lf" BY DEF Symbols
<1>2. D \in Seq(Symbols) /\ Len(D) = d /\ \A i \in 1 .. d : D[i] = "-" BY RepFacts DEF Symbols
<1>3. /\ T \in Seq(Symbols) /\ Len(T) = 5
      /\ T[1] = "b" /\ T[2] = "-" /\ T[3] = "-" /\ T[4] = "cr" /\ T[5] = "lf"
  BY DEF Symbols
<1> HIDE DEF A, D, T
<1> DEFINE P == A \o D
<1>4. /\ P \in Seq(Symbols) /\ Len(P) = 2 + d
      /\ \A i \in 1 .. 2 : P[i] = A[i]
      /\ \A i \in 1 .. d : P[2 + i] = D[i]
  <2>1. A \in Seq(Symbols) /\ D \in Seq(Symbols) /\ 2 = Len(A) /\ d = Len(D) /\ 2 \in Nat /\ d \in Nat
    BY <1>1, <1>2
  <2>2. /\ A \o D \in Seq(Symbols) /\ Len(A \o D) = Len(A) + Len(D)
        /\ \A i \in 1 .. Len(A) : (A \o D)[i] = A[i]
        /\ \A i \in 1 .. Len(D) : (A \o D)[Len(A) + i] = D[i]
    BY <2>1, Cat
  <2> QED BY <2>1, <2>2
<1> HIDE DEF P
<1> DEFINE Q == P \o T
<1>5. /\ Q \in Seq(Symbols) /\ Len(Q) = (2 + d) + 5
      /\ \A i \in 1 .. 2 + d : Q[i] = P[i]
      /\ \A i \in 1 .. 5 : Q[(2 + d) + i] = T[i]
  <2>1. P \in Seq(Symbols) /\ T \in Seq(Symbols) /\ 2 + d = Len(P) /\ 5 = Len(T) /\ 2 + d \in Nat /\ 5 \in Nat
    BY <1>3, <1>4
  <2>2. /\ P \o T \in Seq(Symbols) /\ Len(P \o T) = Len(P) + Len(T)
        /\ \A i \in 1 .. Len(P) : (P \o T)[i] = P[i]
        /\ \A i \in 1 .. Len(T) : (P \o T)[Len(P) + i] = T[i]
    BY <2>1, Cat
  <2> QED BY <2>1, <2>2
<1> HIDE DEF Q
<1>6. Q = Closing(up) BY <1>d DEF Q, P, T, D, A, Closing
<1>7. Q[1] = "cr" /\ Q[2] = "lf" BY <1>1, <1>4, <1>5
<1>8. \A i \in 1 .. d : Q[2 + i] = "-"
  <2>1. \A i \in 1 .. d : 2 + i \in 1 .. 2 + d OBVIOUS
  <2> QED BY <1>2, <1>4, <1>5, <2>1
<1>9. /\ Q[(2 + d) + 1] = "b" /\ Q[(2 + d) + 2] = "-" /\ Q[(2 + d) + 3] = "-"
      /\ Q[(2 + d) + 4] = "cr" /\ Q[(2 + d) + 5] = "lf"
  BY <1>3, <1>5
<1>10. /\ (2 + d) + 1 = d + 3 /\ (2 + d) + 2 = d + 4 /\ (2 + d) + 3 = d + 5
       /\ (2 + d) + 4 = d + 6 /\ (2 + d) + 5 = d + 7
  OBVIOUS
<1> QED BY <1>d, <1>5, <1>6, <1>7, <1>8, <1>9, <1>10

(* The parts by their lengths: the request's header, the dashes, the        *)
(* content, the epilogue and what follows.                                  *)
Parts(s, h, d, l, e, x) ==
    /\ s \in Seq(Symbols) /\ Len(Body(up)) = 2 * d + l + e + 10
    /\ Len(s) = h + 2 * d + l + e + 10 + x
    /\ \A i \in 1 .. h : s[i] = "h"
    /\ \A i \in 1 .. d : s[h + i] = "-"
    /\ s[h + d + 1] = "b" /\ s[h + d + 2] = "disp" /\ s[h + d + 3] = "name"
    /\ \A i \in 1 .. l : s[h + d + 3 + i] = up.content[i]
    /\ \A i \in 1 .. d + 7 : s[h + d + 3 + l + i] = Closing(up)[i]
    /\ \A i \in 1 .. e : s[h + d + 3 + l + d + 7 + i] = "e"

LEMMA StreamParts ==
    ASSUME up \in Uploads,
           NEW h \in Nat, NEW d \in Nat, NEW l \in Nat, NEW e \in Nat, NEW x \in Nat
    PROVE  h = up.hdr /\ d = up.dashes /\ l = Len(up.content) /\ e = up.epilogue /\ x = up.extra =>
           Parts(Stream(up), h, d, l, e, x)
<1>0. SUFFICES ASSUME h = up.hdr, d = up.dashes, l = Len(up.content), e = up.epilogue, x = up.extra
             PROVE  Parts(Stream(up), h, d, l, e, x)
  OBVIOUS
<1> DEFINE H == Rep("h", h)
           D == Rep("-", d)
           T == <<"b", "disp", "name">>
           C == up.content
           K == Closing(up)
           E == Rep("e", e)
           N == Rep("n", x)
<1>1. /\ H \in Seq(Symbols) /\ Len(H) = h /\ \A i \in 1 .. h : H[i] = "h"
  BY RepFacts DEF Symbols
<1>2. /\ D \in Seq(Symbols) /\ Len(D) = d /\ \A i \in 1 .. d : D[i] = "-"
  BY RepFacts DEF Symbols
<1>3. T \in Seq(Symbols) /\ Len(T) = 3 /\ T[1] = "b" /\ T[2] = "disp" /\ T[3] = "name"
  BY DEF Symbols
<1>4. C \in Seq(Symbols) /\ Len(C) = l BY <1>0, UploadFacts
<1>5. K \in Seq(Symbols) /\ Len(K) = d + 7 BY <1>0, ClosingFacts
<1>6. /\ E \in Seq(Symbols) /\ Len(E) = e /\ \A i \in 1 .. e : E[i] = "e"
  BY RepFacts DEF Symbols
<1>7. N \in Seq(Symbols) /\ Len(N) = x BY RepFacts DEF Symbols
<1> HIDE DEF H, D, T, C, K, E, N
<1> DEFINE P == D \o T
<1>8. /\ P \in Seq(Symbols) /\ Len(P) = d + 3
      /\ \A i \in 1 .. d : P[i] = D[i]
      /\ \A i \in 1 .. 3 : P[d + i] = T[i]
  <2>1. D \in Seq(Symbols) /\ T \in Seq(Symbols) /\ d = Len(D) /\ 3 = Len(T) BY <1>2, <1>3
  <2>2. /\ D \o T \in Seq(Symbols) /\ Len(D \o T) = Len(D) + Len(T)
        /\ \A i \in 1 .. Len(D) : (D \o T)[i] = D[i]
        /\ \A i \in 1 .. Len(T) : (D \o T)[Len(D) + i] = T[i]
    BY <2>1, Cat
  <2> QED BY <2>1, <2>2
<1> HIDE DEF P
<1> DEFINE Q == P \o C
<1>9. /\ Q \in Seq(Symbols) /\ Len(Q) = (d + 3) + l
      /\ \A i \in 1 .. (d + 3) : Q[i] = P[i]
      /\ \A i \in 1 .. l : Q[(d + 3) + i] = C[i]
  <2>1. P \in Seq(Symbols) /\ C \in Seq(Symbols) /\ (d + 3) = Len(P) /\ l = Len(C) BY <1>4, <1>8
  <2>2. /\ P \o C \in Seq(Symbols) /\ Len(P \o C) = Len(P) + Len(C)
        /\ \A i \in 1 .. Len(P) : (P \o C)[i] = P[i]
        /\ \A i \in 1 .. Len(C) : (P \o C)[Len(P) + i] = C[i]
    BY <2>1, Cat
  <2> QED BY <2>1, <2>2
<1> HIDE DEF Q
<1> DEFINE R == Q \o K
<1>10. /\ R \in Seq(Symbols) /\ Len(R) = (d + 3 + l) + (d + 7)
       /\ \A i \in 1 .. (d + 3 + l) : R[i] = Q[i]
       /\ \A i \in 1 .. (d + 7) : R[(d + 3 + l) + i] = K[i]
  <2>1. Q \in Seq(Symbols) /\ K \in Seq(Symbols) /\ (d + 3 + l) = Len(Q) /\ (d + 7) = Len(K) BY <1>5, <1>9
  <2>2. /\ Q \o K \in Seq(Symbols) /\ Len(Q \o K) = Len(Q) + Len(K)
        /\ \A i \in 1 .. Len(Q) : (Q \o K)[i] = Q[i]
        /\ \A i \in 1 .. Len(K) : (Q \o K)[Len(Q) + i] = K[i]
    BY <2>1, Cat
  <2> QED BY <2>1, <2>2
<1> HIDE DEF R
<1> DEFINE B == R \o E
<1>11. /\ B \in Seq(Symbols) /\ Len(B) = (d + 3 + l + d + 7) + e
       /\ \A i \in 1 .. (d + 3 + l + d + 7) : B[i] = R[i]
       /\ \A i \in 1 .. e : B[(d + 3 + l + d + 7) + i] = E[i]
  <2>1. R \in Seq(Symbols) /\ E \in Seq(Symbols) /\ (d + 3 + l + d + 7) = Len(R) /\ e = Len(E) BY <1>6, <1>10
  <2>2. /\ R \o E \in Seq(Symbols) /\ Len(R \o E) = Len(R) + Len(E)
        /\ \A i \in 1 .. Len(R) : (R \o E)[i] = R[i]
        /\ \A i \in 1 .. Len(E) : (R \o E)[Len(R) + i] = E[i]
    BY <2>1, Cat
  <2> QED BY <2>1, <2>2
<1> HIDE DEF B
<1>12. B = Body(up) /\ Len(B) = 2 * d + l + e + 10
  <2>1. B = Body(up) BY <1>0 DEF B, R, Q, P, T, D, C, K, E, Body
  <2> QED BY <2>1, <1>11
<1>w. PICK w \in Nat : w = 2 * d + l + e + 10 OBVIOUS
<1> DEFINE X == H \o B
<1>13. /\ X \in Seq(Symbols) /\ Len(X) = h + w
       /\ \A i \in 1 .. h : X[i] = H[i]
       /\ \A i \in 1 .. w : X[h + i] = B[i]
  <2>1. H \in Seq(Symbols) /\ B \in Seq(Symbols) /\ h = Len(H) /\ w = Len(B) BY <1>w, <1>1, <1>11, <1>12
  <2>2. /\ H \o B \in Seq(Symbols) /\ Len(H \o B) = Len(H) + Len(B)
        /\ \A i \in 1 .. Len(H) : (H \o B)[i] = H[i]
        /\ \A i \in 1 .. Len(B) : (H \o B)[Len(H) + i] = B[i]
    BY <2>1, Cat
  <2> QED BY <2>1, <2>2
<1> HIDE DEF X
<1> DEFINE S == X \o N
<1>14. /\ S \in Seq(Symbols) /\ Len(S) = (h + w) + x
       /\ \A i \in 1 .. (h + w) : S[i] = X[i]
       /\ \A i \in 1 .. x : S[(h + w) + i] = N[i]
  <2>1. X \in Seq(Symbols) /\ N \in Seq(Symbols) /\ (h + w) = Len(X) /\ x = Len(N) BY <1>7, <1>13
  <2>2. /\ X \o N \in Seq(Symbols) /\ Len(X \o N) = Len(X) + Len(N)
        /\ \A i \in 1 .. Len(X) : (X \o N)[i] = X[i]
        /\ \A i \in 1 .. Len(N) : (X \o N)[Len(X) + i] = N[i]
    BY <2>1, Cat
  <2> QED BY <2>1, <2>2
<1> HIDE DEF S
<1>15. S = Stream(up) BY <1>0, <1>12 DEF S, X, H, N, Stream
<1>b. ASSUME NEW i \in 1 .. 2 * d + l + e + 10 PROVE S[h + i] = B[i]
  <2>1. h + i \in 1 .. h + w /\ i \in 1 .. w BY <1>w
  <2>2. S[h + i] = X[h + i] BY <1>14, <2>1
  <2>3. X[h + i] = B[i] BY <1>13, <2>1
  <2> QED BY <2>2, <2>3
<1>r. \A i \in 1 .. 2 * d + l + 10 : S[h + i] = R[i]
  <2>1. \A i \in 1 .. 2 * d + l + 10 :
           i \in 1 .. 2 * d + l + e + 10 /\ i \in 1 .. d + 3 + l + d + 7
    OBVIOUS
  <2> QED BY <1>11, <1>b, <2>1
<1>16. \A i \in 1 .. h : S[i] = "h"
  <2>1. \A i \in 1 .. h : i \in 1 .. h + w OBVIOUS
  <2> QED BY <1>1, <1>13, <1>14, <2>1
<1>17. \A i \in 1 .. d + 3 : S[h + i] = P[i]
  <2>1. \A i \in 1 .. d + 3 : i \in 1 .. 2 * d + l + 10 /\ i \in 1 .. d + 3 + l OBVIOUS
  <2> QED BY <1>9, <1>10, <1>r, <2>1
<1>18. \A i \in 1 .. d : S[h + i] = "-"
  <2>1. \A i \in 1 .. d : i \in 1 .. d + 3 OBVIOUS
  <2> QED BY <1>2, <1>8, <1>17, <2>1
<1>19. S[h + d + 1] = "b" /\ S[h + d + 2] = "disp" /\ S[h + d + 3] = "name"
  <2>1. \A i \in 1 .. 3 : d + i \in 1 .. d + 3 /\ h + (d + i) = h + d + i OBVIOUS
  <2>2. \A i \in 1 .. 3 : S[h + d + i] = T[i] BY <1>8, <1>17, <2>1
  <2> QED BY <1>3, <2>2
<1>20. \A i \in 1 .. l : S[h + d + 3 + i] = C[i]
  <2>1. \A i \in 1 .. l : /\ (d + 3) + i \in 1 .. 2 * d + l + 10 /\ (d + 3) + i \in 1 .. d + 3 + l
                          /\ h + ((d + 3) + i) = h + d + 3 + i
    OBVIOUS
  <2> QED BY <1>9, <1>10, <1>r, <2>1
<1>21. ASSUME NEW i \in 1 .. d + 7 PROVE S[h + d + 3 + l + i] = K[i]
  <2>1. /\ (d + 3 + l) + i \in 1 .. 2 * d + l + 10
        /\ h + ((d + 3 + l) + i) = h + d + 3 + l + i
    OBVIOUS
  <2>2. S[h + ((d + 3 + l) + i)] = R[(d + 3 + l) + i] BY <1>r, <2>1
  <2>3. R[(d + 3 + l) + i] = K[i] BY <1>10
  <2> QED BY <2>1, <2>2, <2>3
<1>22. ASSUME NEW i \in 1 .. e PROVE S[h + d + 3 + l + d + 7 + i] = "e"
  <2>1. /\ (d + 3 + l + d + 7) + i \in 1 .. 2 * d + l + e + 10
        /\ h + ((d + 3 + l + d + 7) + i) = h + d + 3 + l + d + 7 + i
    OBVIOUS
  <2>2. S[h + ((d + 3 + l + d + 7) + i)] = B[(d + 3 + l + d + 7) + i] BY <1>b, <2>1
  <2>3. B[(d + 3 + l + d + 7) + i] = E[i] BY <1>11
  <2> QED BY <1>6, <2>1, <2>2, <2>3
<1>23. Len(S) = h + 2 * d + l + e + 10 + x /\ S \in Seq(Symbols) BY <1>w, <1>14
<1> QED BY <1>12, <1>15, <1>16, <1>18, <1>19, <1>20, <1>21, <1>22, <1>23 DEF Parts, C, K

(* What the proofs need to know of it.                                      *)
LEMMA StreamFacts ==
    ASSUME up \in Uploads
    PROVE  /\ Stream(up) \in Seq(Symbols) /\ Total \in Nat /\ Len(Stream(up)) = Total + up.extra
           /\ Total = ContentEnd + up.dashes + 7 + up.epilogue
           /\ \A i \in 1 .. Len(Stream(up)) : Stream(up)[i] \in Symbols
           /\ \A i \in 1 .. NameAt - 1 : Stream(up)[i] # "name"
           /\ \A i \in NameAt - 1 .. ContentEnd : Stream(up)[i] # "b"
           /\ \A i \in 1 .. Len(up.content) : Stream(up)[NameAt + i] = up.content[i]
           /\ Stream(up)[ContentEnd + 1] # "b" /\ Stream(up)[ContentEnd + 2] = "lf"
           /\ Stream(up)[ContentEnd + up.dashes + 3] = "b"
           /\ \A i \in 1 .. up.dashes : Stream(up)[ContentEnd + 2 + i] = "-"
           /\ \A i \in ContentEnd + up.dashes + 4 .. Total : Stream(up)[i] # "b"
<1>p. PICK h \in Nat, d \in Nat, l \in Nat, e \in Nat, x \in Nat :
        h = up.hdr /\ d = up.dashes /\ l = Len(up.content) /\ e = up.epilogue /\ x = up.extra
  BY UploadFacts
<1> DEFINE S == Stream(up)
<1>0. Parts(S, h, d, l, e, x) BY <1>p, StreamParts
<1>1. /\ S \in Seq(Symbols) /\ Len(Body(up)) = 2 * d + l + e + 10
      /\ Len(S) = h + 2 * d + l + e + 10 + x
      /\ \A i \in 1 .. h : S[i] = "h"
      /\ \A i \in 1 .. d : S[h + i] = "-"
      /\ S[h + d + 1] = "b" /\ S[h + d + 2] = "disp" /\ S[h + d + 3] = "name"
      /\ \A i \in 1 .. l : S[h + d + 3 + i] = up.content[i]
      /\ \A i \in 1 .. d + 7 : S[h + d + 3 + l + i] = Closing(up)[i]
      /\ \A i \in 1 .. e : S[h + d + 3 + l + d + 7 + i] = "e"
  BY <1>0 DEF Parts
<1> HIDE DEF S
<1>2. NameAt = h + d + 3 /\ ContentEnd = h + d + 3 + l /\ Total = h + 2 * d + l + e + 10
  <2>1. NameAt = up.hdr + up.dashes + 3 /\ ContentEnd = NameAt + Len(up.content) BY UploadFacts
  <2>2. Total = h + (2 * d + l + e + 10) BY <1>p, <1>1 DEF Total
  <2>3. h + (2 * d + l + e + 10) = h + 2 * d + l + e + 10 OBVIOUS
  <2> QED BY <1>p, <2>1, <2>2, <2>3
<1>3. \A i \in 1 .. Len(S) : S[i] \in Symbols BY <1>1, ElementOfSeq
<1>4. ASSUME NEW i \in 1 .. NameAt - 1 PROVE S[i] # "name"
  <2>1. CASE i <= h
    <3>1. i \in 1 .. h BY <2>1
    <3> QED BY <1>1, <3>1
  <2>2. CASE h < i /\ i <= h + d
    <3>1. i - h \in 1 .. d /\ h + (i - h) = i BY <1>2, <2>2
    <3> QED BY <1>1, <3>1
  <2>3. CASE h + d < i
    <3>1. i = h + d + 1 \/ i = h + d + 2 BY <1>2, <2>3
    <3> QED BY <1>1, <3>1
  <2> QED BY <1>2, <2>1, <2>2, <2>3
<1>5. ASSUME NEW i \in NameAt - 1 .. ContentEnd PROVE S[i] # "b"
  <2>1. CASE i = NameAt - 1 \/ i = NameAt
    <3>1. i = h + d + 2 \/ i = h + d + 3 BY <1>2, <2>1
    <3> QED BY <1>1, <3>1
  <2>2. CASE ~(i = NameAt - 1 \/ i = NameAt)
    <3>1. i - (h + d + 3) \in 1 .. l /\ h + d + 3 + (i - (h + d + 3)) = i BY <1>2, <2>2
    <3>2. S[i] = up.content[i - (h + d + 3)] BY <1>1, <3>1
    <3>3. up.content[i - (h + d + 3)] \in {"x", "-"} BY <1>p, <3>1, UploadFacts, ElementOfSeq
    <3> QED BY <3>2, <3>3
  <2> QED BY <2>1, <2>2
<1>c. /\ Closing(up)[1] = "cr" /\ Closing(up)[2] = "lf"
      /\ \A i \in 1 .. d : Closing(up)[2 + i] = "-"
      /\ Closing(up)[d + 3] = "b" /\ Closing(up)[d + 4] = "-"
      /\ Closing(up)[d + 5] = "-" /\ Closing(up)[d + 6] = "cr"
      /\ Closing(up)[d + 7] = "lf"
  BY <1>p, ClosingFacts
<1>6. S[ContentEnd + 1] # "b" /\ S[ContentEnd + 2] = "lf" /\ S[ContentEnd + d + 3] = "b"
  <2>1. /\ 1 \in 1 .. d + 7 /\ 2 \in 1 .. d + 7 /\ d + 3 \in 1 .. d + 7
        /\ h + d + 3 + l + (d + 3) = ContentEnd + d + 3
    BY <1>2
  <2>2. /\ S[h + d + 3 + l + 1] = Closing(up)[1] /\ S[h + d + 3 + l + 2] = Closing(up)[2]
        /\ S[h + d + 3 + l + (d + 3)] = Closing(up)[d + 3]
    BY <1>1, <2>1
  <2> QED BY <1>2, <1>c, <2>1, <2>2
<1>7. ASSUME NEW i \in 1 .. d PROVE S[ContentEnd + 2 + i] = "-"
  <2>1. 2 + i \in 1 .. d + 7 /\ h + d + 3 + l + (2 + i) = ContentEnd + 2 + i BY <1>2
  <2>2. S[h + d + 3 + l + (2 + i)] = Closing(up)[2 + i] BY <1>1, <2>1
  <2> QED BY <1>c, <2>1, <2>2
<1>8. ASSUME NEW i \in ContentEnd + d + 4 .. Total PROVE S[i] # "b"
  <2>1. CASE i <= ContentEnd + d + 7
    <3> DEFINE j == i - (h + d + 3 + l)
    <3>1. j \in 1 .. d + 7 /\ h + d + 3 + l + j = i
          /\ (j = d + 4 \/ j = d + 5 \/ j = d + 6 \/ j = d + 7)
      BY <1>2, <2>1
    <3> HIDE DEF j
    <3>2. S[h + d + 3 + l + j] = Closing(up)[j] BY <1>1, <3>1
    <3>3. Closing(up)[j] # "b" BY <1>c, <3>1
    <3> QED BY <3>1, <3>2, <3>3
  <2>2. CASE ~(i <= ContentEnd + d + 7)
    <3> DEFINE j == i - (h + d + 3 + l + d + 7)
    <3>1. j \in 1 .. e /\ h + d + 3 + l + d + 7 + j = i BY <1>2, <2>2
    <3> HIDE DEF j
    <3>2. S[h + d + 3 + l + d + 7 + j] = "e" BY <1>1, <3>1
    <3> QED BY <3>1, <3>2
  <2> QED BY <2>1, <2>2
<1>9. /\ Total \in Nat /\ Len(S) = Total + x /\ Total = ContentEnd + d + 7 + e
  BY <1>1, <1>2
<1> QED BY <1>p, <1>1, <1>2, <1>3, <1>4, <1>5, <1>6, <1>7, <1>8, <1>9 DEF S

-----------------------------------------------------------------------------
(***************************************************************************)
(* Pieces.                                                                  *)
(***************************************************************************)
LEMMA PieceFacts ==
    ASSUME TypeOK, NEW m \in 0 .. Cap, Piece(m)
    PROVE  /\ up' = up /\ got' = got + m /\ got' \in 0 .. Len(Stream(up))
           /\ buffer' \in [1 .. Cap -> Symbols] /\ clean' \in BOOLEAN
           /\ f_offset + m \in 0 .. Cap /\ (f_offset < Cap => m >= 1)
           /\ \A i \in 1 .. Cap : ~(f_offset < i /\ i <= f_offset + m) => buffer'[i] = buffer[i]
           /\ \A i \in 1 .. m : buffer'[f_offset + i] = Stream(up)[got + i]
           /\ clean' => clean /\ CleanRead(m)
<1>t. /\ Cap \in Nat \ {0} /\ f_offset \in 0 .. Cap /\ up \in Uploads /\ clean \in BOOLEAN
      /\ got \in 0 .. Len(Stream(up)) /\ buffer \in [1 .. Cap -> Symbols]
  BY CapAssumption DEF TypeOK
<1>s. /\ Len(Stream(up)) \in Nat
      /\ \A i \in 1 .. Len(Stream(up)) : Stream(up)[i] \in Symbols
  BY <1>t, StreamFacts, UploadFacts
<1>1. /\ m + got <= Len(Stream(up)) /\ got' = got + m /\ up' = up /\ clean' = (clean /\ CleanRead(m))
      /\ m \in IF Room = 0 THEN {0} ELSE 1 .. Room
      /\ buffer' = [i \in 1 .. Cap |-> IF f_offset < i /\ i <= f_offset + m
                                       THEN Stream(up)[got + i - f_offset] ELSE buffer[i]]
  BY DEF Piece
<1>2. f_offset + m \in 0 .. Cap /\ (f_offset < Cap => m >= 1) BY <1>t, <1>1 DEF Room
<1>3. got' \in 0 .. Len(Stream(up)) BY <1>t, <1>s, <1>1
<1>4. \A i \in 1 .. Cap : f_offset < i /\ i <= f_offset + m => got + i - f_offset \in 1 .. Len(Stream(up))
  BY <1>t, <1>s, <1>1
<1>5. buffer' \in [1 .. Cap -> Symbols] BY <1>t, <1>s, <1>1, <1>4
<1>6. \A i \in 1 .. Cap : ~(f_offset < i /\ i <= f_offset + m) => buffer'[i] = buffer[i] BY <1>1
<1>7. ASSUME NEW i \in 1 .. m PROVE buffer'[f_offset + i] = Stream(up)[got + i]
  <2>1. /\ f_offset + i \in 1 .. Cap /\ f_offset < f_offset + i /\ f_offset + i <= f_offset + m
        /\ got + (f_offset + i) - f_offset = got + i
    BY <1>t, <1>2
  <2> QED BY <1>1, <2>1
<1>8. clean' \in BOOLEAN /\ (clean' => clean /\ CleanRead(m)) BY <1>t, <1>1
<1> QED BY <1>1, <1>2, <1>3, <1>5, <1>6, <1>7, <1>8

(* Until the content begins the buffer takes one piece after the other.     *)
LEMMA PrefixGrows ==
    ASSUME TypeOK, Prefix, NEW m \in 0 .. Cap, Piece(m)
    PROVE  /\ got' = got + m /\ got' \in 0 .. Cap /\ file = <<>> /\ f_offset + m = got'
           /\ \A i \in 1 .. got' : buffer'[i] = Stream(up)[i]
           /\ \A i \in got' + 1 .. Cap : buffer'[i] = "junk"
<1>t. /\ Cap \in Nat \ {0} /\ f_offset \in 0 .. Cap /\ got = f_offset /\ file = <<>>
      /\ \A i \in 1 .. got : buffer[i] = Stream(up)[i]
      /\ \A i \in got + 1 .. Cap : buffer[i] = "junk"
  BY CapAssumption DEF TypeOK, Prefix
<1>1. /\ got' = got + m /\ f_offset + m \in 0 .. Cap
      /\ \A i \in 1 .. Cap : ~(f_offset < i /\ i <= f_offset + m) => buffer'[i] = buffer[i]
      /\ \A i \in 1 .. m : buffer'[f_offset + i] = Stream(up)[got + i]
  BY PieceFacts
<1>2. ASSUME NEW i \in 1 .. got + m PROVE buffer'[i] = Stream(up)[i]
  <2>1. CASE i <= got
    <3>1. i \in 1 .. Cap /\ i \in 1 .. got /\ ~(f_offset < i) BY <1>t, <2>1
    <3> QED BY <1>t, <1>1, <3>1
  <2>2. CASE ~(i <= got)
    <3>1. i - got \in 1 .. m /\ f_offset + (i - got) = i /\ got + (i - got) = i BY <1>t, <2>2
    <3>2. buffer'[f_offset + (i - got)] = Stream(up)[got + (i - got)] BY <1>1, <3>1
    <3> QED BY <3>1, <3>2
  <2> QED BY <2>1, <2>2
<1>3. ASSUME NEW i \in got + m + 1 .. Cap PROVE buffer'[i] = "junk"
  <2>1. i \in 1 .. Cap /\ i \in got + 1 .. Cap /\ ~(i <= f_offset + m) BY <1>t
  <2> QED BY <1>t, <1>1, <2>1
<1> QED BY <1>t, <1>1, <1>2, <1>3

-----------------------------------------------------------------------------
(***************************************************************************)
(* Files on disk: what is cut off.                                          *)
(***************************************************************************)
LEMMA PastDashesFacts ==
    ASSUME NEW f \in Seq(Symbols)
    PROVE  /\ PastDashes(f) \in 6 .. Len(f) + 6 /\ CutLength(f) \in Int
           /\ Truncated(f) \in Seq(Symbols) /\ Len(Truncated(f)) <= Len(f)
           /\ \A i \in 1 .. Len(Truncated(f)) : Truncated(f)[i] = f[i]
           /\ \A p \in 6 .. Len(f) :
                 Last(f, p) # "-" /\ (\A k \in 6 .. p - 1 : Last(f, k) = "-") => PastDashes(f) = p
<1>n. PICK n \in Nat : n = Len(f) BY LenProperties
<1> DEFINE U == {k \in 6 .. n + 6 : k > n \/ Last(f, k) # "-"}
<1>1. PastDashes(f) = Min(U) BY <1>n DEF PastDashes
<1>2. /\ U \in SUBSET Nat /\ n + 6 \in U /\ U \subseteq 6 .. n + 6
      /\ \A k \in 6 .. n + 6 : k \in U <=> k > n \/ Last(f, k) # "-"
  OBVIOUS
<1> HIDE DEF U
<1>3. Min(U) \in U /\ \A j \in U : Min(U) <= j
  <2>1. U # {} BY <1>2
  <2> QED BY <1>2, <2>1, MinFacts
<1> DEFINE q == Min(U)
<1>4. q \in 6 .. n + 6 BY <1>2, <1>3
<1> HIDE DEF q
<1>5. PastDashes(f) = q BY <1>1 DEF q
<1>6. CutLength(f) = n - (q + 1) BY <1>n, <1>5 DEF CutLength
<1>7. /\ Truncated(f) \in Seq(Symbols) /\ Len(Truncated(f)) <= n
      /\ \A i \in 1 .. Len(Truncated(f)) : Truncated(f)[i] = f[i]
  <2>1. CASE n - (q + 1) < 0
    <3>1. Truncated(f) = f BY <1>6, <2>1 DEF Truncated
    <3> QED BY <1>n, <3>1
  <2>2. CASE ~(n - (q + 1) < 0)
    <3>1. Truncated(f) = SubSeq(f, 1, n - (q + 1)) BY <1>6, <2>2 DEF Truncated
    <3>2. \A i \in 1 .. n - (q + 1) : i \in 1 .. n BY <1>4
    <3>3. \A i \in 1 .. n - (q + 1) : f[i] \in Symbols BY <1>n, <3>2, ElementOfSeq
    <3>4. n - (q + 1) \in Int /\ 1 \in Int BY <1>4
    <3>5. /\ SubSeq(f, 1, n - (q + 1)) \in Seq(Symbols)
          /\ Len(SubSeq(f, 1, n - (q + 1))) = IF 1 <= n - (q + 1) THEN n - (q + 1) - 1 + 1 ELSE 0
          /\ \A i \in 1 .. n - (q + 1) - 1 + 1 : SubSeq(f, 1, n - (q + 1))[i] = f[1 + i - 1]
      BY <3>3, <3>4, SubSeqProperties
    <3>6. /\ (IF 1 <= n - (q + 1) THEN n - (q + 1) - 1 + 1 ELSE 0) = n - (q + 1)
          /\ n - (q + 1) - 1 + 1 = n - (q + 1) /\ n - (q + 1) <= n
          /\ \A i \in 1 .. n - (q + 1) : 1 + i - 1 = i
      BY <1>4, <2>2
    <3> QED BY <3>1, <3>5, <3>6
  <2> QED BY <2>1, <2>2
<1>8. ASSUME NEW p \in 6 .. n, Last(f, p) # "-", \A k \in 6 .. p - 1 : Last(f, k) = "-"
      PROVE  q = p
  <2>1. p \in U BY <1>2, <1>8
  <2>2. q <= p /\ q \in U BY <1>3, <2>1 DEF q
  <2>3. ~(q < p)
    <3> SUFFICES ASSUME q < p PROVE FALSE
      OBVIOUS
    <3>1. q \in 6 .. p - 1 /\ ~(q > n) BY <1>4
    <3> QED BY <1>2, <1>4, <1>8, <2>2, <3>1
  <2> QED BY <1>4, <2>2, <2>3
<1> QED BY <1>n, <1>4, <1>5, <1>6, <1>7, <1>8

LEMMA CutFacts ==
    ASSUME up \in Uploads, up.epilogue = 0, NEW f \in Seq(Symbols),
           \A i \in 1 .. Len(f) : f[i] = Stream(up)[NameAt + i],
           Len(f) = Total - NameAt \/ (Len(f) = Total - 4 - NameAt /\ up.dashes >= 4)
    PROVE  Truncated(f) = up.content /\ CutLength(f) = Len(up.content)
<1>p. PICK d \in Nat, l \in Nat, n \in Nat, a \in Nat :
        d = up.dashes /\ l = Len(up.content) /\ n = Len(f) /\ a = NameAt
  BY UploadFacts, LenProperties
<1>1. /\ ContentEnd = a + l /\ Total = a + l + d + 7 /\ d >= 2
      /\ n = l + d + 7 \/ (n = l + d + 3 /\ d >= 4)
  <2>1. ContentEnd = a + l /\ Total = ContentEnd + d + 7 + 0 /\ d >= 2
    BY <1>p, UploadFacts, StreamFacts
  <2>2. n = Total - a \/ (n = Total - 4 - a /\ d >= 4) BY <1>p
  <2>3. PICK t \in Nat : t = Total BY StreamFacts
  <2>4. t = a + l + d + 7 BY <2>1, <2>3
  <2>5. t - a = l + d + 7 /\ t - 4 - a = l + d + 3 BY <2>4
  <2> QED BY <2>1, <2>2, <2>3, <2>4, <2>5
<1>2. /\ \A i \in 1 .. n : f[i] = Stream(up)[a + i]
      /\ \A i \in 1 .. l : Stream(up)[a + i] = up.content[i]
      /\ Stream(up)[a + l + 2] = "lf" /\ \A i \in 1 .. d : Stream(up)[a + l + 2 + i] = "-"
  BY <1>p, <1>1, StreamFacts
<1> DEFINE p == n - l - 1
<1>3. p \in 6 .. n /\ p = n - l - 1
  <2>1. CASE n = l + d + 7 BY <1>1, <2>1
  <2>2. CASE n = l + d + 3 /\ d >= 4 BY <1>1, <2>2
  <2> QED BY <1>1, <2>1, <2>2
<1> HIDE DEF p
<1>4. Last(f, p) = "lf"
  <2>1. n - p + 1 = l + 2 /\ l + 2 \in 1 .. n /\ a + (l + 2) = a + l + 2 BY <1>1, <1>3
  <2>2. f[l + 2] = Stream(up)[a + (l + 2)] BY <1>2, <2>1
  <2> QED BY <1>p, <1>2, <2>1, <2>2 DEF Last
<1>5. ASSUME NEW k \in 6 .. p - 1 PROVE Last(f, k) = "-"
  <2>1. /\ n - k + 1 \in 1 .. n /\ n - k + 1 - (l + 2) \in 1 .. d
        /\ a + l + 2 + (n - k + 1 - (l + 2)) = a + (n - k + 1)
    BY <1>1, <1>3
  <2>2. f[n - k + 1] = Stream(up)[a + (n - k + 1)] BY <1>2, <2>1
  <2>3. Stream(up)[a + l + 2 + (n - k + 1 - (l + 2))] = "-" BY <1>2, <2>1
  <2> QED BY <1>p, <2>1, <2>2, <2>3 DEF Last
<1>6. PastDashes(f) = p BY <1>p, <1>3, <1>4, <1>5, PastDashesFacts
<1>7. CutLength(f) = l BY <1>p, <1>3, <1>6 DEF CutLength
<1>8. Truncated(f) = SubSeq(f, 1, l) BY <1>7 DEF Truncated
<1>9. \A i \in 1 .. l : i \in 1 .. n BY <1>1
<1>10. /\ SubSeq(f, 1, l) \in Seq(Symbols) /\ Len(SubSeq(f, 1, l)) = l
       /\ \A i \in 1 .. l : SubSeq(f, 1, l)[i] = f[i]
  <2>1. \A i \in 1 .. l : f[i] \in Symbols BY <1>p, <1>9, ElementOfSeq
  <2>2. /\ SubSeq(f, 1, l) \in Seq(Symbols)
        /\ Len(SubSeq(f, 1, l)) = IF 1 <= l THEN l - 1 + 1 ELSE 0
        /\ \A i \in 1 .. l - 1 + 1 : SubSeq(f, 1, l)[i] = f[1 + i - 1]
    BY <2>1, SubSeqProperties
  <2>3. l - 1 + 1 = l /\ \A i \in 1 .. l : 1 + i - 1 = i OBVIOUS
  <2>4. (IF 1 <= l THEN l - 1 + 1 ELSE 0) = l OBVIOUS
  <2> QED BY <2>2, <2>3, <2>4
<1>11. \A i \in 1 .. l : SubSeq(f, 1, l)[i] = up.content[i] BY <1>2, <1>9, <1>10
<1>12. SubSeq(f, 1, l) = up.content BY <1>p, <1>10, <1>11, UploadFacts, SeqEqual
<1> QED BY <1>p, <1>7, <1>8, <1>12

LEMMA EndFileFacts ==
    ASSUME NEW f \in Seq(Symbols), NEW n \in Int, EndFile(f, n), reply = "none"
    PROVE  /\ mode' \in {"done", "hung"} /\ reply' \in {"none", "ok", "error"} /\ present' = TRUE
           /\ file' \in Seq(Symbols) /\ f_len' \in Int
           /\ reply' = "ok" => file' = Truncated(f) /\ f_len' = CutLength(f)
           /\ Len(file') <= Len(f) /\ \A i \in 1 .. Len(file') : file'[i] = f[i]
<1>1. file' = f \/ file' = Truncated(f) BY DEF EndFile
<1>2. Len(file') <= Len(f) /\ \A i \in 1 .. Len(file') : file'[i] = f[i]
  <2>1. Len(f) <= Len(f) BY LenProperties
  <2> QED BY <1>1, <2>1, PastDashesFacts
<1> QED BY <1>2, PastDashesFacts DEF EndFile, Reply

-----------------------------------------------------------------------------
(***************************************************************************)
(* Files in the database: what is saved.                                    *)
(***************************************************************************)
LEMMA BoundaryFacts ==
    ASSUME NEW i \in Nat
    PROVE  /\ Boundary(i) \in Nat
           /\ Boundary(i) # 0 => Boundary(i) \in i .. Cap /\ buffer'[Boundary(i)] = "b"
           /\ (\A j \in i .. Cap : buffer'[j] # "b") => Boundary(i) = 0
           /\ \A b \in i .. Cap : b # 0 /\ buffer'[b] = "b" /\ (\A j \in i .. b - 1 : buffer'[j] # "b")
                                    => Boundary(i) = b
<1>c. Cap \in Nat BY CapAssumption
<1> DEFINE U == {j \in i .. Cap : buffer'[j] = "b"}
<1>1. Boundary(i) = IF U = {} THEN 0 ELSE Min(U) BY DEF Boundary
<1>2. /\ U \in SUBSET Nat /\ U \subseteq i .. Cap
      /\ \A j \in i .. Cap : j \in U <=> buffer'[j] = "b"
  BY <1>c
<1> HIDE DEF U
<1>3. U # {} => Min(U) \in U /\ \A j \in U : Min(U) <= j BY <1>2, MinFacts
<1>4. Boundary(i) \in Nat
  <2>1. CASE U = {} BY <1>1, <2>1
  <2>2. CASE U # {}
    <3>1. Min(U) \in Nat BY <1>2, <1>3, <2>2
    <3> QED BY <1>1, <2>2, <3>1
  <2> QED BY <2>1, <2>2
<1>5. Boundary(i) # 0 => Boundary(i) \in i .. Cap /\ buffer'[Boundary(i)] = "b" BY <1>1, <1>2, <1>3
<1>6. (\A j \in i .. Cap : buffer'[j] # "b") => Boundary(i) = 0 BY <1>1, <1>2
<1>7. ASSUME NEW b \in i .. Cap, buffer'[b] = "b", \A j \in i .. b - 1 : buffer'[j] # "b"
      PROVE  Boundary(i) = b
  <2>1. b \in U /\ U # {} BY <1>2, <1>7
  <2>2. PICK c \in Nat : c = Min(U) /\ c \in U /\ c <= b BY <1>2, <1>3, <2>1
  <2>3. c \in i .. Cap /\ buffer'[c] = "b" BY <1>2, <2>2
  <2>4. ~(c < b)
    <3> SUFFICES ASSUME c < b PROVE FALSE
      OBVIOUS
    <3>1. c \in i .. b - 1 BY <2>3
    <3> QED BY <1>7, <2>3, <3>1
  <2> QED BY <1>1, <2>1, <2>2, <2>4
<1> QED BY <1>4, <1>5, <1>6, <1>7

LEMMA DashesFacts ==
    ASSUME NEW i \in Nat
    PROVE  /\ Dashes(i) \in 0 .. i
           /\ \A j \in 0 .. i : (j = 0 \/ buffer'[j] # "-") /\ (\A k \in j + 1 .. i : buffer'[k] = "-")
                                   => Dashes(i) = i - j
<1> DEFINE U == {j \in 0 .. i : j = 0 \/ buffer'[j] # "-"}
<1>1. Dashes(i) = i - Max(U) BY DEF Dashes
<1>2. /\ U \in SUBSET (0 .. i) /\ 0 \in U
      /\ \A j \in 0 .. i : j \in U <=> j = 0 \/ buffer'[j] # "-"
  OBVIOUS
<1> HIDE DEF U
<1>3. Max(U) \in U /\ \A j \in U : j <= Max(U)
  <2>1. U # {} BY <1>2
  <2> QED BY <1>2, <2>1, MaxFacts
<1>4. PICK x \in 0 .. i : x = Max(U) BY <1>2, <1>3
<1>5. Dashes(i) = i - x BY <1>1, <1>4
<1>6. ASSUME NEW j \in 0 .. i, j = 0 \/ buffer'[j] # "-", \A k \in j + 1 .. i : buffer'[k] = "-"
      PROVE  x = j
  <2>1. j <= x BY <1>2, <1>3, <1>4, <1>6
  <2>2. ~(j < x)
    <3> SUFFICES ASSUME j < x PROVE FALSE
      OBVIOUS
    <3>1. x \in j + 1 .. i /\ x # 0 BY <2>1
    <3>2. buffer'[x] # "-" BY <1>2, <1>3, <1>4, <3>1
    <3> QED BY <1>6, <3>1, <3>2
  <2> QED BY <2>1, <2>2
<1> QED BY <1>5, <1>6

(* The closing line in one piece is found, and so are its dashes.           *)
LEMMA LastLine ==
    ASSUME up \in Uploads, up.epilogue = 0, NEW g \in Nat, NEW m \in 0 .. Cap, g + m = Total,
           g <= ContentEnd, \A i \in 1 .. m : buffer'[i] = Stream(up)[g + i],
           NEW i \in Nat, i >= 1, i <= m - 4, g + i >= NameAt
    PROVE  Boundary(i) = m - 4 /\ Dashes(m - 5) = up.dashes
<1>p. PICK d \in Nat, t \in Nat, a \in Nat, e \in Nat :
        d = up.dashes /\ t = Total /\ a = NameAt /\ e = ContentEnd
  BY UploadFacts, StreamFacts
<1>c. Cap \in Nat /\ m \in Nat BY CapAssumption
<1>1. e + d + 7 = t /\ g + m = t /\ g <= e /\ g + i >= a /\ a <= e /\ d >= 2
  <2>1. t = e + d + 7 + 0 /\ d >= 2 BY <1>p, StreamFacts, UploadFacts
  <2>2. PICK l \in Nat : e = a + l BY <1>p, UploadFacts
  <2>3. g + m = t /\ g <= e /\ g + i >= a BY <1>p
  <2> QED BY <2>1, <2>2, <2>3
<1>2. /\ \A j \in a - 1 .. e : Stream(up)[j] # "b"
      /\ Stream(up)[e + 2] = "lf" /\ Stream(up)[e + d + 3] = "b"
      /\ \A j \in 1 .. d : Stream(up)[e + 2 + j] = "-"
      /\ Stream(up)[e + 1] # "b"
  BY <1>p, StreamFacts
<1>3. \A j \in 1 .. m : buffer'[j] = Stream(up)[g + j] OBVIOUS
<1>4. Boundary(i) = m - 4
  <2>1. m - 4 \in i .. Cap /\ m - 4 # 0 /\ m - 4 \in 1 .. m /\ g + (m - 4) = e + d + 3 BY <1>1, <1>c
  <2>2. buffer'[m - 4] = "b" BY <1>2, <1>3, <2>1
  <2>3. ASSUME NEW j \in i .. m - 4 - 1 PROVE buffer'[j] # "b"
    <3>1. j \in 1 .. m /\ g + j >= a /\ g + j < e + d + 3 BY <1>1, <1>c
    <3>2. CASE g + j <= e
      <4>1. g + j \in a - 1 .. e BY <1>1, <3>1, <3>2
      <4> QED BY <1>2, <1>3, <3>1, <4>1
    <3>3. CASE g + j = e + 1 \/ g + j = e + 2 BY <1>2, <1>3, <3>1, <3>3
    <3>4. CASE g + j > e + 2
      <4>1. g + j - (e + 2) \in 1 .. d /\ e + 2 + (g + j - (e + 2)) = g + j BY <1>1, <1>c, <3>1, <3>4
      <4>2. Stream(up)[g + j] = "-" BY <1>2, <4>1
      <4> QED BY <1>3, <3>1, <4>2
    <3> QED BY <1>1, <1>c, <3>2, <3>3, <3>4
  <2> QED BY <2>1, <2>2, <2>3, BoundaryFacts
<1>5. Dashes(m - 5) = d
  <2>1. /\ m - 5 \in Nat /\ m - 5 - d \in 0 .. m - 5 /\ m - 5 - d \in 1 .. m
        /\ g + (m - 5 - d) = e + 2 /\ (m - 5) - (m - 5 - d) = d
    BY <1>1, <1>c
  <2>2. buffer'[m - 5 - d] # "-" BY <1>2, <1>3, <2>1
  <2>3. ASSUME NEW k \in m - 5 - d + 1 .. m - 5 PROVE buffer'[k] = "-"
    <3>1. k \in 1 .. m /\ g + k - (e + 2) \in 1 .. d /\ e + 2 + (g + k - (e + 2)) = g + k BY <1>1, <1>c
    <3>2. Stream(up)[g + k] = "-" BY <1>2, <3>1
    <3> QED BY <1>3, <3>1, <3>2
  <2> QED BY <2>1, <2>2, <2>3, DashesFacts
<1> QED BY <1>p, <1>4, <1>5

LEMMA SavedFacts ==
    ASSUME file \in Seq(Symbols), buffer' \in [1 .. Cap -> Symbols], NEW len \in Int, NEW first \in Nat,
           first >= 1, first + len - 1 <= Cap, SavedOrNot(len, first)
    PROVE  /\ file' \in Seq(Symbols) /\ present' \in BOOLEAN
           /\ present' /\ len >= 0 =>
                /\ Len(file') = Len(file) + len
                /\ \A i \in 1 .. Len(file) : file'[i] = file[i]
                /\ \A i \in 1 .. len : file'[Len(file) + i] = buffer'[first + i - 1]
<1>c. Cap \in Nat BY CapAssumption
<1>1. CASE ~present'
  <2>1. file' = <<>> /\ present' = FALSE BY <1>1 DEF SavedOrNot
  <2> QED BY <1>1, <2>1, EmptySeq
<1>2. CASE present' # FALSE
  <2> DEFINE q == SubSeq(buffer', first, first + len - 1)
  <2>1. file' = file \o q /\ present' = TRUE BY <1>2 DEF SavedOrNot
  <2>2. /\ q \in Seq(Symbols) /\ Len(q) = (IF first <= first + len - 1 THEN first + len - 1 - first + 1 ELSE 0)
        /\ \A i \in 1 .. first + len - 1 - first + 1 : q[i] = buffer'[first + i - 1]
    <3>1. \A i \in first .. first + len - 1 : i \in 1 .. Cap BY <1>c
    <3>2. \A i \in first .. first + len - 1 : buffer'[i] \in Symbols BY <3>1
    <3>3. first \in Int /\ first + len - 1 \in Int OBVIOUS
    <3> QED BY <3>2, <3>3, SubSeqProperties
  <2> HIDE DEF q
  <2>3. /\ file \o q \in Seq(Symbols) /\ Len(file \o q) = Len(file) + Len(q)
        /\ \A i \in 1 .. Len(file) : (file \o q)[i] = file[i]
        /\ \A i \in 1 .. Len(q) : (file \o q)[Len(file) + i] = q[i]
    BY <2>2, Cat
  <2>4. first + len - 1 - first + 1 = len OBVIOUS
  <2>5. len >= 0 => Len(q) = len BY <2>2
  <2> QED BY <2>1, <2>2, <2>3, <2>4, <2>5
<1> QED BY <1>1, <1>2

-----------------------------------------------------------------------------
(***************************************************************************)
(* The invariant is kept.                                                   *)
(***************************************************************************)
LEMMA Primed ==
    ASSUME up' = up
    PROVE  /\ NameAt' = NameAt /\ ContentEnd' = ContentEnd /\ Total' = Total
           /\ Prefix' <=>
                 /\ f_offset' = got' /\ file' = <<>>
                 /\ \A i \in 1 .. got' : buffer'[i] = Stream(up)[i]
                 /\ \A i \in got' + 1 .. Cap : buffer'[i] = "junk"
           /\ Received' <=>
                 /\ Len(file') = got' - NameAt
                 /\ \A i \in 1 .. Len(file') : file'[i] = Stream(up)[NameAt + i]
           /\ NoBoundary' <=> \A i \in NameAt - 1 .. Cap : buffer'[i] # "b"
<1>1. NameAt' = NameAt /\ ContentEnd' = ContentEnd /\ Total' = Total
  BY DEF NameAt, ContentEnd, Total
<1> QED BY <1>1 DEF Prefix, Received, NoBoundary

(* How an upload ends ...                                                   *)
LEMMA Ends ==
    ASSUME up \in Uploads, up' = up, got' \in 0 .. Len(Stream(up)), buffer' \in [1 .. Cap -> Symbols],
           f_offset' \in 0 .. Cap, recv_datalen' \in 0 .. got', wfirst' \in BOOLEAN, f_len' \in Int,
           present' \in BOOLEAN, file' \in Seq(Symbols), reply' \in {"none", "ok", "error"},
           clean' \in BOOLEAN, mode' \in {"done", "hung", "crashed", "lost", "stopped"},
           ~up.db => \A i \in 1 .. Len(file') : NameAt + i <= got' /\ file'[i] = Stream(up)[NameAt + i],
           ~up.db /\ mode' = "stopped" /\ wfirst' => Len(file') = got' - NameAt,
           reply' = "ok" /\ up.epilogue = 0 /\ (IF up.db THEN clean' ELSE up.dashes >= 4 \/ wfirst')
              => present' /\ file' = up.content /\ f_len' = Len(file'),
           up.db /\ reply' = "ok" => f_len' = Len(file')
    PROVE  Inductive'
<1>1. TypeOK' BY DEF TypeOK
<1>2. ReadInv' /\ ReceiveInv' BY DEF ReadInv, ReceiveInv
<1>3. StoredExactly' /\ LengthAsSaved'
  BY DEF StoredExactly, LengthAsSaved
<1>4. HoldsBeginning' BY Primed DEF HoldsBeginning
<1> QED BY <1>1, <1>2, <1>3, <1>4 DEF Inductive

(* ... and how it goes on.                                                  *)
LEMMA GoesOn ==
    ASSUME up \in Uploads, up' = up, got' \in 0 .. Len(Stream(up)), buffer' \in [1 .. Cap -> Symbols],
           f_offset' \in 0 .. Cap, recv_datalen' = got', wfirst' \in BOOLEAN, f_len' \in Int,
           present' \in BOOLEAN, file' \in Seq(Symbols), reply' = "none", clean' \in BOOLEAN,
           mode' = "receive",
           ~wfirst' =>
              /\ f_offset' = got' /\ file' = <<>>
              /\ \A i \in 1 .. got' : buffer'[i] = Stream(up)[i]
              /\ \A i \in got' + 1 .. Cap : buffer'[i] = "junk",
           wfirst' =>
              /\ f_offset' = 0 /\ got' >= NameAt
              /\ ~up.db => Received'
              /\ up.db => f_len' = Len(file')
              /\ up.db /\ clean' => got' > Total \/ (got' <= ContentEnd /\ Received' /\ NoBoundary')
    PROVE  Inductive'
<1>0. Len(Stream(up)) \in Nat BY StreamFacts, UploadFacts
<1>1. TypeOK'
  <2>1. recv_datalen' \in 0 .. got' BY <1>0
  <2> QED BY <2>1 DEF TypeOK
<1>2. ~wfirst' => Prefix' BY Primed
<1>3. ReadInv' /\ ReceiveInv' BY <1>2, Primed DEF ReadInv, ReceiveInv
<1>4. StoredExactly' /\ LengthAsSaved'
  BY DEF StoredExactly, LengthAsSaved
<1>5. HoldsBeginning'
  <2>1. CASE up.db BY <2>1 DEF HoldsBeginning
  <2>2. CASE ~up.db /\ ~wfirst'
    <3>1. Len(file') = 0 BY <2>2, EmptySeq
    <3>2. \A i \in 1 .. Len(file') : FALSE BY <3>1
    <3> QED BY <2>2, <3>2 DEF HoldsBeginning
  <2>3. CASE ~up.db /\ wfirst'
    <3>1. PICK a \in Nat, h \in Nat : a = NameAt /\ h = got' BY <1>0, UploadFacts
    <3>2. Len(file') = h - a /\ \A i \in 1 .. Len(file') : file'[i] = Stream(up)[NameAt + i]
      BY <2>3, <3>1, Primed
    <3>3. \A i \in 1 .. h - a : a + i <= h OBVIOUS
    <3>4. \A i \in 1 .. Len(file') : NameAt + i <= got' /\ file'[i] = Stream(up)[NameAt + i]
      BY <3>1, <3>2, <3>3
    <3> QED BY <3>4, Primed DEF HoldsBeginning
  <2> QED BY <2>1, <2>2, <2>3
<1> QED BY <1>1, <1>3, <1>4, <1>5 DEF Inductive

LEMMA FirstPieceFacts ==
    ASSUME Inductive, NEW m \in 0 .. Cap, FirstPiece(m)
    PROVE  /\ up \in Uploads /\ up' = up /\ got' = m /\ got' \in 0 .. Len(Stream(up))
           /\ buffer' \in [1 .. Cap -> Symbols] /\ clean' \in BOOLEAN
           /\ file = <<>> /\ reply = "none" /\ wfirst = FALSE /\ f_len \in Int /\ present \in BOOLEAN
           /\ f_offset \in 0 .. Cap /\ recv_datalen \in 0 .. got'
           /\ \A i \in 1 .. m : buffer'[i] = Stream(up)[i]
           /\ \A i \in m + 1 .. Cap : buffer'[i] = "junk"
<1>1. TypeOK /\ mode = "read" /\ Piece(m) /\ got = 0 /\ ~wfirst /\ Prefix /\ reply = "none"
  BY DEF Inductive, ReadInv, FirstPiece
<1>2. /\ got' = 0 + m /\ file = <<>>
      /\ \A i \in 1 .. got' : buffer'[i] = Stream(up)[i]
      /\ \A i \in got' + 1 .. Cap : buffer'[i] = "junk"
  BY <1>1, PrefixGrows
<1>3. recv_datalen \in 0 .. 0 /\ m \in Nat BY <1>1, CapAssumption DEF TypeOK
<1>4. got' = m /\ recv_datalen \in 0 .. got' BY <1>2, <1>3
<1>5. /\ up \in Uploads /\ f_len \in Int /\ present \in BOOLEAN /\ f_offset \in 0 .. Cap
      /\ wfirst = FALSE
  BY <1>1 DEF TypeOK
<1>6. /\ up' = up /\ got' \in 0 .. Len(Stream(up)) /\ buffer' \in [1 .. Cap -> Symbols] /\ clean' \in BOOLEAN
  BY <1>1, PieceFacts
<1> QED BY <1>1, <1>2, <1>4, <1>5, <1>6

LEMMA StartReceivingKeeps ==
    ASSUME Inductive, NEW m \in 0 .. Cap, StartReceiving(m)
    PROVE  Inductive'
<1>1. /\ FirstPiece(m) /\ mode' = "receive" /\ f_offset' = m /\ recv_datalen' = m /\ wfirst' = FALSE
      /\ f_len' = 0 /\ UNCHANGED <<present, file, reply>>
  BY DEF StartReceiving, StartOffset
<1>2. /\ up \in Uploads /\ up' = up /\ got' = m /\ got' \in 0 .. Len(Stream(up))
      /\ buffer' \in [1 .. Cap -> Symbols] /\ clean' \in BOOLEAN /\ file' = <<>> /\ reply' = "none"
      /\ present' \in BOOLEAN
      /\ \A i \in 1 .. m : buffer'[i] = Stream(up)[i]
      /\ \A i \in m + 1 .. Cap : buffer'[i] = "junk"
  BY <1>1, FirstPieceFacts
<1>3. file' \in Seq(Symbols) /\ f_len' \in Int /\ f_offset' \in 0 .. Cap BY <1>1, <1>2, EmptySeq
<1> QED BY <1>1, <1>2, <1>3, GoesOn

LEMMA WholeFileKeeps ==
    ASSUME Inductive, NEW m \in 0 .. Cap, WholeFile(m)
    PROVE  Inductive'
<1> DEFINE f == SubSeq(buffer', ContentAt, m - 4)
<1>1. /\ FirstPiece(m) /\ m = Total /\ ~up.db /\ EndFile(f, f_len)
      /\ f_offset' = f_offset /\ recv_datalen' = recv_datalen /\ wfirst' = wfirst
  BY DEF WholeFile, Complete, Total, recvVars
<1>2. /\ up \in Uploads /\ up' = up /\ got' = m /\ got' \in 0 .. Len(Stream(up))
      /\ buffer' \in [1 .. Cap -> Symbols] /\ clean' \in BOOLEAN
      /\ reply = "none" /\ wfirst = FALSE /\ f_len \in Int
      /\ f_offset \in 0 .. Cap /\ recv_datalen \in 0 .. got'
      /\ \A i \in 1 .. m : buffer'[i] = Stream(up)[i]
  BY <1>1, FirstPieceFacts
<1>p. PICK a \in Nat, t \in Nat : a = NameAt /\ t = Total /\ a + 1 = ContentAt /\ t >= a + 9
  <2>1. /\ NameAt \in Nat /\ Total \in Nat /\ ContentAt = NameAt + 1 /\ Total >= NameAt + 9
    <3>1. PICK a \in Nat, d \in Nat, l \in Nat, e \in Nat :
             a = NameAt /\ d = up.dashes /\ l = Len(up.content) /\ e = up.epilogue
      BY <1>2, UploadFacts
    <3>2. d >= 2 /\ Total = ContentEnd + d + 7 + e /\ ContentEnd = a + l /\ ContentAt = a + 1
      BY <1>2, <3>1, UploadFacts, StreamFacts
    <3>3. NameAt = a BY <3>1
    <3> QED BY <3>2, <3>3
  <2> QED BY <2>1
<1>m. m = t /\ t \in 0 .. Cap /\ Cap \in Nat BY <1>1, <1>p, CapAssumption
<1>3. f \in Seq(Symbols) /\ Len(f) = t - 4 - a /\ \A i \in 1 .. Len(f) : f[i] = buffer'[a + i]
  <2>1. \A i \in a + 1 .. t - 4 : i \in 1 .. Cap BY <1>m
  <2>2. \A i \in a + 1 .. t - 4 : buffer'[i] \in Symbols BY <1>2, <2>1
  <2>3. a + 1 \in Int /\ t - 4 \in Int OBVIOUS
  <2>4. /\ SubSeq(buffer', a + 1, t - 4) \in Seq(Symbols)
        /\ Len(SubSeq(buffer', a + 1, t - 4)) = IF a + 1 <= t - 4 THEN t - 4 - (a + 1) + 1 ELSE 0
        /\ \A i \in 1 .. t - 4 - (a + 1) + 1 : SubSeq(buffer', a + 1, t - 4)[i] = buffer'[a + 1 + i - 1]
    BY <2>2, <2>3, SubSeqProperties
  <2>5. f = SubSeq(buffer', a + 1, t - 4) BY <1>p, <1>m
  <2>6. /\ t - 4 - (a + 1) + 1 = t - 4 - a /\ a + 1 <= t - 4
        /\ \A i \in 1 .. t - 4 - a : a + 1 + i - 1 = a + i
    BY <1>p
  <2> HIDE DEF f
  <2> QED BY <2>4, <2>5, <2>6
<1> HIDE DEF f
<1>4. \A i \in 1 .. Len(f) : f[i] = Stream(up)[NameAt + i]
  <2>1. \A i \in 1 .. t - 4 - a : a + i \in 1 .. m BY <1>m
  <2> QED BY <1>2, <1>3, <1>p, <2>1
<1>5. /\ mode' \in {"done", "hung"} /\ reply' \in {"none", "ok", "error"} /\ present' = TRUE
      /\ file' \in Seq(Symbols) /\ f_len' \in Int
      /\ reply' = "ok" => file' = Truncated(f) /\ f_len' = CutLength(f)
      /\ Len(file') <= Len(f) /\ \A i \in 1 .. Len(file') : file'[i] = f[i]
  BY <1>1, <1>2, <1>3, EndFileFacts
<1>6. ASSUME reply' = "ok", up.epilogue = 0, up.dashes >= 4 \/ wfirst'
      PROVE  present' /\ file' = up.content /\ f_len' = Len(file')
  <2>1. up.dashes >= 4 BY <1>1, <1>2, <1>6
  <2>2. Len(f) = Total - 4 - NameAt BY <1>3, <1>p
  <2>3. Truncated(f) = up.content /\ CutLength(f) = Len(up.content)
    BY <1>2, <1>3, <1>4, <1>6, <2>1, <2>2, CutFacts
  <2> QED BY <1>5, <1>6, <2>3
<1>7. /\ f_offset' \in 0 .. Cap /\ recv_datalen' \in 0 .. got' /\ wfirst' \in BOOLEAN
      /\ mode' \in {"done", "hung", "crashed", "lost", "stopped"} /\ mode' # "stopped" /\ present' \in BOOLEAN
  BY <1>1, <1>2, <1>5
<1>8. reply' = "ok" /\ up.epilogue = 0 /\ (IF up.db THEN clean' ELSE up.dashes >= 4 \/ wfirst')
         => present' /\ file' = up.content /\ f_len' = Len(file')
  BY <1>1, <1>6
<1>9. \A i \in 1 .. Len(file') : NameAt + i <= got' /\ file'[i] = Stream(up)[NameAt + i]
  <2>1. PICK k \in Nat : k = Len(file') BY <1>5, LenProperties
  <2>2. k <= t - 4 - a BY <1>3, <1>5, <2>1
  <2>3. \A i \in 1 .. k : i \in 1 .. t - 4 - a /\ a + i <= t BY <2>2
  <2> QED BY <1>1, <1>2, <1>3, <1>4, <1>5, <1>p, <1>m, <2>1, <2>3
<1> QED BY <1>1, <1>2, <1>5, <1>7, <1>8, <1>9, Ends

LEMMA WholeDbKeeps ==
    ASSUME Inductive, NEW m \in 0 .. Cap, WholeDb(m)
    PROVE  Inductive'
<1> DEFINE n == m - 5 - NameAt - Dashes(m - 5) - 2
<1>1. /\ FirstPiece(m) /\ m = Total /\ up.db
      /\ f_offset' = f_offset /\ recv_datalen' = recv_datalen /\ wfirst' = wfirst
      /\ \/ Boundary(m - 5 + 1) = 0 /\ Reply("error") /\ f_len' = m - 5 - NameAt /\ UNCHANGED <<present, file>>
         \/ /\ Boundary(m - 5 + 1) # 0 /\ f_len' = n /\ SavedOrNot(n, ContentAt)
            /\ (present' /\ Reply("ok")) \/ (~present' /\ mode' = "crashed" /\ UNCHANGED reply)
  BY DEF WholeDb, Complete, Total, recvVars
<1>2. /\ up \in Uploads /\ up' = up /\ got' = m /\ got' \in 0 .. Len(Stream(up))
      /\ buffer' \in [1 .. Cap -> Symbols] /\ clean' \in BOOLEAN
      /\ file = <<>> /\ reply = "none" /\ wfirst = FALSE /\ present \in BOOLEAN
      /\ f_offset \in 0 .. Cap /\ recv_datalen \in 0 .. got'
      /\ \A i \in 1 .. m : buffer'[i] = Stream(up)[i]
      /\ \A i \in m + 1 .. Cap : buffer'[i] = "junk"
  BY <1>1, FirstPieceFacts
<1>p. PICK a \in Nat, d \in Nat, l \in Nat, e \in Nat :
        a = NameAt /\ d = up.dashes /\ l = Len(up.content) /\ e = up.epilogue
  BY <1>2, UploadFacts
<1>q. ContentAt = a + 1 /\ ContentEnd = a + l /\ Total = a + l + d + 7 + e
  BY <1>2, <1>p, UploadFacts, StreamFacts
<1>m. m = a + l + d + 7 + e /\ m \in 0 .. Cap /\ Cap \in Nat /\ m - 5 \in Nat /\ m - 5 + 1 = m - 4 /\ m - 4 \in Nat
  <2>1. m = a + l + d + 7 + e /\ m \in 0 .. Cap /\ Cap \in Nat BY <1>1, <1>q, CapAssumption
  <2> QED BY <2>1
<1>3. PICK k \in 0 .. m - 5 : k = Dashes(m - 5) BY <1>m, DashesFacts
<1>4. n = m - 5 - a - k - 2 /\ n \in Int
  <2>1. n = m - 5 - a - k - 2 BY <1>p, <1>3
  <2>2. m - 5 - a - k - 2 \in Int BY <1>m
  <2> QED BY <2>1, <2>2
<1> HIDE DEF n
<1>5. /\ f_offset' \in 0 .. Cap /\ recv_datalen' \in 0 .. got' /\ wfirst' \in BOOLEAN
  BY <1>1, <1>2
<1>6. CASE Boundary(m - 5 + 1) = 0
  <2>1. Reply("error") /\ f_len' = m - 5 - NameAt /\ UNCHANGED <<present, file>> BY <1>1, <1>6
  <2>2. /\ mode' = "done" /\ reply' = "error" /\ present' \in BOOLEAN /\ file' = <<>>
        /\ f_len' = m - 5 - a
    BY <1>2, <1>p, <2>1 DEF Reply
  <2>3. file' \in Seq(Symbols) /\ f_len' \in Int BY <1>m, <2>2, EmptySeq
  <2> QED BY <1>1, <1>2, <1>5, <2>2, <2>3, Ends
<1>7. CASE Boundary(m - 5 + 1) # 0
  <2>1. /\ f_len' = n /\ SavedOrNot(n, ContentAt)
        /\ (present' /\ Reply("ok")) \/ (~present' /\ mode' = "crashed" /\ UNCHANGED reply)
    BY <1>1, <1>7
  <2>2. e = 0
    <3> SUFFICES ASSUME e # 0 PROVE FALSE
      OBVIOUS
    <3>1. ASSUME NEW j \in m - 4 .. Cap PROVE buffer'[j] # "b"
      <4>1. CASE j <= m
        <5>1. j \in 1 .. m /\ j \in a + l + d + 4 .. a + l + d + 7 + e BY <1>m, <4>1
        <5>2. \A i \in a + l + d + 4 .. a + l + d + 7 + e : Stream(up)[i] # "b"
          BY <1>2, <1>p, <1>q, StreamFacts
        <5> QED BY <1>2, <5>1, <5>2
      <4>2. CASE ~(j <= m)
        <5>1. j \in m + 1 .. Cap BY <1>m, <4>2
        <5> QED BY <1>2, <5>1
      <4> QED BY <4>1, <4>2
    <3> QED BY <1>m, <1>7, <3>1, BoundaryFacts
  <2>3. k = d
    <3>1. /\ up \in Uploads /\ up.epilogue = 0 /\ 0 \in Nat /\ 0 + m = Total /\ 0 <= ContentEnd
          /\ m - 4 \in Nat /\ m - 4 >= 1 /\ m - 4 <= m - 4 /\ 0 + (m - 4) >= NameAt
      <4>1. 0 + m = m /\ 0 <= a + l /\ m - 4 \in Nat /\ m - 4 >= 1 /\ m - 4 <= m - 4 /\ 0 + (m - 4) >= a
        BY <1>m, <2>2
      <4> QED BY <1>1, <1>2, <1>p, <1>q, <2>2, <4>1
    <3>2. \A i \in 1 .. m : buffer'[i] = Stream(up)[0 + i] BY <1>2
    <3>3. Dashes(m - 5) = up.dashes BY <3>1, <3>2, LastLine
    <3> QED BY <1>3, <1>p, <3>3
  <2>4. n = l BY <1>4, <1>m, <2>2, <2>3
  <2>5. /\ file \in Seq(Symbols) /\ ContentAt \in Nat /\ ContentAt >= 1 /\ ContentAt + n - 1 <= Cap
    BY <1>2, <1>q, <1>m, <2>4, EmptySeq
  <2>6. /\ file' \in Seq(Symbols) /\ present' \in BOOLEAN
        /\ present' => /\ Len(file') = Len(file) + n
                       /\ \A i \in 1 .. n : file'[Len(file) + i] = buffer'[ContentAt + i - 1]
    BY <1>2, <1>4, <2>1, <2>4, <2>5, SavedFacts
  <2>7. present' => file' = up.content /\ f_len' = Len(file')
    <3> SUFFICES ASSUME present' PROVE file' = up.content /\ f_len' = Len(file')
      OBVIOUS
    <3>1. Len(file) = 0 BY <1>2, EmptySeq
    <3>2. Len(file') = l /\ \A i \in 1 .. l : file'[i] = buffer'[a + i]
      <4>1. \A i \in 1 .. l : 0 + i = i /\ a + 1 + i - 1 = a + i OBVIOUS
      <4> QED BY <1>q, <2>4, <2>6, <3>1, <4>1
    <3>3. ASSUME NEW i \in 1 .. l PROVE file'[i] = up.content[i]
      <4>1. a + i \in 1 .. m BY <1>m
      <4>2. Stream(up)[a + i] = up.content[i] BY <1>2, <1>p, StreamFacts
      <4> QED BY <1>2, <3>2, <4>1, <4>2
    <3>4. file' = up.content
      <4>1. file' \in Seq(Symbols) /\ up.content \in Seq(Symbols) BY <1>2, <2>6, UploadFacts
      <4>2. Len(file') = Len(up.content) /\ \A i \in 1 .. Len(file') : file'[i] = up.content[i]
        BY <1>p, <3>2, <3>3
      <4> QED BY <4>1, <4>2, SeqEqual
    <3> QED BY <2>1, <2>4, <3>2, <3>4
  <2>8. f_len' \in Int BY <1>4, <2>1
  <2>9. /\ mode' \in {"done", "crashed"} /\ reply' \in {"none", "ok", "error"}
        /\ reply' = "ok" => present'
    BY <1>2, <2>1 DEF Reply
  <2> QED BY <1>1, <1>2, <1>5, <2>6, <2>7, <2>8, <2>9, Ends
<1> QED BY <1>6, <1>7

(* A later piece ends in the buffer's prefix or begins it anew.             *)
LEMMA NextPieceFacts ==
    ASSUME Inductive, NEW m \in 0 .. Cap, NextPiece(m)
    PROVE  /\ up \in Uploads /\ up' = up /\ got' = got + m /\ got' \in 0 .. Len(Stream(up))
           /\ got \in Nat /\ got' \in Nat /\ m \in Nat /\ Cap \in Nat
           /\ buffer' \in [1 .. Cap -> Symbols] /\ clean' \in BOOLEAN
           /\ file \in Seq(Symbols) /\ reply = "none" /\ f_len \in Int /\ present \in BOOLEAN
           /\ wfirst \in BOOLEAN /\ wfirst' \in BOOLEAN /\ (wfirst => wfirst')
           /\ recv_datalen' = got' /\ f_offset' \in 0 .. Cap /\ (wfirst' => f_offset' = 0)
           /\ mode = "receive" /\ (clean' => clean /\ CleanRead(m))
           /\ ~wfirst =>
                /\ got' <= Cap /\ file = <<>> /\ (~wfirst' => f_offset' = got')
                /\ \A i \in 1 .. got' : buffer'[i] = Stream(up)[i]
                /\ \A i \in got' + 1 .. Cap : buffer'[i] = "junk"
                /\ wfirst' /\ ~HeaderCut => got' >= NameAt
           /\ wfirst =>
                /\ m >= 1 /\ got >= NameAt
                /\ \A i \in 1 .. m : buffer'[i] = Stream(up)[got + i]
                /\ \A i \in m + 1 .. Cap : buffer'[i] = buffer[i]
                /\ ~up.db => Received
                /\ up.db => f_len = Len(file)
                /\ up.db /\ clean => got > Total \/ (got <= ContentEnd /\ Received /\ NoBoundary)
<1>1. /\ TypeOK /\ Piece(m) /\ mode = "receive" /\ recv_datalen = got /\ reply = "none"
      /\ recv_datalen' = recv_datalen + m /\ wfirst' = (wfirst \/ InBuffer("disp"))
      /\ f_offset' = IF wfirst' THEN 0 ELSE f_offset + m
  BY DEF Inductive, ReceiveInv, NextPiece
<1>2. /\ ~wfirst => Prefix
      /\ wfirst =>
           /\ f_offset = 0 /\ got >= NameAt
           /\ ~up.db => Received
           /\ up.db => f_len = Len(file)
           /\ up.db /\ clean => got > Total \/ (got <= ContentEnd /\ Received /\ NoBoundary)
  BY <1>1 DEF Inductive, ReceiveInv
<1>3. /\ up \in Uploads /\ file \in Seq(Symbols) /\ f_len \in Int /\ present \in BOOLEAN
      /\ wfirst \in BOOLEAN /\ got \in 0 .. Len(Stream(up))
  BY <1>1 DEF TypeOK
<1>4. /\ up' = up /\ got' = got + m /\ got' \in 0 .. Len(Stream(up))
      /\ buffer' \in [1 .. Cap -> Symbols] /\ clean' \in BOOLEAN
      /\ f_offset + m \in 0 .. Cap /\ (f_offset < Cap => m >= 1)
      /\ \A i \in 1 .. Cap : ~(f_offset < i /\ i <= f_offset + m) => buffer'[i] = buffer[i]
      /\ \A i \in 1 .. m : buffer'[f_offset + i] = Stream(up)[got + i]
      /\ clean' => clean /\ CleanRead(m)
  BY <1>1, PieceFacts
<1>5. got \in Nat /\ got' \in Nat /\ m \in Nat /\ Cap \in Nat \ {0}
  <2>1. Len(Stream(up)) \in Nat BY <1>3, StreamFacts, UploadFacts
  <2>2. Cap \in Nat \ {0} BY CapAssumption
  <2> QED BY <1>3, <1>4, <2>1, <2>2
<1>6. wfirst' \in BOOLEAN /\ (wfirst => wfirst') BY <1>1
<1>7. recv_datalen' = got' BY <1>1, <1>4
<1>8. f_offset' \in 0 .. Cap /\ (wfirst' => f_offset' = 0) /\ (~wfirst' => f_offset' = f_offset + m)
  BY <1>1, <1>4, <1>5
<1>9. ASSUME ~wfirst
      PROVE  /\ got' <= Cap /\ file = <<>> /\ (~wfirst' => f_offset' = got')
             /\ \A i \in 1 .. got' : buffer'[i] = Stream(up)[i]
             /\ \A i \in got' + 1 .. Cap : buffer'[i] = "junk"
             /\ wfirst' /\ ~HeaderCut => got' >= NameAt
  <2>1. /\ got' \in 0 .. Cap /\ file = <<>> /\ f_offset + m = got'
        /\ \A i \in 1 .. got' : buffer'[i] = Stream(up)[i]
        /\ \A i \in got' + 1 .. Cap : buffer'[i] = "junk"
    BY <1>1, <1>2, <1>9, PrefixGrows
  <2>2. ASSUME wfirst', ~HeaderCut PROVE got' >= NameAt
    <3>1. InBuffer("name") BY <1>9, <2>2 DEF HeaderCut
    <3>2. PICK i \in 1 .. got' : buffer'[i] = "name" BY <1>7, <3>1 DEF InBuffer
    <3>3. Stream(up)[i] = "name" BY <2>1, <3>2
    <3>4. ~(i \in 1 .. NameAt - 1) BY <1>3, <3>3, StreamFacts
    <3>5. NameAt \in Nat BY <1>3, UploadFacts
    <3> QED BY <1>5, <3>4, <3>5
  <2>3. got' <= Cap BY <1>5, <2>1
  <2> QED BY <1>8, <2>1, <2>2, <2>3
<1>10. ASSUME wfirst
       PROVE  /\ m >= 1
              /\ \A i \in 1 .. m : buffer'[i] = Stream(up)[got + i]
              /\ \A i \in m + 1 .. Cap : buffer'[i] = buffer[i]
  <2>0. f_offset = 0 BY <1>2, <1>10
  <2>1. m >= 1 BY <1>4, <1>5, <2>0
  <2>2. ASSUME NEW i \in 1 .. m PROVE buffer'[i] = Stream(up)[got + i]
    <3>1. f_offset + i = i BY <2>0
    <3> QED BY <1>4, <3>1
  <2>3. ASSUME NEW i \in m + 1 .. Cap PROVE buffer'[i] = buffer[i]
    <3>1. i \in 1 .. Cap /\ ~(i <= f_offset + m) BY <1>5, <2>0
    <3> QED BY <1>4, <3>1
  <2> QED BY <2>1, <2>2, <2>3
<1>11. wfirst =>
           /\ m >= 1 /\ got >= NameAt
           /\ \A i \in 1 .. m : buffer'[i] = Stream(up)[got + i]
           /\ \A i \in m + 1 .. Cap : buffer'[i] = buffer[i]
           /\ ~up.db => Received
           /\ up.db => f_len = Len(file)
           /\ up.db /\ clean => got > Total \/ (got <= ContentEnd /\ Received /\ NoBoundary)
  BY <1>2, <1>10
<1> QED BY <1>1, <1>3, <1>4, <1>5, <1>6, <1>7, <1>8, <1>9, <1>11

LEMMA FileGrows ==
    ASSUME Inductive, NEW m \in 0 .. Cap, NextPiece(m), ~up.db, wfirst', ~HeaderCut,
           NEW q, q = IF wfirst THEN SubSeq(buffer', 1, m) ELSE SubSeq(buffer', ContentAt, recv_datalen')
    PROVE  /\ q \in Seq(Symbols) /\ file \o q \in Seq(Symbols)
           /\ got' >= NameAt /\ Len(file \o q) = got' - NameAt
           /\ \A i \in 1 .. Len(file \o q) : (file \o q)[i] = Stream(up)[NameAt + i]
<1>1. /\ up \in Uploads /\ got' = got + m
      /\ got \in Nat /\ got' \in Nat /\ m \in Nat /\ Cap \in Nat
      /\ buffer' \in [1 .. Cap -> Symbols] /\ file \in Seq(Symbols)
      /\ recv_datalen' = got' /\ mode = "receive"
      /\ ~wfirst =>
           /\ got' <= Cap /\ file = <<>> /\ got' >= NameAt
           /\ \A i \in 1 .. got' : buffer'[i] = Stream(up)[i]
      /\ wfirst =>
           /\ m >= 1 /\ got >= NameAt /\ Received
           /\ \A i \in 1 .. m : buffer'[i] = Stream(up)[got + i]
  BY NextPieceFacts
<1>p. PICK a \in Nat, g \in Nat, h \in Nat : a = NameAt /\ a + 1 = ContentAt /\ g = got /\ h = got'
  BY <1>1, UploadFacts
<1>g. h = g + m BY <1>1, <1>p
<1>2. CASE wfirst
  <2>1. /\ g >= a /\ Len(file) = g - a
        /\ \A i \in 1 .. Len(file) : file[i] = Stream(up)[a + i]
        /\ \A i \in 1 .. m : buffer'[i] = Stream(up)[g + i]
    BY <1>1, <1>p, <1>2 DEF Received
  <2>2. q \in Seq(Symbols) /\ Len(q) = m /\ \A i \in 1 .. m : q[i] = buffer'[i]
    <3>1. \A i \in 1 .. m : i \in 1 .. Cap BY <1>1
    <3>2. \A i \in 1 .. m : buffer'[i] \in Symbols BY <1>1, <3>1
    <3>3. 1 \in Int /\ m \in Int BY <1>1
    <3>4. /\ SubSeq(buffer', 1, m) \in Seq(Symbols)
          /\ Len(SubSeq(buffer', 1, m)) = IF 1 <= m THEN m - 1 + 1 ELSE 0
          /\ \A i \in 1 .. m - 1 + 1 : SubSeq(buffer', 1, m)[i] = buffer'[1 + i - 1]
      BY <3>2, <3>3, SubSeqProperties
    <3>5. m - 1 + 1 = m /\ \A i \in 1 .. m : 1 + i - 1 = i BY <1>1
    <3>6. (IF 1 <= m THEN m - 1 + 1 ELSE 0) = m BY <1>1
    <3> QED BY <1>2, <3>4, <3>5, <3>6
  <2>3. /\ file \o q \in Seq(Symbols) /\ Len(file \o q) = (g - a) + m
        /\ \A i \in 1 .. g - a : (file \o q)[i] = file[i]
        /\ \A i \in 1 .. m : (file \o q)[(g - a) + i] = q[i]
    <3>1. /\ file \o q \in Seq(Symbols) /\ Len(file \o q) = Len(file) + Len(q)
          /\ \A i \in 1 .. Len(file) : (file \o q)[i] = file[i]
          /\ \A i \in 1 .. Len(q) : (file \o q)[Len(file) + i] = q[i]
      BY <1>1, <2>2, Cat
    <3> QED BY <2>1, <2>2, <3>1
  <2>4. (g - a) + m = h - a BY <1>g
  <2>5. ASSUME NEW i \in 1 .. h - a PROVE (file \o q)[i] = Stream(up)[a + i]
    <3>1. CASE i <= g - a
      <4>1. i \in 1 .. g - a BY <2>1, <3>1
      <4> QED BY <2>1, <2>3, <4>1
    <3>2. CASE ~(i <= g - a)
      <4>1. i - (g - a) \in 1 .. m /\ (g - a) + (i - (g - a)) = i /\ g + (i - (g - a)) = a + i
        BY <1>1, <1>g, <2>1, <3>2
      <4>2. (file \o q)[(g - a) + (i - (g - a))] = q[i - (g - a)] BY <2>3, <4>1
      <4>3. q[i - (g - a)] = Stream(up)[g + (i - (g - a))] BY <2>1, <2>2, <4>1
      <4> QED BY <4>1, <4>2, <4>3
    <3> QED BY <3>1, <3>2
  <2>6. h >= a BY <1>1, <1>g, <2>1
  <2>7. Len(file \o q) = h - a BY <2>3, <2>4
  <2>8. Len(file \o q) = got' - NameAt /\ got' >= NameAt BY <1>p, <2>6, <2>7
  <2>9. \A i \in 1 .. Len(file \o q) : (file \o q)[i] = Stream(up)[NameAt + i] BY <1>p, <2>5, <2>7
  <2> QED BY <2>2, <2>3, <2>8, <2>9
<1>3. CASE ~wfirst
  <2>1. /\ h <= Cap /\ file = <<>> /\ h >= a
        /\ \A i \in 1 .. h : buffer'[i] = Stream(up)[i]
    BY <1>1, <1>p, <1>3
  <2>2. q = SubSeq(buffer', a + 1, h) BY <1>1, <1>p, <1>3
  <2>3. q \in Seq(Symbols) /\ Len(q) = h - a /\ \A i \in 1 .. h - a : q[i] = buffer'[a + i]
    <3>1. \A i \in a + 1 .. h : i \in 1 .. Cap BY <1>1, <2>1
    <3>2. \A i \in a + 1 .. h : buffer'[i] \in Symbols BY <1>1, <3>1
    <3>3. a + 1 \in Int /\ h \in Int OBVIOUS
    <3>4. /\ SubSeq(buffer', a + 1, h) \in Seq(Symbols)
          /\ Len(SubSeq(buffer', a + 1, h)) = IF a + 1 <= h THEN h - (a + 1) + 1 ELSE 0
          /\ \A i \in 1 .. h - (a + 1) + 1 : SubSeq(buffer', a + 1, h)[i] = buffer'[a + 1 + i - 1]
      BY <3>2, <3>3, SubSeqProperties
    <3>5. h - (a + 1) + 1 = h - a /\ \A i \in 1 .. h - a : a + 1 + i - 1 = a + i OBVIOUS
    <3>6. (IF a + 1 <= h THEN h - (a + 1) + 1 ELSE 0) = h - a BY <2>1
    <3> QED BY <2>2, <3>4, <3>5, <3>6
  <2>4. file \o q = q BY <2>1, <2>3, ConcatEmptySeq
  <2>5. ASSUME NEW i \in 1 .. h - a PROVE q[i] = Stream(up)[a + i]
    <3>1. a + i \in 1 .. h OBVIOUS
    <3> QED BY <2>1, <2>3, <3>1
  <2> QED BY <1>p, <2>1, <2>3, <2>4, <2>5
<1>4. wfirst \in BOOLEAN BY NextPieceFacts
<1> QED BY <1>2, <1>3, <1>4

LEMMA ReceiveFileKeeps ==
    ASSUME Inductive, NEW m \in 0 .. Cap, ReceiveFile(m)
    PROVE  Inductive'
<1> DEFINE q == PieceOf(m)
           len == IF wfirst THEN f_len ELSE Len(q)
<1>1. /\ NextPiece(m) /\ ~up.db
      /\ \/ ~wfirst' /\ UNCHANGED <<mode, f_len, present, file, reply>>
         \/ HeaderCut /\ Crash /\ present' = TRUE /\ UNCHANGED file
         \/ /\ wfirst' /\ ~HeaderCut /\ ~Complete(recv_datalen')
            /\ file' = file \o q /\ present' = TRUE /\ f_len' = len
            /\ UNCHANGED <<mode, reply>>
         \/ /\ wfirst' /\ ~HeaderCut /\ Complete(recv_datalen')
            /\ EndFile(file \o q, len)
  BY DEF ReceiveFile
<1>r. q = IF wfirst THEN SubSeq(buffer', 1, m) ELSE SubSeq(buffer', ContentAt, recv_datalen')
  BY DEF PieceOf
<1>l. len = IF wfirst THEN f_len ELSE Len(q) OBVIOUS
<1> HIDE DEF q, len
<1>2. /\ up \in Uploads /\ up' = up /\ got' \in 0 .. Len(Stream(up))
      /\ got' \in Nat
      /\ buffer' \in [1 .. Cap -> Symbols] /\ clean' \in BOOLEAN
      /\ file \in Seq(Symbols) /\ reply = "none" /\ f_len \in Int /\ present \in BOOLEAN
      /\ wfirst \in BOOLEAN /\ wfirst' \in BOOLEAN /\ (wfirst => wfirst')
      /\ recv_datalen' = got' /\ f_offset' \in 0 .. Cap /\ (wfirst' => f_offset' = 0)
      /\ mode = "receive"
      /\ ~wfirst =>
           /\ file = <<>> /\ (~wfirst' => f_offset' = got')
           /\ \A i \in 1 .. got' : buffer'[i] = Stream(up)[i]
           /\ \A i \in got' + 1 .. Cap : buffer'[i] = "junk"
  BY <1>1, NextPieceFacts
<1>d. recv_datalen' \in 0 .. got' BY <1>2
<1>3. CASE ~wfirst' /\ UNCHANGED <<mode, f_len, present, file, reply>>
  <2>1. /\ mode' = "receive" /\ f_len' \in Int /\ present' \in BOOLEAN /\ file' = <<>> /\ reply' = "none"
        /\ file' \in Seq(Symbols) /\ f_offset' = got' /\ ~wfirst'
        /\ \A i \in 1 .. got' : buffer'[i] = Stream(up)[i]
        /\ \A i \in got' + 1 .. Cap : buffer'[i] = "junk"
    BY <1>2, <1>3
  <2> QED BY <1>2, <2>1, GoesOn
<1>4. CASE HeaderCut /\ Crash /\ present' = TRUE /\ UNCHANGED file
  <2>1. /\ mode' = "crashed" /\ f_len' \in Int /\ reply' = "none" /\ present' \in BOOLEAN /\ file' \in Seq(Symbols)
    BY <1>2, <1>4 DEF Crash
  <2>2. recv_datalen' \in 0 .. got' BY <1>d
  <2>3. mode' \in {"done", "hung", "crashed", "lost", "stopped"} /\ mode' # "stopped" /\ reply' # "ok"
        /\ reply' \in {"none", "ok", "error"}
    BY <2>1
  <2>4. \A i \in 1 .. Len(file') : NameAt + i <= got' /\ file'[i] = Stream(up)[NameAt + i]
    <3>1. Len(file') = 0 BY <1>2, <1>4, EmptySeq DEF HeaderCut
    <3>2. \A i \in 1 .. Len(file') : FALSE BY <3>1
    <3> QED BY <3>2
  <2> QED BY <1>2, <2>1, <2>2, <2>3, <2>4, Ends
<1>5. ASSUME wfirst', ~HeaderCut
      PROVE  /\ len \in Int /\ file \o q \in Seq(Symbols)
             /\ got' >= NameAt /\ Len(file \o q) = got' - NameAt
             /\ \A i \in 1 .. Len(file \o q) : (file \o q)[i] = Stream(up)[NameAt + i]
  <2>1. /\ q \in Seq(Symbols) /\ file \o q \in Seq(Symbols)
        /\ got' >= NameAt /\ Len(file \o q) = got' - NameAt
        /\ \A i \in 1 .. Len(file \o q) : (file \o q)[i] = Stream(up)[NameAt + i]
    BY <1>1, <1>5, <1>r, FileGrows
  <2>2. len \in Int BY <1>2, <1>l, <2>1, LenProperties
  <2> QED BY <2>1, <2>2
<1>6. CASE /\ wfirst' /\ ~HeaderCut /\ ~Complete(recv_datalen')
           /\ file' = file \o q /\ present' = TRUE /\ f_len' = len
           /\ UNCHANGED <<mode, reply>>
  <2>1. /\ len \in Int /\ file \o q \in Seq(Symbols)
        /\ got' >= NameAt /\ Len(file \o q) = got' - NameAt
        /\ \A i \in 1 .. Len(file \o q) : (file \o q)[i] = Stream(up)[NameAt + i]
    BY <1>5, <1>6
  <2>2. Received' BY <1>2, <1>6, <2>1, Primed
  <2>3. /\ mode' = "receive" /\ f_len' \in Int /\ present' \in BOOLEAN /\ file' \in Seq(Symbols) /\ reply' = "none"
        /\ f_offset' = 0 /\ wfirst' /\ ~up.db
    BY <1>1, <1>2, <1>6, <2>1
  <2> QED BY <1>2, <2>1, <2>2, <2>3, GoesOn
<1>7. CASE wfirst' /\ ~HeaderCut /\ Complete(recv_datalen') /\ EndFile(file \o q, len)
  <2>1. /\ len \in Int /\ file \o q \in Seq(Symbols)
        /\ got' >= NameAt /\ Len(file \o q) = got' - NameAt
        /\ \A i \in 1 .. Len(file \o q) : (file \o q)[i] = Stream(up)[NameAt + i]
    BY <1>5, <1>7
  <2>2. Len(file \o q) = Total - NameAt BY <1>2, <1>7, <2>1 DEF Complete, Total
  <2>3. /\ mode' \in {"done", "hung"} /\ reply' \in {"none", "ok", "error"} /\ present' = TRUE
        /\ file' \in Seq(Symbols) /\ f_len' \in Int
        /\ reply' = "ok" => file' = Truncated(file \o q) /\ f_len' = CutLength(file \o q)
        /\ Len(file') <= Len(file \o q) /\ \A i \in 1 .. Len(file') : file'[i] = (file \o q)[i]
    BY <1>2, <1>7, <2>1, EndFileFacts
  <2>4. reply' = "ok" /\ up.epilogue = 0 => present' /\ file' = up.content /\ f_len' = Len(file')
    <3> SUFFICES ASSUME reply' = "ok", up.epilogue = 0
                 PROVE  present' /\ file' = up.content /\ f_len' = Len(file')
      OBVIOUS
    <3>1. Truncated(file \o q) = up.content /\ CutLength(file \o q) = Len(up.content)
      BY <1>2, <2>1, <2>2, CutFacts
    <3> QED BY <2>3, <3>1
  <2>5. /\ recv_datalen' \in 0 .. got' /\ ~up.db
        /\ mode' \in {"done", "hung", "crashed", "lost", "stopped"} /\ mode' # "stopped" /\ present' \in BOOLEAN
    BY <1>1, <1>d, <2>3
  <2>6. \A i \in 1 .. Len(file') : NameAt + i <= got' /\ file'[i] = Stream(up)[NameAt + i]
    <3>1. PICK a \in Nat, h \in Nat, k \in Nat : a = NameAt /\ h = got' /\ k = Len(file')
      BY <1>2, <2>3, UploadFacts, LenProperties
    <3>2. k <= h - a BY <2>1, <2>3, <3>1
    <3>3. ASSUME NEW i \in 1 .. k PROVE i \in 1 .. h - a /\ a + i <= h
      <4>1. i \in Nat /\ i >= 1 /\ i <= k OBVIOUS
      <4>2. h - a >= i BY <3>2, <4>1
      <4>3. a + i <= h BY <4>1, <4>2
      <4> QED BY <4>1, <4>2, <4>3
    <3>4. \A i \in 1 .. k : file'[i] = Stream(up)[a + i] BY <2>1, <2>3, <3>1, <3>3
    <3> QED BY <3>1, <3>3, <3>4
  <2> QED BY <1>2, <2>3, <2>4, <2>5, <2>6, Ends
<1> QED BY <1>1, <1>3, <1>4, <1>6, <1>7

LEMMA PairFacts ==
    ASSUME NEW i \in Int, NEW j \in Int
    PROVE  /\ Max({i, j}) \in {i, j} /\ Max({i, j}) >= i /\ Max({i, j}) >= j
           /\ Min({i, j}) \in {i, j}
<1>1. \E x \in {i, j} : \A y \in {i, j} : x >= y OBVIOUS
<1>2. \E x \in {i, j} : \A y \in {i, j} : x <= y OBVIOUS
<1>3. Max({i, j}) \in {i, j} /\ \A y \in {i, j} : Max({i, j}) >= y BY <1>1 DEF Max
<1>4. Min({i, j}) \in {i, j} BY <1>2 DEF Min
<1> QED BY <1>3, <1>4

(* What a later piece saves: where the search starts, where the chunk       *)
(* begins, how long it may be and how long it is.                           *)
SearchFrom(m) == IF wfirst THEN Max({1, m - 4}) ELSE Max({NameAt, recv_datalen' - 8})
ChunkAt == IF wfirst THEN 1 ELSE ContentAt
ChunkMost(m) == IF wfirst THEN m ELSE recv_datalen' - NameAt
ChunkLen(m) == Before(ChunkMost(m), Boundary(SearchFrom(m)))

LEMMA ChunkLenFacts ==
    ASSUME Inductive, NEW m \in 0 .. Cap, NextPiece(m), wfirst', ~HeaderCut
    PROVE  /\ SearchFrom(m) \in Nat /\ SearchFrom(m) >= 1 /\ ChunkMost(m) \in Nat
           /\ ChunkLen(m) \in Int /\ ChunkLen(m) <= ChunkMost(m)
           /\ Boundary(SearchFrom(m)) = 0 => ChunkLen(m) = ChunkMost(m)
           /\ Counted(ChunkMost(m), Boundary(SearchFrom(m))) = ChunkLen(m)
           /\ ChunkAt \in Nat /\ ChunkAt >= 1 /\ ChunkAt + ChunkMost(m) - 1 <= Cap
<1>1. /\ up \in Uploads /\ got' = got + m /\ got \in Nat /\ got' \in Nat /\ m \in Nat /\ Cap \in Nat
      /\ recv_datalen' = got' /\ wfirst \in BOOLEAN
      /\ ~wfirst => got' <= Cap /\ got' >= NameAt
      /\ wfirst => m >= 1
  BY NextPieceFacts
<1>p. PICK a \in Nat, h \in Nat : a = NameAt /\ a + 1 = ContentAt /\ h = recv_datalen' /\ a >= 1
  <2>1. PICK a \in Nat, r \in Nat, d \in Nat : a = NameAt /\ r = up.hdr /\ d = up.dashes BY <1>1, UploadFacts
  <2>2. a = r + d + 3 /\ a + 1 = ContentAt BY <1>1, <2>1, UploadFacts
  <2>3. a >= 1 BY <2>2
  <2> QED BY <1>1, <2>1, <2>2, <2>3
<1>2. PICK i \in Nat : i = SearchFrom(m) /\ i >= 1
  <2>1. CASE wfirst
    <3>1. 1 \in Int /\ m - 4 \in Int BY <1>1
    <3>2. Max({1, m - 4}) \in {1, m - 4} /\ Max({1, m - 4}) >= 1 BY <3>1, PairFacts
    <3>3. Max({1, m - 4}) \in Nat BY <3>1, <3>2
    <3> QED BY <2>1, <3>2, <3>3 DEF SearchFrom
  <2>2. CASE ~wfirst
    <3>1. a \in Int /\ h - 8 \in Int OBVIOUS
    <3>2. Max({a, h - 8}) \in {a, h - 8} /\ Max({a, h - 8}) >= a BY <3>1, PairFacts
    <3>3. Max({a, h - 8}) \in Nat /\ Max({a, h - 8}) >= 1 BY <1>p, <3>1, <3>2
    <3>4. SearchFrom(m) = Max({a, h - 8}) BY <1>p, <2>2 DEF SearchFrom
    <3> QED BY <3>3, <3>4
  <2> QED BY <1>1, <2>1, <2>2
<1>3. PICK n \in Nat : n = ChunkMost(m) /\ ChunkAt \in Nat /\ ChunkAt >= 1 /\ ChunkAt + n - 1 <= Cap
  <2>1. CASE wfirst
    <3>1. ChunkMost(m) = m /\ ChunkAt = 1 BY <2>1 DEF ChunkMost, ChunkAt
    <3>2. 1 + m - 1 <= Cap BY <1>1
    <3> QED BY <1>1, <3>1, <3>2
  <2>2. CASE ~wfirst
    <3>1. ChunkMost(m) = h - a /\ ChunkAt = a + 1 BY <1>p, <2>2 DEF ChunkMost, ChunkAt
    <3>2. h <= Cap /\ h >= a BY <1>1, <1>p, <2>2
    <3>3. h - a \in Nat /\ a + 1 + (h - a) - 1 <= Cap BY <1>1, <3>2
    <3> QED BY <3>1, <3>3
  <2> QED BY <1>1, <2>1, <2>2
<1>4. PICK b \in Nat : b = Boundary(i) BY BoundaryFacts
<1>5. b # 0 => Dashes(b - 1) \in Nat
  <2>1. b # 0 => b - 1 \in Nat OBVIOUS
  <2> QED BY <2>1, DashesFacts
<1>6. ChunkLen(m) = Before(n, b) BY <1>2, <1>3, <1>4 DEF ChunkLen
<1>7. /\ Before(n, b) \in Int /\ Before(n, b) <= n /\ (b = 0 => Before(n, b) = n)
      /\ Counted(n, b) = Before(n, b)
  <2>1. CASE b = 0 BY <2>1 DEF Before, Counted
  <2>2. CASE b # 0
    <3>1. PICK k \in Nat : k = Dashes(b - 1) BY <1>5, <2>2
    <3>2. Before(n, b) = n - 5 - k - 2 /\ Counted(n, b) = n - 7 - k BY <2>2, <3>1 DEF Before, Counted
    <3>3. n - 5 - k - 2 \in Int /\ n - 5 - k - 2 <= n /\ n - 5 - k - 2 = n - 7 - k OBVIOUS
    <3> QED BY <2>2, <3>2, <3>3
  <2> QED BY <2>1, <2>2
<1> QED BY <1>2, <1>3, <1>4, <1>6, <1>7

(* A chunk that is saved continues what the chunks before it hold.          *)
LEMMA ChunkFacts ==
    ASSUME Inductive, NEW m \in 0 .. Cap, NextPiece(m), wfirst', ~HeaderCut, ChunkLen(m) >= 0,
           SavedOrNot(ChunkLen(m), ChunkAt), present'
    PROVE  /\ file' \in Seq(Symbols) /\ Len(file') = Len(file) + ChunkLen(m)
           /\ (wfirst => Received) => \A i \in 1 .. Len(file') : file'[i] = Stream(up)[NameAt + i]
<1>1. /\ up \in Uploads /\ got' = got + m /\ got \in Nat /\ got' \in Nat /\ m \in Nat /\ Cap \in Nat
      /\ recv_datalen' = got' /\ wfirst \in BOOLEAN /\ file \in Seq(Symbols)
      /\ buffer' \in [1 .. Cap -> Symbols]
      /\ ~wfirst =>
           /\ got' <= Cap /\ file = <<>> /\ got' >= NameAt
           /\ \A i \in 1 .. got' : buffer'[i] = Stream(up)[i]
      /\ wfirst =>
           /\ m >= 1 /\ got >= NameAt
           /\ \A i \in 1 .. m : buffer'[i] = Stream(up)[got + i]
  BY NextPieceFacts
<1>p. PICK a \in Nat, g \in Nat, h \in Nat : a = NameAt /\ a + 1 = ContentAt /\ g = got /\ h = got'
  BY <1>1, UploadFacts
<1>2. PICK n \in Nat, c \in Nat, f \in Nat :
        n = ChunkMost(m) /\ c = ChunkLen(m) /\ f = ChunkAt /\ c <= n /\ f >= 1 /\ f + n - 1 <= Cap
  <2>1. /\ ChunkMost(m) \in Nat /\ ChunkLen(m) \in Int /\ ChunkLen(m) <= ChunkMost(m)
        /\ ChunkAt \in Nat /\ ChunkAt >= 1 /\ ChunkAt + ChunkMost(m) - 1 <= Cap
    BY ChunkLenFacts
  <2>2. ChunkLen(m) \in Nat BY <2>1
  <2> QED BY <2>1, <2>2
<1>3. PICK z \in Nat : z = Len(file) BY <1>1, LenProperties
<1>4. /\ file' \in Seq(Symbols) /\ Len(file') = z + c
      /\ \A i \in 1 .. z : file'[i] = file[i]
      /\ \A i \in 1 .. c : file'[z + i] = buffer'[f + i - 1]
  <2>1. f + c - 1 <= Cap /\ c \in Int /\ c >= 0 BY <1>1, <1>2
  <2>2. SavedOrNot(c, f) BY <1>2
  <2>3. /\ file' \in Seq(Symbols)
        /\ present' /\ c >= 0 =>
             /\ Len(file') = Len(file) + c
             /\ \A i \in 1 .. Len(file) : file'[i] = file[i]
             /\ \A i \in 1 .. c : file'[Len(file) + i] = buffer'[f + i - 1]
    BY <1>1, <1>2, <2>1, <2>2, SavedFacts
  <2> QED BY <1>3, <2>1, <2>3
<1>5. ASSUME wfirst => Received, NEW i \in 1 .. z + c PROVE file'[i] = Stream(up)[a + i]
  <2>1. CASE i <= z
    <3>1. i \in 1 .. z BY <2>1
    <3>2. CASE wfirst
      <4>1. \A k \in 1 .. z : file[k] = Stream(up)[a + k] BY <1>p, <1>3, <1>5, <3>2 DEF Received
      <4> QED BY <1>4, <3>1, <4>1
    <3>3. CASE ~wfirst
      <4>1. z = 0 BY <1>1, <1>3, <3>3, EmptySeq
      <4> QED BY <3>1, <4>1
    <3> QED BY <1>1, <3>2, <3>3
  <2>2. CASE ~(i <= z)
    <3>1. i - z \in 1 .. c /\ z + (i - z) = i BY <2>2
    <3>2. file'[i] = buffer'[f + (i - z) - 1] BY <1>4, <3>1
    <3>3. CASE wfirst
      <4>1. f = 1 /\ n = m BY <1>2, <3>3 DEF ChunkAt, ChunkMost
      <4>2. z = g - a /\ g >= a BY <1>1, <1>p, <1>3, <1>5, <3>3 DEF Received
      <4>3. f + (i - z) - 1 \in 1 .. m /\ g + (f + (i - z) - 1) = a + i BY <1>1, <1>2, <3>1, <4>1, <4>2
      <4>4. \A k \in 1 .. m : buffer'[k] = Stream(up)[g + k] BY <1>1, <1>p, <3>3
      <4> QED BY <3>2, <4>3, <4>4
    <3>4. CASE ~wfirst
      <4>1. f = a + 1 /\ n = h - a BY <1>1, <1>p, <1>2, <3>4 DEF ChunkAt, ChunkMost
      <4>2. z = 0 BY <1>1, <1>3, <3>4, EmptySeq
      <4>3. f + (i - z) - 1 \in 1 .. h /\ f + (i - z) - 1 = a + i BY <1>2, <3>1, <4>1, <4>2
      <4>4. \A k \in 1 .. h : buffer'[k] = Stream(up)[k] BY <1>1, <1>p, <3>4
      <4> QED BY <3>2, <4>3, <4>4
    <3> QED BY <1>1, <3>3, <3>4
  <2> QED BY <2>1, <2>2
<1> QED BY <1>2, <1>3, <1>4, <1>5, <1>p

(* Content up to the end of a piece: it is all saved, and no boundary is    *)
(* left.                                                                    *)
LEMMA ContentSaved ==
    ASSUME Inductive, NEW m \in 0 .. Cap, NextPiece(m), up.db, wfirst', ~HeaderCut, clean',
           ChunkLen(m) >= 0, SavedOrNot(ChunkLen(m), ChunkAt), present', ~Complete(recv_datalen')
    PROVE  got' > Total \/ (got' <= ContentEnd /\ Received' /\ NoBoundary')
<1>1. /\ up \in Uploads /\ up' = up /\ got' = got + m /\ got \in Nat /\ got' \in Nat /\ m \in Nat /\ Cap \in Nat
      /\ recv_datalen' = got' /\ wfirst \in BOOLEAN /\ clean /\ CleanRead(m)
      /\ ~wfirst =>
           /\ got' <= Cap /\ file = <<>> /\ got' >= NameAt
           /\ \A i \in 1 .. got' : buffer'[i] = Stream(up)[i]
           /\ \A i \in got' + 1 .. Cap : buffer'[i] = "junk"
      /\ wfirst =>
           /\ m >= 1 /\ got >= NameAt
           /\ \A i \in 1 .. m : buffer'[i] = Stream(up)[got + i]
           /\ \A i \in m + 1 .. Cap : buffer'[i] = buffer[i]
           /\ got > Total \/ (got <= ContentEnd /\ Received /\ NoBoundary)
  BY NextPieceFacts
<1>p. PICK a \in Nat, g \in Nat, h \in Nat, t \in Nat, e \in Nat, d \in Nat, x \in Nat :
        /\ a = NameAt /\ g = got /\ h = got' /\ t = Total /\ e = ContentEnd /\ d = up.dashes
        /\ x = up.epilogue
  BY <1>1, UploadFacts, StreamFacts
<1>t. t = e + d + 7 + x /\ h = g + m /\ a >= 3
  <2>1. t = e + d + 7 + x /\ h = g + m BY <1>1, <1>p, StreamFacts
  <2>2. PICK r \in Nat : r = up.hdr BY <1>1, UploadFacts
  <2>3. a = r + d + 3 BY <1>1, <1>p, <2>2, UploadFacts
  <2>4. a >= 3 BY <2>3
  <2> QED BY <2>1, <2>4
<1>2. h # t BY <1>1, <1>p DEF Complete, Total
<1>3. h <= e \/ h >= t
  <2>1. got + m <= ContentEnd \/ got + m >= Total BY <1>1 DEF CleanRead, Total
  <2> QED BY <1>1, <1>p, <2>1
<1>4. CASE h > t BY <1>p, <1>4
<1>5. CASE ~(h > t)
  <2>1. h <= e BY <1>2, <1>3, <1>5
  <2>2. \A i \in a - 1 .. e : Stream(up)[i] # "b" BY <1>1, <1>p, StreamFacts
  <2>3. wfirst => m >= a - 2 /\ Received /\ g >= a /\ \A i \in a - 1 .. Cap : buffer[i] # "b"
    <3> SUFFICES ASSUME wfirst PROVE m >= a - 2 /\ Received /\ g >= a /\ \A i \in a - 1 .. Cap : buffer[i] # "b"
      OBVIOUS
    <3>1. m >= NameAt - 2 \/ got + m >= Total BY <1>1 DEF CleanRead, Total
    <3>2. m >= a - 2 \/ h >= t BY <1>1, <1>p, <3>1
    <3>3. ~(h >= t) BY <1>t, <2>1
    <3>4. ~(g > t) BY <1>1, <1>t, <2>1
    <3>5. got <= ContentEnd /\ Received /\ NoBoundary BY <1>1, <1>p, <3>4
    <3> QED BY <1>1, <1>p, <3>2, <3>3, <3>5 DEF NoBoundary
  <2>4. ASSUME NEW i \in Nat, i >= 1, i >= a - 1 \/ (wfirst /\ i <= m), i <= Cap
        PROVE  buffer'[i] # "b"
    <3>1. CASE wfirst /\ i <= m
      <4>1. i \in 1 .. m /\ g + i \in a - 1 .. e BY <1>1, <1>t, <2>1, <2>3, <2>4, <3>1
      <4>2. buffer'[i] = Stream(up)[g + i] BY <1>1, <1>p, <3>1, <4>1
      <4> QED BY <2>2, <4>1, <4>2
    <3>2. CASE wfirst /\ ~(i <= m)
      <4>1. i \in m + 1 .. Cap /\ i \in a - 1 .. Cap BY <1>1, <2>4, <3>2
      <4>2. buffer'[i] = buffer[i] BY <1>1, <3>2, <4>1
      <4> QED BY <2>3, <3>2, <4>1, <4>2
    <3>3. CASE ~wfirst /\ i <= h
      <4>1. i \in 1 .. h /\ i \in a - 1 .. e BY <2>1, <2>4, <3>3
      <4> QED BY <1>1, <1>p, <2>2, <3>3, <4>1
    <3>4. CASE ~wfirst /\ ~(i <= h)
      <4>1. i \in h + 1 .. Cap BY <1>1, <2>4, <3>4
      <4>2. buffer'[i] = "junk" BY <1>1, <1>p, <3>4, <4>1
      <4> QED BY <4>2
    <3> QED BY <1>1, <3>1, <3>2, <3>3, <3>4
  <2>5. NoBoundary'
    <3>1. ASSUME NEW i \in a - 1 .. Cap PROVE buffer'[i] # "b"
      <4>1. i \in Nat /\ i >= 1 /\ i >= a - 1 /\ i <= Cap BY <1>1, <1>t
      <4> QED BY <2>4, <4>1
    <3> QED BY <1>1, <1>p, <3>1, Primed
  <2>6. Boundary(SearchFrom(m)) = 0
    <3>1. PICK s \in Nat : s = SearchFrom(m) /\ s >= 1 BY ChunkLenFacts
    <3>2. ~wfirst => s >= a
      <4> SUFFICES ASSUME ~wfirst PROVE s >= a
        OBVIOUS
      <4>1. h - 8 \in Int /\ a \in Int OBVIOUS
      <4>2. s = Max({a, h - 8}) BY <1>1, <1>p, <3>1 DEF SearchFrom
      <4>3. Max({a, h - 8}) >= a BY <4>1, PairFacts
      <4> QED BY <4>2, <4>3
    <3>3. ASSUME NEW j \in s .. Cap PROVE buffer'[j] # "b"
      <4>1. j \in Nat /\ j >= 1 /\ j <= Cap /\ (~wfirst => j >= a - 1)
            /\ (wfirst => j >= a - 1 \/ j <= m)
        BY <1>1, <2>3, <3>1, <3>2
      <4>2. j >= a - 1 \/ (wfirst /\ j <= m) BY <1>1, <4>1
      <4> QED BY <2>4, <4>1, <4>2
    <3> QED BY <3>1, <3>3, BoundaryFacts
  <2>7. PICK n \in Nat : n = ChunkMost(m) /\ ChunkLen(m) = n BY <2>6, ChunkLenFacts
  <2>8. Len(file') = h - a
    <3>1. Len(file') = Len(file) + n BY <2>7, ChunkFacts
    <3>2. CASE wfirst
      <4>1. n = m BY <2>7, <3>2 DEF ChunkMost
      <4>2. Len(file) = g - a BY <1>p, <2>3, <3>2 DEF Received
      <4>3. g - a + m = h - a BY <1>1, <1>t
      <4> QED BY <3>1, <4>1, <4>2, <4>3
    <3>3. CASE ~wfirst
      <4>1. n = h - a BY <1>1, <1>p, <2>7, <3>3 DEF ChunkMost
      <4>2. Len(file) = 0 BY <1>1, <3>3, EmptySeq
      <4> QED BY <3>1, <4>1, <4>2
    <3> QED BY <1>1, <3>2, <3>3
  <2>9. \A i \in 1 .. Len(file') : file'[i] = Stream(up)[NameAt + i] BY <2>3, ChunkFacts
  <2>10. Received' BY <1>1, <1>p, <2>8, <2>9, Primed
  <2> QED BY <1>p, <2>1, <2>5, <2>10
<1> QED BY <1>4, <1>5

(* The closing line comes in one piece: the chunk ends before it.           *)
LEMMA LastSaved ==
    ASSUME Inductive, NEW m \in 0 .. Cap, NextPiece(m), up.db, wfirst', ~HeaderCut, clean',
           ChunkLen(m) >= 0, SavedOrNot(ChunkLen(m), ChunkAt), present', Complete(recv_datalen'),
           up.epilogue = 0
    PROVE  file' = up.content
<1>1. /\ up \in Uploads /\ up' = up /\ got' = got + m /\ got \in Nat /\ got' \in Nat /\ m \in Nat /\ Cap \in Nat
      /\ recv_datalen' = got' /\ wfirst \in BOOLEAN /\ clean
      /\ ~wfirst =>
           /\ got' <= Cap /\ file = <<>> /\ got' >= NameAt
           /\ \A i \in 1 .. got' : buffer'[i] = Stream(up)[i]
      /\ wfirst =>
           /\ m >= 1 /\ got >= NameAt
           /\ \A i \in 1 .. m : buffer'[i] = Stream(up)[got + i]
           /\ got > Total \/ (got <= ContentEnd /\ Received /\ NoBoundary)
  BY NextPieceFacts
<1>p. PICK a \in Nat, g \in Nat, h \in Nat, l \in Nat, d \in Nat :
        a = NameAt /\ g = got /\ h = got' /\ l = Len(up.content) /\ d = up.dashes
  BY <1>1, UploadFacts
<1>t. /\ ContentEnd = a + l /\ Total = a + l + d + 7 /\ h = g + m /\ h = a + l + d + 7
  <2>1. ContentEnd = a + l /\ h = g + m BY <1>1, <1>p, UploadFacts
  <2>2. Total = ContentEnd + d + 7 + 0 BY <1>1, <1>p, StreamFacts
  <2>3. Total = a + l + d + 7 BY <2>1, <2>2
  <2>4. h = Total BY <1>1, <1>p DEF Complete, Total
  <2> QED BY <2>1, <2>3, <2>4
<1>m. m \in Nat BY <1>1
<1>2. wfirst => Received /\ g <= a + l
  <2>1. ~(g > h) BY <1>1, <1>t
  <2> QED BY <1>1, <1>p, <1>t, <2>1
<1>3. Len(file') = l
  <2>1. Len(file') = Len(file) + ChunkLen(m) BY ChunkFacts
  <2>2. CASE wfirst
    <3>1. g <= a + l /\ g >= a /\ Len(file) = g - a BY <1>1, <1>2, <1>p, <2>2 DEF Received
    <3>g. g <= a + l /\ g >= a /\ g + m = a + l + d + 7 BY <1>t, <3>1
    <3>2. m - 4 >= 5 /\ m - 4 \in Nat
      <4>1. m >= d + 7 BY <1>m, <3>g
      <4>2. d >= 2 BY <1>1, <1>p, UploadFacts
      <4> QED BY <1>m, <4>1, <4>2
    <3>3. SearchFrom(m) = m - 4
      <4>1. 1 \in Int /\ m - 4 \in Int BY <3>2
      <4>2. Max({1, m - 4}) \in {1, m - 4} /\ Max({1, m - 4}) >= m - 4 BY <4>1, PairFacts
      <4>3. Max({1, m - 4}) = m - 4 BY <3>2, <4>2
      <4> QED BY <2>2, <4>3 DEF SearchFrom
    <3>4. Boundary(m - 4) = m - 4 /\ Dashes(m - 5) = up.dashes
      <4>1. /\ g \in Nat /\ m \in 0 .. Cap /\ g + m = Total /\ g <= ContentEnd
            /\ \A i \in 1 .. m : buffer'[i] = Stream(up)[g + i]
            /\ m - 4 \in Nat /\ m - 4 >= 1 /\ m - 4 <= m - 4 /\ g + (m - 4) >= NameAt
        <5>1. g + m = a + l + d + 7 /\ m - 4 <= m - 4 /\ g + (m - 4) >= a /\ m - 4 >= 1
          BY <1>m, <3>g, <3>2
        <5>2. \A i \in 1 .. m : buffer'[i] = Stream(up)[g + i] BY <1>1, <1>p, <2>2
        <5> QED BY <1>p, <1>t, <3>1, <3>2, <5>1, <5>2
      <4> QED BY <1>1, <4>1, LastLine
    <3>5. ChunkLen(m) = m - 5 - d - 2
      <4>1. ChunkMost(m) = m BY <2>2 DEF ChunkMost
      <4>2. ChunkLen(m) = Before(m, m - 4) BY <3>3, <3>4, <4>1 DEF ChunkLen
      <4>3. m - 4 # 0 /\ m - 4 - 1 = m - 5 BY <1>1, <3>2
      <4>4. Before(m, m - 4) = m - 5 - Dashes(m - 5) - 2 BY <4>3 DEF Before
      <4> QED BY <1>p, <3>4, <4>2, <4>4
    <3>6. g - a + (m - 5 - d - 2) = l BY <1>m, <3>g
    <3> QED BY <2>1, <3>1, <3>5, <3>6
  <2>3. CASE ~wfirst
    <3>1. Len(file) = 0 /\ h \in 0 .. Cap BY <1>1, <1>p, <2>3, EmptySeq
    <3>2. PICK s \in Nat : s = SearchFrom(m) /\ s >= 1 BY ChunkLenFacts
    <3>3. s >= a /\ s <= h - 4
      <4>1. a \in Int /\ h - 8 \in Int OBVIOUS
      <4>2. Max({a, h - 8}) \in {a, h - 8} /\ Max({a, h - 8}) >= a BY <4>1, PairFacts
      <4>3. s = Max({a, h - 8}) BY <1>1, <1>p, <2>3, <3>2 DEF SearchFrom
      <4>4. a <= h - 4 /\ h - 8 <= h - 4 BY <1>t
      <4>5. s = a \/ s = h - 8 BY <4>2, <4>3
      <4> QED BY <4>2, <4>3, <4>4, <4>5
    <3>4. Boundary(s) = h - 4 /\ Dashes(h - 5) = up.dashes
      <4>1. /\ 0 \in Nat /\ h \in 0 .. Cap /\ 0 + h = Total /\ 0 <= ContentEnd
            /\ \A i \in 1 .. h : buffer'[i] = Stream(up)[0 + i]
            /\ s \in Nat /\ s >= 1 /\ s <= h - 4 /\ 0 + s >= NameAt
        <5>1. 0 + h = a + l + d + 7 /\ 0 <= a + l /\ 0 + s >= a BY <1>t, <3>3
        <5>2. \A i \in 1 .. h : buffer'[i] = Stream(up)[0 + i] BY <1>1, <1>p, <2>3
        <5> QED BY <1>p, <1>t, <3>1, <3>2, <3>3, <5>1, <5>2
      <4> QED BY <1>1, <4>1, LastLine
    <3>5. ChunkLen(m) = h - a - 5 - d - 2
      <4>1. ChunkMost(m) = h - a BY <1>1, <1>p, <2>3 DEF ChunkMost
      <4>2. ChunkLen(m) = Before(h - a, h - 4) BY <3>2, <3>4, <4>1 DEF ChunkLen
      <4>3. h - 4 # 0 /\ h - 4 - 1 = h - 5 BY <1>t
      <4>4. Before(h - a, h - 4) = h - a - 5 - Dashes(h - 5) - 2 BY <4>3 DEF Before
      <4> QED BY <1>p, <3>4, <4>2, <4>4
    <3>6. 0 + (h - a - 5 - d - 2) = l BY <1>t
    <3> QED BY <2>1, <3>1, <3>5, <3>6
  <2> QED BY <1>1, <2>2, <2>3
<1>4. \A i \in 1 .. l : file'[i] = up.content[i]
  <2>1. \A i \in 1 .. l : file'[i] = Stream(up)[NameAt + i] BY <1>2, <1>3, ChunkFacts
  <2>2. \A i \in 1 .. l : Stream(up)[NameAt + i] = up.content[i] BY <1>1, <1>p, StreamFacts
  <2> QED BY <2>1, <2>2
<1>5. file' \in Seq(Symbols) /\ up.content \in Seq(Symbols) BY <1>1, UploadFacts, ChunkFacts
<1> QED BY <1>3, <1>4, <1>5, <1>p, SeqEqual

LEMMA ReceiveDbKeeps ==
    ASSUME Inductive, NEW m \in 0 .. Cap, ReceiveDb(m)
    PROVE  Inductive'
<1>1. /\ NextPiece(m) /\ up.db
      /\ \/ ~wfirst' /\ f_len' = Min({f_len + f_offset', MaxLen}) /\ UNCHANGED <<mode, present, file, reply>>
         \/ (HeaderCut \/ (wfirst' /\ ChunkLen(m) < 0)) /\ Crash /\ UNCHANGED <<present, file>>
         \/ /\ wfirst' /\ ~HeaderCut /\ ChunkLen(m) >= 0
            /\ f_len' = IF wfirst THEN f_len + Counted(ChunkMost(m), Boundary(SearchFrom(m))) ELSE ChunkLen(m)
            /\ SavedOrNot(ChunkLen(m), ChunkAt)
            /\ \/ ~present' /\ Reply("error")
               \/ present' /\ Complete(recv_datalen') /\ Reply("ok")
               \/ present' /\ ~Complete(recv_datalen') /\ UNCHANGED <<mode, reply>>
  <2>1. CASE wfirst BY <2>1 DEF ReceiveDb, ChunkLen, ChunkMost, SearchFrom, ChunkAt
  <2>2. CASE ~wfirst BY <2>2 DEF ReceiveDb, ChunkLen, ChunkMost, SearchFrom, ChunkAt
  <2> QED BY <2>1, <2>2
<1>2. /\ up \in Uploads /\ up' = up /\ got' \in 0 .. Len(Stream(up))
      /\ got' \in Nat
      /\ buffer' \in [1 .. Cap -> Symbols] /\ clean' \in BOOLEAN
      /\ file \in Seq(Symbols) /\ reply = "none" /\ f_len \in Int /\ present \in BOOLEAN
      /\ wfirst \in BOOLEAN /\ wfirst' \in BOOLEAN /\ (wfirst => wfirst')
      /\ recv_datalen' = got' /\ f_offset' \in 0 .. Cap /\ (wfirst' => f_offset' = 0)
      /\ mode = "receive"
      /\ ~wfirst =>
           /\ file = <<>> /\ (~wfirst' => f_offset' = got')
           /\ \A i \in 1 .. got' : buffer'[i] = Stream(up)[i]
           /\ \A i \in got' + 1 .. Cap : buffer'[i] = "junk"
           /\ wfirst' /\ ~HeaderCut => got' >= NameAt
      /\ wfirst => f_len = Len(file)
  BY <1>1, NextPieceFacts
<1>d. recv_datalen' \in 0 .. got' BY <1>2
<1>3. CASE ~wfirst' /\ f_len' = Min({f_len + f_offset', MaxLen}) /\ UNCHANGED <<mode, present, file, reply>>
  <2>1. f_len' \in Int
    <3>1. f_len + f_offset' \in Int BY <1>2, CapAssumption
    <3>2. MaxLen \in Int BY CapAssumption
    <3>3. Min({f_len + f_offset', MaxLen}) \in {f_len + f_offset', MaxLen} BY <3>1, <3>2, PairFacts
    <3> QED BY <1>3, <3>1, <3>2, <3>3
  <2>2. /\ mode' = "receive" /\ present' \in BOOLEAN /\ file' = <<>> /\ reply' = "none"
        /\ file' \in Seq(Symbols) /\ f_offset' = got' /\ ~wfirst'
        /\ \A i \in 1 .. got' : buffer'[i] = Stream(up)[i]
        /\ \A i \in got' + 1 .. Cap : buffer'[i] = "junk"
    BY <1>2, <1>3
  <2> QED BY <1>2, <2>1, <2>2, GoesOn
<1>4. CASE Crash /\ UNCHANGED <<present, file>>
  <2>1. /\ mode' = "crashed" /\ f_len' \in Int /\ reply' = "none" /\ present' \in BOOLEAN /\ file' \in Seq(Symbols)
    BY <1>2, <1>4 DEF Crash
  <2>2. /\ mode' \in {"done", "hung", "crashed", "lost", "stopped"} /\ mode' # "stopped" /\ reply' # "ok"
        /\ reply' \in {"none", "ok", "error"}
    BY <2>1
  <2> QED BY <1>1, <1>2, <1>d, <2>1, <2>2, Ends
<1>5. CASE /\ wfirst' /\ ~HeaderCut /\ ChunkLen(m) >= 0
           /\ f_len' = IF wfirst THEN f_len + Counted(ChunkMost(m), Boundary(SearchFrom(m))) ELSE ChunkLen(m)
           /\ SavedOrNot(ChunkLen(m), ChunkAt)
           /\ \/ ~present' /\ Reply("error")
              \/ present' /\ Complete(recv_datalen') /\ Reply("ok")
              \/ present' /\ ~Complete(recv_datalen') /\ UNCHANGED <<mode, reply>>
  <2>1. PICK c \in Nat : c = ChunkLen(m)
                         /\ c = Counted(ChunkMost(m), Boundary(SearchFrom(m)))
    <3>1. ChunkLen(m) \in Nat BY <1>1, <1>5, ChunkLenFacts
    <3> QED BY <1>1, <1>5, <3>1, ChunkLenFacts
  <2>2. f_len' = IF wfirst THEN f_len + c ELSE c BY <1>5, <2>1
  <2>3. f_len' \in Int BY <1>2, <2>2
  <2>4. file' \in Seq(Symbols) /\ present' \in BOOLEAN
    <3>1. PICK n \in Nat, f \in Nat : n = ChunkMost(m) /\ f = ChunkAt /\ f >= 1 /\ c <= n /\ f + n - 1 <= Cap
      BY <1>1, <1>5, <2>1, ChunkLenFacts
    <3>2. f + c - 1 <= Cap /\ c \in Int BY <3>1, CapAssumption
    <3>3. SavedOrNot(c, f) BY <1>5, <2>1, <3>1
    <3> QED BY <1>2, <3>1, <3>2, <3>3, SavedFacts
  <2>5. present' => f_len' = Len(file')
    <3> SUFFICES ASSUME present' PROVE f_len' = Len(file')
      OBVIOUS
    <3>1. Len(file') = Len(file) + c BY <1>1, <1>5, <2>1, ChunkFacts
    <3>2. ~wfirst => Len(file) = 0 BY <1>2, EmptySeq
    <3>3. 0 + c = c OBVIOUS
    <3> QED BY <1>2, <2>2, <3>1, <3>2, <3>3
  <2>6. CASE ~present' /\ Reply("error")
    <3>1. /\ mode' \in {"done", "hung", "crashed", "lost", "stopped"} /\ mode' # "stopped" /\ reply' # "ok"
          /\ reply' \in {"none", "ok", "error"}
      BY <2>6 DEF Reply
    <3> QED BY <1>1, <1>2, <1>d, <2>3, <2>4, <3>1, Ends
  <2>7. CASE present' /\ Complete(recv_datalen') /\ Reply("ok")
    <3>1. /\ mode' \in {"done", "hung", "crashed", "lost", "stopped"} /\ mode' # "stopped"
          /\ reply' \in {"none", "ok", "error"}
      BY <2>7 DEF Reply
    <3>2. up.epilogue = 0 /\ clean' => file' = up.content BY <1>1, <1>5, <2>7, LastSaved
    <3>3. reply' = "ok" /\ up.epilogue = 0 /\ (IF up.db THEN clean' ELSE up.dashes >= 4 \/ wfirst')
             => present' /\ file' = up.content /\ f_len' = Len(file')
      BY <1>1, <2>5, <2>7, <3>2
    <3> QED BY <1>1, <1>2, <1>d, <2>3, <2>4, <2>5, <2>7, <3>1, <3>3, Ends
  <2>8. CASE present' /\ ~Complete(recv_datalen') /\ UNCHANGED <<mode, reply>>
    <3>1. mode' = "receive" /\ reply' = "none" BY <1>2, <2>8
    <3>2. clean' => got' > Total \/ (got' <= ContentEnd /\ Received' /\ NoBoundary')
      BY <1>1, <1>5, <2>8, ContentSaved
    <3>3. got' >= NameAt
      <4>1. /\ wfirst => got >= NameAt /\ m \in Nat /\ got \in Nat /\ got' = got + m BY <1>1, NextPieceFacts
      <4>2. NameAt \in Nat BY <1>2, UploadFacts
      <4>3. CASE wfirst
        <5>1. got >= NameAt /\ m \in Nat /\ got \in Nat /\ got' = got + m
          BY <1>1, <4>3, NextPieceFacts
        <5> QED BY <4>2, <5>1
      <4>4. CASE ~wfirst BY <1>2, <1>5, <4>4
      <4> QED BY <4>3, <4>4
    <3>4. /\ wfirst' /\ f_offset' = 0 /\ f_len' = Len(file') /\ up.db BY <1>1, <1>2, <1>5, <2>5, <2>8
    <3> QED BY <1>2, <2>3, <2>4, <3>1, <3>2, <3>3, <3>4, GoesOn
  <2> QED BY <1>5, <2>6, <2>7, <2>8
<1> QED BY <1>1, <1>3, <1>4, <1>5

LEMMA BrokenOffKeeps ==
    ASSUME Inductive, ConnectionLost \/ ServerStops
    PROVE  Inductive'
<1>1. /\ TypeOK /\ mode \in {"read", "receive"} /\ reply = "none"
      /\ UNCHANGED <<up, got, buffer, f_offset, recv_datalen, wfirst, f_len, reply, clean>>
      /\ \/ mode' = "lost" /\ present' = FALSE /\ file' = <<>>
         \/ mode' = "stopped" /\ UNCHANGED <<present, file>>
  BY DEF Inductive, ReadInv, ReceiveInv, ConnectionLost, ServerStops, recvVars
<1>2. /\ up \in Uploads /\ up' = up /\ got' \in 0 .. Len(Stream(up)) /\ buffer' \in [1 .. Cap -> Symbols]
      /\ f_offset' \in 0 .. Cap /\ recv_datalen' \in 0 .. got' /\ wfirst' \in BOOLEAN /\ f_len' \in Int
      /\ reply' = "none" /\ clean' \in BOOLEAN /\ present \in BOOLEAN /\ file \in Seq(Symbols)
  BY <1>1 DEF TypeOK
<1>3. /\ present' \in BOOLEAN /\ file' \in Seq(Symbols)
      /\ mode' \in {"done", "hung", "crashed", "lost", "stopped"}
      /\ reply' # "ok" /\ reply' \in {"none", "ok", "error"}
  BY <1>1, <1>2, EmptySeq
<1>4. ~up.db => \A i \in 1 .. Len(file') : NameAt + i <= got' /\ file'[i] = Stream(up)[NameAt + i]
  <2>1. CASE file' = file BY <1>1, <2>1 DEF Inductive, HoldsBeginning
  <2>2. CASE file' = <<>>
    <3>1. \A i \in 1 .. Len(file') : FALSE BY <2>2, EmptySeq
    <3> QED BY <3>1
  <2> QED BY <1>1, <2>1, <2>2
<1>5. ~up.db /\ mode' = "stopped" /\ wfirst' => Len(file') = got' - NameAt
  BY <1>1 DEF Inductive, ReadInv, ReceiveInv, Received
<1> QED BY <1>2, <1>3, <1>4, <1>5, Ends

LEMMA InitInductive == Init => Inductive
<1> SUFFICES ASSUME Init PROVE Inductive
  OBVIOUS
<1>1. up \in Uploads /\ got = 0 /\ mode = "read" /\ f_offset = 0 /\ recv_datalen = 0 /\ wfirst = FALSE
      /\ buffer = [i \in 1 .. Cap |-> "junk"] /\ f_len = 0 /\ present = FALSE /\ file = <<>>
      /\ reply = "none" /\ clean = TRUE
  BY DEF Init
<1>2. Len(Stream(up)) \in Nat /\ Cap \in Nat BY <1>1, StreamFacts, UploadFacts
<1>3. buffer \in [1 .. Cap -> Symbols] BY <1>1 DEF Symbols
<1>4. /\ got \in 0 .. Len(Stream(up)) /\ f_offset \in 0 .. Cap /\ recv_datalen \in 0 .. got
      /\ file \in Seq(Symbols) /\ f_len \in Int
  BY <1>1, <1>2, EmptySeq
<1>5. TypeOK BY <1>1, <1>3, <1>4 DEF TypeOK
<1>6. Prefix
  <2>1. \A i \in 1 .. got : FALSE BY <1>1
  <2>2. \A i \in got + 1 .. Cap : buffer[i] = "junk"
    <3>1. \A i \in 0 + 1 .. Cap : i \in 1 .. Cap OBVIOUS
    <3> QED BY <1>1, <3>1
  <2> QED BY <1>1, <2>1, <2>2 DEF Prefix
<1>7. ReadInv /\ ReceiveInv BY <1>1, <1>6 DEF ReadInv, ReceiveInv
<1>8. StoredExactly /\ LengthAsSaved /\ HoldsBeginning
  <2>1. \A i \in 1 .. Len(file) : FALSE BY <1>1, EmptySeq
  <2> QED BY <1>1, <2>1 DEF StoredExactly, LengthAsSaved, HoldsBeginning
<1> QED BY <1>5, <1>7, <1>8 DEF Inductive

LEMMA NextInductive == Inductive /\ [Next]_vars => Inductive'
<1> SUFFICES ASSUME Inductive, [Next]_vars PROVE Inductive'
  OBVIOUS
<1>1. ASSUME NEW m \in 0 .. Cap, StartReceiving(m) PROVE Inductive' BY <1>1, StartReceivingKeeps
<1>2. ASSUME NEW m \in 0 .. Cap, WholeFile(m) PROVE Inductive' BY <1>2, WholeFileKeeps
<1>3. ASSUME NEW m \in 0 .. Cap, WholeDb(m) PROVE Inductive' BY <1>3, WholeDbKeeps
<1>4. ASSUME NEW m \in 0 .. Cap, ReceiveFile(m) PROVE Inductive' BY <1>4, ReceiveFileKeeps
<1>5. ASSUME NEW m \in 0 .. Cap, ReceiveDb(m) PROVE Inductive' BY <1>5, ReceiveDbKeeps
<1>6. CASE ConnectionLost \/ ServerStops BY <1>6, BrokenOffKeeps
<1>7. CASE UNCHANGED vars
  BY <1>7 DEF Inductive, TypeOK, ReadInv, ReceiveInv, Prefix, Received, NoBoundary, Total, NameAt,
              ContentEnd, StoredExactly, LengthAsSaved, HoldsBeginning, vars, recvVars
<1> QED BY <1>1, <1>2, <1>3, <1>4, <1>5, <1>6, <1>7 DEF Next, Receive

LEMMA InductiveHolds == Spec => []Inductive
BY InitInductive, NextInductive, PTL DEF Spec

(* An upload that is answered ok is stored as it was sent, whatever it      *)
(* holds, however it is cut into pieces and however large buffer_ is: the   *)
(* file cut by asyncrecv_file, the chunks of asyncrecvfiletodb.             *)
THEOREM UploadsStoredExactly == Spec => []StoredExactly
<1>1. Inductive => StoredExactly BY DEF Inductive
<1> QED BY <1>1, InductiveHolds, PTL

(* The length the database is told is that of its chunks.                   *)
THEOREM LengthsAsSaved == Spec => []LengthAsSaved
<1>1. Inductive => LengthAsSaved BY DEF Inductive
<1> QED BY <1>1, InductiveHolds, PTL

(* An upload to disk, however it ends, holds a beginning of what was sent;  *)
(* one the server broke off holds all it had received.                      *)
THEOREM FilesHoldBeginnings == Spec => []HoldsBeginning
<1>1. Inductive => HoldsBeginning BY DEF Inductive
<1> QED BY <1>1, InductiveHolds, PTL

(* Every variable keeps its type; while the part's header is looked for,    *)
(* the count of the received bytes is where the next piece goes.            *)
THEOREM UploadTypes == Spec => []TypeOK
<1>1. Inductive => TypeOK BY DEF Inductive
<1> QED BY <1>1, InductiveHolds, PTL
=============================================================================
