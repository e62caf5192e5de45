---------------------------- MODULE DownloadProofs ----------------------------
(***************************************************************************)
(* Proofs about downloads, for files, chunks and an int of any size and for *)
(* whatever clients ask for.                                                *)
(***************************************************************************)
EXTENDS Download, TLAPS

TypeOK ==
    /\ size \in Nat /\ ask \in AskType
    /\ phase \in {"idle", "sending", "done", "refused"}
    /\ ifirst \in Int /\ readlen \in Int /\ pos \in Int /\ declared \in Int
    /\ from \in Int /\ count \in Nat

(* The chunks of a file whose length an int holds, and what is left to send.*)
ChunksInv ==
    size <= MaxInt =>
        /\ BodyStaysInBounds
        /\ phase = "sending" =>
             /\ pos = from + count
             /\ IF Whole THEN declared = size ELSE readlen = declared - count

(* The chunks of a Range that can be satisfied.                             *)
RangeInv ==
    Satisfiable /\ phase \in {"sending", "done"} =>
        /\ from = WantedFirst /\ declared = WantedLast - WantedFirst + 1
        /\ phase = "sending" => pos = from + count /\ readlen = declared - count /\ count <= declared
        /\ phase = "done" => count = declared

Inductive == TypeOK /\ ChunksInv /\ RangeInv

-----------------------------------------------------------------------------
LEMMA Remainder ==
    ASSUME NEW m \in Nat, NEW a \in 0 .. m
    PROVE  a % (m + 1) = a
OBVIOUS

(* An int holds what is small enough.                                       *)
LEMMA ToIntFacts ==
    ASSUME NEW x \in Int
    PROVE  /\ ToInt(x) \in Int
           /\ 0 <= x /\ x <= MaxInt => ToInt(x) = x
<1>1. MaxInt \in Nat BY SizesAssumption
<1>2. PICK m \in Nat : m = 2 * MaxInt + 1 BY <1>1
<1>3. m + 1 = 2 * (MaxInt + 1) /\ m + 1 \in Nat \ {0} BY <1>1, <1>2
<1>4. (x + MaxInt + 1) % (m + 1) \in Int BY <1>1, <1>3
<1>5. ASSUME 0 <= x, x <= MaxInt PROVE (x + MaxInt + 1) % (m + 1) = x + MaxInt + 1
  <2>1. x + MaxInt + 1 \in 0 .. m BY <1>1, <1>2, <1>5
  <2> QED BY <2>1, Remainder
<1> DEFINE z == (x + MaxInt + 1) % (m + 1)
<1>6. ToInt(x) = z - MaxInt - 1 BY <1>3 DEF ToInt
<1>7. z \in Int /\ (0 <= x /\ x <= MaxInt => z = x + MaxInt + 1) BY <1>4, <1>5
<1> HIDE DEF z
<1> QED BY <1>1, <1>6, <1>7

(* A chunk is a piece of the file that lies at pos.                         *)
LEMMA NextLengthFacts ==
    ASSUME TypeOK
    PROVE  /\ NextLength \in Nat
           /\ NextLength > 0 => 0 <= pos /\ pos + NextLength <= size /\ (Whole \/ NextLength <= readlen)
           /\ NextLength = 0 => pos < 0 \/ pos >= size \/ (~Whole /\ readlen <= 0)
<1>1. Chunk \in Nat \ {0} BY SizesAssumption
<1>2. size \in Nat /\ pos \in Int /\ readlen \in Int BY DEF TypeOK
<1>3. Left = IF pos < 0 THEN 0 ELSE IF 0 > size - pos THEN 0 ELSE size - pos BY DEF Left, Larger
<1>4. Left \in Nat /\ (Left > 0 => 0 <= pos /\ Left = size - pos) /\ (Left = 0 => pos < 0 \/ pos >= size)
  BY <1>2, <1>3
<1>5. CASE Whole
  <2>1. NextLength = IF Chunk < Left THEN Chunk ELSE Left BY <1>5 DEF NextLength, Smaller
  <2> QED BY <1>1, <1>2, <1>4, <1>5, <2>1
<1>6. CASE ~Whole
  <2>1. NextLength = Larger(0, Smaller(Smaller(Chunk, readlen), Left)) BY <1>6 DEF NextLength
  <2>2. PICK c \in Int : c = Smaller(Chunk, readlen) /\ c <= readlen /\ (c = Chunk \/ c = readlen)
    BY <1>1, <1>2 DEF Smaller
  <2>3. PICK d \in Int : d = Smaller(c, Left) /\ d <= c /\ d <= Left /\ (d = c \/ d = Left)
    BY <1>4 DEF Smaller
  <2>4. NextLength = IF 0 > d THEN 0 ELSE d BY <2>1, <2>2, <2>3 DEF Larger
  <2> QED BY <1>1, <1>2, <1>4, <1>6, <2>2, <2>3, <2>4
<1> QED BY <1>5, <1>6

LEMMA InitInductive == Init => Inductive
<1> SUFFICES ASSUME Init PROVE Inductive
  OBVIOUS
<1>1. TypeOK BY SizesAssumption, AsksAssumption DEF Init, TypeOK, NoAsk, AskType, None
<1>2. count = 0 /\ phase = "idle" BY DEF Init
<1>3. declared = 0 BY DEF Init
<1>4. ChunksInv BY <1>2, <1>3 DEF ChunksInv, BodyStaysInBounds, Larger
<1>5. RangeInv BY <1>2 DEF RangeInv
<1> QED BY <1>1, <1>4, <1>5 DEF Inductive

LEMMA NextInductive == Inductive /\ [Next]_vars => Inductive'
<1> SUFFICES ASSUME Inductive, [Next]_vars PROVE Inductive'
  OBVIOUS
<1>t. /\ TypeOK
      /\ size \in Nat /\ ask \in AskType
      /\ phase \in {"idle", "sending", "done", "refused"}
      /\ ifirst \in Int /\ readlen \in Int /\ pos \in Int /\ declared \in Int
      /\ from \in Int /\ count \in Nat /\ MaxInt \in Nat
  BY SizesAssumption DEF Inductive, TypeOK
<1>u. CASE UNCHANGED vars
  BY <1>u DEF vars, Inductive, TypeOK, ChunksInv, RangeInv, BodyStaysInBounds, Satisfiable, Whole,
     WantedFirst, WantedLast
<1>1. ASSUME NEW a \in Asks, AskFile(a) \/ AskFileM(a) PROVE Inductive'
  <2>1. /\ a \in AskType /\ a.db \in BOOLEAN /\ a.range \in BOOLEAN
        /\ a.first \in Nat \cup {None} /\ a.last \in Nat \cup {None}
    BY AsksAssumption DEF AskType
  <2>2. PICK f \in Int, l \in Int : f = First(a) /\ l = Last(a)
    BY <1>t, <2>1 DEF First, Last, None
  <2>3. RangeLength(a) = l - f + 1 BY <2>2 DEF RangeLength
  <2>4. /\ ask' = a /\ phase' = "sending" /\ size' = size /\ count' = 0 /\ from' = pos'
        /\ a.range => ifirst' = f /\ readlen' = ToInt(l - f + 1) /\ declared' = readlen'
        /\ ~a.range => declared' = size /\ ifirst' = ifirst
        /\ ~a.range /\ a.db => readlen' = ToInt(size)
        /\ ~a.range /\ ~a.db => readlen' = readlen
        /\ pos' = IF a.db THEN ifirst' ELSE ToInt(ifirst')
    BY <1>1, <2>2, <2>3 DEF AskFile, AskFileM, SelectRange, Take
  <2>5. ifirst' \in Int /\ readlen' \in Int /\ declared' \in Int
    BY <1>t, <2>1, <2>4, ToIntFacts
  <2>6. pos' \in Int BY <2>4, <2>5, ToIntFacts
  <2>7. TypeOK' BY <1>t, <2>1, <2>4, <2>5, <2>6 DEF TypeOK
  <2>8. ChunksInv'
    <3>1. pos' = from' + count' BY <2>4, <2>6
    <3>2. 0 <= Larger(0, declared') BY <2>5 DEF Larger
    <3>3. BodyStaysInBounds' BY <2>4, <3>2 DEF BodyStaysInBounds
    <3>4. Whole' <=> ~a.range /\ ~a.db BY <2>4 DEF Whole
    <3>5. size <= MaxInt => ToInt(size) = size BY <1>t, ToIntFacts
    <3>6. ASSUME size <= MaxInt, ~(~a.range /\ ~a.db) PROVE readlen' = declared' - count'
      <4>1. readlen' = declared' /\ count' = 0 BY <2>4, <3>5, <3>6
      <4>2. \A d \in Int : d - 0 = d OBVIOUS
      <4> QED BY <2>5, <4>1, <4>2
    <3> QED BY <2>4, <3>1, <3>3, <3>4, <3>6 DEF ChunksInv
  <2>9. RangeInv'
    <3> SUFFICES ASSUME Satisfiable' PROVE RangeInv'
      BY DEF RangeInv
    <3>1. WantedFirst' = f /\ WantedLast' = l
      BY <2>2, <2>4 DEF WantedFirst, WantedLast, First, Last
    <3>2. /\ a.range /\ l < MaxInt
          /\ IF a.first = None THEN a.last \in 1 .. size
             ELSE a.first < size /\ (a.last = None \/ a.last \in a.first .. size - 1)
      BY <2>4, <3>1 DEF Satisfiable
    <3>3. 0 <= f /\ f <= l
      <4>1. CASE a.first = None
        <5>1. f = size - a.last /\ l = size - 1 BY <2>2, <4>1 DEF First, Last
        <5> QED BY <1>t, <3>2, <4>1, <5>1
      <4>2. CASE a.first # None
        <5>1. f = a.first /\ a.first \in Nat /\ l = IF a.last = None THEN size - 1 ELSE a.last
          BY <2>1, <2>2, <4>2 DEF First, Last
        <5> QED BY <1>t, <3>2, <4>2, <5>1
      <4> QED BY <4>1, <4>2
    <3>4. ToInt(l - f + 1) = l - f + 1 /\ ToInt(f) = f BY <1>t, <3>2, <3>3, ToIntFacts
    <3>5. from' = f /\ pos' = f /\ count' = 0 /\ declared' = l - f + 1 /\ readlen' = l - f + 1
      BY <2>4, <3>2, <3>4
    <3>6. pos' = from' + count' /\ readlen' = declared' - count' /\ count' <= declared'
      BY <3>3, <3>5
    <3> QED BY <2>4, <3>1, <3>5, <3>6 DEF RangeInv
  <2> QED BY <2>7, <2>8, <2>9 DEF Inductive
<1>2. ASSUME NEW a \in Asks, Refuse(a) PROVE Inductive'
  <2>1. /\ ask' = a /\ a \in AskType /\ phase' = "refused" /\ declared' = 0 /\ from' = 0 /\ count' = 0
        /\ UNCHANGED <<size, ifirst, readlen, pos>>
    BY <1>2, AsksAssumption DEF Refuse
  <2>2. TypeOK' BY <1>t, <2>1 DEF TypeOK
  <2>3. ChunksInv' BY <2>1 DEF ChunksInv, BodyStaysInBounds, Larger
  <2>4. RangeInv' BY <2>1 DEF RangeInv
  <2> QED BY <2>2, <2>3, <2>4 DEF Inductive
<1>3. CASE SendChunk
  <2> DEFINE k == NextLength
  <2>1. /\ phase = "sending" /\ k > 0 /\ pos' = Advanced
        /\ readlen' = (IF Whole THEN readlen ELSE readlen - k)
        /\ count' = count + k
        /\ UNCHANGED <<size, ask, phase, ifirst, declared, from>>
    BY <1>3 DEF SendChunk
  <2>2. k \in Nat /\ 0 <= pos /\ pos + k <= size /\ (Whole \/ k <= readlen)
    BY <1>t, <2>1, NextLengthFacts
  <2>3. pos' \in Int /\ (pos + k <= MaxInt => pos' = pos + k)
    <3>1. Advanced = IF ask.db THEN pos + k ELSE ToInt(pos + k) BY DEF Advanced
    <3> HIDE DEF k
    <3> QED BY <1>t, <2>1, <2>2, <3>1, ToIntFacts
  <2>4. (Whole' <=> Whole) /\ (Satisfiable' <=> Satisfiable) /\ WantedFirst' = WantedFirst /\ WantedLast' = WantedLast
    BY <2>1 DEF Whole, Satisfiable, WantedFirst, WantedLast
  <2> HIDE DEF k
  <2>5. TypeOK' BY <1>t, <2>1, <2>2, <2>3 DEF TypeOK
  <2>6. ChunksInv'
    <3> SUFFICES ASSUME size <= MaxInt PROVE ChunksInv'
      BY <2>1 DEF ChunksInv
    <3>1. /\ pos = from + count
          /\ IF Whole THEN declared = size ELSE readlen = declared - count
      BY <2>1 DEF Inductive, ChunksInv
    <3>2. pos' = pos + k BY <1>t, <2>2, <2>3
    <3>3. pos' = from' + count' BY <1>t, <2>1, <2>2, <3>1, <3>2
    <3>4. IF Whole THEN declared' = size ELSE readlen' = declared' - count'
      BY <1>t, <2>1, <2>2, <3>1
    <3>5. from' >= 0 /\ from' + count' <= size'
      <4>1. CASE count > 0
        <5>1. from >= 0 BY <4>1 DEF Inductive, ChunksInv, BodyStaysInBounds
        <5> QED BY <1>t, <2>1, <2>2, <3>1, <5>1
      <4>2. CASE ~(count > 0)
        <5>1. count = 0 BY <1>t, <4>2
        <5> QED BY <1>t, <2>1, <2>2, <3>1, <5>1
      <4> QED BY <4>1, <4>2
    <3>6. count' <= declared'
      <4>1. CASE Whole BY <1>t, <2>1, <2>2, <3>1, <3>5, <4>1
      <4>2. CASE ~Whole BY <1>t, <2>1, <2>2, <3>1, <4>2
      <4> QED BY <4>1, <4>2
    <3>7. count' <= Larger(0, declared')
      <4>1. declared' \in Int /\ count' \in Nat BY <1>t, <2>1, <2>2
      <4> QED BY <3>6, <4>1 DEF Larger
    <3> QED BY <2>4, <2>1, <3>3, <3>4, <3>5, <3>7 DEF ChunksInv, BodyStaysInBounds
  <2>7. RangeInv'
    <3> SUFFICES ASSUME Satisfiable PROVE RangeInv'
      BY <2>4 DEF RangeInv
    <3>1. PICK f, l : f = WantedFirst /\ l = WantedLast
      OBVIOUS
    <3>2. /\ from = f /\ declared = l - f + 1 /\ pos = from + count /\ readlen = declared - count
          /\ count <= declared
      BY <2>1, <3>1 DEF Inductive, RangeInv
    <3>3. l < MaxInt /\ l \in Int /\ f \in Int /\ ~Whole
      BY <1>t, <3>1 DEF Satisfiable, Whole, WantedLast, WantedFirst, AskType, None
    <3>4. k <= readlen BY <2>2, <3>3
    <3>5. pos + k <= MaxInt BY <1>t, <2>2, <3>2, <3>3, <3>4
    <3>6. pos' = pos + k BY <2>3, <3>5
    <3>7. from' = f /\ declared' = l - f + 1 /\ pos' = from' + count' /\ readlen' = declared' - count'
          /\ count' <= declared'
      BY <1>t, <2>1, <2>2, <3>2, <3>3, <3>4, <3>6
    <3> QED BY <2>1, <2>4, <3>1, <3>7 DEF RangeInv
  <2> QED BY <2>5, <2>6, <2>7 DEF Inductive
<1>4. CASE EndOfBody
  <2>1. /\ phase = "sending" /\ NextLength = 0 /\ phase' = "done"
        /\ UNCHANGED <<size, ask, ifirst, readlen, pos, declared, from, count>>
    BY <1>4 DEF EndOfBody
  <2>2. TypeOK' BY <1>t, <2>1 DEF TypeOK
  <2>3. ChunksInv' BY <2>1 DEF Inductive, ChunksInv, BodyStaysInBounds
  <2>4. RangeInv'
    <3>1. (Satisfiable' <=> Satisfiable) /\ WantedFirst' = WantedFirst /\ WantedLast' = WantedLast
      BY <2>1 DEF Satisfiable, WantedFirst, WantedLast
    <3> SUFFICES ASSUME Satisfiable PROVE RangeInv'
      BY <3>1 DEF RangeInv
    <3>2. PICK f, l : f = WantedFirst /\ l = WantedLast
      OBVIOUS
    <3>3. /\ from = f /\ declared = l - f + 1 /\ pos = from + count /\ readlen = declared - count
          /\ count <= declared
      BY <2>1, <3>2 DEF Inductive, RangeInv
    <3>4. l < size /\ l \in Int /\ f \in Int /\ 0 <= f /\ ~Whole
      BY <1>t, <3>2 DEF Satisfiable, Whole, WantedLast, WantedFirst, AskType, None
    <3>5. pos < 0 \/ pos >= size \/ readlen <= 0 BY <1>t, <2>1, NextLengthFacts
    <3>6. count = declared BY <1>t, <3>3, <3>4, <3>5
    <3> QED BY <2>1, <3>1, <3>2, <3>3, <3>6 DEF RangeInv
  <2> QED BY <2>2, <2>3, <2>4 DEF Inductive
<1> QED BY <1>1, <1>2, <1>3, <1>4, <1>u DEF Next

LEMMA InductiveHolds == Spec => []Inductive
BY InitInductive, NextInductive, PTL DEF Spec

-----------------------------------------------------------------------------
(* For any sequence of requests on a connection, any chunk size and any     *)
(* file whose length an int holds: a body is a piece of the file without    *)
(* gap or overlap and no longer than the Content-Length ...                 *)
THEOREM BodiesStayInBounds == Spec => []BodyStaysInBounds
<1>1. Inductive => BodyStaysInBounds BY DEF Inductive, ChunksInv, BodyStaysInBounds
<1> QED BY <1>1, InductiveHolds, PTL

(* ... and for any file at all: a Range that lies in the part of it whose   *)
(* offsets an int holds is answered with exactly what it selects.           *)
THEOREM BodiesAsAsked == Spec => []BodyAsAsked
<1>1. Inductive => BodyAsAsked BY DEF Inductive, RangeInv, BodyAsAsked
<1> QED BY <1>1, InductiveHolds, PTL
=============================================================================
