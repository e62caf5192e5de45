--------------------------- MODULE ConnectionProofs ---------------------------
(***************************************************************************)
(* Proofs about one connection, for any sequence of clients and buffer size.*)
(***************************************************************************)
EXTENDS Connection, SequenceTheorems, WellFoundedInduction, TLAPS

(* The first k cells hold the k units that were read last.                  *)
Run(k) == \A i \in 1 .. k : buffer[i] = got - k + i

(* Between requests do_read starts over at 0: it goes on behind something   *)
(* only when that begins with the header of a POST.                         *)
BufferInv ==
    /\ op = "read" => f_offset < Cap /\ Run(f_offset)
    /\ op = "data" => f_offset < n /\ Run(n)
    /\ f_offset > 0 => op \in {"read", "data", "error", "aborted", "none"}
    /\ f_offset > 0 /\ op \in {"read", "data"} =>
          \E r \in 1 .. Len(Requests) :
             Requests[r].post /\ Begins(r) /\ Requests[r].hdr <= f_offset

(* The buffer holds something that was not dispatched.                      *)
Loaded == op = "data" \/ (op = "read" /\ f_offset > 0)

(* What was dispatched began before what is in the buffer.                  *)
HandledInv ==
    /\ \A i \in DOMAIN handled : StartOf(handled[i]) <= got
    /\ Loaded => \A i \in DOMAIN handled : StartOf(handled[i]) < buffer[1]
    /\ InOrderOnce

Inductive == TypeOK /\ BufferInv /\ HandledInv

(* An orderly client has sent nothing of a request before the earlier ones  *)
(* are answered, so what the server reads first begins a request.           *)
OrderlyInv ==
    Orderly =>
      /\ \A r \in 1 .. Len(Requests) : StartOf(r) <= sent => \A s \in 1 .. r - 1 : Replied(s)
      /\ Loaded => \E r \in 1 .. Len(Requests) : Begins(r)
      /\ f_offset = 0 /\ op \in {"read", "write", "stream", "written", "streamed"}
            => \E r \in 0 .. Len(Requests) : got = EndOf[r]
      /\ NeverBad

-----------------------------------------------------------------------------
(***************************************************************************)
(* Where the requests of a client are in its stream.                        *)
(***************************************************************************)
LEMMA LeastOf ==
    ASSUME NEW U \in SUBSET Nat, U # {}
    PROVE  \E m \in U : \A j \in U : m <= j
<1> DEFINE R == OpToRel(<, Nat)
<1>1. IsWellFoundedOn(R, Nat) BY NatLessThanWellFounded
<1>2. \A x, y \in Nat : y < x => <<y, x>> \in R BY DEF OpToRel
<1> HIDE DEF R
<1>3. PICK m \in U : \A j \in U : ~(<<j, m>> \in R) BY <1>1, WFMin
<1>4. \A j \in U : ~(j < m) BY <1>2, <1>3
<1> QED BY <1>4

(* Sums of the first elements exist.                                        *)
IsSum(f, a, m) ==
    /\ f \in [0 .. m -> Nat] /\ f[0] = 0
    /\ \A r \in 1 .. m : f[r] = f[r - 1] + a[r]

LEMMA SumsExist ==
    ASSUME NEW k \in Nat, NEW a \in [1 .. k -> Nat]
    PROVE  \E f : IsSum(f, a, k)
<1> DEFINE Bad == {m \in 0 .. k : ~\E f : IsSum(f, a, m)}
<1>1. /\ Bad \in SUBSET Nat /\ Bad \subseteq 0 .. k
      /\ \A m \in 0 .. k : m \in Bad <=> ~\E f : IsSum(f, a, m)
  OBVIOUS
<1> HIDE DEF Bad
<1>2. ASSUME Bad # {} PROVE FALSE
  <2>1. PICK m \in Bad : \A j \in Bad : m <= j BY <1>1, <1>2, LeastOf
  <2>2. m # 0
    <3>1. IsSum([r \in 0 .. 0 |-> 0], a, 0) BY DEF IsSum
    <3> QED BY <1>1, <2>1, <3>1
  <2>3. m - 1 \in 0 .. k /\ m \in 1 .. k /\ m - 1 \notin Bad BY <1>1, <2>1, <2>2
  <2>4. PICK g : IsSum(g, a, m - 1) BY <1>1, <2>3
  <2> DEFINE f == [r \in 0 .. m |-> IF r = m THEN g[m - 1] + a[m] ELSE g[r]]
  <2>5. f \in [0 .. m -> Nat]
    <3>1. \A r \in 0 .. m : r = m \/ r \in 0 .. m - 1 BY <2>3
    <3>2. g[m - 1] + a[m] \in Nat BY <2>3, <2>4 DEF IsSum
    <3> QED BY <2>4, <3>1, <3>2 DEF IsSum
  <2>6. /\ f[m] = g[m - 1] + a[m]
        /\ \A r \in 0 .. m - 1 : f[r] = g[r]
    BY <2>3
  <2> HIDE DEF f
  <2>7. f[0] = 0 BY <2>3, <2>4, <2>6 DEF IsSum
  <2>8. ASSUME NEW r \in 1 .. m PROVE f[r] = f[r - 1] + a[r]
    <3>1. CASE r = m BY <2>3, <2>6, <3>1
    <3>2. CASE r # m
      <4>1. r \in 1 .. m - 1 /\ r \in 0 .. m - 1 /\ r - 1 \in 0 .. m - 1 BY <2>3, <3>2
      <4> QED BY <2>4, <2>6, <4>1 DEF IsSum
    <3> QED BY <3>1, <3>2
  <2>9. IsSum(f, a, m) BY <2>5, <2>7, <2>8 DEF IsSum
  <2> QED BY <1>1, <2>1, <2>9
<1>3. k \in 0 .. k OBVIOUS
<1> QED BY <1>1, <1>2, <1>3

LEMMA EndsFacts ==
    ASSUME NEW q \in Seq(RequestType)
    PROVE  /\ Ends(q) \in [0 .. Len(q) -> Nat] /\ Ends(q)[0] = 0
           /\ \A r \in 1 .. Len(q) : Ends(q)[r] = Ends(q)[r - 1] + q[r].hdr + q[r].body
<1>k. PICK k \in Nat : k = Len(q) BY LenProperties
<1>q. \A r \in 1 .. k : q[r].hdr \in Nat /\ q[r].body \in Nat
  <2>1. \A r \in 1 .. k : q[r] \in RequestType BY <1>k, ElementOfSeq
  <2> QED BY <2>1 DEF RequestType
<1> DEFINE a == [r \in 1 .. k |-> q[r].hdr + q[r].body]
<1>1. a \in [1 .. k -> Nat] /\ \A r \in 1 .. k : a[r] = q[r].hdr + q[r].body BY <1>q
<1> HIDE DEF a
<1>2. PICK f : IsSum(f, a, k) BY <1>1, SumsExist
<1> DEFINE Sums(g) == g = [r \in 0 .. k |-> IF r = 0 THEN 0 ELSE g[r - 1] + q[r].hdr + q[r].body]
<1>3. Sums(f)
  <2>1. f \in [0 .. k -> Nat] BY <1>2 DEF IsSum
  <2>2. ASSUME NEW r \in 0 .. k
        PROVE  f[r] = IF r = 0 THEN 0 ELSE f[r - 1] + q[r].hdr + q[r].body
    <3>1. CASE r = 0 BY <1>2, <3>1 DEF IsSum
    <3>2. CASE r # 0
      <4>1. r \in 1 .. k /\ r - 1 \in 0 .. k BY <3>2
      <4>2. f[r] = f[r - 1] + a[r] /\ f[r - 1] \in Nat BY <1>2, <2>1, <4>1 DEF IsSum
      <4>3. q[r].hdr \in Nat /\ q[r].body \in Nat /\ a[r] = q[r].hdr + q[r].body BY <1>1, <1>q, <4>1
      <4>4. f[r - 1] + a[r] = f[r - 1] + q[r].hdr + q[r].body BY <4>2, <4>3
      <4> QED BY <3>2, <4>2, <4>4
    <3> QED BY <3>1, <3>2
  <2>3. f = [r \in 0 .. k |-> f[r]] BY <2>1
  <2> QED BY <2>2, <2>3
<1>4. Ends(q) = CHOOSE g : Sums(g) BY <1>k DEF Ends
<1>5. Sums(Ends(q)) BY <1>3, <1>4
<1> DEFINE e == Ends(q)
<1>6. e = [r \in 0 .. k |-> IF r = 0 THEN 0 ELSE e[r - 1] + q[r].hdr + q[r].body]
  BY <1>5
<1> HIDE DEF e
<1>7. e[0] = 0 /\ \A r \in 1 .. k : e[r] = e[r - 1] + q[r].hdr + q[r].body BY <1>6
<1>8. \A r \in 0 .. k : e[r] \in Nat
  <2> DEFINE U == {r \in 0 .. k : e[r] \notin Nat}
  <2>1. U \in SUBSET Nat /\ U \subseteq 0 .. k /\ \A r \in 0 .. k : r \in U <=> e[r] \notin Nat
    OBVIOUS
  <2> HIDE DEF U
  <2>2. ASSUME U # {} PROVE FALSE
    <3>1. PICK m \in U : \A j \in U : m <= j BY <2>1, <2>2, LeastOf
    <3>2. m # 0 BY <1>7, <2>1, <3>1
    <3>3. m - 1 \in 0 .. k /\ m \in 1 .. k /\ m - 1 \notin U BY <2>1, <3>1, <3>2
    <3>4. e[m - 1] \in Nat BY <2>1, <3>3
    <3>5. e[m] \in Nat BY <1>q, <1>7, <3>3, <3>4
    <3> QED BY <2>1, <3>1, <3>5
  <2> QED BY <2>1, <2>2
<1>9. e \in [0 .. k -> Nat] BY <1>6, <1>8
<1> QED BY <1>k, <1>7, <1>9 DEF e

(* Requests follow one another without gap or overlap.                      *)
LEMMA StreamFacts ==
    ASSUME client \in DOMAIN Clients
    PROVE  /\ Len(Requests) \in Nat /\ DOMAIN Requests = 1 .. Len(Requests)
           /\ Requests \in Seq(RequestType)
           /\ \A r \in 1 .. Len(Requests) : Requests[r] \in RequestType
           /\ EndOf[0] = 0 /\ \A r \in 0 .. Len(Requests) : EndOf[r] \in Nat
           /\ \A r \in 1 .. Len(Requests) :
                /\ EndOf[r] = EndOf[r - 1] + Requests[r].hdr + Requests[r].body
                /\ StartOf(r) = EndOf[r - 1] + 1
                /\ Requests[r].hdr \in Nat \ {0} /\ Requests[r].body \in Nat
                /\ StartOf(r) \in Nat \ {0} /\ StartOf(r) <= EndOf[r]
           /\ Total \in Nat
<1>1. Clients[client] \in ClientType
  <2>1. DOMAIN Clients = 1 .. Len(Clients) BY ClientsAssumption, LenProperties
  <2> QED BY <2>1, ClientsAssumption, ElementOfSeq
<1>2. Requests \in Seq(RequestType) BY <1>1 DEF ClientType, Requests
<1>k. PICK k \in Nat : k = Len(Requests) BY <1>2, LenProperties
<1>3. DOMAIN Requests = 1 .. k BY <1>2, <1>k, LenProperties
<1>4. EndOf = Ends(Requests) BY DEF EndOf, AllEnds, Requests
<1>5. /\ EndOf \in [0 .. k -> Nat] /\ EndOf[0] = 0
      /\ \A r \in 1 .. k : EndOf[r] = EndOf[r - 1] + Requests[r].hdr + Requests[r].body
  BY <1>2, <1>4, <1>k, EndsFacts
<1>6. \A r \in 1 .. k : Requests[r] \in RequestType BY <1>2, <1>k, ElementOfSeq
<1>7. \A r \in 1 .. k : Requests[r].hdr \in Nat \ {0} /\ Requests[r].body \in Nat
  BY <1>6 DEF RequestType
<1>8. ASSUME NEW r \in 1 .. k
      PROVE  /\ StartOf(r) = EndOf[r - 1] + 1 /\ StartOf(r) \in Nat \ {0} /\ StartOf(r) <= EndOf[r]
  <2>1. r - 1 \in 0 .. k /\ r \in 0 .. k OBVIOUS
  <2>2. EndOf[r - 1] \in Nat BY <1>5, <2>1
  <2>3. StartOf(r) = EndOf[r - 1] + 1 BY DEF StartOf
  <2>4. Requests[r].hdr \in Nat \ {0} /\ Requests[r].body \in Nat BY <1>7
  <2>5. EndOf[r] = EndOf[r - 1] + Requests[r].hdr + Requests[r].body BY <1>5
  <2> QED BY <2>2, <2>3, <2>4, <2>5
<1>9. Total \in Nat BY <1>5, <1>k DEF Total
<1> QED BY <1>k, <1>2, <1>3, <1>5, <1>6, <1>7, <1>8, <1>9

LEMMA StreamOrder ==
    ASSUME client \in DOMAIN Clients
    PROVE  /\ \A r, s \in 0 .. Len(Requests) : r < s => EndOf[r] < EndOf[s]
           /\ \A r, s \in 1 .. Len(Requests) : r < s => EndOf[r] < StartOf(s) /\ StartOf(r) < StartOf(s)
           /\ \A r, s \in 1 .. Len(Requests) : StartOf(r) = StartOf(s) => r = s
           /\ \A r \in 0 .. Len(Requests) : EndOf[r] <= Total
<1>k. PICK k \in Nat : k = Len(Requests) BY StreamFacts
<1>e. /\ \A r \in 0 .. k : EndOf[r] \in Nat
      /\ \A r \in 1 .. k : /\ EndOf[r] = EndOf[r - 1] + Requests[r].hdr + Requests[r].body
                           /\ StartOf(r) = EndOf[r - 1] + 1
                           /\ Requests[r].hdr \in Nat \ {0} /\ Requests[r].body \in Nat
                           /\ StartOf(r) \in Nat /\ StartOf(r) <= EndOf[r]
  BY <1>k, StreamFacts
<1>1. ASSUME NEW r \in 0 .. k PROVE \A s \in 0 .. k : r < s => EndOf[r] < EndOf[s]
  <2> DEFINE U == {s \in 0 .. k : r < s /\ ~(EndOf[r] < EndOf[s])}
  <2>1. /\ U \in SUBSET Nat /\ U \subseteq 0 .. k
        /\ \A s \in 0 .. k : s \in U <=> r < s /\ ~(EndOf[r] < EndOf[s])
    OBVIOUS
  <2> HIDE DEF U
  <2>2. ASSUME U # {} PROVE FALSE
    <3>1. PICK s \in U : \A j \in U : s <= j BY <2>1, <2>2, LeastOf
    <3>2. s \in 1 .. k /\ s - 1 \in 0 .. k /\ s - 1 \notin U /\ r < s BY <2>1, <3>1
    <3>3. EndOf[s - 1] < EndOf[s]
      <4>1. EndOf[s - 1] \in Nat /\ Requests[s].hdr \in Nat \ {0} /\ Requests[s].body \in Nat
        BY <1>e, <3>2
      <4>2. EndOf[s] = EndOf[s - 1] + Requests[s].hdr + Requests[s].body BY <1>e, <3>2
      <4> QED BY <4>1, <4>2
    <3>4. EndOf[s - 1] \in Nat /\ EndOf[s] \in Nat /\ EndOf[r] \in Nat BY <1>e, <3>2
    <3>5. r = s - 1 \/ EndOf[r] < EndOf[s - 1] BY <2>1, <3>2
    <3>6. EndOf[r] < EndOf[s] BY <3>3, <3>4, <3>5
    <3> QED BY <2>1, <3>1, <3>6
  <2> QED BY <2>1, <2>2
<1>2. ASSUME NEW r \in 1 .. k, NEW s \in 1 .. k, r < s
      PROVE  EndOf[r] < StartOf(s) /\ StartOf(r) < StartOf(s)
  <2>1. r \in 0 .. k /\ s - 1 \in 0 .. k /\ (r = s - 1 \/ r < s - 1) BY <1>2
  <2>2. EndOf[r] <= EndOf[s - 1] /\ EndOf[r] \in Nat /\ EndOf[s - 1] \in Nat BY <1>1, <1>e, <2>1
  <2>3. StartOf(s) = EndOf[s - 1] + 1 /\ StartOf(r) \in Nat /\ StartOf(r) <= EndOf[r] BY <1>e
  <2> QED BY <2>2, <2>3
<1>3. ASSUME NEW r \in 1 .. k, NEW s \in 1 .. k, StartOf(r) = StartOf(s) PROVE r = s
  <2>1. ~(r < s) /\ ~(s < r) BY <1>2, <1>3, <1>e
  <2> QED BY <2>1
<1>4. \A r \in 0 .. k : EndOf[r] <= Total
  <2>1. Total = EndOf[k] /\ k \in 0 .. k BY <1>k DEF Total
  <2> QED BY <1>1, <1>e, <2>1
<1> QED BY <1>k, <1>1, <1>2, <1>3, <1>4

(* Every unit belongs to a request.                                         *)
LEMMA RequestAtFacts ==
    ASSUME client \in DOMAIN Clients, NEW i \in 1 .. Total
    PROVE  /\ RequestAt(i) \in 1 .. Len(Requests)
           /\ StartOf(RequestAt(i)) <= i /\ i <= EndOf[RequestAt(i)]
<1>k. PICK k \in Nat : k = Len(Requests) BY StreamFacts
<1>e. /\ EndOf[0] = 0 /\ \A r \in 0 .. k : EndOf[r] \in Nat
      /\ \A r \in 1 .. k : StartOf(r) = EndOf[r - 1] + 1
      /\ Total = EndOf[k]
  BY <1>k, StreamFacts DEF Total
<1> DEFINE U == {r \in 0 .. k : i <= EndOf[r]}
<1>1. U \in SUBSET Nat /\ U \subseteq 0 .. k /\ \A r \in 0 .. k : r \in U <=> i <= EndOf[r]
  OBVIOUS
<1> HIDE DEF U
<1>2. i \in Nat \ {0} /\ i <= EndOf[k] /\ k \in 0 .. k BY <1>e, StreamFacts
<1>3. U # {} BY <1>1, <1>2
<1>4. PICK r \in U : \A j \in U : r <= j BY <1>1, <1>3, LeastOf
<1>5. r # 0 BY <1>1, <1>2, <1>4, <1>e
<1>6. r \in 1 .. k /\ r - 1 \in 0 .. k /\ r - 1 \notin U BY <1>1, <1>4, <1>5
<1>7. ~(i <= EndOf[r - 1]) /\ EndOf[r - 1] \in Nat BY <1>1, <1>e, <1>6
<1>8. StartOf(r) <= i /\ i <= EndOf[r] BY <1>1, <1>2, <1>e, <1>6, <1>7
<1> QED BY <1>k, <1>6, <1>8 DEF RequestAt

(* The client stays the one it is.                                          *)
LEMMA SameClient ==
    ASSUME [Next]_vars
    PROVE  /\ client' = client /\ Requests' = Requests /\ EndOf' = EndOf /\ Total' = Total
           /\ \A r : StartOf(r)' = StartOf(r)
           /\ Orderly' <=> Orderly
<1>1. client' = client
  BY DEF Next, vars, clientVars, ClientSends, ClientCloses, OperationFails, ManagerStops, ServerStep,
     ReadEnds, ErrorHandler, BadRequest, NeedsMore, BodyIncomplete, Dispatch, DispatchStops, WriteEnds,
     WriteFails, ReplyWritten, ReplyWrittenClosed, StreamEnded
<1> QED BY <1>1 DEF Requests, EndOf, Total, StartOf, Orderly, WellFormed

-----------------------------------------------------------------------------
(***************************************************************************)
(* Types.                                                                   *)
(***************************************************************************)
LEMMA OffsetFacts ==
    ASSUME NEW f \in 0 .. Cap
    PROVE  Offset(f) \in 0 .. Cap /\ Offset(f) < Cap /\ (f < Cap => Offset(f) = f) /\ (f = Cap => Offset(f) = 0)
BY BufferAssumption DEF Offset

(* What a read does to the buffer.                                          *)
LEMMA FillFacts ==
    ASSUME TypeOK, NEW f \in 0 .. Cap, Fill(f)
    PROVE  /\ got' \in 0 .. sent /\ buffer' \in [1 .. Cap -> 0 .. Total] /\ n' \in 0 .. Cap
           /\ f < n' /\ got < got' /\ got' = got + (n' - f)
           /\ \A i \in 1 .. f : buffer'[i] = buffer[i]
           /\ \A i \in f + 1 .. n' : buffer'[i] = got + (i - f)
<1>c. /\ Cap \in Nat /\ sent \in Nat /\ got \in 0 .. sent /\ sent <= Total /\ Total \in Nat
      /\ buffer \in [1 .. Cap -> 0 .. Total]
  <2>1. Total \in Nat BY StreamFacts DEF TypeOK
  <2> QED BY <2>1, BufferAssumption DEF TypeOK
<1>1. PICK m \in 1 .. Room(f) :
        /\ m <= sent - got /\ got' = got + m /\ n' = f + m
        /\ buffer' = [i \in 1 .. Cap |-> IF f < i /\ i <= f + m THEN got + (i - f) ELSE buffer[i]]
  BY DEF Fill
<1>2. m \in Nat \ {0} /\ f + m <= Cap BY <1>c, <1>1 DEF Room
<1>3. got' \in 0 .. sent /\ n' \in 0 .. Cap /\ f < n' /\ got < got' /\ got' = got + (n' - f)
  BY <1>c, <1>1, <1>2
<1>4. ASSUME NEW i \in 1 .. Cap, f < i, i <= f + m PROVE got + (i - f) \in 0 .. Total
  BY <1>c, <1>1, <1>2, <1>4
<1>5. buffer' \in [1 .. Cap -> 0 .. Total] BY <1>c, <1>1, <1>4
<1>6. \A i \in 1 .. f : buffer'[i] = buffer[i]
  <2>1. \A i \in 1 .. f : i \in 1 .. Cap /\ ~(f < i) BY <1>c
  <2> QED BY <1>1, <2>1
<1>7. \A i \in f + 1 .. n' : buffer'[i] = got + (i - f)
  <2>1. \A i \in f + 1 .. n' : i \in 1 .. Cap /\ f < i /\ i <= f + m BY <1>c, <1>1, <1>2
  <2> QED BY <1>1, <2>1
<1> QED BY <1>3, <1>5, <1>6, <1>7

LEMMA InitType == Init => TypeOK
<1> SUFFICES ASSUME Init PROVE TypeOK
  OBVIOUS
<1>1. Total \in Nat /\ Len(Requests) \in Nat BY StreamFacts DEF Init
<1>2. contentlen \in Nat BY BufferAssumption DEF Init
<1>3. handled \in Seq(1 .. Len(Requests)) /\ replies \in Seq(1 .. Len(Requests))
  BY EmptySeq DEF Init
<1>4. buffer \in [1 .. Cap -> 0 .. Total]
  <2>1. 0 \in 0 .. Total BY <1>1
  <2> QED BY <2>1 DEF Init
<1>5. Cap \in Nat BY BufferAssumption
<1>6. sent \in 0 .. Total /\ got \in 0 .. sent /\ n \in 0 .. Cap /\ f_offset \in 0 .. Cap
  BY <1>1, <1>5 DEF Init
<1>7. cur \in 0 .. Len(Requests) BY <1>1 DEF Init
<1>8. client \in DOMAIN Clients /\ peer \in BOOLEAN /\ sock \in BOOLEAN /\ failed \in BOOLEAN /\ op = "read"
  BY DEF Init
<1> QED BY <1>2, <1>3, <1>4, <1>6, <1>7, <1>8 DEF TypeOK

LEMMA NextType == TypeOK /\ [Next]_vars => TypeOK'
<1> SUFFICES ASSUME TypeOK, [Next]_vars PROVE TypeOK'
  OBVIOUS
<1>s. /\ client' = client /\ Len(Requests)' = Len(Requests) /\ Total' = Total
      /\ Total \in Nat /\ Len(Requests) \in Nat /\ Cap \in Nat \ {0}
      /\ (\A r \in 1 .. Len(Requests) : Requests[r] \in RequestType)
  BY SameClient, StreamFacts, BufferAssumption DEF TypeOK
<1>t. /\ client \in DOMAIN Clients /\ sent \in 0 .. Total /\ got \in 0 .. sent /\ peer \in BOOLEAN
      /\ buffer \in [1 .. Cap -> 0 .. Total] /\ n \in 0 .. Cap
      /\ f_offset \in 0 .. Cap /\ contentlen \in Nat
      /\ sock \in BOOLEAN /\ failed \in BOOLEAN
      /\ op \in {"none", "read", "data", "error", "aborted", "write", "stream", "written", "streamed"}
      /\ cur \in 0 .. Len(Requests)
      /\ handled \in Seq(1 .. Len(Requests)) /\ replies \in Seq(1 .. Len(Requests))
  BY DEF TypeOK
<1>p. ASSUME sent' \in 0 .. Total, got' \in 0 .. sent', peer' \in BOOLEAN,
             buffer' \in [1 .. Cap -> 0 .. Total], n' \in 0 .. Cap,
             f_offset' \in 0 .. Cap, contentlen' \in Nat, sock' \in BOOLEAN, failed' \in BOOLEAN,
             op' \in {"none", "read", "data", "error", "aborted", "write", "stream", "written", "streamed"},
             cur' \in 0 .. Len(Requests),
             handled' \in Seq(1 .. Len(Requests)), replies' \in Seq(1 .. Len(Requests))
      PROVE  TypeOK'
  BY <1>p, <1>s, <1>t DEF TypeOK
<1>d. ASSUME NEW f \in 0 .. Cap, DoRead(f)
      PROVE  f_offset' \in 0 .. Cap /\ op' \in {"read", "error"}
  BY <1>d, OffsetFacts DEF DoRead
<1>1. CASE ClientSends
  <2>1. sent + 1 \in 0 .. Total /\ got \in 0 .. sent + 1 BY <1>s, <1>t, <1>1 DEF ClientSends
  <2> QED BY <1>p, <1>t, <1>1, <2>1 DEF ClientSends, inVars
<1>2. CASE ClientCloses \/ OperationFails \/ ManagerStops \/ ErrorHandler \/ WriteFails \/ UNCHANGED vars
  BY <1>p, <1>t, <1>2
  DEF ClientCloses, OperationFails, ManagerStops, ErrorHandler, WriteFails, vars, clientVars, inVars
<1>3. CASE ReadEnds
  <2>1. got' \in 0 .. sent /\ buffer' \in [1 .. Cap -> 0 .. Total] /\ n' \in 0 .. Cap
    BY <1>t, <1>3, FillFacts DEF ReadEnds
  <2> QED BY <1>p, <1>t, <1>3, <2>1 DEF ReadEnds, clientVars
<1>4. CASE BadRequest
  BY <1>p, <1>s, <1>t, <1>4 DEF BadRequest, clientVars, inVars
<1>5. CASE NeedsMore \/ StreamEnded \/ ReplyWrittenClosed
  <2>1. f_offset' \in 0 .. Cap /\ op' \in {"read", "error"}
    BY <1>t, <1>d, <1>5 DEF NeedsMore, StreamEnded, ReplyWrittenClosed
  <2> QED BY <1>p, <1>t, <1>5, <2>1 DEF NeedsMore, StreamEnded, ReplyWrittenClosed, clientVars, inVars
<1>l. ASSUME NEW r \in 1 .. Len(Requests) PROVE Length(r) \in Nat
  <2>1. Requests[r].length \in Nat \cup {NoLength} BY <1>s DEF RequestType
  <2> QED BY <1>t, <2>1 DEF Length
<1>6. ASSUME NEW r \in 1 .. Len(Requests), BodyIncomplete(r) PROVE TypeOK'
  <2>1. f_offset' \in 0 .. Cap /\ op' \in {"read", "error"}
    BY <1>t, <1>d, <1>6 DEF BodyIncomplete, ContinueAt
  <2> QED BY <1>p, <1>t, <1>l, <1>6, <2>1 DEF BodyIncomplete, clientVars, inVars
<1>7. ASSUME NEW r \in 1 .. Len(Requests), Dispatch(r) PROVE TypeOK'
  <2>1. ResumeAt(r) \in 0 .. Cap BY <1>s, <1>t DEF ResumeAt
  <2>2. Requests[r].answer \in {"write", "stream", "nothing"} BY <1>s DEF RequestType
  <2>3. f_offset' \in 0 .. Cap /\ op' \in {"read", "error", "write", "stream"}
    BY <1>d, <1>7, <2>1, <2>2 DEF Dispatch
  <2>4. handled' \in Seq(1 .. Len(Requests)) BY <1>t, <1>7, AppendProperties DEF Dispatch
  <2>5. r \in 0 .. Len(Requests) BY <1>s
  <2> QED BY <1>p, <1>t, <1>l, <1>7, <2>3, <2>4, <2>5 DEF Dispatch, clientVars, inVars
<1>8. CASE WriteEnds
  <2>1. replies' \in Seq(1 .. Len(Requests))
    <3>1. CASE cur = 0 BY <1>t, <1>8, <3>1 DEF WriteEnds
    <3>2. CASE cur # 0
      <4>1. cur \in 1 .. Len(Requests) /\ replies' = Append(replies, cur) BY <1>s, <1>t, <1>8, <3>2 DEF WriteEnds
      <4> QED BY <1>t, <4>1, AppendProperties
    <3> QED BY <3>1, <3>2
  <2>2. op' \in {"written", "streamed"} BY <1>8 DEF WriteEnds
  <2> QED BY <1>p, <1>t, <1>8, <2>1, <2>2 DEF WriteEnds, clientVars, inVars
<1>9. CASE ReplyWritten
  <2>1. Offset(f_offset) \in 0 .. Cap /\ f_offset' = Offset(f_offset) BY <1>t, <1>9, OffsetFacts DEF ReplyWritten
  <2>2. PICK f \in 0 .. Cap : f = f_offset' BY <2>1
  <2>3. got' \in 0 .. sent /\ buffer' \in [1 .. Cap -> 0 .. Total] /\ n' \in 0 .. Cap
    <3>1. CASE Fill(f) BY <3>1, FillFacts
    <3>2. CASE UNCHANGED inVars BY <1>t, <3>2 DEF inVars
    <3> QED BY <1>9, <2>2, <3>1, <3>2 DEF ReplyWritten
  <2>4. op' \in {"data", "aborted"} BY <1>9 DEF ReplyWritten
  <2> QED BY <1>p, <1>t, <1>9, <2>1, <2>3, <2>4 DEF ReplyWritten, clientVars
<1>10. ASSUME NEW r \in 1 .. Len(Requests), DispatchStops(r) PROVE TypeOK'
  <2>1. ResumeAt(r) \in 0 .. Cap BY <1>s, <1>t DEF ResumeAt
  <2> QED BY <1>p, <1>t, <1>l, <1>10, <2>1 DEF DispatchStops, clientVars, inVars
<1> QED BY <1>1, <1>2, <1>3, <1>4, <1>5, <1>6, <1>7, <1>8, <1>9, <1>10 DEF Next, ServerStep

-----------------------------------------------------------------------------
(***************************************************************************)
(* The buffer.                                                              *)
(***************************************************************************)

(* In a run, the first cell says where a header is.                         *)
LEMMA HeaderFacts ==
    ASSUME TypeOK, NEW r \in 1 .. Len(Requests)
    PROVE  /\ HeaderIn(r) => Begins(r) /\ Requests[r].hdr <= n /\ 0 < n
           /\ Run(n) /\ Begins(r) /\ Requests[r].hdr <= n => HeaderIn(r)
<1>t. /\ n \in 0 .. Cap /\ Cap \in Nat /\ got \in Nat /\ Requests[r].hdr \in Nat \ {0}
      /\ StartOf(r) \in Nat
  <2>1. client \in DOMAIN Clients /\ n \in 0 .. Cap /\ sent \in 0 .. Total /\ got \in 0 .. sent
    BY DEF TypeOK
  <2>2. Requests[r].hdr \in Nat \ {0} /\ StartOf(r) \in Nat \ {0} BY <2>1, StreamFacts
  <2>3. Total \in Nat BY <2>1, StreamFacts
  <2>4. got \in Nat BY <2>1, <2>3
  <2> QED BY <2>1, <2>2, <2>4, BufferAssumption
<1>1. HeaderIn(r) => Begins(r) /\ Requests[r].hdr <= n /\ 0 < n
  BY <1>t DEF HeaderIn, InBuffer
<1>2. ASSUME Run(n), Begins(r), Requests[r].hdr <= n PROVE HeaderIn(r)
  <2>1. 1 \in 1 .. n BY <1>t, <1>2
  <2>2. buffer[1] = got - n + 1 BY <1>2, <2>1 DEF Run
  <2>3. ASSUME NEW j \in 1 .. Requests[r].hdr PROVE buffer[j] = StartOf(r) + j - 1
    <3>1. j \in 1 .. n BY <1>t, <1>2
    <3>2. buffer[j] = got - n + j BY <1>2, <3>1 DEF Run
    <3> QED BY <1>t, <1>2, <2>2, <3>2 DEF Begins
  <2>4. Requests[r].hdr \in 1 .. n BY <1>t, <1>2
  <2> QED BY <1>2, <2>3, <2>4 DEF HeaderIn, InBuffer
<1> QED BY <1>1, <1>2

(* After a read from where the buffer's run ends the run goes on.           *)
LEMMA FillRun ==
    ASSUME TypeOK, NEW f \in 0 .. Cap, Run(f), Fill(f)
    PROVE  /\ \A i \in 1 .. n' : buffer'[i] = got' - n' + i
           /\ f > 0 => buffer'[1] = buffer[1]
           /\ f = 0 => buffer'[1] = got + 1
<1>1. /\ got' \in Nat /\ n' \in Nat /\ f < n' /\ got' = got + (n' - f) /\ got \in Nat /\ f \in Nat
      /\ \A i \in 1 .. f : buffer'[i] = buffer[i]
      /\ \A i \in f + 1 .. n' : buffer'[i] = got + (i - f)
  <2>1. Cap \in Nat /\ sent \in Nat /\ got \in 0 .. sent
    BY StreamFacts, BufferAssumption DEF TypeOK
  <2> QED BY <2>1, FillFacts
<1>n. PICK k \in Nat, g \in Nat : k = n' /\ g = got' BY <1>1
<1>2. ASSUME NEW i \in 1 .. n' PROVE buffer'[i] = got' - n' + i
  <2>0. i \in Nat /\ g = got + (k - f) BY <1>1, <1>n
  <2>1. CASE i <= f
    <3>1. i \in 1 .. f BY <1>1, <2>1
    <3>2. buffer'[i] = got - f + i BY <1>1, <3>1 DEF Run
    <3>3. got - f + i = g - k + i BY <1>1, <2>0
    <3> QED BY <1>n, <3>2, <3>3
  <2>2. CASE ~(i <= f)
    <3>1. i \in f + 1 .. n' BY <1>1, <2>2
    <3>2. buffer'[i] = got + (i - f) BY <1>1, <3>1
    <3>3. got + (i - f) = g - k + i BY <1>1, <2>0
    <3> QED BY <1>n, <3>2, <3>3
  <2> QED BY <2>1, <2>2
<1>3. f > 0 => 1 \in 1 .. f BY <1>1
<1>4. f = 0 => 1 \in f + 1 .. n' BY <1>1
<1> QED BY <1>1, <1>2, <1>3, <1>4

(* The parser finds no header at the start of the buffer only when the read *)
(* went to its start.                                                       *)
LEMMA ParsedAfresh ==
    ASSUME TypeOK, BufferInv, op = "data", \A r \in 1 .. Len(Requests) : HeaderIn(r) => ~Requests[r].post
    PROVE  f_offset = 0
<1>1. f_offset \in Nat /\ n \in Nat BY BufferAssumption DEF TypeOK
<1>2. ASSUME f_offset > 0 PROVE FALSE
  <2>1. PICK r \in 1 .. Len(Requests) :
          Requests[r].post /\ Begins(r) /\ Requests[r].hdr <= f_offset
    BY <1>2 DEF BufferInv
  <2>2. Requests[r].hdr <= n
    <3>1. Requests[r].hdr \in Nat BY StreamFacts DEF TypeOK
    <3> QED BY <1>1, <2>1, <3>1 DEF BufferInv
  <2> QED BY <2>1, <2>2, HeaderFacts DEF BufferInv
<1> QED BY <1>1, <1>2

(* When a request is dispatched the next read goes to the buffer's start.   *)
LEMMA ResumesAtStart ==
    ASSUME TypeOK, BufferInv, op = "data", NEW r \in 1 .. Len(Requests), HeaderIn(r)
    PROVE  ResumeAt(r) = 0 /\ Offset(ResumeAt(r)) = 0
<1>1. ASSUME ~Requests[r].post PROVE f_offset = 0
  <2>1. ASSUME NEW s \in 1 .. Len(Requests), HeaderIn(s) PROVE s = r
    <3>1. StartOf(s) = StartOf(r) BY <2>1, HeaderFacts DEF Begins
    <3> QED BY <3>1, StreamOrder DEF TypeOK
  <2> QED BY <1>1, <2>1, ParsedAfresh
<1>2. ResumeAt(r) = 0 BY <1>1 DEF ResumeAt
<1> QED BY <1>2, BufferAssumption DEF Offset

LEMMA NextBuffer == TypeOK /\ BufferInv /\ [Next]_vars => BufferInv'
<1> SUFFICES ASSUME TypeOK, BufferInv, [Next]_vars PROVE BufferInv'
  OBVIOUS
<1>s. /\ Requests' = Requests /\ \A r : StartOf(r)' = StartOf(r)
  BY SameClient
<1>t. /\ Cap \in Nat \ {0} /\ n \in 0 .. Cap /\ f_offset \in 0 .. Cap
  BY BufferAssumption DEF TypeOK
<1>p. BufferInv' <=>
        /\ op' = "read" => f_offset' < Cap /\ \A i \in 1 .. f_offset' : buffer'[i] = got' - f_offset' + i
        /\ op' = "data" => f_offset' < n' /\ \A i \in 1 .. n' : buffer'[i] = got' - n' + i
        /\ f_offset' > 0 => op' \in {"read", "data", "error", "aborted", "none"}
        /\ f_offset' > 0 /\ op' \in {"read", "data"} =>
              \E r \in 1 .. Len(Requests) :
                 Requests[r].post /\ buffer'[1] = StartOf(r) /\ Requests[r].hdr <= f_offset'
  BY <1>s DEF BufferInv, Run, Begins
<1>e. ASSUME UNCHANGED <<inVars, op, f_offset>> PROVE BufferInv'
  BY <1>e, <1>p DEF inVars, BufferInv, Run, Begins
<1>g. ASSUME op' \notin {"read", "data"}, f_offset' > 0 => op' \in {"error", "aborted", "none"}
      PROVE  BufferInv'
  BY <1>g, <1>p
<1>h. ASSUME f_offset' = 0, op' # "data" PROVE BufferInv'
  BY <1>h, <1>p, <1>t
<1>d. ASSUME DoRead(0) PROVE BufferInv'
  BY <1>d, <1>h, <1>t DEF DoRead, Offset
<1>f. ASSUME NEW f \in 0 .. Cap, f_offset' = f, Fill(f), Run(f), op' = "data",
             f > 0 => \E r \in 1 .. Len(Requests) :
                        Requests[r].post /\ Begins(r) /\ Requests[r].hdr <= f
      PROVE  BufferInv'
  <2>1. f < n' BY <1>f, FillFacts
  <2> QED BY <1>f, <1>p, <2>1, FillRun DEF Begins
<1>1. CASE ClientSends \/ ClientCloses \/ UNCHANGED vars
  BY <1>e, <1>1 DEF ClientSends, ClientCloses, vars
<1>2. CASE OperationFails \/ ErrorHandler
  BY <1>g, <1>2 DEF OperationFails, ErrorHandler
<1>3. CASE ManagerStops
  <2>1. CASE op \in {"read", "write", "stream"} BY <1>g, <1>3, <2>1 DEF ManagerStops
  <2>2. CASE op \notin {"read", "write", "stream"} BY <1>e, <1>3, <2>2 DEF ManagerStops
  <2> QED BY <2>1, <2>2
<1>4. CASE ReadEnds
  BY <1>f, <1>t, <1>4 DEF ReadEnds, BufferInv
<1>5. CASE BadRequest
  <2>1. f_offset = 0 BY <1>5, ParsedAfresh DEF BadRequest, ParseResults
  <2> QED BY <1>h, <1>5, <2>1 DEF BadRequest
<1>6. CASE NeedsMore
  <2>1. f_offset = 0 BY <1>6, ParsedAfresh DEF NeedsMore, ParseResults
  <2> QED BY <1>d, <1>6, <2>1 DEF NeedsMore
<1>7. ASSUME NEW r \in 1 .. Len(Requests), BodyIncomplete(r) PROVE BufferInv'
  <2>1. /\ f_offset' = Offset(n) /\ op' \in {"read", "error"} /\ UNCHANGED <<buffer, got, n>>
        /\ Requests[r].post
    BY <1>7 DEF BodyIncomplete, ContinueAt, DoRead, inVars
  <2>2. CASE n = Cap BY <1>h, <1>t, <2>1, <2>2, OffsetFacts
  <2>3. CASE n < Cap
    <3>1. f_offset' = n BY <1>t, <2>1, <2>3, OffsetFacts
    <3>2. Begins(r) /\ Requests[r].hdr <= n BY <1>7, HeaderFacts DEF BodyIncomplete
    <3>3. Run(n) BY <1>7 DEF BodyIncomplete, BufferInv
    <3>4. \A i \in 1 .. n : buffer'[i] = got' - n + i BY <2>1, <3>3 DEF Run
    <3>5. buffer'[1] = StartOf(r) BY <2>1, <3>2 DEF Begins
    <3> QED BY <1>p, <2>1, <2>3, <3>1, <3>2, <3>4, <3>5
  <2> QED BY <1>t, <2>2, <2>3
<1>8. ASSUME NEW r \in 1 .. Len(Requests), Dispatch(r) PROVE BufferInv'
  <2>1. ResumeAt(r) = 0 BY <1>8, ResumesAtStart DEF Dispatch
  <2>2. CASE Requests[r].answer = "nothing"
    BY <1>d, <1>8, <2>1, <2>2 DEF Dispatch
  <2>3. CASE Requests[r].answer # "nothing"
    <3>1. Requests[r].answer \in {"write", "stream", "nothing"} BY StreamFacts DEF TypeOK, RequestType
    <3> QED BY <1>h, <1>8, <2>1, <2>3, <3>1 DEF Dispatch
  <2> QED BY <2>2, <2>3
<1>9. CASE WriteEnds \/ WriteFails
  BY <1>g, <1>t, <1>9 DEF WriteEnds, WriteFails, BufferInv
<1>10. CASE ReplyWritten
  <2>1. f_offset = 0 BY <1>t, <1>10 DEF ReplyWritten, BufferInv
  <2>2. f_offset' = 0 BY <1>10, <1>t, <2>1, OffsetFacts DEF ReplyWritten
  <2>3. CASE op' = "aborted" BY <1>h, <2>2, <2>3
  <2>4. CASE op' # "aborted"
    <3>1. Fill(0) /\ op' = "data" BY <1>10, <2>2, <2>4 DEF ReplyWritten
    <3>2. Run(0) BY DEF Run
    <3>3. 0 \in 0 .. Cap BY <1>t
    <3> QED BY <1>f, <2>2, <3>1, <3>2, <3>3
  <2> QED BY <2>3, <2>4
<1>11. CASE ReplyWrittenClosed \/ StreamEnded
  <2>1. f_offset = 0 BY <1>t, <1>11 DEF ReplyWrittenClosed, StreamEnded, BufferInv
  <2> QED BY <1>d, <1>11, <2>1 DEF ReplyWrittenClosed, StreamEnded
<1>12. ASSUME NEW r \in 1 .. Len(Requests), DispatchStops(r) PROVE BufferInv'
  BY <1>g, <1>12 DEF DispatchStops
<1> QED BY <1>1, <1>2, <1>3, <1>4, <1>5, <1>6, <1>7, <1>8, <1>9, <1>10, <1>11, <1>12 DEF Next, ServerStep

-----------------------------------------------------------------------------
(***************************************************************************)
(* Dispatching in order.                                                    *)
(***************************************************************************)
LEMMA AppendRising ==
    ASSUME NEW q \in Seq(Nat), NEW r \in Nat, Rising(q), \A i \in DOMAIN q : q[i] < r
    PROVE  /\ Rising(Append(q, r)) /\ Append(q, r) # <<>>
           /\ Append(q, r)[Len(Append(q, r))] = r
           /\ \A i \in DOMAIN Append(q, r) :
                (i \in DOMAIN q /\ Append(q, r)[i] = q[i]) \/ Append(q, r)[i] = r
           /\ \A i \in DOMAIN q : i \in DOMAIN Append(q, r) /\ Append(q, r)[i] = q[i]
           /\ Len(Append(q, r)) \in DOMAIN Append(q, r)
<1>p. PICK k \in Nat : k = Len(q) BY LenProperties
<1>1. /\ Len(Append(q, r)) = k + 1 /\ Append(q, r) # <<>>
      /\ DOMAIN q = 1 .. k /\ DOMAIN Append(q, r) = 1 .. k + 1
      /\ \A i \in 1 .. k : Append(q, r)[i] = q[i]
      /\ Append(q, r)[k + 1] = r
  BY <1>p, LenProperties, AppendProperties
<1>2. Rising(Append(q, r)) BY <1>1 DEF Rising
<1> QED BY <1>1, <1>2

LEMMA SequencesFacts ==
    ASSUME TypeOK
    PROVE  /\ handled \in Seq(Nat) /\ replies \in Seq(Nat)
           /\ \A i \in DOMAIN handled : handled[i] \in 1 .. Len(Requests)
           /\ \A i \in DOMAIN replies : replies[i] \in 1 .. Len(Requests)
           /\ DOMAIN handled = 1 .. Len(handled) /\ Len(handled) \in Nat
<1>1. Len(Requests) \in Nat BY StreamFacts DEF TypeOK
<1>2. 1 .. Len(Requests) \subseteq Nat BY <1>1
<1> QED BY <1>2, SeqMonotonic, ElementOfSeq, LenProperties DEF TypeOK

LEMMA NextHandled == Inductive /\ [Next]_vars => HandledInv'
<1> SUFFICES ASSUME TypeOK, BufferInv, HandledInv, [Next]_vars PROVE HandledInv'
  BY DEF Inductive
<1>s. \A r : StartOf(r)' = StartOf(r) BY SameClient
<1>t. /\ Cap \in Nat \ {0} /\ n \in 0 .. Cap /\ f_offset \in 0 .. Cap /\ got \in Nat
      /\ \A i \in DOMAIN handled : StartOf(handled[i]) \in Nat
  <2>1. \A i \in DOMAIN handled : StartOf(handled[i]) \in Nat
    BY SequencesFacts, StreamFacts DEF TypeOK
  <2>2. got \in Nat BY StreamFacts DEF TypeOK
  <2> QED BY <2>1, <2>2, BufferAssumption DEF TypeOK
<1>q. /\ Rising(handled) /\ Rising(replies)
      /\ \A i \in DOMAIN replies : \E j \in DOMAIN handled : handled[j] = replies[i]
      /\ op \in {"write", "stream"} /\ cur # 0 =>
            handled # <<>> /\ cur = handled[Len(handled)] /\ ~Replied(cur)
  BY DEF HandledInv, InOrderOnce
<1>p. HandledInv' <=>
        /\ \A i \in DOMAIN handled' : StartOf(handled'[i]) <= got'
        /\ Loaded' => \A i \in DOMAIN handled' : StartOf(handled'[i]) < buffer'[1]
        /\ Rising(handled') /\ Rising(replies')
        /\ \A i \in DOMAIN replies' : \E j \in DOMAIN handled' : handled'[j] = replies'[i]
        /\ op' \in {"write", "stream"} /\ cur' # 0 =>
              handled' # <<>> /\ cur' = handled'[Len(handled')] /\ ~(\E i \in DOMAIN replies' : replies'[i] = cur')
  BY <1>s DEF HandledInv, InOrderOnce, Rising, Replied, StartOf
<1>g. ASSUME UNCHANGED <<handled, replies>>, got' \in Nat, got <= got',
             Loaded' => \A i \in DOMAIN handled : StartOf(handled[i]) < buffer'[1],
             op' \in {"write", "stream"} => cur' = 0 \/ (op' = op /\ cur' = cur)
      PROVE  HandledInv'
  <2>1. \A i \in DOMAIN handled : StartOf(handled[i]) <= got' BY <1>g, <1>t DEF HandledInv
  <2> QED BY <1>g, <1>p, <1>q, <2>1 DEF Replied
<1>e. ASSUME UNCHANGED <<handled, replies, buffer, got>>, Loaded' => Loaded,
             op' \in {"write", "stream"} => cur' = 0 \/ (op' = op /\ cur' = cur)
      PROVE  HandledInv'
  BY <1>e, <1>g, <1>t DEF HandledInv
<1>f. ASSUME NEW f \in 0 .. Cap, Fill(f), Run(f), f > 0 => Loaded, op' = "data", UNCHANGED <<handled, replies>>
      PROVE  HandledInv'
  <2>1. got' \in Nat /\ got <= got'
    <3>1. got' \in 0 .. sent /\ got < got' BY <1>f, FillFacts
    <3>2. sent \in Nat BY StreamFacts DEF TypeOK
    <3> QED BY <1>t, <3>1, <3>2
  <2>2. ASSUME NEW i \in DOMAIN handled PROVE StartOf(handled[i]) < buffer'[1]
    <3>1. CASE f > 0 BY <1>f, <3>1, FillRun DEF HandledInv
    <3>2. CASE ~(f > 0)
      <4>1. buffer'[1] = got + 1 BY <1>f, <1>t, <3>2, FillRun
      <4> QED BY <1>t, <4>1 DEF HandledInv
    <3> QED BY <3>1, <3>2
  <2> QED BY <1>f, <1>g, <2>1, <2>2
<1>1. CASE ClientSends \/ ClientCloses \/ UNCHANGED vars
  BY <1>e, <1>1 DEF ClientSends, ClientCloses, vars, inVars, Loaded
<1>2. CASE OperationFails \/ ErrorHandler \/ WriteFails
  BY <1>e, <1>2 DEF OperationFails, ErrorHandler, WriteFails, inVars, Loaded
<1>3. CASE ManagerStops
  <2>1. CASE op \in {"read", "write", "stream"} BY <1>e, <1>3, <2>1 DEF ManagerStops, inVars, Loaded
  <2>2. CASE op \notin {"read", "write", "stream"} BY <1>e, <1>3, <2>2 DEF ManagerStops, inVars, Loaded
  <2> QED BY <2>1, <2>2
<1>4. CASE ReadEnds
  BY <1>f, <1>t, <1>4 DEF ReadEnds, BufferInv, Loaded
<1>5. CASE BadRequest
  BY <1>e, <1>5 DEF BadRequest, inVars, Loaded
<1>6. CASE NeedsMore
  BY <1>e, <1>6 DEF NeedsMore, DoRead, inVars, Loaded
<1>7. ASSUME NEW r \in 1 .. Len(Requests), BodyIncomplete(r) PROVE HandledInv'
  BY <1>e, <1>7 DEF BodyIncomplete, DoRead, inVars, Loaded
<1>8. ASSUME NEW r \in 1 .. Len(Requests), Dispatch(r) PROVE HandledInv'
  <2>1. /\ op = "data" /\ HeaderIn(r) /\ cur' = r /\ handled' = Append(handled, r)
        /\ replies' = replies /\ got' = got
    BY <1>8 DEF Dispatch, inVars
  <2>2. ~Loaded'
    <3>1. ResumeAt(r) = 0 /\ Offset(ResumeAt(r)) = 0 BY <2>1, ResumesAtStart
    <3>2. f_offset' = 0 BY <1>8, <3>1 DEF Dispatch, DoRead
    <3>3. Requests[r].answer \in {"write", "stream", "nothing"} BY StreamFacts DEF TypeOK, RequestType
    <3>4. op' # "data" BY <1>8, <3>3 DEF Dispatch, DoRead
    <3> QED BY <3>2, <3>4 DEF Loaded
  <2>3. StartOf(r) = buffer[1] /\ buffer[1] <= got
    <3>1. Begins(r) /\ 0 < n BY <2>1, HeaderFacts
    <3>2. buffer[1] = got - n + 1 BY <1>t, <2>1, <3>1 DEF BufferInv, Run
    <3> QED BY <1>t, <3>1, <3>2 DEF Begins
  <2>4. r \in Nat /\ Len(Requests) \in Nat BY StreamFacts DEF TypeOK
  <2>5. ASSUME NEW i \in DOMAIN handled PROVE handled[i] < r
    <3>1. handled[i] \in 1 .. Len(Requests) BY SequencesFacts
    <3>2. StartOf(handled[i]) < StartOf(r) BY <2>1, <2>3 DEF HandledInv, Loaded
    <3>3. StartOf(r) \in Nat /\ StartOf(handled[i]) \in Nat BY <1>t, StreamFacts DEF TypeOK
    <3>4. ~(r < handled[i]) /\ r # handled[i]
      BY <3>1, <3>2, <3>3, StreamOrder DEF TypeOK
    <3> QED BY <2>4, <3>1, <3>4
  <2>6. /\ Rising(handled') /\ handled' # <<>> /\ handled'[Len(handled')] = r
        /\ \A i \in DOMAIN handled' :
             (i \in DOMAIN handled /\ handled'[i] = handled[i]) \/ handled'[i] = r
        /\ \A i \in DOMAIN handled : i \in DOMAIN handled' /\ handled'[i] = handled[i]
    <3>1. handled \in Seq(Nat) /\ Rising(handled) BY <1>q, SequencesFacts
    <3>2. \A i \in DOMAIN handled : handled[i] < r BY <2>5
    <3>3. r \in Nat BY <2>4
    <3>4. /\ Rising(Append(handled, r)) /\ Append(handled, r) # <<>>
          /\ Append(handled, r)[Len(Append(handled, r))] = r
          /\ \A i \in DOMAIN Append(handled, r) :
                (i \in DOMAIN handled /\ Append(handled, r)[i] = handled[i]) \/ Append(handled, r)[i] = r
          /\ \A i \in DOMAIN handled : i \in DOMAIN Append(handled, r) /\ Append(handled, r)[i] = handled[i]
      BY ONLY <3>1, <3>2, <3>3, AppendRising
    <3> QED BY <2>1, <3>4
  <2>7. \A i \in DOMAIN handled' : StartOf(handled'[i]) <= got' BY <2>1, <2>3, <2>6 DEF HandledInv
  <2>8. \A i \in DOMAIN replies' : \E j \in DOMAIN handled' : handled'[j] = replies'[i]
    BY <1>q, <2>1, <2>6
  <2>9. \A i \in DOMAIN replies : replies[i] # r
    <3>1. \A j \in DOMAIN handled : handled[j] # r
      <4>1. \A j \in DOMAIN handled : handled[j] \in Nat BY SequencesFacts, <2>4
      <4> QED BY <2>4, <2>5, <4>1
    <3> QED BY <1>q, <3>1
  <2> QED BY <1>p, <1>q, <2>1, <2>2, <2>6, <2>7, <2>8, <2>9
<1>9. CASE WriteEnds
  <2>1. CASE cur = 0 BY <1>e, <1>9, <2>1 DEF WriteEnds, inVars, Loaded
  <2>2. CASE cur # 0
    <3>1. /\ replies' = Append(replies, cur) /\ handled' = handled /\ got' = got
          /\ op' \in {"written", "streamed"}
          /\ handled # <<>> /\ cur = handled[Len(handled)] /\ ~Replied(cur)
      BY <1>9, <1>q, <2>2 DEF WriteEnds, inVars
    <3>2. Len(handled) \in DOMAIN handled
      <4>1. Len(handled) \in Nat \ {0} BY <3>1, EmptySeq, SequencesFacts
      <4> QED BY <4>1, SequencesFacts
    <3>3. cur \in Nat BY StreamFacts DEF TypeOK
    <3>4. ASSUME NEW i \in DOMAIN replies PROVE replies[i] < cur
      <4>1. PICK j \in DOMAIN handled : handled[j] = replies[i] BY <1>q
      <4>2. replies[i] # cur BY <3>1 DEF Replied
      <4>3. j < Len(handled)
        <5>1. j # Len(handled) BY <3>1, <4>1, <4>2
        <5> QED BY <5>1, SequencesFacts
      <4> QED BY <1>q, <3>1, <3>2, <4>1, <4>3 DEF Rising
    <3>5. /\ Rising(replies')
          /\ \A i \in DOMAIN replies' :
               (i \in DOMAIN replies /\ replies'[i] = replies[i]) \/ replies'[i] = cur
      BY <1>q, <3>1, <3>3, <3>4, AppendRising, SequencesFacts
    <3>6. \A i \in DOMAIN replies' : \E j \in DOMAIN handled : handled[j] = replies'[i]
      BY <1>q, <3>1, <3>2, <3>5
    <3>7. ~Loaded' BY <3>1 DEF Loaded
    <3> QED BY <1>p, <1>q, <3>1, <3>5, <3>6, <3>7 DEF HandledInv
  <2> QED BY <2>1, <2>2
<1>10. CASE ReplyWritten
  <2>1. f_offset = 0 BY <1>t, <1>10 DEF ReplyWritten, BufferInv
  <2>2. f_offset' = 0 BY <1>10, <1>t, <2>1, OffsetFacts DEF ReplyWritten
  <2>3. CASE op' = "aborted"
    <3>1. UNCHANGED inVars BY <1>10, <2>3 DEF ReplyWritten
    <3> QED BY <1>e, <1>10, <2>3, <3>1 DEF ReplyWritten, inVars, Loaded
  <2>4. CASE op' # "aborted"
    <3>1. Fill(0) /\ op' = "data" /\ UNCHANGED <<handled, replies>> BY <1>10, <2>2, <2>4 DEF ReplyWritten
    <3>2. Run(0) BY DEF Run
    <3>3. 0 \in 0 .. Cap BY <1>t
    <3> QED BY <1>f, <3>1, <3>2, <3>3
  <2> QED BY <2>3, <2>4
<1>11. CASE ReplyWrittenClosed \/ StreamEnded
  <2>1. f_offset = 0 BY <1>t, <1>11 DEF ReplyWrittenClosed, StreamEnded, BufferInv
  <2>2. f_offset' = 0 BY <1>11, <1>t, <2>1, OffsetFacts DEF ReplyWrittenClosed, StreamEnded, DoRead
  <2> QED BY <1>e, <1>11, <2>2 DEF ReplyWrittenClosed, StreamEnded, DoRead, inVars, Loaded
<1>12. ASSUME NEW r \in 1 .. Len(Requests), DispatchStops(r) PROVE HandledInv'
  <2>1. f_offset' = 0 /\ op' = "none"
    BY <1>12, ResumesAtStart DEF DispatchStops
  <2> QED BY <1>e, <1>12, <2>1 DEF DispatchStops, inVars, Loaded
<1> QED BY <1>1, <1>2, <1>3, <1>4, <1>5, <1>6, <1>7, <1>8, <1>9, <1>10, <1>11, <1>12 DEF Next, ServerStep

LEMMA InitInductive == Init => Inductive
<1> SUFFICES ASSUME Init PROVE Inductive
  OBVIOUS
<1>1. Cap \in Nat \ {0} BY BufferAssumption
<1>2. BufferInv BY <1>1 DEF Init, BufferInv, Run
<1>3. handled = <<>> /\ replies = <<>> /\ op = "read" /\ f_offset = 0 BY DEF Init
<1>4. DOMAIN handled = {} /\ DOMAIN replies = {} BY <1>3
<1>5. HandledInv BY <1>3, <1>4 DEF HandledInv, InOrderOnce, Loaded, Rising
<1> QED BY <1>2, <1>5, InitType DEF Inductive

LEMMA InductiveHolds == Spec => []Inductive
<1>1. Inductive /\ [Next]_vars => Inductive'
  BY NextType, NextBuffer, NextHandled DEF Inductive
<1> QED BY <1>1, InitInductive, PTL DEF Spec

-----------------------------------------------------------------------------
(* For any clients and any buffer: do_read always asks for at least a byte. *)
THEOREM ReadsHaveRoom == Spec => []ReadHasRoom
<1>1. Inductive => ReadHasRoom BY DEF Inductive, BufferInv, ReadHasRoom
<1> QED BY <1>1, InductiveHolds, PTL

(* ... requests are dispatched in the client's order and none twice, and    *)
(* each reply answers the one dispatched last ...                           *)
THEOREM RequestsInOrder == Spec => []InOrderOnce
<1>1. Inductive => InOrderOnce BY DEF Inductive, HandledInv
<1> QED BY <1>1, InductiveHolds, PTL

(* ... and a POST with the right Content-Length only when the buffer holds  *)
(* all of it.                                                               *)
THEOREM PostsDispatchedWhole == Spec => DispatchedWhole
<1> DEFINE Whole ==
      handled' # handled =>
         LET r == handled'[Len(handled')] IN
         Requests[r].post /\ WellFormed(r) =>
            \A i \in 1 .. Requests[r].hdr + Requests[r].body : buffer[i] = StartOf(r) + i - 1
<1>1. ASSUME Inductive, [Next]_vars PROVE Whole
  <2>1. ASSUME NEW r \in 1 .. Len(Requests), Dispatch(r), Requests[r].post, WellFormed(r),
               NEW i \in 1 .. Requests[r].hdr + Requests[r].body
        PROVE  buffer[i] = StartOf(r) + i - 1
    <3>t. /\ n \in Nat /\ got \in Nat /\ Requests[r].hdr \in Nat /\ Requests[r].body \in Nat
      BY <1>1, StreamFacts, BufferAssumption DEF Inductive, TypeOK
    <3>1. n = Requests[r].hdr + Requests[r].body
      <4>1. n = Requests[r].hdr + Length(r) /\ Requests[r].length = Requests[r].body
        BY <2>1 DEF Dispatch, Finished, WellFormed
      <4>2. Requests[r].length # NoLength BY <3>t, <4>1 DEF NoLength
      <4> QED BY <4>1, <4>2 DEF Length
    <3>2. Run(n) BY <1>1, <2>1 DEF Dispatch, Inductive, BufferInv
    <3>3. buffer[1] = StartOf(r) BY <1>1, <2>1, HeaderFacts DEF Dispatch, Inductive, Begins
    <3>4. i \in 1 .. n /\ 1 \in 1 .. n BY <3>t, <3>1
    <3>5. buffer[i] = got - n + i /\ buffer[1] = got - n + 1 BY <3>2, <3>4 DEF Run
    <3> QED BY <3>t, <3>3, <3>4, <3>5
  <2>2. ASSUME NEW r \in 1 .. Len(Requests), Dispatch(r) PROVE handled'[Len(handled')] = r
    <3>1. handled \in Seq(1 .. Len(Requests)) /\ handled' = Append(handled, r)
      BY <1>1, <2>2 DEF Inductive, TypeOK, Dispatch
    <3> QED BY <3>1, AppendProperties
  <2>3. ASSUME \A r \in 1 .. Len(Requests) : ~Dispatch(r) PROVE handled' = handled
    BY <1>1, <2>3 DEF Next, vars, ClientSends, ClientCloses, OperationFails, ManagerStops, ServerStep,
       ReadEnds, ErrorHandler, BadRequest, NeedsMore, BodyIncomplete, DispatchStops, WriteEnds, WriteFails,
       ReplyWritten, ReplyWrittenClosed, StreamEnded
  <2> QED BY <2>1, <2>2, <2>3
<1> QED BY <1>1, InductiveHolds, PTL DEF Spec, DispatchedWhole

-----------------------------------------------------------------------------
(***************************************************************************)
(* An orderly client.                                                       *)
(***************************************************************************)
LEMMA OrderlyFacts ==
    ASSUME Orderly, client \in DOMAIN Clients, NEW r \in 1 .. Len(Requests)
    PROVE  /\ Requests[r].hdr = 1 /\ 1 + Requests[r].body <= Cap
           /\ Requests[r].answer \in {"write", "stream"}
           /\ Requests[r].post => Length(r) = Requests[r].body
           /\ ~Requests[r].post => Requests[r].body = 0
           /\ EndOf[r] = StartOf(r) + Requests[r].body
           /\ Requests[r].body \in Nat /\ StartOf(r) \in Nat /\ EndOf[r] \in Nat
<1>1. r \in DOMAIN Requests /\ Requests[r] \in RequestType BY StreamFacts
<1>2. WellFormed(r) /\ Requests[r].hdr = 1 /\ Requests[r].hdr + Requests[r].body <= Cap
      /\ Requests[r].answer # "nothing"
  BY <1>1 DEF Orderly
<1>3. Requests[r].answer \in {"write", "stream", "nothing"} BY <1>1 DEF RequestType
<1>4. /\ Requests[r].body \in Nat /\ StartOf(r) \in Nat /\ EndOf[r - 1] \in Nat
      /\ StartOf(r) = EndOf[r - 1] + 1 /\ EndOf[r] = EndOf[r - 1] + Requests[r].hdr + Requests[r].body
  <2>1. r - 1 \in 0 .. Len(Requests) BY StreamFacts
  <2> QED BY <2>1, StreamFacts
<1>5. ASSUME Requests[r].post PROVE Length(r) = Requests[r].body
  <2>1. Requests[r].length = Requests[r].body BY <1>2, <1>5 DEF WellFormed
  <2>2. Requests[r].length # NoLength BY <1>4, <2>1 DEF NoLength
  <2> QED BY <2>1, <2>2 DEF Length
<1>6. EndOf[r] = StartOf(r) + Requests[r].body /\ EndOf[r] \in Nat BY <1>2, <1>4
<1> QED BY <1>2, <1>3, <1>4, <1>5, <1>6 DEF WellFormed

(* What the parser sees begins with a request, and ends with it or before:  *)
(* the client waits for its reply.                                          *)
LEMMA ParsesOne ==
    ASSUME Inductive, OrderlyInv, Orderly, op = "data"
    PROVE  \E r \in 1 .. Len(Requests) :
              /\ HeaderIn(r) /\ \A s \in 1 .. Len(Requests) : HeaderIn(s) => s = r
              /\ got = StartOf(r) + n - 1 /\ got <= EndOf[r]
<1>t. /\ TypeOK /\ client \in DOMAIN Clients /\ n \in Nat /\ 0 < n /\ Run(n)
      /\ got \in Nat /\ sent \in Nat /\ got <= sent /\ sent <= Total /\ Total \in Nat
  <2>1. TypeOK /\ BufferInv /\ client \in DOMAIN Clients BY DEF Inductive, TypeOK
  <2>2. sent \in 0 .. Total /\ got \in 0 .. sent /\ n \in 0 .. Cap /\ f_offset \in 0 .. Cap
    BY <2>1 DEF TypeOK
  <2>3. f_offset < n /\ Run(n) BY <2>1 DEF BufferInv
  <2> QED BY <2>1, <2>2, <2>3, StreamFacts, BufferAssumption
<1>1. PICK r \in 1 .. Len(Requests) : Begins(r) BY DEF OrderlyInv, Loaded
<1>2. HeaderIn(r)
  <2>1. Requests[r].hdr <= n BY <1>t, OrderlyFacts
  <2> QED BY <1>t, <1>1, <2>1, HeaderFacts
<1>3. ASSUME NEW s \in 1 .. Len(Requests), HeaderIn(s) PROVE s = r
  <2>1. StartOf(s) = StartOf(r) BY <1>t, <1>1, <1>3, HeaderFacts DEF Begins
  <2> QED BY <1>t, <2>1, StreamOrder
<1>4. got = StartOf(r) + n - 1
  <2>1. 1 \in 1 .. n BY <1>t
  <2>2. buffer[1] = got - n + 1 BY <1>t, <2>1 DEF Run
  <2> QED BY <1>t, <1>1, <2>2 DEF Begins
<1>5. ~Replied(r)
  <2> SUFFICES ASSUME Replied(r) PROVE FALSE
    OBVIOUS
  <2>1. PICK j \in DOMAIN handled : handled[j] = r BY DEF Inductive, HandledInv, InOrderOnce, Replied
  <2>2. StartOf(r) < buffer[1] BY <2>1 DEF Inductive, HandledInv, Loaded
  <2>3. StartOf(r) \in Nat BY <1>t, OrderlyFacts
  <2> QED BY <1>1, <2>2, <2>3 DEF Begins
<1>6. got <= EndOf[r]
  <2> SUFFICES ASSUME ~(got <= EndOf[r]) PROVE FALSE
    OBVIOUS
  <2>1. EndOf[r] \in Nat /\ Len(Requests) \in Nat BY <1>t, OrderlyFacts, StreamFacts
  <2>2. r # Len(Requests) BY <1>t, <2>1 DEF Total
  <2>3. r + 1 \in 1 .. Len(Requests) /\ r \in 1 .. (r + 1) - 1 /\ (r + 1) - 1 = r BY <2>1, <2>2
  <2>4. StartOf(r + 1) = EndOf[r] + 1 BY <2>3 DEF StartOf
  <2>5. StartOf(r + 1) <= sent BY <1>t, <2>1, <2>4
  <2> QED BY <1>5, <2>3, <2>5 DEF OrderlyInv
<1> QED BY <1>2, <1>3, <1>4, <1>6

LEMMA NextOrderly == Inductive /\ OrderlyInv /\ [Next]_vars => OrderlyInv'
<1> SUFFICES ASSUME Inductive, OrderlyInv, [Next]_vars, Orderly PROVE OrderlyInv'
  <2>1. [Next]_vars => (Orderly' <=> Orderly) BY SameClient
  <2> QED BY <2>1 DEF OrderlyInv
<1>s. /\ Requests' = Requests /\ EndOf' = EndOf /\ \A r : StartOf(r)' = StartOf(r)
  BY SameClient
<1>t. /\ TypeOK /\ BufferInv /\ client \in DOMAIN Clients /\ Cap \in Nat \ {0}
      /\ n \in 0 .. Cap /\ f_offset \in 0 .. Cap /\ sent \in Nat /\ got \in 0 .. sent /\ sent <= Total
      /\ Len(Requests) \in Nat /\ Total \in Nat
  <2>1. TypeOK /\ BufferInv BY DEF Inductive
  <2>2. client \in DOMAIN Clients /\ sent \in 0 .. Total /\ got \in 0 .. sent /\ n \in 0 .. Cap
        /\ f_offset \in 0 .. Cap
    BY <2>1 DEF TypeOK
  <2> QED BY <2>1, <2>2, StreamFacts, BufferAssumption
<1>o. /\ \A r \in 1 .. Len(Requests) : StartOf(r) <= sent => \A s \in 1 .. r - 1 : Replied(s)
      /\ Loaded => \E r \in 1 .. Len(Requests) : Begins(r)
      /\ f_offset = 0 /\ op \in {"read", "write", "stream", "written", "streamed"}
            => \E r \in 0 .. Len(Requests) : got = EndOf[r]
      /\ NeverBad
  BY DEF OrderlyInv
<1>p. /\ \A r \in 1 .. Len(Requests) :
            StartOf(r) <= sent' => \A s \in 1 .. r - 1 : \E i \in DOMAIN replies' : replies'[i] = s
      /\ Loaded' => \E r \in 1 .. Len(Requests) : buffer'[1] = StartOf(r)
      /\ f_offset' = 0 /\ op' \in {"read", "write", "stream", "written", "streamed"}
            => \E r \in 0 .. Len(Requests) : got' = EndOf[r]
      /\ ~(op' = "write" /\ cur' = 0)
      => OrderlyInv'
  BY <1>s DEF OrderlyInv, Replied, Begins, NeverBad
<1>g. ASSUME UNCHANGED <<sent, replies>>,
             Loaded' => \E r \in 1 .. Len(Requests) : buffer'[1] = StartOf(r),
             f_offset' = 0 /\ op' \in {"read", "write", "stream", "written", "streamed"}
                => \E r \in 0 .. Len(Requests) : got' = EndOf[r],
             ~(op' = "write" /\ cur' = 0)
      PROVE  OrderlyInv'
  BY <1>g, <1>o, <1>p DEF Replied
<1>e. ASSUME UNCHANGED <<sent, replies>>, op' \in {"error", "aborted", "none"} PROVE OrderlyInv'
  BY <1>e, <1>g DEF Loaded
<1>h. ASSUME UNCHANGED <<sent, replies, f_offset, op, cur, buffer, got>> PROVE OrderlyInv'
  BY <1>h, <1>g, <1>o DEF Loaded, Begins, NeverBad
(* A read to the start of the buffer, where requests meet.                  *)
<1>f. ASSUME NEW q \in 0 .. Len(Requests), got = EndOf[q], Fill(0), op' = "data",
             UNCHANGED <<sent, replies>>
      PROVE  OrderlyInv'
  <2>1. Run(0) /\ 0 \in 0 .. Cap BY <1>t DEF Run
  <2>2. buffer'[1] = got + 1 BY <1>f, <1>t, <2>1, FillRun
  <2>3. got' \in 0 .. sent /\ got < got' BY <1>f, <1>t, <2>1, FillFacts
  <2>4. q # Len(Requests) BY <1>f, <1>t, <2>3 DEF Total
  <2>5. q + 1 \in 1 .. Len(Requests) /\ (q + 1) - 1 = q BY <1>t, <2>4
  <2>6. StartOf(q + 1) = got + 1 BY <1>f, <2>5 DEF StartOf
  <2> QED BY <1>f, <1>g, <2>2, <2>5, <2>6
<1>1. CASE ClientSends
  <2>1. sent' = sent + 1 /\ UNCHANGED <<replies, f_offset, op, cur, buffer, got>> /\ sent < Total
    BY <1>1 DEF ClientSends, inVars
  <2>2. \A s \in 1 .. RequestAt(sent + 1) - 1 : Replied(s) BY <1>1 DEF ClientSends, Orderly
  <2>3. ASSUME NEW r \in 1 .. Len(Requests), StartOf(r) <= sent + 1, NEW s \in 1 .. r - 1
        PROVE  Replied(s)
    <3>1. CASE StartOf(r) <= sent BY <1>o, <3>1
    <3>2. CASE ~(StartOf(r) <= sent)
      <4>1. sent + 1 \in 1 .. Total BY <1>t, <2>1
      <4>2. PICK q \in 1 .. Len(Requests) :
              q = RequestAt(sent + 1) /\ StartOf(q) <= sent + 1 /\ sent + 1 <= EndOf[q]
        BY <1>t, <4>1, RequestAtFacts
      <4>3. /\ StartOf(r) \in Nat /\ StartOf(q) \in Nat /\ EndOf[q] \in Nat
            /\ q < r => EndOf[q] < StartOf(r)
            /\ r < q => StartOf(r) < StartOf(q)
        BY <1>t, OrderlyFacts, StreamOrder
      <4>4. StartOf(r) = sent + 1 BY <1>t, <2>3, <3>2, <4>3
      <4>5. q = r BY <1>t, <4>2, <4>3, <4>4
      <4> QED BY <2>2, <4>2, <4>5
    <3> QED BY <3>1, <3>2
  <2> QED BY <1>o, <1>p, <2>1, <2>3 DEF Replied, Loaded, Begins, NeverBad
<1>2. CASE ClientCloses \/ UNCHANGED vars
  BY <1>h, <1>2 DEF ClientCloses, vars, clientVars, inVars
<1>3. CASE OperationFails \/ ErrorHandler \/ WriteFails
  BY <1>e, <1>3 DEF OperationFails, ErrorHandler, WriteFails, clientVars
<1>4. CASE ManagerStops
  <2>1. CASE op \in {"read", "write", "stream"} BY <1>e, <1>4, <2>1 DEF ManagerStops, clientVars
  <2>2. CASE op \notin {"read", "write", "stream"} BY <1>h, <1>4, <2>2 DEF ManagerStops, clientVars, inVars
  <2> QED BY <2>1, <2>2
<1>5. CASE ReadEnds
  <2>1. CASE f_offset = 0
    <3>1. PICK q \in 0 .. Len(Requests) : got = EndOf[q] BY <1>o, <1>5, <2>1 DEF ReadEnds
    <3> QED BY <1>f, <1>5, <2>1, <3>1 DEF ReadEnds, clientVars
  <2>2. CASE f_offset # 0
    <3>1. op = "read" /\ Fill(f_offset) /\ op' = "data" /\ UNCHANGED <<sent, replies, f_offset>>
      BY <1>5 DEF ReadEnds, clientVars
    <3>2. f_offset > 0 BY <1>t, <2>2
    <3>3. PICK r \in 1 .. Len(Requests) : Begins(r) BY <1>o, <3>1, <3>2 DEF Loaded
    <3>4. Run(f_offset) BY <1>t, <3>1 DEF BufferInv
    <3>5. buffer'[1] = buffer[1] BY <1>t, <3>1, <3>2, <3>4, FillRun
    <3> QED BY <1>g, <2>2, <3>1, <3>3, <3>5 DEF Begins
  <2> QED BY <2>1, <2>2
<1>6. CASE BadRequest \/ NeedsMore
  <2>1. op = "data" /\ ("bad" \in ParseResults \/ "indeterminate" \in ParseResults)
    BY <1>6 DEF BadRequest, NeedsMore
  <2>2. \E r \in 1 .. Len(Requests) : HeaderIn(r) BY <2>1, ParsesOne
  <2> QED BY <2>1, <2>2 DEF ParseResults
<1>7. ASSUME NEW r \in 1 .. Len(Requests), BodyIncomplete(r) PROVE OrderlyInv'
  <2>1. /\ op = "data" /\ HeaderIn(r) /\ Requests[r].post /\ n # 1 + Requests[r].body
        /\ f_offset' = Offset(n) /\ op' \in {"read", "error"}
        /\ UNCHANGED <<sent, replies, buffer, got>>
    <3>1. Requests[r].hdr = 1 /\ (Requests[r].post => Length(r) = Requests[r].body)
      BY <1>t, OrderlyFacts
    <3> QED BY <1>7, <3>1 DEF BodyIncomplete, Finished, DoRead, ContinueAt, clientVars, inVars
  <2>2. got = StartOf(r) + n - 1 /\ got <= EndOf[r] BY <2>1, ParsesOne
  <2>3. /\ 1 + Requests[r].body <= Cap /\ EndOf[r] = StartOf(r) + Requests[r].body
        /\ Requests[r].body \in Nat /\ StartOf(r) \in Nat
    BY <1>t, OrderlyFacts
  <2>4. n < Cap BY <1>t, <2>1, <2>2, <2>3
  <2>5. 0 < n /\ Begins(r) BY <1>t, <2>1, HeaderFacts
  <2>6. f_offset' # 0 BY <1>t, <2>1, <2>4, <2>5, OffsetFacts
  <2>7. buffer'[1] = StartOf(r) BY <2>1, <2>5 DEF Begins
  <2> QED BY <1>g, <2>1, <2>6, <2>7
<1>8. ASSUME NEW r \in 1 .. Len(Requests), Dispatch(r) PROVE OrderlyInv'
  <2>1. /\ op = "data" /\ HeaderIn(r) /\ (Requests[r].post => n = 1 + Requests[r].body)
        /\ op' \in {"write", "stream"} /\ cur' = r /\ UNCHANGED <<sent, replies, got>>
    <3>1. /\ Requests[r].hdr = 1 /\ (Requests[r].post => Length(r) = Requests[r].body)
          /\ Requests[r].answer \in {"write", "stream"}
      BY <1>t, OrderlyFacts
    <3> QED BY <1>8, <3>1 DEF Dispatch, Finished, clientVars, inVars
  <2>2. got = StartOf(r) + n - 1 /\ got <= EndOf[r] BY <2>1, ParsesOne
  <2>3. /\ EndOf[r] = StartOf(r) + Requests[r].body /\ (~Requests[r].post => Requests[r].body = 0)
        /\ Requests[r].body \in Nat /\ StartOf(r) \in Nat
    BY <1>t, OrderlyFacts
  <2>4. 0 < n BY <1>t, <2>1, HeaderFacts
  <2>5. got = EndOf[r] BY <1>t, <2>1, <2>2, <2>3, <2>4
  <2>6. r \in 0 .. Len(Requests) /\ r # 0 BY <1>t
  <2> QED BY <1>g, <2>1, <2>5, <2>6 DEF Loaded
<1>9. CASE WriteEnds
  <2>1. /\ op \in {"write", "stream"} /\ op' \in {"written", "streamed"}
        /\ UNCHANGED <<sent, f_offset, got>>
        /\ replies' = IF cur = 0 THEN replies ELSE Append(replies, cur)
    BY <1>9 DEF WriteEnds, clientVars, inVars
  <2>2. \A i \in DOMAIN replies : i \in DOMAIN replies' /\ replies'[i] = replies[i]
    <3>1. CASE cur = 0 BY <2>1, <3>1
    <3>2. CASE cur # 0
      <4>1. replies \in Seq(Nat) /\ cur \in Nat /\ replies' = Append(replies, cur)
        BY <1>t, <2>1, <3>2, SequencesFacts DEF TypeOK
      <4>2. DOMAIN replies = 1 .. Len(replies) /\ Len(replies) \in Nat BY <4>1, LenProperties
      <4>3. /\ DOMAIN Append(replies, cur) = 1 .. Len(replies) + 1
            /\ \A i \in 1 .. Len(replies) : Append(replies, cur)[i] = replies[i]
        BY <4>1, AppendProperties, LenProperties
      <4>4. \A i \in 1 .. Len(replies) : i \in 1 .. Len(replies) + 1 BY <4>2
      <4> QED BY <4>1, <4>2, <4>3, <4>4
    <3> QED BY <3>1, <3>2
  <2>3. \A s : Replied(s) => \E i \in DOMAIN replies' : replies'[i] = s BY <2>2 DEF Replied
  <2> QED BY <1>o, <1>p, <2>1, <2>3 DEF Loaded
<1>10. CASE ReplyWritten
  <2>1. f_offset = 0 BY <1>t, <1>10 DEF ReplyWritten, BufferInv
  <2>2. f_offset' = 0 BY <1>10, <1>t, <2>1, OffsetFacts DEF ReplyWritten
  <2>3. PICK q \in 0 .. Len(Requests) : got = EndOf[q] BY <1>o, <1>10, <2>1 DEF ReplyWritten
  <2>4. CASE op' = "aborted" BY <1>e, <1>10, <2>4 DEF ReplyWritten, clientVars
  <2>5. CASE op' # "aborted"
    BY <1>f, <1>10, <2>2, <2>3, <2>5 DEF ReplyWritten, clientVars
  <2> QED BY <2>4, <2>5
<1>11. CASE ReplyWrittenClosed \/ StreamEnded
  <2>1. f_offset = 0 BY <1>t, <1>11 DEF ReplyWrittenClosed, StreamEnded, BufferInv
  <2>2. f_offset' = 0 BY <1>11, <1>t, <2>1, OffsetFacts DEF ReplyWrittenClosed, StreamEnded, DoRead
  <2>3. PICK q \in 0 .. Len(Requests) : got = EndOf[q]
    BY <1>o, <1>11, <2>1 DEF ReplyWrittenClosed, StreamEnded
  <2>4. op' \in {"read", "error"} /\ UNCHANGED <<sent, replies, got>>
    BY <1>11 DEF ReplyWrittenClosed, StreamEnded, DoRead, clientVars, inVars
  <2> QED BY <1>g, <2>2, <2>3, <2>4 DEF Loaded
<1>12. ASSUME NEW r \in 1 .. Len(Requests), DispatchStops(r) PROVE OrderlyInv'
  BY <1>e, <1>12 DEF DispatchStops, clientVars
<1> QED BY <1>1, <1>2, <1>3, <1>4, <1>5, <1>6, <1>7, <1>8, <1>9, <1>10, <1>11, <1>12 DEF Next, ServerStep

(* ... and no piece of a well formed request of a client that waits for its *)
(* replies is answered 400.                                                 *)
THEOREM OrderlyIsNeverBad == Spec => []OrderlyNeverBad
<1>1. Init => OrderlyInv
  <2> SUFFICES ASSUME Init PROVE OrderlyInv
    OBVIOUS
  <2>1. Len(Requests) \in Nat /\ EndOf[0] = 0 /\ \A r \in 1 .. Len(Requests) : StartOf(r) \in Nat \ {0}
    BY StreamFacts DEF Init
  <2>2. 0 \in 0 .. Len(Requests) BY <2>1
  <2>3. sent = 0 /\ got = 0 /\ op = "read" /\ f_offset = 0 BY DEF Init
  <2>4. \A r \in 1 .. Len(Requests) : ~(StartOf(r) <= sent) BY <2>1, <2>3
  <2> QED BY <2>1, <2>2, <2>3, <2>4 DEF OrderlyInv, Loaded, NeverBad
<1>2. OrderlyInv => OrderlyNeverBad BY DEF OrderlyInv, OrderlyNeverBad
<1> QED BY <1>1, <1>2, NextOrderly, InductiveHolds, PTL DEF Spec
=============================================================================
