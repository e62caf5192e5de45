--------------------------- MODULE SessionIDProofs ---------------------------
(***************************************************************************)
(* Proofs about the chat mailbox, for any threads, sessions, calls and      *)
(* limits.                                                                  *)
(***************************************************************************)
EXTENDS SessionID, SequenceTheorems, TLAPS

-----------------------------------------------------------------------------
(***************************************************************************)
(* The inductive invariant.                                                 *)
(***************************************************************************)
ReaderSteps == {"find", "insert", "use", "scan"}
WriterSteps == Steps \ (ReaderSteps \cup {"idle", "unlock"})

(* A thread inside a method holds the lock the way the method needs it, and *)
(* an exclusive holder is alone.                                            *)
LockInv ==
    /\ \A t \in Threads : pc[t] \in ReaderSteps => t \in readers
    /\ \A t \in Threads : pc[t] \in WriterSteps => t \in writers
    /\ writers # {} => readers = {}
    /\ \A t, u \in writers : t = u

(* A reader that scans points at a message or behind the last one; one that *)
(* is about to move its session's cursor points at a message.  push_back    *)
(* adds a name it took from its argument.                                   *)
IteratorInv ==
    \A t \in Threads :
        /\ pc[t] = "scan" => k[t] \in 1 .. Len(store) + 1
        /\ pc[t] \in {"find", "insert", "use"} => k[t] \in 0 .. Len(store)
        /\ pc[t] = "add" => todo[t] # <<>>

Inductive == TypeOK /\ LockInv /\ IteratorInv

-----------------------------------------------------------------------------
(* A trim leaves a sequence of messages.                                    *)
LEMMA TrimmedType ==
    ASSUME NEW S, NEW s \in Seq(S)
    PROVE  Trimmed(s) \in Seq(S)
<1>1. CASE Len(s) > MaxKeep
  <2>1. Drop + 1 \in 1 .. Len(s) + 1
    BY <1>1, BoundsAssumption, LenProperties
  <2> QED BY <1>1, <2>1, SubSeqProperties DEF Trimmed
<1>2. CASE ~(Len(s) > MaxKeep)
  BY <1>2 DEF Trimmed
<1> QED BY <1>1, <1>2

LEMMA InitType == Init => TypeOK
BY BoundsAssumption DEF Init, TypeOK, Fresh, Record, Steps, NoCall

(* The records and calls a step works on.                                    *)
LEMMA RecordTypes ==
    /\ Fresh \in Record
    /\ \A r \in Record :
         /\ r.i \in Int /\ r.hosts \in Seq(Hosts)
         /\ Emptied(r) \in Record
         /\ \A b \in BOOLEAN : [r EXCEPT !.killflag = b] \in Record
         /\ \A i \in Int : [r EXCEPT !.i = i] \in Record
         /\ \A hs \in Seq(Hosts) : [r EXCEPT !.hosts = hs] \in Record
<1>1. Fresh \in Record BY DEF Fresh, Record
<1>2. ASSUME NEW r \in Record
      PROVE  /\ r.i \in Int /\ r.hosts \in Seq(Hosts)
             /\ \A b \in BOOLEAN : [r EXCEPT !.killflag = b] \in Record
             /\ \A i \in Int : [r EXCEPT !.i = i] \in Record
             /\ \A hs \in Seq(Hosts) : [r EXCEPT !.hosts = hs] \in Record
  BY DEF Record
<1>3. <<>> \in Seq(Hosts) OBVIOUS
<1> QED BY <1>1, <1>2, <1>3 DEF Emptied

LEMMA CallTypes ==
    ASSUME NEW c \in CallType
    PROVE  /\ c.by \in Threads /\ c.sid \in Sids /\ c.names \in Seq(Hosts) /\ c.flag \in BOOLEAN
           /\ c.op \in SharedOps \cup ExclusiveOps /\ FirstStep(c.op) \in Steps
BY DEF CallType, FirstStep, Steps, SharedOps, ExclusiveOps

LEMMA NextType == TypeOK /\ IteratorInv /\ [Next]_vars => TypeOK'
<1> SUFFICES ASSUME TypeOK, IteratorInv, [Next]_vars PROVE TypeOK'
  OBVIOUS
<1> USE DEF TypeOK
<1>1. ASSUME NEW t \in Threads, NEW c \in Calls, LockShared(t, c) \/ LockExclusive(t, c)
      PROVE  TypeOK'
  <2>1. c \in CallType BY CallsAssumption
  <2>2. /\ c.names \in Seq(Hosts) /\ FirstStep(c.op) \in Steps
    BY <2>1, CallTypes
  <2>3. Enter(t, c) /\ UNCHANGED <<store, kki, written, known, sess, delivered>>
    BY <1>1 DEF LockShared, LockExclusive, storeVars, sessVars
  <2>4. /\ pc' \in [Threads -> Steps] /\ call' \in [Threads -> CallType \cup {NoCall}]
        /\ \A u \in Threads : pc'[u] # "idle" => call'[u] \in CallType
    BY <2>1, <2>2, <2>3 DEF Enter
  <2>5. /\ id' \in [Threads -> Int] /\ k' \in [Threads -> Nat]
        /\ out' \in [Threads -> Seq(Nat)] /\ todo' \in [Threads -> Seq(Hosts)]
    BY <2>2, <2>3 DEF Enter
  <2>6. readers' \in SUBSET Threads /\ writers' \in SUBSET Threads
    BY <1>1 DEF LockShared, LockExclusive
  <2> QED BY <2>3, <2>4, <2>5, <2>6
<1>3. ASSUME NEW t \in Threads, Step(t) PROVE TypeOK'
  <2> DEFINE s == call[t].sid
  <2>c. pc[t] # "idle" => /\ call[t] \in CallType
                          /\ s \in Sids /\ call[t].flag \in BOOLEAN
    BY CallTypes
  <2> HIDE DEF s
  <2>1. CASE Find(t) BY <2>1 DEF Find, Steps, lockVars, storeVars, sessVars, localVars
  <2>2. CASE Insert(t)
    <3>1. known' \in SUBSET Sids /\ sess' \in [Sids -> Record]
      BY <2>2, <2>c, RecordTypes DEF Insert, sessVars, s
    <3> QED BY <2>2, <3>1 DEF Insert, Steps, lockVars, storeVars, localVars
  <2>3. CASE ReadCursor(t)
    <3>1. sess[s].i \in Int BY <2>3, <2>c, RecordTypes DEF ReadCursor
    <3> QED BY <2>3, <3>1 DEF ReadCursor, Steps, lockVars, storeVars, sessVars, s
  <2>4. CASE Scan(t)
    <3>1. UNCHANGED <<lockVars, storeVars, sessVars, call, id, todo, delivered>>
      BY <2>4 DEF Scan
    <3>2. CASE AtEnd(k[t])
      <4>1. pc' = [pc EXCEPT ![t] = "unlock"] /\ UNCHANGED <<k, out>>
        BY <2>4, <3>2 DEF Scan
      <4> QED BY <2>4, <3>1, <4>1 DEF Scan, Steps, lockVars, storeVars, sessVars
    <3>3. CASE ~AtEnd(k[t]) /\ Covered(k[t], id[t])
      <4>1. k' = [k EXCEPT ![t] = k[t] + 1] /\ UNCHANGED <<pc, out>>
        BY <2>4, <3>3 DEF Scan
      <4> QED BY <3>1, <4>1 DEF lockVars, storeVars, sessVars
    <3>4. CASE ~AtEnd(k[t]) /\ ~Covered(k[t], id[t])
      <4>1. /\ out' = [out EXCEPT ![t] = Append(out[t], store[k[t]].msg)]
            /\ pc' = [pc EXCEPT ![t] = "find"] /\ UNCHANGED k
        BY <2>4, <3>4 DEF Scan
      <4>2. k[t] \in 1 .. Len(store)
        BY <2>4, <3>4, LenProperties DEF Scan, IteratorInv, AtEnd
      <4>3. store[k[t]] \in Message BY <4>2, ElementOfSeq
      <4>4. Append(out[t], store[k[t]].msg) \in Seq(Nat) BY <4>3 DEF Message
      <4> QED BY <2>4, <3>1, <4>1, <4>4 DEF Scan, Steps, lockVars, storeVars, sessVars
    <3> QED BY <3>2, <3>3, <3>4
  <2>5. CASE MarkRead(t)
    <3>1. k[t] \in 1 .. Len(store) BY <2>5, LenProperties DEF MarkRead, IteratorInv
    <3>2. store[k[t]] \in Message BY <3>1, ElementOfSeq
    <3>3. [sess[s] EXCEPT !.i = store[k[t]].i] \in Record
      BY <2>5, <2>c, <3>2, RecordTypes DEF MarkRead, Message
    <3>4. sess' \in [Sids -> Record]
      BY <2>5, <2>c, <3>3 DEF MarkRead, Marked, s
    <3> QED BY <2>5, <3>4 DEF MarkRead, Steps, lockVars, storeVars
  <2>6. CASE Get(t) BY <2>6 DEF Get, Steps, lockVars, storeVars, sessVars, localVars
  <2>7. CASE TrimStore(t)
    BY <2>7, TrimmedType DEF TrimStore, Steps, lockVars, sessVars, localVars
  <2>8. CASE AppendMessage(t)
    BY <2>8 DEF AppendMessage, Steps, Message, lockVars, sessVars, localVars
  <2>9. CASE CountMessage(t)
    BY <2>9, BoundsAssumption DEF CountMessage, Increment, Steps, lockVars, sessVars, localVars
  <2>10. CASE SearchHost(t)
    <3>1. todo[t] # <<>> => Tail(todo[t]) \in Seq(Hosts) OBVIOUS
    <3> QED BY <2>10, <2>c, <3>1 DEF SearchHost, Steps, lockVars, storeVars, s
  <2>11. CASE AddHost(t)
    <3>1. /\ todo[t] \in Seq(Hosts) /\ todo[t] # <<>> /\ sess[s].hosts \in Seq(Hosts)
      BY <2>11, <2>c, RecordTypes DEF AddHost, IteratorInv
    <3>2. /\ Tail(todo[t]) \in Seq(Hosts) /\ Append(sess[s].hosts, Head(todo[t])) \in Seq(Hosts)
      BY <3>1
    <3>3. sess' \in [Sids -> Record]
      BY <2>11, <2>c, <3>2, RecordTypes DEF AddHost, s
    <3> QED BY <2>11, <3>2, <3>3 DEF AddHost, Steps, ExclusiveOps, lockVars, storeVars
  <2>12. CASE WriteHostInfo(t)
    <3>1. /\ todo[t] \in Seq(Hosts) /\ todo[t] # <<>> /\ sess[s].hosts \in Seq(Hosts)
      BY <2>12, <2>c, RecordTypes DEF WriteHostInfo
    <3>2. Append(sess[s].hosts, Head(todo[t])) \in Seq(Hosts)
      BY <3>1
    <3>3. sess' \in [Sids -> Record]
      BY <2>12, <2>c, <3>2, RecordTypes DEF WriteHostInfo, s
    <3> QED BY <2>12, <2>c, <3>3 DEF WriteHostInfo, Steps, lockVars, storeVars, localVars, s
  <2>13. CASE SetKillFlag(t)
    <3>1. sess' \in [Sids -> Record] BY <2>13, <2>c, RecordTypes DEF SetKillFlag, s
    <3> QED BY <2>13, <2>c, <3>1 DEF SetKillFlag, Steps, lockVars, storeVars, localVars, s
  <2>14. CASE ClearSid(t)
    <3>1. sess' \in [Sids -> Record] BY <2>14, <2>c, RecordTypes DEF ClearSid, s
    <3> QED BY <2>14, <2>c, <3>1 DEF ClearSid, Steps, lockVars, storeVars, localVars, s
  <2>15. CASE Clear(t)
    BY <2>15, RecordTypes DEF Clear, Steps, lockVars, localVars
  <2>16. CASE Return(t)
    <3>1. delivered[s] \o out[t] \in Seq(Nat) BY <2>16, <2>c, ConcatProperties DEF Return
    <3>2. delivered' \in [Sids -> Seq(Nat)] BY <2>16, <3>1 DEF Return, s
    <3> QED BY <2>16, <2>c, <3>2 DEF Return, Steps, storeVars, sessVars, localVars
  <2> QED BY <1>3, <2>1, <2>2, <2>3, <2>4, <2>5, <2>6, <2>7, <2>8, <2>9, <2>10, <2>11,
             <2>12, <2>13, <2>14, <2>15, <2>16 DEF Step
<1>4. CASE UNCHANGED vars
  BY <1>4 DEF vars, lockVars, storeVars, sessVars, localVars
<1> QED BY <1>1, <1>3, <1>4 DEF Next

LEMMA NextLock == TypeOK /\ LockInv /\ [Next]_vars => LockInv'
<1> SUFFICES ASSUME TypeOK, LockInv, [Next]_vars PROVE LockInv'
  OBVIOUS
<1> USE DEF TypeOK, LockInv, ReaderSteps, WriterSteps, Steps
<1>1. ASSUME NEW t \in Threads, NEW c \in Calls, LockShared(t, c) PROVE LockInv'
  BY <1>1 DEF LockShared, Enter, FirstStep, SharedOps, ExclusiveOps
<1>2. ASSUME NEW t \in Threads, NEW c \in Calls, LockExclusive(t, c) PROVE LockInv'
  BY <1>2 DEF LockExclusive, Unlocked, Enter, FirstStep, SharedOps, ExclusiveOps
<1>3. ASSUME NEW t \in Threads, Return(t) PROVE LockInv'
  BY <1>3 DEF Return
<1>4. ASSUME NEW t \in Threads,
             Find(t) \/ Insert(t) \/ ReadCursor(t) \/ Scan(t) \/ MarkRead(t) \/ Get(t)
      PROVE  LockInv'
  <2>1. pc[t] \in ReaderSteps /\ UNCHANGED lockVars
    BY <1>4 DEF Find, Insert, ReadCursor, Scan, MarkRead, Get
  <2>2. \/ pc' = pc
        \/ \E q \in ReaderSteps \cup {"unlock"} : pc' = [pc EXCEPT ![t] = q]
    BY <1>4 DEF Find, Insert, ReadCursor, Scan, MarkRead, Get
  <2> QED BY <2>1, <2>2 DEF lockVars
<1>5. ASSUME NEW t \in Threads,
             \/ TrimStore(t) \/ AppendMessage(t) \/ CountMessage(t) \/ SearchHost(t)
             \/ AddHost(t) \/ WriteHostInfo(t) \/ SetKillFlag(t) \/ ClearSid(t) \/ Clear(t)
      PROVE  LockInv'
  <2>1. pc[t] \in WriterSteps /\ UNCHANGED lockVars
    BY <1>5 DEF ExclusiveOps, TrimStore, AppendMessage, CountMessage, SearchHost, AddHost,
         WriteHostInfo, SetKillFlag, ClearSid, Clear
  <2>2. \/ pc' = pc
        \/ \E q \in WriterSteps \cup {"unlock"} : pc' = [pc EXCEPT ![t] = q]
    BY <1>5 DEF ExclusiveOps, TrimStore, AppendMessage, CountMessage, SearchHost, AddHost,
         WriteHostInfo, SetKillFlag, ClearSid, Clear
  <2> QED BY <2>1, <2>2 DEF lockVars
<1>6. CASE UNCHANGED vars
  BY <1>6 DEF vars, lockVars
<1> QED BY <1>1, <1>2, <1>3, <1>4, <1>5, <1>6 DEF Next, Step

(* Only an exclusive holder changes the messages, and no reader is inside   *)
(* while there is one.                                                      *)
LEMMA ReadersFreezeStore ==
    ASSUME TypeOK, LockInv, [Next]_vars, readers # {}
    PROVE  store' = store
<1> USE DEF LockInv, ReaderSteps, WriterSteps, Steps, ExclusiveOps
<1>1. ASSUME NEW t \in Threads, Step(t) PROVE store' = store
  <2>1. ~TrimStore(t) /\ ~AppendMessage(t) /\ ~Clear(t)
    BY DEF TrimStore, AppendMessage, Clear
  <2> QED
    BY <1>1, <2>1 DEF Step, Find, Insert, ReadCursor, Scan, MarkRead, Get, CountMessage,
         SearchHost, AddHost, WriteHostInfo, SetKillFlag, ClearSid, Return, storeVars
<1>2. ASSUME NEW t \in Threads, NEW c \in Calls, LockShared(t, c) \/ LockExclusive(t, c)
      PROVE  store' = store
  BY <1>2 DEF LockShared, LockExclusive, storeVars
<1> QED BY <1>1, <1>2 DEF Next, vars, storeVars

LEMMA NextIterator == Inductive /\ [Next]_vars => IteratorInv'
<1> SUFFICES ASSUME Inductive, [Next]_vars, NEW u \in Threads
             PROVE  /\ pc'[u] = "scan" => k'[u] \in 1 .. Len(store') + 1
                    /\ pc'[u] \in {"find", "insert", "use"} => k'[u] \in 0 .. Len(store')
                    /\ pc'[u] = "add" => todo'[u] # <<>>
  BY DEF IteratorInv
<1>i. TypeOK /\ LockInv /\ IteratorInv BY DEF Inductive
<1>l. Len(store) \in Nat /\ Len(store') \in Nat
  BY <1>i, NextType, LenProperties DEF TypeOK
<1>1. ASSUME NEW t \in Threads, NEW c \in Calls, LockShared(t, c) \/ LockExclusive(t, c)
      PROVE  IteratorInv'
  <2>1. Enter(t, c) /\ store' = store
    BY <1>1 DEF LockShared, LockExclusive, storeVars
  <2>2. FirstStep(c.op) # "scan" /\ FirstStep(c.op) # "add"
    BY <1>1 DEF LockShared, LockExclusive, FirstStep, SharedOps, ExclusiveOps
  <2> QED BY <1>i, <1>l, <2>1, <2>2 DEF Enter, IteratorInv, TypeOK
<1>2. ASSUME NEW t \in Threads, Step(t) PROVE IteratorInv'
  <2>1. CASE TrimStore(t) \/ AppendMessage(t) \/ Clear(t)
    <3>1. readers = {}
      BY <1>i, <2>1 DEF LockInv, WriterSteps, ReaderSteps, Steps, ExclusiveOps, TrimStore,
           AppendMessage, Clear
    <3>2. /\ UNCHANGED <<k, todo>>
          /\ pc' = [pc EXCEPT ![t] = "append"] \/ pc' = [pc EXCEPT ![t] = "unlock"]
             \/ pc' = [pc EXCEPT ![t] = "count"]
      BY <2>1 DEF TrimStore, AppendMessage, Clear, localVars
    <3>3. \A v \in Threads : pc[v] \notin ReaderSteps
      BY <1>i, <3>1 DEF LockInv
    <3> QED BY <1>i, <3>2, <3>3 DEF IteratorInv, ReaderSteps, TypeOK
  <2>2. CASE ~(TrimStore(t) \/ AppendMessage(t) \/ Clear(t))
    <3>1. store' = store
      BY <1>i, <1>2, <2>2 DEF Step, Find, Insert, ReadCursor, Scan, MarkRead, Get, CountMessage,
           SearchHost, AddHost, WriteHostInfo, SetKillFlag, ClearSid, Return, storeVars
    <3>2. CASE Find(t) \/ Insert(t)
      BY <1>i, <3>1, <3>2 DEF Find, Insert, localVars, IteratorInv, TypeOK
    <3>3. CASE ReadCursor(t)
      BY <1>i, <1>l, <3>1, <3>3 DEF ReadCursor, IteratorInv, TypeOK
    <3>4. CASE Scan(t)
      <4>1. k[t] \in 1 .. Len(store) + 1 /\ todo' = todo
        BY <1>i, <3>4 DEF Scan, IteratorInv
      <4>2. \/ pc' = [pc EXCEPT ![t] = "unlock"] /\ k' = k
            \/ ~AtEnd(k[t]) /\ pc' = pc /\ k' = [k EXCEPT ![t] = k[t] + 1]
            \/ ~AtEnd(k[t]) /\ pc' = [pc EXCEPT ![t] = "find"] /\ k' = k
        BY <3>4 DEF Scan, AtEnd
      <4>3. ~AtEnd(k[t]) => k[t] \in 1 .. Len(store) BY <1>l, <4>1 DEF AtEnd
      <4>4. k \in [Threads -> Nat] /\ pc \in [Threads -> Steps] /\ todo' = todo /\ store' = store
        BY <1>i, <3>1, <4>1 DEF TypeOK
      <4>5. k'[t] \in 0 .. Len(store) + 1 /\ (~AtEnd(k[t]) => k'[t] \in 1 .. Len(store) + 1)
        BY <1>l, <4>1, <4>2, <4>3, <4>4
      <4>6. \A v \in Threads \ {t} : k'[v] = k[v] /\ pc'[v] = pc[v]
        BY <4>2, <4>4
      <4>7. pc'[t] = "scan" => ~AtEnd(k[t]) /\ k'[t] \in 1 .. Len(store) + 1
        BY <4>2, <4>4, <4>5, <3>4 DEF Scan
      <4>8. pc'[t] \in {"find", "insert", "use", "add"} => pc'[t] = "find" /\ k'[t] \in 0 .. Len(store)
        BY <1>l, <3>4, <4>2, <4>3, <4>4 DEF Scan
      <4> QED BY <1>i, <1>l, <4>4, <4>6, <4>7, <4>8 DEF IteratorInv
    <3>5. CASE MarkRead(t)
      BY <1>i, <1>l, <3>1, <3>5 DEF MarkRead, IteratorInv, TypeOK
    <3>6. CASE SearchHost(t)
      BY <1>i, <3>1, <3>6 DEF SearchHost, IteratorInv, TypeOK
    <3>7. CASE AddHost(t)
      BY <1>i, <3>1, <3>7 DEF AddHost, IteratorInv, TypeOK
    <3>8. CASE \/ Get(t) \/ CountMessage(t) \/ WriteHostInfo(t) \/ SetKillFlag(t)
               \/ ClearSid(t) \/ Return(t)
      <4>1. /\ UNCHANGED <<k, todo>>
            /\ pc' = [pc EXCEPT ![t] = "unlock"] \/ pc' = [pc EXCEPT ![t] = "idle"]
        BY <3>8 DEF Get, CountMessage, WriteHostInfo, SetKillFlag, ClearSid, Return, localVars
      <4> QED BY <1>i, <3>1, <4>1 DEF IteratorInv, TypeOK
    <3> QED BY <1>i, <1>2, <2>2, <3>2, <3>3, <3>4, <3>5, <3>6, <3>7, <3>8 DEF Step
  <2> QED BY <2>1, <2>2
<1>3. CASE UNCHANGED vars
  BY <1>i, <1>3 DEF vars, storeVars, localVars, IteratorInv
<1> QED BY <1>i, <1>1, <1>2, <1>3 DEF Next, IteratorInv

LEMMA InitInductive == Init => Inductive
<1> SUFFICES ASSUME Init PROVE LockInv /\ IteratorInv
  BY InitType DEF Inductive
<1> QED BY DEF Init, LockInv, IteratorInv, ReaderSteps, WriterSteps

LEMMA InvariantHolds == Spec => []Inductive
<1>1. Inductive /\ [Next]_vars => Inductive'
  BY NextType, NextLock, NextIterator DEF Inductive
<1> QED BY <1>1, InitInductive, PTL DEF Spec

-----------------------------------------------------------------------------
(* The mailbox's state stays well typed, whoever calls it: in particular a  *)
(* poll never reads the vector behind its end, and push_back never takes a  *)
(* name that is not there.                                                  *)
THEOREM TypeCorrect == Spec => []TypeOK
<1>1. Inductive => TypeOK BY DEF Inductive
<1> QED BY <1>1, InvariantHolds, PTL

(* The messages stay as they are while any thread polls, so the iterators   *)
(* of ReadFunction stay valid although writers run in other threads.        *)
THEOREM IteratorsCorrect == Spec => IteratorsStayValid
<1>1. Inductive /\ [Next]_vars => [readers # {} => store' = store]_vars
  BY ReadersFreezeStore DEF Inductive
<1> QED BY <1>1, InvariantHolds, PTL DEF Spec, IteratorsStayValid

-----------------------------------------------------------------------------
(***************************************************************************)
(* The numbers of the messages and the size of the vector.                  *)
(***************************************************************************)

(* WriteFunction trims, appends and counts in three steps under the         *)
(* exclusive lock; between the last two, kki lags one behind.  As long as   *)
(* the int has not wrapped around, a message's number is its place in the   *)
(* order of posting.                                                        *)
Counting == \E t \in Threads : pc[t] = "count"
NumbersInv ==
    NoWrap => /\ Counting => kki = written - 1
              /\ ~Counting => kki = written
              /\ \A a \in DOMAIN store : store[a].i = store[a].msg /\ store[a].i < written
              /\ \A a, b \in DOMAIN store : a < b => store[a].i < store[b].i

(* Between the trim and the append there is room for one message.           *)
RoomInv ==
    /\ Len(store) <= MaxKeep + 1
    /\ \A t \in Threads : pc[t] = "append" => Len(store) <= MaxKeep

(* A thread that posts is the only one inside an exclusive method.          *)
LEMMA OneWriter ==
    ASSUME LockInv, NEW t \in Threads, NEW u \in Threads,
           pc[t] \in WriterSteps, pc[u] \in WriterSteps
    PROVE  t = u
BY DEF LockInv

(* What a trim does to the messages: it keeps the newest in their order.    *)
LEMMA TrimmedElements ==
    ASSUME NEW S, NEW s \in Seq(S)
    PROVE  \E d \in {0, Drop} :
             /\ Len(Trimmed(s)) = Len(s) - d
             /\ d = IF Len(s) > MaxKeep THEN Drop ELSE 0
             /\ \A a \in 1 .. Len(Trimmed(s)) : a + d \in 1 .. Len(s) /\ Trimmed(s)[a] = s[a + d]
<1>1. CASE Len(s) > MaxKeep
  <2>1. Drop \in Nat /\ Drop + 1 \in 1 .. Len(s) + 1 /\ Len(s) \in Nat
    BY <1>1, BoundsAssumption, LenProperties
  <2>2. /\ Len(SubSeq(s, Drop + 1, Len(s))) = Len(s) - Drop
        /\ \A a \in 1 .. Len(s) - Drop : SubSeq(s, Drop + 1, Len(s))[a] = s[a + Drop]
    BY <2>1, SubSeqProperties
  <2> QED BY <1>1, <2>1, <2>2 DEF Trimmed
<1>2. CASE ~(Len(s) > MaxKeep)
  BY <1>2, LenProperties DEF Trimmed
<1> QED BY <1>1, <1>2

LEMMA NextRoom == Inductive /\ RoomInv /\ [Next]_vars => RoomInv'
<1> SUFFICES ASSUME Inductive, RoomInv, [Next]_vars PROVE RoomInv'
  OBVIOUS
<1>i. TypeOK /\ LockInv /\ TypeOK' BY NextType DEF Inductive
<1>l. Len(store) \in Nat /\ Len(store') \in Nat /\ MaxKeep \in Nat /\ Drop \in 1 .. MaxKeep
  BY <1>i, LenProperties, BoundsAssumption DEF TypeOK
<1>1. ASSUME NEW t \in Threads, TrimStore(t) PROVE RoomInv'
  <2>1. store \in Seq(Message) /\ store' = Trimmed(store)
    BY <1>i, <1>1 DEF TrimStore, TypeOK
  <2>2. PICK d \in {0, Drop} : /\ Len(store') = Len(store) - d
                              /\ d = IF Len(store) > MaxKeep THEN Drop ELSE 0
    BY <2>1, TrimmedElements
  <2>3. Len(store') <= MaxKeep
    BY <1>l, <2>2 DEF RoomInv
  <2> QED BY <1>l, <2>3 DEF RoomInv
<1>2. ASSUME NEW t \in Threads, AppendMessage(t) PROVE RoomInv'
  <2>1. Len(store') = Len(store) + 1
    BY <1>i, <1>2, AppendProperties DEF AppendMessage, TypeOK, Message
  <2>2. Len(store) <= MaxKeep BY <1>2 DEF AppendMessage, RoomInv
  <2>3. ASSUME NEW u \in Threads PROVE pc'[u] # "append"
    <3>1. pc[t] = "append" /\ pc' = [pc EXCEPT ![t] = "count"] BY <1>2 DEF AppendMessage
    <3>2. pc[u] = "append" => u = t
      BY <1>i, <3>1, OneWriter DEF WriterSteps, ReaderSteps, Steps
    <3> QED BY <1>i, <3>1, <3>2 DEF TypeOK
  <2> QED BY <1>l, <2>1, <2>2, <2>3 DEF RoomInv
<1>3. ASSUME NEW t \in Threads, Clear(t) PROVE RoomInv'
  <2>1. Len(store') = 0 BY <1>3 DEF Clear
  <2> QED BY <1>l, <2>1 DEF RoomInv
<1>4. ASSUME NEW t \in Threads,
             \/ \E c \in Calls : LockShared(t, c) \/ LockExclusive(t, c)
             \/ Step(t) /\ ~TrimStore(t) /\ ~AppendMessage(t) /\ ~Clear(t)
      PROVE  RoomInv'
  <2>1. store' = store
    BY <1>4 DEF LockShared, LockExclusive, storeVars, Step, Find, Insert, ReadCursor, Scan,
         MarkRead, Get, CountMessage, SearchHost, AddHost, WriteHostInfo, SetKillFlag, ClearSid,
         Return
  <2>2. \/ pc' = pc
        \/ \E q \in Steps \ {"append"} : pc' = [pc EXCEPT ![t] = q]
    BY <1>4 DEF LockShared, LockExclusive, Enter, FirstStep, SharedOps, ExclusiveOps, Steps, Step,
         Find, Insert, ReadCursor, Scan, MarkRead, Get, CountMessage, SearchHost, AddHost,
         WriteHostInfo, SetKillFlag, ClearSid, Return
  <2>3. \A u \in Threads : pc'[u] = "append" => pc[u] = "append"
    BY <1>i, <2>2 DEF TypeOK
  <2> QED BY <2>1, <2>3 DEF RoomInv
<1>5. CASE UNCHANGED vars
  BY <1>5 DEF vars, storeVars, RoomInv
<1> QED BY <1>1, <1>2, <1>3, <1>4, <1>5 DEF Next, Step

(* The vector holds at most one message more than its limit.                *)
THEOREM StoreBounded == Spec => []StoreBound
<1>1. Init => RoomInv
  BY BoundsAssumption DEF Init, RoomInv
<1>2. RoomInv => StoreBound BY DEF RoomInv, StoreBound
<1> QED BY <1>1, <1>2, NextRoom, InvariantHolds, PTL DEF Spec

LEMMA NextNumbers == Inductive /\ NumbersInv /\ [Next]_vars => NumbersInv'
<1> SUFFICES ASSUME Inductive, NumbersInv, [Next]_vars, NoWrap' PROVE NumbersInv'
  BY DEF NumbersInv
<1>i. TypeOK /\ LockInv /\ TypeOK' /\ MaxInt \in Nat
  BY NextType, BoundsAssumption DEF Inductive
<1>w. NoWrap /\ written \in Nat /\ kki \in Int
  <2>1. written' = written \/ written' = written + 1
    BY DEF Next, vars, LockShared, LockExclusive, storeVars, Step, Find, Insert, ReadCursor, Scan,
       MarkRead, Get, TrimStore, AppendMessage, CountMessage, SearchHost, AddHost, WriteHostInfo,
       SetKillFlag, ClearSid, Clear, Return
  <2> QED BY <1>i, <2>1 DEF NoWrap, TypeOK
<1>n. /\ Counting => kki = written - 1
      /\ ~Counting => kki = written
      /\ \A a \in DOMAIN store : store[a].i = store[a].msg /\ store[a].i < written
      /\ \A a, b \in DOMAIN store : a < b => store[a].i < store[b].i
  BY <1>w DEF NumbersInv
<1>s. /\ Len(store) \in Nat /\ DOMAIN store = 1 .. Len(store)
      /\ \A a \in DOMAIN store : store[a] \in Message /\ store[a].i \in Int
  <2>1. store \in Seq(Message) BY <1>i DEF TypeOK
  <2>2. Len(store) \in Nat /\ DOMAIN store = 1 .. Len(store) BY <2>1, LenProperties
  <2>3. \A a \in DOMAIN store : store[a] \in Message BY <2>1, <2>2, ElementOfSeq
  <2> QED BY <2>2, <2>3 DEF Message
<1>1. ASSUME NEW t \in Threads, TrimStore(t) PROVE NumbersInv'
  <2>1. PICK d \in {0, Drop} :
          /\ Len(store') = Len(store) - d
          /\ \A a \in 1 .. Len(store') : a + d \in 1 .. Len(store) /\ store'[a] = store[a + d]
    BY <1>i, <1>1, TrimmedElements DEF TrimStore, TypeOK
  <2>2. d \in Nat /\ DOMAIN store' = 1 .. Len(store')
    BY <1>i, LenProperties, BoundsAssumption DEF TypeOK
  <2>3. UNCHANGED <<kki, written>> /\ (Counting' <=> Counting)
    <3>1. pc[t] = "trim" /\ pc' = [pc EXCEPT ![t] = "append"] BY <1>1 DEF TrimStore
    <3> QED BY <1>i, <1>1, <3>1 DEF TrimStore, Counting, TypeOK
  <2>4. \A a \in DOMAIN store' : store'[a].i = store'[a].msg /\ store'[a].i < written'
    BY <1>n, <1>s, <2>1, <2>2, <2>3
  <2>5. \A a, b \in DOMAIN store' : a < b => store'[a].i < store'[b].i
    <3> SUFFICES ASSUME NEW a \in DOMAIN store', NEW b \in DOMAIN store', a < b
                 PROVE  store'[a].i < store'[b].i
      OBVIOUS
    <3>1. a + d \in DOMAIN store /\ b + d \in DOMAIN store /\ a + d < b + d
      BY <1>s, <2>1, <2>2
    <3> QED BY <1>n, <2>1, <2>2, <3>1
  <2> QED BY <1>n, <2>3, <2>4, <2>5 DEF NumbersInv
<1>2. ASSUME NEW t \in Threads, AppendMessage(t) PROVE NumbersInv'
  <2>1. /\ pc[t] = "append" /\ pc' = [pc EXCEPT ![t] = "count"] /\ kki' = kki
        /\ store' = Append(store, [i |-> kki, msg |-> written]) /\ written' = written + 1
    BY <1>2 DEF AppendMessage
  <2>2. ~Counting
    BY <1>i, <2>1, OneWriter DEF Counting, WriterSteps, ReaderSteps, Steps
  <2>3. Counting' BY <1>i, <2>1 DEF Counting, TypeOK
  <2>4. [i |-> kki, msg |-> written] \in Message BY <1>w DEF Message
  <2>5. /\ DOMAIN store' = 1 .. Len(store) + 1
        /\ \A a \in 1 .. Len(store) : store'[a] = store[a]
        /\ store'[Len(store) + 1] = [i |-> written, msg |-> written]
    BY <1>i, <1>n, <2>1, <2>2, <2>4, AppendProperties, LenProperties DEF TypeOK
  <2>6. \A a \in DOMAIN store' : store'[a].i = store'[a].msg /\ store'[a].i < written'
    BY <1>n, <1>s, <1>w, <2>1, <2>5
  <2>7. \A a, b \in DOMAIN store' : a < b => store'[a].i < store'[b].i
    <3> SUFFICES ASSUME NEW a \in DOMAIN store', NEW b \in DOMAIN store', a < b
                 PROVE  store'[a].i < store'[b].i
      OBVIOUS
    <3>1. a \in 1 .. Len(store) BY <1>s, <2>5
    <3>2. CASE b \in 1 .. Len(store) BY <1>n, <1>s, <2>5, <3>1, <3>2
    <3>3. CASE b = Len(store) + 1 BY <1>n, <1>s, <2>5, <3>1, <3>3
    <3> QED BY <1>s, <2>5, <3>2, <3>3
  <2> QED BY <1>n, <1>w, <2>1, <2>2, <2>3, <2>6, <2>7 DEF NumbersInv
<1>3. ASSUME NEW t \in Threads, CountMessage(t) PROVE NumbersInv'
  <2>1. /\ pc[t] = "count" /\ pc' = [pc EXCEPT ![t] = "unlock"] /\ kki' = Increment(kki)
        /\ UNCHANGED <<store, written>>
    BY <1>3 DEF CountMessage
  <2>2. Counting BY <2>1 DEF Counting
  <2>3. ~Counting'
    <3>1. \A u \in Threads : pc[u] = "count" => u = t
      BY <1>i, <2>1, OneWriter DEF WriterSteps, ReaderSteps, Steps
    <3> QED BY <1>i, <2>1, <3>1 DEF Counting, TypeOK
  <2>4. kki' = written'
    BY <1>i, <1>n, <1>w, <2>1, <2>2 DEF Increment, NoWrap
  <2> QED BY <1>n, <2>1, <2>3, <2>4 DEF NumbersInv
<1>4. ASSUME NEW t \in Threads, Clear(t) PROVE NumbersInv'
  <2>1. /\ pc[t] = "clear" /\ pc' = [pc EXCEPT ![t] = "unlock"] /\ store' = <<>>
        /\ UNCHANGED <<kki, written>>
    BY <1>4 DEF Clear
  <2>2. Counting' <=> Counting BY <1>i, <2>1 DEF Counting, TypeOK
  <2> QED BY <1>n, <2>1, <2>2 DEF NumbersInv
<1>5. ASSUME NEW t \in Threads,
             \/ \E c \in Calls : LockShared(t, c) \/ LockExclusive(t, c)
             \/ /\ Step(t) /\ ~TrimStore(t) /\ ~AppendMessage(t)
                /\ ~CountMessage(t) /\ ~Clear(t)
      PROVE  NumbersInv'
  <2>1. UNCHANGED storeVars
    BY <1>5 DEF LockShared, LockExclusive, Step, Find, Insert, ReadCursor, Scan, MarkRead, Get,
         SearchHost, AddHost, WriteHostInfo, SetKillFlag, ClearSid, Return, storeVars
  <2>2. \/ pc' = pc
        \/ pc[t] # "count" /\ \E q \in Steps \ {"count"} : pc' = [pc EXCEPT ![t] = q]
    BY <1>5 DEF LockShared, LockExclusive, Enter, FirstStep, SharedOps, ExclusiveOps, Steps, Step,
         Find, Insert, ReadCursor, Scan, MarkRead, Get, SearchHost, AddHost, WriteHostInfo,
         SetKillFlag, ClearSid, Return
  <2>3. Counting' <=> Counting BY <1>i, <2>2 DEF Counting, TypeOK
  <2> QED BY <1>n, <2>1, <2>3 DEF NumbersInv, storeVars
<1>6. CASE UNCHANGED vars
  BY <1>n, <1>6 DEF vars, storeVars, NumbersInv, Counting
<1> QED BY <1>1, <1>2, <1>3, <1>4, <1>5, <1>6 DEF Next, Step

(* Until the int wraps around, messages are numbered in increasing order,   *)
(* below the next number, whatever trims and clears happened.               *)
THEOREM NumbersCorrect == Spec => []NumbersIncrease
<1>1. Init => NumbersInv
  BY DEF Init, NumbersInv, Counting
<1>2. Inductive /\ NumbersInv => NumbersIncrease
  <2> SUFFICES ASSUME Inductive, NumbersInv, NoWrap PROVE NumbersIncrease
    BY DEF NumbersIncrease
  <2>1. written \in Nat /\ store \in Seq(Message) /\ DOMAIN store = 1 .. Len(store)
    BY LenProperties DEF Inductive, TypeOK
  <2>2. \A a \in DOMAIN store : store[a] \in Message BY <2>1, ElementOfSeq
  <2>3. \A a \in DOMAIN store : store[a].i \in Int BY <2>2 DEF Message
  <2> QED BY <2>1, <2>3 DEF NumbersInv, NumbersIncrease, Counting
<1> QED BY <1>1, <1>2, NextNumbers, InvariantHolds, PTL DEF Spec

-----------------------------------------------------------------------------
(***************************************************************************)
(* The host lists.                                                          *)
(***************************************************************************)
Unique(h) == \A a, b \in DOMAIN h : h[a] = h[b] => a = b

(* push_back adds only what its search did not find; the exclusive lock     *)
(* keeps everybody else from the record between the two.                    *)
HostInv ==
    /\ \A s \in Sids : Unique(sess[s].hosts)
    /\ \A t \in Threads : pc[t] # "hostinfo"
    /\ \A t \in Threads : pc[t] = "add" => Head(todo[t]) \notin Elems(sess[call[t].sid].hosts)

LEMMA AppendUnique ==
    ASSUME NEW S, NEW h \in Seq(S), NEW x \in S, Unique(h), x \notin Elems(h)
    PROVE  Unique(Append(h, x))
<1>1. /\ Len(h) \in Nat /\ DOMAIN h = 1 .. Len(h) /\ DOMAIN Append(h, x) = 1 .. Len(h) + 1
      /\ \A a \in 1 .. Len(h) : Append(h, x)[a] = h[a]
      /\ Append(h, x)[Len(h) + 1] = x
  BY AppendProperties, LenProperties
<1>2. \A a \in 1 .. Len(h) : h[a] # x BY <1>1 DEF Elems
<1>3. \A a \in 1 .. Len(h) + 1 : a \in 1 .. Len(h) \/ a = Len(h) + 1 BY <1>1
<1> QED BY <1>1, <1>2, <1>3 DEF Unique

LEMMA NextHosts ==
    ASSUME \A c \in Calls : c.op # "hostinfo", Inductive, HostInv, [Next]_vars
    PROVE  HostInv'
<1>i. TypeOK /\ LockInv /\ IteratorInv BY DEF Inductive
<1>c. sess \in [Sids -> Record] /\ todo \in [Threads -> Seq(Hosts)] /\ pc \in [Threads -> Steps]
  BY <1>i DEF TypeOK
<1>1. ASSUME NEW t \in Threads, AddHost(t) PROVE HostInv'
  <2>1. /\ pc[t] = "add" /\ pc' = [pc EXCEPT ![t] = "push"] /\ UNCHANGED call
        /\ sess' = [sess EXCEPT ![call[t].sid].hosts = Append(@, Head(todo[t]))]
    BY <1>1 DEF AddHost
  <2>2. PICK s \in Sids : s = call[t].sid
    BY <1>i, <2>1, CallTypes DEF TypeOK
  <2>3. sess[s].hosts \in Seq(Hosts) /\ Head(todo[t]) \in Hosts
    BY <1>i, <1>c, <2>1, RecordTypes DEF IteratorInv
  <2>4. Unique(Append(sess[s].hosts, Head(todo[t])))
    <3>1. Unique(sess[s].hosts) /\ Head(todo[t]) \notin Elems(sess[s].hosts)
      BY <2>1, <2>2 DEF HostInv
    <3> QED BY <2>3, <3>1, AppendUnique
  <2>5. sess'[s].hosts = Append(sess[s].hosts, Head(todo[t]))
    BY <1>c, <2>1, <2>2 DEF Record
  <2>6. \A r \in Sids \ {s} : sess'[r] = sess[r] BY <1>c, <2>1, <2>2
  <2>7. \A r \in Sids : Unique(sess'[r].hosts) BY <2>4, <2>5, <2>6 DEF HostInv
  <2>8. \A u \in Threads : pc[u] = "add" => u = t
    BY <1>i, <2>1, OneWriter DEF WriterSteps, ReaderSteps, Steps
  <2>9. \A u \in Threads : pc'[u] # "add" BY <1>c, <2>1, <2>8
  <2>10. \A u \in Threads : pc'[u] # "hostinfo" BY <1>c, <2>1 DEF HostInv
  <2> QED BY <2>7, <2>9, <2>10 DEF HostInv
<1>2. ASSUME NEW t \in Threads, SearchHost(t) PROVE HostInv'
  <2>1. /\ pc[t] = "push" /\ sess' = sess /\ call' = call
        /\ \/ pc' = [pc EXCEPT ![t] = "unlock"]
           \/ pc' = pc
           \/ /\ Head(todo[t]) \notin Elems(sess[call[t].sid].hosts)
              /\ pc' = [pc EXCEPT ![t] = "add"] /\ todo' = todo
        /\ todo' = todo \/ todo' = [todo EXCEPT ![t] = Tail(@)]
    BY <1>2 DEF SearchHost
  <2> QED BY <1>c, <2>1 DEF HostInv
<1>3. ASSUME NEW t \in Threads,
             \/ \E c \in Calls : LockShared(t, c) \/ LockExclusive(t, c)
             \/ Step(t) /\ ~AddHost(t) /\ ~SearchHost(t)
      PROVE  HostInv'
  <2>1. \A u \in Threads \ {t} : pc'[u] = pc[u] /\ todo'[u] = todo[u] /\ call'[u] = call[u]
    BY <1>3, <1>i DEF Step, LockShared, LockExclusive, Enter, Find, Insert, ReadCursor, Scan,
       MarkRead, Get, TrimStore, AppendMessage, CountMessage, WriteHostInfo, SetKillFlag,
       ClearSid, Clear, Return, localVars, TypeOK
  <2>2. pc'[t] \notin {"add", "hostinfo"}
    <3>1. pc[t] \notin {"add", "hostinfo"}
      BY <1>3 DEF HostInv, Step, LockShared, LockExclusive, Enter, Find, Insert, ReadCursor, Scan,
         MarkRead, Get, TrimStore, AppendMessage, CountMessage, WriteHostInfo, SetKillFlag,
         ClearSid, Clear, Return
    <3>2. CASE \E c \in Calls : LockShared(t, c) \/ LockExclusive(t, c)
      BY <1>c, <3>2 DEF LockShared, LockExclusive, Enter, FirstStep, SharedOps, ExclusiveOps
    <3>3. CASE Step(t) /\ ~AddHost(t) /\ ~SearchHost(t)
      BY <1>c, <3>1, <3>3 DEF Step, Find, Insert, ReadCursor, Scan,
         MarkRead, Get, TrimStore, AppendMessage, CountMessage, WriteHostInfo, SetKillFlag,
         ClearSid, Clear, Return
    <3> QED BY <1>3, <3>2, <3>3
  <2>3. CASE sess' = sess
    BY <2>1, <2>2, <2>3 DEF HostInv
  <2>4. CASE Insert(t) \/ MarkRead(t) \/ SetKillFlag(t) \/ ClearSid(t) \/ Clear(t)
    <3>1. \A s \in Sids : sess'[s].hosts = sess[s].hosts \/ sess'[s].hosts = <<>>
      <4>1. CASE Insert(t) BY <1>c, <4>1 DEF Insert, sessVars, Fresh
      <4>2. CASE MarkRead(t) BY <1>c, <4>2 DEF MarkRead, Marked, Record
      <4>3. CASE SetKillFlag(t) BY <1>c, <4>3 DEF SetKillFlag, Record
      <4>4. CASE ClearSid(t) BY <1>c, <4>4 DEF ClearSid, Emptied, Record
      <4>5. CASE Clear(t) BY <4>5 DEF Clear, Fresh
      <4> QED BY <2>4, <4>1, <4>2, <4>3, <4>4, <4>5
    <3>2. Unique(<<>>) BY DEF Unique
    <3>3. \A s \in Sids : Unique(sess'[s].hosts) BY <3>1, <3>2 DEF HostInv
    <3>4. pc[t] \in ReaderSteps \cup WriterSteps
      BY <2>4 DEF Insert, MarkRead, SetKillFlag, ClearSid, Clear, ReaderSteps, WriterSteps, Steps,
         ExclusiveOps
    <3>5. \A u \in Threads : pc[u] = "add" => u = t
      BY <1>i, <3>4, OneWriter DEF LockInv, WriterSteps, ReaderSteps, Steps
    <3> QED BY <2>1, <2>2, <3>3, <3>5 DEF HostInv
  <2>5. ~WriteHostInfo(t) BY DEF HostInv, WriteHostInfo
  <2> QED
    BY <1>3, <2>3, <2>4, <2>5 DEF Step, LockShared, LockExclusive, Find, ReadCursor, Scan, Get,
       TrimStore, AppendMessage, CountMessage, Return, sessVars
<1>4. CASE UNCHANGED vars
  BY <1>4 DEF vars, sessVars, localVars, HostInv
<1> QED BY <1>1, <1>2, <1>3, <1>4 DEF Next, Step

(* Whatever threads add hosts to, empty and forget the records of whatever  *)
(* sessions, no list holds a name twice.  WriteHostInfo would break this;   *)
(* nothing in the server calls it.                                          *)
THEOREM HostsStayUnique ==
    (\A c \in Calls : c.op # "hostinfo") => (Spec => []HostsUnique)
<1> SUFFICES ASSUME \A c \in Calls : c.op # "hostinfo" PROVE Spec => []HostsUnique
  OBVIOUS
<1>1. Init => HostInv
  BY DEF Init, HostInv, Unique, Fresh
<1>2. HostInv => HostsUnique
  BY DEF HostInv, HostsUnique, Unique
<1>3. Inductive /\ HostInv /\ [Next]_vars => HostInv'
  BY NextHosts
<1> QED BY <1>1, <1>2, <1>3, InvariantHolds, PTL DEF Spec

-----------------------------------------------------------------------------
(***************************************************************************)
(* What polls return, for any threads, sessions, calls and limits.          *)
(*                                                                          *)
(* First for any number of polling threads: however their steps interleave  *)
(* under the shared lock, a poll leaves none of the kept messages out.      *)
(* Then for a server whose pool has one thread, so that one thread polls:   *)
(* cursors only move forward, no message is sent twice, and the mailbox     *)
(* implements the abstract one of module Mailbox.                           *)
(***************************************************************************)

(* A thread that holds the lock shared is inside a method, one inside a     *)
(* method holds the lock, and only ReadFunction scans.                      *)
InsideInv ==
    /\ \A t \in readers : pc[t] # "idle"
    /\ \A t \in Threads : pc[t] # "idle" =>
          /\ call[t].op \in SharedOps => t \in readers
          /\ call[t].op \notin SharedOps => t \in writers
    /\ \A t \in Threads : pc[t] = "scan" => call[t].op = "read"

(* The message at place j of the store was received by s, or is number 0.   *)
Has(s, j) == store[j].msg > 0 => store[j].msg \in Received(s)

(* A cursor covers only what its session has received, and is behind the    *)
(* next message.                                                            *)
CursorCovers(s) ==
    /\ \A j \in DOMAIN store : store[j].i <= sess[s].i => Has(s, j)
    /\ sess[s].i <= 0 \/ sess[s].i < written

(* So does the copy of it a poll started from; what the poll's iterator has *)
(* passed was received, and so was what it is about to mark.                *)
PollCovers(t) ==
    LET s == call[t].sid IN
    /\ \A j \in DOMAIN store : store[j].i <= id[t] => Has(s, j)
    /\ \A j \in DOMAIN store : j < k[t] => Has(s, j)
    /\ pc[t] \in {"find", "insert", "use"} /\ k[t] > 0 => Has(s, k[t])
    /\ pc[t] = "unlock" => \A j \in DOMAIN store : Has(s, j)

CoverInv ==
    NoWrap => /\ \A s \in Sids : CursorCovers(s)
              /\ \A t \in readers : call[t].op = "read" => PollCovers(t)

-----------------------------------------------------------------------------
LEMMA NextInside == Inductive /\ InsideInv /\ [Next]_vars => InsideInv'
<1> SUFFICES ASSUME Inductive, InsideInv, [Next]_vars PROVE InsideInv'
  OBVIOUS
<1>i. TypeOK /\ LockInv BY DEF Inductive
<1> USE DEF InsideInv
<1>1. ASSUME NEW t \in Threads, NEW c \in Calls, LockShared(t, c) \/ LockExclusive(t, c)
      PROVE  InsideInv'
  <2>1. /\ pc' = [pc EXCEPT ![t] = FirstStep(c.op)] /\ call' = [call EXCEPT ![t] = c]
        /\ \/ c.op \in SharedOps /\ readers' = readers \cup {t} /\ writers' = writers
           \/ c.op \notin SharedOps /\ readers' = readers /\ writers' = writers \cup {t}
    BY <1>1 DEF LockShared, LockExclusive, Enter, SharedOps, ExclusiveOps
  <2>2. FirstStep(c.op) # "idle" /\ FirstStep(c.op) # "scan"
    BY <1>1 DEF LockShared, LockExclusive, FirstStep, SharedOps, ExclusiveOps
  <2> QED BY <1>i, <2>1, <2>2 DEF TypeOK
<1>2. ASSUME NEW t \in Threads, Return(t) PROVE InsideInv'
  BY <1>i, <1>2 DEF Return, localVars, TypeOK
<1>3. ASSUME NEW t \in Threads, Step(t), ~Return(t) PROVE InsideInv'
  <2>1. UNCHANGED <<readers, writers, call>>
    BY <1>3 DEF Step, Find, Insert, ReadCursor, Scan, MarkRead, Get, TrimStore, AppendMessage,
         CountMessage, SearchHost, AddHost, WriteHostInfo, SetKillFlag, ClearSid, Clear,
         lockVars, localVars
  <2>2. \/ pc' = pc
        \/ \E q \in Steps \ {"idle", "scan"} : pc' = [pc EXCEPT ![t] = q]
        \/ call[t].op = "read" /\ pc' = [pc EXCEPT ![t] = "scan"]
    BY <1>3 DEF Step, Find, Insert, ReadCursor, Scan, MarkRead, Get, TrimStore, AppendMessage,
         CountMessage, SearchHost, AddHost, WriteHostInfo, SetKillFlag, ClearSid, Clear,
         Steps, ExclusiveOps
  <2>3. /\ pc[t] # "idle"
        /\ \A u \in Threads : u # t => pc'[u] = pc[u]
        /\ pc'[t] = "scan" => call[t].op = "read"
    BY <1>i, <1>3, <2>2 DEF InsideInv, TypeOK, Step, Find, Insert, ReadCursor, Scan, MarkRead, Get,
       TrimStore, AppendMessage, CountMessage, SearchHost, AddHost, WriteHostInfo, SetKillFlag,
       ClearSid, Clear
  <2>4. pc'[t] # "idle" BY <1>i, <2>2, <2>3 DEF TypeOK
  <2> QED BY <1>i, <2>1, <2>3, <2>4 DEF TypeOK
<1>4. CASE UNCHANGED vars
  BY <1>4 DEF vars, lockVars, localVars
<1> QED BY <1>1, <1>2, <1>3, <1>4 DEF Next

(* The elements of a concatenation.                                         *)
LEMMA ConcatElements ==
    ASSUME NEW S, NEW a \in Seq(S), NEW b \in Seq(S)
    PROVE  Elems(a \o b) = Elems(a) \cup Elems(b)
<1>1. /\ Len(a) \in Nat /\ Len(b) \in Nat
      /\ DOMAIN a = 1 .. Len(a) /\ DOMAIN b = 1 .. Len(b)
      /\ DOMAIN (a \o b) = 1 .. Len(a) + Len(b)
  BY LenProperties, ConcatProperties
<1>2. \A j \in 1 .. Len(a) + Len(b) : (a \o b)[j] = IF j <= Len(a) THEN a[j] ELSE b[j - Len(a)]
  BY ConcatProperties
<1>3. Elems(a \o b) \subseteq Elems(a) \cup Elems(b)
  BY <1>1, <1>2 DEF Elems
<1>4. ASSUME NEW j \in DOMAIN a PROVE a[j] \in Elems(a \o b)
  <2>1. j \in 1 .. Len(a) + Len(b) /\ (a \o b)[j] = a[j] BY <1>1, <1>2
  <2> QED BY <1>1, <2>1 DEF Elems
<1>5. ASSUME NEW j \in DOMAIN b PROVE b[j] \in Elems(a \o b)
  <2>1. j + Len(a) \in 1 .. Len(a) + Len(b) /\ (a \o b)[j + Len(a)] = b[j] BY <1>1, <1>2
  <2> QED BY <1>1, <2>1 DEF Elems
<1> QED BY <1>3, <1>4, <1>5 DEF Elems

LEMMA StoreFacts ==
    ASSUME TypeOK
    PROVE  /\ Len(store) \in Nat /\ DOMAIN store = 1 .. Len(store)
           /\ \A j \in DOMAIN store : store[j].i \in Int /\ store[j].msg \in Nat
<1>1. store \in Seq(Message) BY DEF TypeOK
<1>2. Len(store) \in Nat /\ DOMAIN store = 1 .. Len(store) BY <1>1, LenProperties
<1>3. \A j \in DOMAIN store : store[j] \in Message BY <1>1, <1>2, ElementOfSeq
<1> QED BY <1>2, <1>3 DEF Message

(* What a session has received it has received for good.                    *)
LEMMA ReceivedGrows ==
    ASSUME Inductive, InsideInv, [Next]_vars, NEW s \in Sids
    PROVE  Received(s) \subseteq Received(s)'
<1>i. TypeOK BY DEF Inductive
<1>1. Received(s) = Elems(delivered[s]) \cup
        UNION {Elems(out[t]) : t \in {u \in readers : call[u].op = "read" /\ call[u].sid = s}}
  BY DEF Received
<1>2. ASSUME NEW t \in Threads, NEW c \in Calls, LockShared(t, c) \/ LockExclusive(t, c)
      PROVE  Received(s) \subseteq Received(s)'
  <2>1. /\ t \notin readers /\ delivered' = delivered /\ readers \subseteq readers'
        /\ \A u \in readers : out'[u] = out[u] /\ call'[u] = call[u]
    BY <1>i, <1>2 DEF LockShared, LockExclusive, Enter, InsideInv, TypeOK
  <2> QED BY <2>1 DEF Received
<1>3. ASSUME NEW t \in Threads, Return(t) PROVE Received(s) \subseteq Received(s)'
  <2>1. /\ delivered' = [delivered EXCEPT ![call[t].sid] =
                            IF call[t].op = "read" THEN @ \o out[t] ELSE @]
        /\ readers' = readers \ {t} /\ UNCHANGED <<call, out>>
    BY <1>3 DEF Return, localVars
  <2>2. /\ delivered[s] \in Seq(Nat) /\ out[t] \in Seq(Nat)
    BY <1>i DEF TypeOK
  <2>3. /\ Elems(delivered[s]) \subseteq Elems(delivered[s] \o out[t])
        /\ Elems(out[t]) \subseteq Elems(delivered[s] \o out[t])
    BY <2>2, ConcatElements
  <2>4. Elems(delivered[s]) \subseteq Elems(delivered'[s])
    BY <1>i, <2>1, <2>3 DEF TypeOK
  <2>5. call[t].op = "read" /\ call[t].sid = s => Elems(out[t]) \subseteq Elems(delivered'[s])
    BY <1>i, <2>1, <2>3 DEF TypeOK
  <2> QED BY <2>1, <2>4, <2>5 DEF Received
<1>4. ASSUME NEW t \in Threads, Scan(t) PROVE Received(s) \subseteq Received(s)'
  <2>1. /\ UNCHANGED <<readers, call, delivered>>
        /\ \/ out' = out
           \/ k[t] \in 1 .. Len(store) /\ out' = [out EXCEPT ![t] = Append(out[t], store[k[t]].msg)]
    BY <1>4, <1>i, LenProperties DEF Scan, lockVars, AtEnd, Inductive, IteratorInv, TypeOK
  <2>2. CASE out' = out
    BY <2>1, <2>2 DEF Received
  <2>3. CASE k[t] \in 1 .. Len(store) /\ out' = [out EXCEPT ![t] = Append(out[t], store[k[t]].msg)]
    <3>1. store[k[t]].msg \in Nat /\ out[t] \in Seq(Nat)
      BY <1>i, <2>3, StoreFacts DEF TypeOK
    <3>2. Elems(out[t]) \subseteq Elems(Append(out[t], store[k[t]].msg))
      BY <3>1, AppendProperties, LenProperties DEF Elems
    <3>3. \A u \in Threads : Elems(out[u]) \subseteq Elems(out'[u])
      BY <1>i, <2>3, <3>2 DEF TypeOK
    <3> QED BY <1>i, <2>1, <3>3 DEF Received, TypeOK
  <2> QED BY <2>1, <2>2, <2>3
<1>5. ASSUME NEW t \in Threads, Step(t), ~Return(t), ~Scan(t)
      PROVE  Received(s) \subseteq Received(s)'
  <2>1. UNCHANGED <<readers, call, out, delivered>>
    BY <1>5 DEF Step, Find, Insert, ReadCursor, MarkRead, Get, TrimStore, AppendMessage,
         CountMessage, SearchHost, AddHost, WriteHostInfo, SetKillFlag, ClearSid, Clear,
         lockVars, localVars
  <2> QED BY <2>1 DEF Received
<1>6. CASE UNCHANGED vars
  BY <1>6 DEF vars, lockVars, localVars, Received
<1> QED BY <1>2, <1>3, <1>4, <1>5, <1>6 DEF Next

LEMMA WrittenGrows ==
    ASSUME TypeOK, [Next]_vars
    PROVE  written' = written \/ written' = written + 1
BY DEF Next, vars, LockShared, LockExclusive, storeVars, Step, Find, Insert, ReadCursor, Scan,
   MarkRead, Get, TrimStore, AppendMessage, CountMessage, SearchHost, AddHost, WriteHostInfo,
   SetKillFlag, ClearSid, Clear, Return

PollInv == Inductive /\ InsideInv /\ NumbersInv /\ CoverInv

LEMMA PollInvFacts ==
    ASSUME PollInv, [Next]_vars, NoWrap'
    PROVE  /\ TypeOK /\ LockInv /\ IteratorInv /\ Inductive /\ InsideInv /\ TypeOK'
           /\ MaxInt \in Nat /\ written \in Nat /\ written' \in Nat /\ NoWrap
<1>1. TypeOK /\ LockInv /\ IteratorInv /\ Inductive /\ InsideInv /\ TypeOK'
  BY NextType DEF PollInv, Inductive
<1>2. written \in Nat /\ written' \in Nat BY <1>1 DEF TypeOK
<1>3. written' = written \/ written' = written + 1 BY <1>1, WrittenGrows
<1>4. MaxInt \in Nat BY BoundsAssumption
<1> QED BY <1>1, <1>2, <1>3, <1>4 DEF NoWrap

LEMMA NextCursor ==
    ASSUME PollInv, [Next]_vars, NoWrap', NEW s \in Sids
    PROVE  CursorCovers(s)'
<1>i. /\ TypeOK /\ LockInv /\ Inductive /\ InsideInv /\ TypeOK'
      /\ MaxInt \in Nat /\ written \in Nat /\ written' \in Nat /\ NoWrap
  BY PollInvFacts
<1>n. /\ ~Counting => kki = written
      /\ \A a \in DOMAIN store : store[a].i = store[a].msg /\ store[a].i < written
      /\ \A a, b \in DOMAIN store : a < b => store[a].i < store[b].i
      /\ CursorCovers(s)
      /\ \A t \in readers : call[t].op = "read" => PollCovers(t)
  BY <1>i DEF PollInv, NumbersInv, CoverInv
<1>s. /\ Len(store) \in Nat /\ DOMAIN store = 1 .. Len(store)
      /\ \A j \in DOMAIN store : store[j].i \in Int /\ store[j].msg \in Nat
  BY <1>i, StoreFacts
<1>r. Received(s) \subseteq Received(s)' BY <1>i, ReceivedGrows
<1>c. sess \in [Sids -> Record] /\ sess[s].i \in Int
  BY <1>i, RecordTypes DEF TypeOK
<1>1. ASSUME NEW t \in Threads, TrimStore(t) PROVE CursorCovers(s)'
  <2>1. PICK d \in {0, Drop} :
          /\ Len(store') = Len(store) - d
          /\ \A a \in 1 .. Len(store') : a + d \in 1 .. Len(store) /\ store'[a] = store[a + d]
    BY <1>i, <1>1, TrimmedElements DEF TrimStore, TypeOK
  <2>2. DOMAIN store' = 1 .. Len(store') BY <1>i, LenProperties DEF TypeOK
  <2>3. UNCHANGED <<sess, written>> BY <1>1 DEF TrimStore, sessVars
  <2> QED BY <1>n, <1>s, <1>r, <2>1, <2>2, <2>3 DEF CursorCovers, Has
<1>2. ASSUME NEW t \in Threads, AppendMessage(t) PROVE CursorCovers(s)'
  <2>1. /\ pc[t] = "append" /\ sess' = sess /\ written' = written + 1
        /\ store' = Append(store, [i |-> kki, msg |-> written])
    BY <1>2 DEF AppendMessage, sessVars
  <2>2. kki = written
    BY <1>i, <1>n, <2>1, OneWriter DEF Counting, WriterSteps, ReaderSteps, Steps
  <2>3. /\ DOMAIN store' = 1 .. Len(store) + 1
        /\ \A a \in 1 .. Len(store) : store'[a] = store[a]
        /\ store'[Len(store) + 1] = [i |-> written, msg |-> written]
    BY <1>i, <2>1, <2>2, AppendProperties, LenProperties DEF TypeOK, Message
  <2>4. ASSUME NEW j \in DOMAIN store', store'[j].i <= sess[s].i PROVE Has(s, j)'
    <3>1. CASE j \in 1 .. Len(store)
      BY <1>n, <1>s, <1>r, <2>3, <2>4, <3>1 DEF CursorCovers, Has
    <3>2. CASE j = Len(store) + 1
      <4>1. store'[j].msg = written /\ written <= sess[s].i BY <2>3, <2>4, <3>2
      <4>2. written = 0 BY <1>i, <1>n, <1>c, <4>1 DEF CursorCovers
      <4> QED BY <4>1, <4>2 DEF Has
    <3> QED BY <1>s, <2>3, <3>1, <3>2
  <2> QED BY <1>i, <1>n, <1>c, <2>1, <2>4 DEF CursorCovers
<1>3. ASSUME NEW t \in Threads, Clear(t) PROVE CursorCovers(s)'
  <2>1. DOMAIN store' = {} /\ sess'[s].i = 0 BY <1>3 DEF Clear, Fresh
  <2> QED BY <2>1 DEF CursorCovers
<1>4. ASSUME NEW t \in Threads, MarkRead(t) PROVE CursorCovers(s)'
  <2>1. /\ pc[t] = "use" /\ call[t].op = "read" /\ k[t] > 0
        /\ sess' = Marked(call[t].sid, k[t]) /\ UNCHANGED <<store, written>>
    BY <1>4 DEF MarkRead, storeVars
  <2>2. t \in readers /\ k[t] \in 1 .. Len(store)
    BY <1>i, <1>s, <2>1 DEF LockInv, ReaderSteps, Inductive, IteratorInv, TypeOK
  <2>3. CASE sess'[s] = sess[s]
    BY <1>n, <1>r, <2>1, <2>3 DEF CursorCovers, Has
  <2>4. CASE s = call[t].sid /\ sess'[s].i = store[k[t]].i
    <3>1. (\A j \in DOMAIN store : j < k[t] => Has(s, j)) /\ Has(s, k[t])
      BY <1>n, <2>1, <2>2, <2>4 DEF PollCovers
    <3>2. ASSUME NEW j \in DOMAIN store, store[j].i <= store[k[t]].i PROVE Has(s, j)
      <4>1. k[t] \in DOMAIN store /\ ~(k[t] < j) BY <1>n, <1>s, <2>2, <3>2
      <4>2. j < k[t] \/ j = k[t] BY <1>s, <2>2, <4>1
      <4> QED BY <3>1, <4>2
    <3> QED BY <1>n, <1>s, <1>r, <2>1, <2>2, <2>4, <3>2 DEF CursorCovers, Has
  <2> QED BY <1>c, <2>1, <2>3, <2>4 DEF Marked
<1>5. ASSUME NEW t \in Threads,
             \/ \E c \in Calls : LockShared(t, c) \/ LockExclusive(t, c)
             \/ /\ Step(t) /\ ~TrimStore(t) /\ ~AppendMessage(t) /\ ~Clear(t) /\ ~MarkRead(t)
      PROVE  CursorCovers(s)'
  <2>1. UNCHANGED <<store, written>>
    BY <1>5 DEF LockShared, LockExclusive, Step, Find, Insert, ReadCursor, Scan, Get,
       CountMessage, SearchHost, AddHost, WriteHostInfo, SetKillFlag, ClearSid, Return, storeVars
  <2>2. sess'[s].i = sess[s].i \/ sess'[s].i = 0
    <3>1. sess' = sess \/ Insert(t) \/ AddHost(t) \/ WriteHostInfo(t) \/ SetKillFlag(t) \/ ClearSid(t)
      BY <1>5 DEF LockShared, LockExclusive, Step, Find, ReadCursor, Scan, Get,
       CountMessage, SearchHost, Return, sessVars
    <3>2. CASE Insert(t) BY <1>c, <3>2 DEF Insert, sessVars, Fresh
    <3>3. CASE AddHost(t) BY <1>c, <3>3 DEF AddHost, Record
    <3>4. CASE WriteHostInfo(t) BY <1>c, <3>4 DEF WriteHostInfo, Record
    <3>5. CASE SetKillFlag(t) BY <1>c, <3>5 DEF SetKillFlag, Record
    <3>6. CASE ClearSid(t) BY <1>c, <3>6 DEF ClearSid, Emptied, Record
    <3> QED BY <3>1, <3>2, <3>3, <3>4, <3>5, <3>6
  <2> QED BY <1>n, <1>s, <1>r, <1>c, <2>1, <2>2 DEF CursorCovers, Has
<1>6. CASE UNCHANGED vars
  BY <1>n, <1>r, <1>6 DEF vars, storeVars, sessVars, CursorCovers, Has
<1> QED BY <1>1, <1>2, <1>3, <1>4, <1>5, <1>6 DEF Next, Step

LEMMA NextPoll ==
    ASSUME PollInv, [Next]_vars, NoWrap', NEW u \in readers', call'[u].op = "read"
    PROVE  PollCovers(u)'
<1>i. /\ TypeOK /\ LockInv /\ IteratorInv /\ Inductive /\ InsideInv /\ TypeOK'
      /\ MaxInt \in Nat /\ written \in Nat /\ written' \in Nat /\ NoWrap /\ u \in Threads
  <2>1. TypeOK' => readers' \subseteq Threads BY DEF TypeOK
  <2> QED BY <2>1, PollInvFacts
<1>n. /\ \A a \in DOMAIN store : store[a].i = store[a].msg /\ store[a].i < written
      /\ \A a, b \in DOMAIN store : a < b => store[a].i < store[b].i
      /\ \A s \in Sids : CursorCovers(s)
      /\ \A t \in readers : call[t].op = "read" => PollCovers(t)
  BY <1>i DEF PollInv, NumbersInv, CoverInv
<1>s. /\ Len(store) \in Nat /\ DOMAIN store = 1 .. Len(store)
      /\ \A j \in DOMAIN store : store[j].i \in Int /\ store[j].msg \in Nat
  BY <1>i, StoreFacts
<1>1. ASSUME NEW c \in Calls, LockShared(u, c) PROVE PollCovers(u)'
  <2>1. store' = store /\ id'[u] = 0 /\ k'[u] = 0 /\ pc'[u] = "find"
    BY <1>i, <1>1 DEF LockShared, Enter, FirstStep, storeVars, TypeOK
  <2>2. \A j \in DOMAIN store : store[j].i <= 0 => ~(store[j].msg > 0)
    BY <1>n, <1>s
  <2>3. \A j \in DOMAIN store : ~(j < 0) BY <1>s
  <2> QED BY <2>1, <2>2, <2>3 DEF PollCovers, Has
<1>2. ASSUME u \in readers, call'[u] = call[u], store' = store,
             \/ id'[u] = id[u] /\ k'[u] = k[u] /\ pc'[u] = pc[u]
             \/ \E t \in Threads : Step(t) /\ t = u
      PROVE  PollCovers(u)'
  <2>r. PICK s \in Sids : s = call[u].sid
    BY <1>i, <1>2, CallTypes DEF InsideInv, TypeOK
  <2> DEFINE G == {j \in DOMAIN store : Has(s, j)'}
  <2>1. PollCovers(u) /\ CursorCovers(s) /\ writers = {}
    BY <1>i, <1>n, <1>2 DEF LockInv
  <2>2. \A j \in DOMAIN store : Has(s, j) => j \in G
    BY <1>i, <1>2, ReceivedGrows DEF Has
  <2>g. ASSUME \A j \in DOMAIN store : store[j].i <= id'[u] => j \in G,
               \A j \in DOMAIN store : j < k'[u] => j \in G,
               pc'[u] \in {"find", "insert", "use"} /\ k'[u] > 0 => k'[u] \in G,
               pc'[u] = "unlock" => DOMAIN store \subseteq G
        PROVE  PollCovers(u)'
    <3>1. \A j \in G : store'[j].msg > 0 => store'[j].msg \in Received(s)'
      BY DEF Has
    <3>2. Received(s)' = Received(call[u].sid)'
      BY <1>2, <2>r DEF Received
    <3> QED BY <1>2, <2>g, <3>1, <3>2 DEF PollCovers, Has
  <2> HIDE DEF G
  <2>3. /\ \A j \in DOMAIN store : store[j].i <= id[u] => j \in G
        /\ \A j \in DOMAIN store : j < k[u] => j \in G
        /\ pc[u] \in {"find", "insert", "use"} /\ k[u] > 0 => k[u] \in G
        /\ pc[u] = "unlock" => DOMAIN store \subseteq G
    <3>1. pc[u] \in {"find", "insert", "use"} /\ k[u] > 0 => k[u] \in DOMAIN store
      BY <1>i, <1>s DEF IteratorInv
    <3>2. Received(s) = Received(call[u].sid)
      BY <2>r DEF Received
    <3> QED BY <2>1, <2>2, <3>1, <3>2 DEF PollCovers, Has
  <2>4. CASE id'[u] = id[u] /\ k'[u] = k[u] /\ pc'[u] = pc[u]
    BY <2>3, <2>4, <2>g
  <2>5. CASE Find(u) \/ Insert(u)
    <3>1. /\ id' = id /\ k' = k /\ pc[u] \in {"find", "insert"}
          /\ pc'[u] \in {"find", "insert", "use"}
      BY <1>i, <2>5 DEF Find, Insert, localVars, TypeOK
    <3> QED BY <2>3, <3>1, <2>g
  <2>6. CASE ReadCursor(u)
    <3>1. id'[u] = sess[s].i /\ k'[u] = 1 /\ pc'[u] = "scan"
      BY <1>i, <2>r, <2>6 DEF ReadCursor, TypeOK
    <3>2. \A j \in DOMAIN store : store[j].i <= id'[u] => j \in G
      BY <2>1, <2>2, <3>1 DEF CursorCovers
    <3>3. \A j \in DOMAIN store : ~(j < 1) BY <1>s
    <3> QED BY <3>1, <3>2, <3>3, <2>g
  <2>7. CASE Scan(u)
    <3>1. pc[u] = "scan" /\ k[u] \in 1 .. Len(store) + 1 /\ id' = id
      BY <1>i, <2>7 DEF Scan, IteratorInv
    <3>2. CASE AtEnd(k[u])
      <4>1. k' = k /\ pc'[u] = "unlock" BY <1>i, <2>7, <3>2 DEF Scan, TypeOK
      <4>2. \A j \in DOMAIN store : j < k[u] BY <1>s, <3>1, <3>2 DEF AtEnd
      <4> QED BY <2>3, <3>1, <4>1, <4>2, <2>g
    <3>3. CASE ~AtEnd(k[u]) /\ Covered(k[u], id[u])
      <4>1. k'[u] = k[u] + 1 /\ pc' = pc BY <1>i, <2>7, <3>3 DEF Scan, TypeOK
      <4>2. k[u] \in DOMAIN store /\ k[u] \in G
        BY <1>s, <2>3, <3>1, <3>3 DEF AtEnd, Covered
      <4>3. \A j \in DOMAIN store : j < k'[u] => j \in G
        BY <1>s, <2>3, <3>1, <4>1, <4>2
      <4> QED BY <2>3, <3>1, <4>1, <4>3, <2>g
    <3>4. CASE ~AtEnd(k[u]) /\ ~Covered(k[u], id[u])
      <4>1. /\ k' = k /\ pc'[u] = "find" /\ readers' = readers
            /\ out' = [out EXCEPT ![u] = Append(out[u], store[k[u]].msg)]
        BY <1>i, <2>7, <3>4 DEF Scan, TypeOK, lockVars
      <4>2. k[u] \in DOMAIN store BY <1>s, <3>1, <3>4 DEF AtEnd
      <4>3. store[k[u]].msg \in Elems(out'[u])
        <5>1. out[u] \in Seq(Nat) /\ store[k[u]].msg \in Nat BY <1>i, <1>s, <4>2 DEF TypeOK
        <5>2. out'[u] = Append(out[u], store[k[u]].msg) BY <1>i, <4>1 DEF TypeOK
        <5> QED BY <5>1, <5>2, AppendProperties, LenProperties DEF Elems
      <4>4. store[k[u]].msg \in Received(s)'
        BY <1>2, <2>r, <4>1, <4>3 DEF Received
      <4>5. k[u] \in G BY <1>2, <4>2, <4>4 DEF G, Has
      <4> QED BY <2>3, <3>1, <4>1, <4>5, <2>g
    <3> QED BY <3>2, <3>3, <3>4
  <2>8. CASE MarkRead(u)
    <3>1. /\ pc[u] = "use" /\ k[u] > 0 /\ k'[u] = k[u] + 1 /\ id' = id /\ pc'[u] = "scan"
      BY <1>i, <2>8 DEF MarkRead, TypeOK
    <3>2. k[u] \in DOMAIN store /\ k[u] \in G
      BY <1>i, <1>s, <2>3, <3>1 DEF IteratorInv, TypeOK
    <3>3. \A j \in DOMAIN store : j < k'[u] => j \in G
      BY <1>s, <2>3, <3>1, <3>2
    <3> QED BY <2>3, <3>1, <3>3, <2>g
  <2>9. ~Get(u) /\ ~Return(u)
    BY <1>i, <1>2 DEF Get, Return
  <2>10. pc[u] \notin WriterSteps BY <1>i, <2>1 DEF LockInv
  <2> QED
    BY <1>2, <2>4, <2>5, <2>6, <2>7, <2>8, <2>9, <2>10 DEF Step, TrimStore, AppendMessage,
       CountMessage, SearchHost, AddHost, WriteHostInfo, SetKillFlag, ClearSid, Clear,
       WriterSteps, ReaderSteps, Steps, ExclusiveOps
<1>3. ASSUME NEW t \in Threads, NEW c \in Calls, LockShared(t, c) \/ LockExclusive(t, c), t # u
      PROVE  PollCovers(u)'
  <2>1. /\ u \in readers /\ call'[u] = call[u] /\ store' = store
        /\ id'[u] = id[u] /\ k'[u] = k[u] /\ pc'[u] = pc[u]
    BY <1>i, <1>3 DEF LockShared, LockExclusive, Enter, storeVars, TypeOK
  <2> QED BY <1>2, <2>1
<1>4. ~(\E c \in Calls : LockExclusive(u, c))
  BY <1>i DEF LockExclusive, Unlocked
<1>5. ASSUME NEW t \in Threads, Step(t) PROVE PollCovers(u)'
  <2>1. u \in readers /\ call' = call
    BY <1>i, <1>5 DEF Step, Find, Insert, ReadCursor, Scan, MarkRead, Get, TrimStore,
       AppendMessage, CountMessage, SearchHost, AddHost, WriteHostInfo, SetKillFlag, ClearSid,
       Clear, Return, lockVars, localVars
  <2>2. store' = store BY <1>i, <2>1, ReadersFreezeStore
  <2>3. t # u => id'[u] = id[u] /\ k'[u] = k[u] /\ pc'[u] = pc[u]
    BY <1>i, <1>5 DEF Step, Find, Insert, ReadCursor, Scan, MarkRead, Get, TrimStore,
       AppendMessage, CountMessage, SearchHost, AddHost, WriteHostInfo, SetKillFlag, ClearSid,
       Clear, Return, localVars, TypeOK
  <2> QED BY <1>2, <1>5, <2>1, <2>2, <2>3
<1>6. CASE UNCHANGED vars
  BY <1>2, <1>6 DEF vars, lockVars, localVars, storeVars
<1> QED BY <1>1, <1>3, <1>4, <1>5, <1>6 DEF Next

LEMMA NextCover == PollInv /\ [Next]_vars => CoverInv'
<1> SUFFICES ASSUME PollInv, [Next]_vars, NoWrap' PROVE CoverInv'
  BY DEF CoverInv
<1> QED BY NextCursor, NextPoll DEF CoverInv

LEMMA PollInvInit == Init => PollInv
<1> SUFFICES ASSUME Init PROVE InsideInv /\ NumbersInv /\ CoverInv
  BY InitInductive DEF PollInv
<1> QED BY DEF Init, InsideInv, NumbersInv, Counting, CoverInv, CursorCovers, Fresh

LEMMA NextPollInv == PollInv /\ [Next]_vars => PollInv'
<1>1. Inductive /\ [Next]_vars => Inductive'
  BY NextType, NextLock, NextIterator DEF Inductive
<1> QED BY <1>1, NextInside, NextNumbers, NextCover DEF PollInv

LEMMA PollInvHolds == Spec => []PollInv
BY PollInvInit, NextPollInv, PTL DEF Spec

-----------------------------------------------------------------------------
(* Any number of threads may poll for the same session at once, insert its  *)
(* record twice and move its cursor in any order, forwards and backwards,   *)
(* while others post, trim and clear: a poll that returns leaves its        *)
(* session with every message that is still kept.                           *)
THEOREM PollsComplete == Spec => []PollComplete
<1>1. PollInv => PollComplete
  <2> SUFFICES ASSUME PollInv, NoWrap, NEW t \in readers, pc[t] = "unlock", call[t].op = "read",
                      NEW j \in DOMAIN store
               PROVE  Has(call[t].sid, j)
    BY DEF PollComplete, Has
  <2> QED BY DEF PollInv, CoverInv, PollCovers
<1> QED BY <1>1, PollInvHolds, PTL

-----------------------------------------------------------------------------
(***************************************************************************)
(* A server whose pool has one thread: it alone takes the lock shared.      *)
(***************************************************************************)
OnePolls == \A c, d \in Calls : c.op \in SharedOps /\ d.op \in SharedOps => c.by = d.by

Polls(t, s) == t \in readers /\ call[t].op = "read" /\ call[t].sid = s

(* What session s is not to receive any more: message 0, and what it has.   *)
Old(s, j) == store[j].msg = 0 \/ store[j].msg \in Elems(delivered[s])

(* The cursor covers exactly that, except while a poll moves it.            *)
CursorExact(s) == \A j \in DOMAIN store : store[j].i <= sess[s].i <=> Old(s, j)

(* How many messages of the store a poll has dealt with.                    *)
Passed(t) == IF pc[t] = "scan" THEN k[t] - 1
             ELSE IF pc[t] = "unlock" THEN Len(store) ELSE k[t]

(* A poll copies the messages from the first new one to where it is, and    *)
(* its session's cursor follows one step behind.                            *)
PollExact(t) ==
    LET s == call[t].sid
        n == Len(out[t])
        m == Passed(t)
    IN  /\ n <= m
        /\ \A a \in 1 .. n : out[t][a] = store[m - n + a].msg
        /\ \A j \in 1 .. m - n : Old(s, j)
        /\ \A j \in DOMAIN store : (j > m - n /\ j <= m) \/ (n > 0 /\ j > m) => ~Old(s, j)
        /\ k[t] > 0 => \A j \in DOMAIN store : store[j].i <= id[t] <=> Old(s, j)
        /\ k[t] > 0 /\ n = 0 => sess[s].i = id[t]
        /\ pc[t] \in {"scan", "unlock"} /\ n > 0 => sess[s].i = store[m].i
        /\ pc[t] \in {"find", "insert", "use"} /\ k[t] > 0 =>
              n > 0 /\ sess[s].i = IF n = 1 THEN id[t] ELSE store[m - 1].i
        /\ k[t] = 0 => n = 0

(* There is one reader, which finds the record it has just linked in.       *)
AloneInv ==
    /\ \A t \in readers : call[t] \in Calls /\ call[t].by = t /\ call[t].op \in SharedOps
    /\ \A t \in Threads : pc[t] = "insert" => call[t].sid \notin known
    /\ \A t \in Threads : pc[t] = "use" => call[t].sid \in known
    /\ \A s \in Sids \ known : sess[s].i = 0

(* A session has received no message twice.                                 *)
SessionExact(s) ==
    /\ \A m \in Elems(delivered[s]) : m < written
    /\ Unique(delivered[s])
    /\ sess[s].i >= 0
    /\ (\A t \in readers : Polls(t, s) => Len(out[t]) = 0) => CursorExact(s)

ExactInv ==
    NoWrap =>
        /\ \A s \in Sids : SessionExact(s)
        /\ \A t \in readers : call[t].op = "read" => PollExact(t)

LEMMA OneReader ==
    ASSUME OnePolls, AloneInv, NEW t \in readers, NEW u \in readers
    PROVE  t = u
BY DEF OnePolls, AloneInv

LEMMA NextAlone ==
    ASSUME OnePolls, Inductive, InsideInv, AloneInv, [Next]_vars
    PROVE  AloneInv'
<1>i. TypeOK /\ LockInv BY DEF Inductive
<1>c. sess \in [Sids -> Record] /\ pc \in [Threads -> Steps] /\ readers \subseteq Threads
  BY <1>i DEF TypeOK
<1> USE DEF AloneInv
<1>1. ASSUME NEW t \in Threads, NEW c \in Calls, LockShared(t, c) \/ LockExclusive(t, c)
      PROVE  AloneInv'
  <2>1. /\ pc[t] = "idle" /\ c.by = t /\ c \in Calls
        /\ pc' = [pc EXCEPT ![t] = FirstStep(c.op)] /\ call' = [call EXCEPT ![t] = c]
        /\ readers' = readers \/ (readers' = readers \cup {t} /\ c.op \in SharedOps)
        /\ UNCHANGED <<known, sess>>
    BY <1>1 DEF LockShared, LockExclusive, Enter, sessVars
  <2>2. FirstStep(c.op) # "insert" /\ FirstStep(c.op) # "use"
    BY <1>1 DEF LockShared, LockExclusive, FirstStep, SharedOps, ExclusiveOps
  <2>3. t \notin readers BY <2>1 DEF InsideInv
  <2>4. call \in [Threads -> CallType \cup {NoCall}] BY <1>i DEF TypeOK
  <2>5. \A u \in readers' : call'[u] \in Calls /\ call'[u].by = u /\ call'[u].op \in SharedOps
    BY <1>1, <1>c, <2>1, <2>3, <2>4 DEF LockShared, LockExclusive
  <2> QED BY <1>c, <2>1, <2>2, <2>4, <2>5
<1>2. ASSUME NEW t \in Threads, Insert(t) PROVE AloneInv'
  <2>1. /\ pc[t] = "insert" /\ pc' = [pc EXCEPT ![t] = "use"] /\ UNCHANGED <<readers, call>>
        /\ \/ known' = known \cup {call[t].sid} /\ sess' = [sess EXCEPT ![call[t].sid] = Fresh]
           \/ \E u \in Threads \ {t} : pc[u] = "insert"
    BY <1>2 DEF Insert, lockVars, localVars
  <2>2. \A u \in Threads : pc[u] \in ReaderSteps => u = t
    BY <1>i, <2>1, OneReader DEF LockInv, ReaderSteps
  <2>3. /\ known' = known \cup {call[t].sid} /\ sess' = [sess EXCEPT ![call[t].sid] = Fresh]
    BY <2>1, <2>2 DEF ReaderSteps
  <2> QED BY <1>c, <2>1, <2>2, <2>3 DEF ReaderSteps
<1>3. ASSUME NEW t \in Threads, Find(t) PROVE AloneInv'
  BY <1>c, <1>3 DEF Find, lockVars, sessVars, localVars
<1>4. ASSUME NEW t \in Threads,
             \/ TrimStore(t) \/ AppendMessage(t) \/ CountMessage(t) \/ SearchHost(t)
             \/ AddHost(t) \/ WriteHostInfo(t) \/ SetKillFlag(t) \/ ClearSid(t) \/ Clear(t)
      PROVE  AloneInv'
  <2>1. pc[t] \in WriterSteps /\ UNCHANGED <<readers, call>>
    BY <1>4 DEF WriterSteps, ReaderSteps, Steps, ExclusiveOps, TrimStore, AppendMessage,
         CountMessage, SearchHost, AddHost, WriteHostInfo, SetKillFlag, ClearSid, Clear,
         lockVars, localVars
  <2>2. \A u \in Threads : pc[u] \notin ReaderSteps
    BY <1>i, <2>1 DEF LockInv
  <2>3. \/ pc' = pc
        \/ \E q \in Steps \ ReaderSteps : pc' = [pc EXCEPT ![t] = q]
    BY <1>4 DEF ReaderSteps, Steps, ExclusiveOps, TrimStore, AppendMessage,
         CountMessage, SearchHost, AddHost, WriteHostInfo, SetKillFlag, ClearSid, Clear
  <2>4. \A u \in Threads : pc'[u] \notin ReaderSteps
    BY <1>c, <2>2, <2>3
  <2>5. call[t] \in CallType /\ call[t].sid \in Sids
    BY <1>i, <2>1, CallTypes DEF TypeOK, WriterSteps
  <2>6. \A s \in Sids \ known' : sess'[s].i = 0
    <3>1. CASE AddHost(t) BY <1>c, <2>5, <3>1 DEF AddHost, Record
    <3>2. CASE WriteHostInfo(t) BY <1>c, <2>5, <3>2 DEF WriteHostInfo, Record
    <3>3. CASE SetKillFlag(t) BY <1>c, <2>5, <3>3 DEF SetKillFlag, Record
    <3>4. CASE ClearSid(t) BY <1>c, <2>5, <3>4 DEF ClearSid, Emptied, Record
    <3>5. CASE Clear(t) BY <3>5 DEF Clear, Fresh
    <3>6. CASE SearchHost(t) BY <3>6 DEF SearchHost
    <3>7. CASE TrimStore(t) \/ AppendMessage(t) \/ CountMessage(t)
      BY <3>7 DEF TrimStore, AppendMessage, CountMessage, sessVars
    <3> QED BY <1>4, <3>1, <3>2, <3>3, <3>4, <3>5, <3>6, <3>7
  <2> QED BY <2>1, <2>4, <2>6 DEF ReaderSteps
<1>5. ASSUME NEW t \in Threads, ReadCursor(t) \/ Scan(t) \/ MarkRead(t) \/ Get(t)
      PROVE  AloneInv'
  <2>1. /\ UNCHANGED <<readers, call, known>>
        /\ pc' = pc \/ \E q \in Steps \ {"insert", "use"} : pc' = [pc EXCEPT ![t] = q]
    BY <1>5 DEF ReadCursor, Scan, MarkRead, Get, Steps, lockVars, localVars, sessVars
  <2>2. \A s \in Sids \ known : sess'[s] = sess[s]
    BY <1>c, <1>5 DEF ReadCursor, Scan, MarkRead, Get, sessVars, Marked
  <2> QED BY <1>c, <2>1, <2>2
<1>6. ASSUME NEW t \in Threads, Return(t) PROVE AloneInv'
  BY <1>c, <1>6 DEF Return, sessVars, localVars
<1>7. CASE UNCHANGED vars
  BY <1>7 DEF vars, lockVars, sessVars, localVars
<1> QED BY <1>1, <1>2, <1>3, <1>4, <1>5, <1>6, <1>7 DEF Next, Step

(* Between two steps of the poll that runs, nobody else's step matters.     *)
LEMMA NextPollExact ==
    ASSUME OnePolls, PollInv, AloneInv, ExactInv, [Next]_vars, NoWrap',
           NEW u \in readers', call'[u].op = "read"
    PROVE  PollExact(u)'
<1>i. /\ TypeOK /\ LockInv /\ IteratorInv /\ Inductive /\ InsideInv /\ TypeOK'
      /\ MaxInt \in Nat /\ written \in Nat /\ written' \in Nat /\ NoWrap /\ u \in Threads
  <2>1. TypeOK' => readers' \subseteq Threads BY DEF TypeOK
  <2> QED BY <2>1, PollInvFacts
<1>n. \A a, b \in DOMAIN store : a < b => store[a].i < store[b].i
  BY <1>i DEF PollInv, NumbersInv
<1>s. /\ Len(store) \in Nat /\ DOMAIN store = 1 .. Len(store)
      /\ \A j \in DOMAIN store : store[j].i \in Int /\ store[j].msg \in Nat
  BY <1>i, StoreFacts
<1>t. /\ pc \in [Threads -> Steps] /\ k \in [Threads -> Nat] /\ id \in [Threads -> Int]
      /\ out \in [Threads -> Seq(Nat)] /\ sess \in [Sids -> Record]
  BY <1>i DEF TypeOK
<1>1. ASSUME NEW c \in Calls, LockShared(u, c) PROVE PollExact(u)'
  <2>1. id'[u] = 0 /\ k'[u] = 0 /\ pc'[u] = "find" /\ out'[u] = <<>>
    BY <1>i, <1>1 DEF LockShared, Enter, FirstStep, TypeOK
  <2>2. Len(out'[u]) = 0 /\ Passed(u)' = 0 BY <2>1 DEF Passed
  <2>3. \A j \in DOMAIN store : ~(j <= 0) BY <1>s
  <2>4. store' = store BY <1>1 DEF LockShared, storeVars
  <2> QED BY <2>1, <2>2, <2>3, <2>4 DEF PollExact
<1>2. ASSUME u \in readers, call'[u] = call[u], store' = store, delivered' = delivered,
             \/ /\ id'[u] = id[u] /\ k'[u] = k[u] /\ pc'[u] = pc[u] /\ out'[u] = out[u]
                /\ sess' = sess
             \/ Find(u) \/ Insert(u) \/ ReadCursor(u) \/ Scan(u) \/ MarkRead(u)
      PROVE  PollExact(u)'
  <2>r. PICK s \in Sids : s = call[u].sid
    BY <1>i, <1>2, CallTypes DEF InsideInv, TypeOK
  <2> DEFINE O == {j \in DOMAIN store : Old(s, j)}
  <2>o. O \subseteq DOMAIN store /\ \A j \in DOMAIN store : Old(call[u].sid, j) <=> j \in O
    BY <2>r DEF Old
  <2>p. \A j \in DOMAIN store : Old(call[u].sid, j)' <=> j \in O
    BY <1>2, <2>r DEF Old
  <2>x. \A j \in DOMAIN store : Old(s, j) <=> j \in O
    BY DEF Old
  <2> HIDE DEF O
  <2>n. PICK n \in Nat : n = Len(out[u])
    <3>1. out[u] \in Seq(Nat) BY <1>t, <1>i
    <3> QED BY <3>1, LenProperties
  <2>q. pc[u] \in {"find", "insert", "use", "scan", "unlock"}
    BY <1>i, <1>t, <1>2 DEF InsideInv, LockInv, WriterSteps, ReaderSteps, Steps
  <2>m. PICK m \in 0 .. Len(store) : m = Passed(u)
    <3>1. /\ pc[u] = "scan" => k[u] \in 1 .. Len(store) + 1
          /\ pc[u] \in {"find", "insert", "use"} => k[u] \in 0 .. Len(store)
      BY <1>i DEF IteratorInv
    <3>2. Passed(u) \in 0 .. Len(store)
      <4>1. CASE pc[u] = "scan" BY <1>s, <3>1, <4>1 DEF Passed
      <4>2. CASE pc[u] = "unlock" BY <1>s, <4>2 DEF Passed
      <4>3. CASE pc[u] \in {"find", "insert", "use"} BY <3>1, <4>3 DEF Passed
      <4> QED BY <2>q, <4>1, <4>2, <4>3
    <3> QED BY <3>2
  <2> DEFINE Piece(n1, m1, o, i, kk, step, cursor) ==
        /\ n1 = Len(o) /\ n1 <= m1
        /\ \A a \in 1 .. n1 : o[a] = store[m1 - n1 + a].msg
        /\ \A j \in DOMAIN store : j <= m1 - n1 => j \in O
        /\ \A j \in DOMAIN store : (j > m1 - n1 /\ j <= m1) \/ (n1 > 0 /\ j > m1) => j \notin O
        /\ kk > 0 => \A j \in DOMAIN store : store[j].i <= i <=> j \in O
        /\ kk > 0 /\ n1 = 0 => cursor = i
        /\ step \in {"scan", "unlock"} /\ n1 > 0 => cursor = store[m1].i
        /\ step \in {"find", "insert", "use"} /\ kk > 0 =>
              n1 > 0 /\ cursor = IF n1 = 1 THEN i ELSE store[m1 - 1].i
        /\ kk = 0 => n1 = 0
  <2>1. Piece(n, m, out[u], id[u], k[u], pc[u], sess[s].i)
    <3>1. PollExact(u) BY <1>i, <1>2 DEF ExactInv
    <3>2. \A j \in DOMAIN store : j <= m - n <=> j \in 1 .. m - n BY <1>s, <2>m, <2>n
    <3> QED BY <3>1, <3>2, <2>o, <2>r, <2>n, <2>m DEF PollExact
  <2>g. ASSUME NEW n1 \in Nat, NEW m1 \in 0 .. Len(store), m1 = Passed(u)',
               Piece(n1, m1, out'[u], id'[u], k'[u], pc'[u], sess'[s].i)
        PROVE  PollExact(u)'
    <3>1. \A j \in 1 .. m1 - n1 : j \in DOMAIN store /\ j <= m1 - n1 BY <1>s, <2>g
    <3> QED BY <1>2, <2>r, <2>p, <2>g, <3>1 DEF PollExact
  <2>3. CASE /\ id'[u] = id[u] /\ k'[u] = k[u] /\ out'[u] = out[u] /\ sess'[s].i = sess[s].i
             /\ pc'[u] = pc[u] \/ {pc[u], pc'[u]} \subseteq {"find", "insert", "use"}
    <3>1. Passed(u)' = m BY <1>2, <2>3, <2>m DEF Passed
    <3>2. \/ pc[u] = pc'[u]
          \/ pc'[u] \in {"find", "insert", "use"} /\ pc[u] \in {"find", "insert", "use"}
      BY <2>3
    <3>3. Piece(n, m, out'[u], id'[u], k'[u], pc'[u], sess'[s].i)
      BY <2>1, <2>m, <2>n, <2>3, <3>2
    <3> QED BY <2>g, <3>1, <3>3
  <2>4. CASE Find(u) \/ Insert(u)
    <3>1. /\ id' = id /\ k' = k /\ out' = out /\ {pc[u], pc'[u]} \subseteq {"find", "insert", "use"}
      BY <1>t, <1>i, <2>4 DEF Find, Insert, localVars
    <3>2. sess'[s].i = sess[s].i
      <4>1. CASE Find(u) BY <4>1 DEF Find, sessVars
      <4>2. CASE Insert(u)
        <5>1. s \notin known => sess[s].i = 0 BY DEF AloneInv
        <5>2. pc[u] = "insert" /\ s \notin known BY <1>i, <2>r, <4>2 DEF Insert, AloneInv
        <5> QED BY <1>t, <2>r, <4>2, <5>1, <5>2 DEF Insert, sessVars, Fresh
      <4> QED BY <2>4, <4>1, <4>2
    <3> QED BY <2>3, <3>1, <3>2
  <2>5. CASE ReadCursor(u)
    <3>1. /\ id'[u] = sess[s].i /\ k'[u] = 1 /\ pc'[u] = "scan" /\ out' = out /\ sess' = sess
          /\ k[u] = 0
      BY <1>t, <1>i, <2>r, <2>5 DEF ReadCursor, sessVars
    <3>2. Passed(u)' = 0 BY <3>1 DEF Passed
    <3>3. n = 0 BY <2>1, <3>1
    <3>4. \A j \in DOMAIN store : store[j].i <= sess[s].i <=> j \in O
      <4>1. \A t \in readers : Polls(t, s) => Len(out[t]) = 0
        BY <1>2, <2>n, <3>3, OneReader
      <4>2. CursorExact(s) BY <1>i, <4>1 DEF ExactInv, SessionExact
      <4> QED BY <2>x, <4>2 DEF CursorExact
    <3>5. \A j \in DOMAIN store : ~(j <= 0) BY <1>s
    <3>6. 0 \in 0 .. Len(store) /\ 0 = Len(out'[u]) BY <1>s, <2>n, <3>1, <3>3
    <3>7. Piece(0, 0, out'[u], id'[u], k'[u], pc'[u], sess'[s].i)
      BY <3>1, <3>4, <3>5, <3>6
    <3> QED BY <2>g, <3>2, <3>6, <3>7
  <2>6. CASE Scan(u)
    <3>1. /\ pc[u] = "scan" /\ k[u] \in 1 .. Len(store) + 1 /\ id' = id /\ sess' = sess
          /\ m = k[u] - 1
      BY <1>i, <1>t, <2>6, <2>m DEF Scan, IteratorInv, sessVars, Passed
    <3>2. CASE AtEnd(k[u])
      <4>1. k' = k /\ pc'[u] = "unlock" /\ out' = out BY <1>i, <1>t, <2>6, <3>2 DEF Scan
      <4>2. m = Len(store) BY <1>s, <3>1, <3>2 DEF AtEnd
      <4>3. Passed(u)' = m BY <1>2, <4>1, <4>2 DEF Passed
      <4>4. Piece(n, m, out'[u], id'[u], k'[u], pc'[u], sess'[s].i)
        BY <2>1, <2>n, <2>m, <3>1, <4>1
      <4> QED BY <2>g, <4>3, <4>4
    <3>3. CASE ~AtEnd(k[u]) /\ Covered(k[u], id[u])
      <4>1. k'[u] = k[u] + 1 /\ pc' = pc /\ out' = out BY <1>i, <1>t, <2>6, <3>3 DEF Scan
      <4>2. k[u] \in DOMAIN store /\ k[u] > 0 /\ k[u] \in O
        BY <1>s, <2>1, <3>1, <3>3 DEF AtEnd, Covered
      <4>3. n = 0 BY <1>s, <2>1, <2>m, <3>1, <4>2
      <4>4. Passed(u)' = m + 1 BY <1>s, <3>1, <4>1 DEF Passed
      <4>5. m + 1 \in 0 .. Len(store) BY <1>s, <3>1, <4>2
      <4>6. \A j \in DOMAIN store : j <= m + 1 - 0 => j \in O
        BY <1>s, <2>1, <2>m, <3>1, <4>2, <4>3
      <4>7. \A j \in DOMAIN store : ~(j > m + 1 - 0 /\ j <= m + 1) BY <1>s
      <4>8. Piece(0, m + 1, out'[u], id'[u], k'[u], pc'[u], sess'[s].i)
        BY <1>s, <2>1, <2>n, <2>m, <3>1, <4>1, <4>3, <4>6, <4>7
      <4> QED BY <2>g, <4>4, <4>5, <4>8
    <3>4. CASE ~AtEnd(k[u]) /\ ~Covered(k[u], id[u])
      <4>1. /\ k' = k /\ pc'[u] = "find"
            /\ out' = [out EXCEPT ![u] = Append(out[u], store[k[u]].msg)]
        BY <1>i, <1>t, <2>6, <3>4 DEF Scan
      <4>2. k[u] \in DOMAIN store /\ ~(store[k[u]].i <= id[u]) /\ k[u] = m + 1
        BY <1>s, <3>1, <3>4 DEF AtEnd, Covered
      <4>3. out'[u] = Append(out[u], store[m + 1].msg) BY <1>i, <1>t, <4>1, <4>2
      <4>4. /\ Len(out'[u]) = n + 1 /\ out'[u][n + 1] = store[m + 1].msg
            /\ \A a \in 1 .. n : out'[u][a] = out[u][a]
        BY <1>i, <1>s, <1>t, <2>n, <4>2, <4>3, AppendProperties, LenProperties
      <4>5. Passed(u)' = m + 1 BY <4>1, <4>2 DEF Passed
      <4>6. m + 1 \in 1 .. Len(store) BY <1>s, <4>2
      <4>7. \A j \in DOMAIN store : j >= m + 1 => j \notin O
        <5>1. \A j \in DOMAIN store : j >= m + 1 => store[j].i >= store[m + 1].i
          BY <1>n, <1>s, <4>2
        <5>2. \A j \in DOMAIN store : j >= m + 1 => ~(store[j].i <= id[u])
          <6>1. id[u] \in Int BY <1>i, <1>t
          <6> QED BY <1>s, <4>2, <5>1, <6>1
        <5> QED BY <2>1, <3>1, <5>2
      <4>8. \A a \in 1 .. n + 1 : out'[u][a] = store[m + 1 - (n + 1) + a].msg
        <5>1. \A a \in 1 .. n : out'[u][a] = store[m - n + a].msg BY <2>1, <4>4
        <5>2. \A a \in 1 .. n + 1 : a \in 1 .. n \/ a = n + 1 OBVIOUS
        <5>3. \A a \in 1 .. n + 1 : m + 1 - (n + 1) + a = m - n + a BY <2>m, <2>n
        <5>4. m - n + (n + 1) = m + 1 BY <2>m, <2>n
        <5>5. \A a \in 1 .. n + 1 : out'[u][a] = store[m - n + a].msg BY <4>4, <5>1, <5>2, <5>4
        <5> QED BY <5>3, <5>5
      <4>9. \A j \in DOMAIN store : j <= m + 1 - (n + 1) => j \in O
        BY <1>s, <2>1, <2>m, <2>n
      <4>10. \A j \in DOMAIN store : j > m + 1 - (n + 1) => j \notin O
        BY <1>s, <2>1, <2>m, <2>n, <4>7
      <4>11. sess[s].i = IF n + 1 = 1 THEN id[u] ELSE store[m + 1 - 1].i
        <5>1. m + 1 - 1 = m /\ (n + 1 = 1 <=> n = 0) /\ (n # 0 <=> n > 0) BY <2>m, <2>n
        <5>2. k[u] > 0 BY <3>1
        <5>3. n = 0 => sess[s].i = id[u] BY <2>1, <5>2
        <5>4. n > 0 => sess[s].i = store[m].i BY <2>1, <3>1
        <5> QED BY <5>1, <5>3, <5>4
      <4>12. n + 1 \in Nat /\ n + 1 > 0 /\ n + 1 <= m + 1 /\ k[u] > 0 /\ k[u] # 0 /\ n + 1 # 0
        BY <1>s, <2>1, <2>m, <2>n, <3>1
      <4>13. Piece(n + 1, m + 1, out'[u], id'[u], k'[u], pc'[u], sess'[s].i)
        <5>1. \A j \in DOMAIN store : store[j].i <= id'[u] <=> j \in O BY <2>1, <3>1, <4>12
        <5>2. /\ sess'[s].i = IF n + 1 = 1 THEN id'[u] ELSE store[m + 1 - 1].i
              /\ pc'[u] = "find" /\ k'[u] = k[u]
          BY <1>t, <1>i, <3>1, <4>1, <4>11
        <5>3. \A j \in DOMAIN store :
                (j > m + 1 - (n + 1) /\ j <= m + 1) \/ (n + 1 > 0 /\ j > m + 1) => j \notin O
          BY <1>s, <2>m, <2>n, <2>1, <4>7, <4>10
        <5>4. /\ n + 1 = Len(out'[u]) /\ n + 1 <= m + 1 /\ k'[u] # 0 /\ n + 1 # 0
              /\ ~(pc'[u] \in {"scan", "unlock"}) /\ n + 1 > 0
          BY <4>4, <4>12, <5>2
        <5> HIDE DEF O
        <5>5. /\ n + 1 = Len(out'[u]) /\ n + 1 <= m + 1
              /\ \A a \in 1 .. n + 1 : out'[u][a] = store[m + 1 - (n + 1) + a].msg
              /\ \A j \in DOMAIN store : j <= m + 1 - (n + 1) => j \in O
              /\ \A j \in DOMAIN store :
                    (j > m + 1 - (n + 1) /\ j <= m + 1) \/ (n + 1 > 0 /\ j > m + 1) => j \notin O
          BY ONLY <4>8, <4>9, <5>3, <5>4
        <5>6. /\ k'[u] > 0 => \A j \in DOMAIN store : store[j].i <= id'[u] <=> j \in O
              /\ k'[u] > 0 /\ n + 1 = 0 => sess'[s].i = id'[u]
              /\ pc'[u] \in {"scan", "unlock"} /\ n + 1 > 0 => sess'[s].i = store[m + 1].i
              /\ pc'[u] \in {"find", "insert", "use"} /\ k'[u] > 0 =>
                    n + 1 > 0 /\ sess'[s].i = IF n + 1 = 1 THEN id'[u] ELSE store[m + 1 - 1].i
              /\ k'[u] = 0 => n + 1 = 0
          BY ONLY <5>1, <5>2, <5>4
        <5>7. PICK p, q : p = n + 1 /\ q = m + 1 OBVIOUS
        <5>8. Piece(p, q, out'[u], id'[u], k'[u], pc'[u], sess'[s].i) BY ONLY <5>5, <5>6, <5>7
        <5> QED BY <5>7, <5>8
      <4>14. m + 1 \in 0 .. Len(store) BY <4>6
      <4> QED BY <2>g, <4>5, <4>14, <4>12, <4>13
    <3> QED BY <3>2, <3>3, <3>4
  <2>7. CASE MarkRead(u)
    <3>1. /\ pc[u] = "use" /\ k[u] > 0 /\ k'[u] = k[u] + 1 /\ id' = id /\ pc'[u] = "scan"
          /\ out' = out /\ sess' = Marked(s, k[u]) /\ m = k[u]
      BY <1>i, <1>t, <2>r, <2>m, <2>7 DEF MarkRead, Passed
    <3>2. sess'[s].i = store[m].i
      BY <1>i, <1>t, <2>r, <3>1 DEF Marked, AloneInv, Record
    <3>3. Passed(u)' = m BY <1>s, <2>m, <3>1 DEF Passed
    <3>4. n > 0 BY <2>1, <3>1
    <3>5. Piece(n, m, out'[u], id'[u], k'[u], pc'[u], sess'[s].i)
      BY <1>s, <2>1, <2>m, <2>n, <3>1, <3>2, <3>4
    <3> QED BY <2>g, <3>3, <3>5
  <2> QED BY <1>2, <2>3, <2>4, <2>5, <2>6, <2>7
<1>3. ASSUME NEW t \in Threads, NEW c \in Calls, LockShared(t, c) \/ LockExclusive(t, c), t # u
      PROVE  PollExact(u)'
  <2>1. /\ u \in readers /\ call'[u] = call[u] /\ store' = store /\ delivered' = delivered
        /\ id'[u] = id[u] /\ k'[u] = k[u] /\ pc'[u] = pc[u] /\ out'[u] = out[u] /\ sess' = sess
    BY <1>i, <1>3 DEF LockShared, LockExclusive, Enter, storeVars, sessVars, TypeOK
  <2> QED BY <1>2, <2>1
<1>4. ~(\E c \in Calls : LockExclusive(u, c))
  BY <1>i DEF LockExclusive, Unlocked
<1>5. ASSUME NEW t \in Threads, Step(t) PROVE PollExact(u)'
  <2>1. u \in readers /\ call' = call /\ ~(Return(t) /\ t = u)
    BY <1>i, <1>5 DEF Step, Find, Insert, ReadCursor, Scan, MarkRead, Get, TrimStore,
       AppendMessage, CountMessage, SearchHost, AddHost, WriteHostInfo, SetKillFlag, ClearSid,
       Clear, Return, lockVars, localVars
  <2>2. store' = store BY <1>i, <2>1, ReadersFreezeStore
  <2>3. pc[t] \in ReaderSteps => t = u
    BY <1>i, <2>1, OneReader DEF LockInv
  <2>4. pc[t] \notin WriterSteps BY <1>i, <2>1 DEF LockInv
  <2>5. ~Return(t)
    BY <1>i, <2>1, OneReader DEF Return, InsideInv, LockInv
  <2>6. /\ delivered' = delivered /\ t = u
        /\ Find(t) \/ Insert(t) \/ ReadCursor(t) \/ Scan(t) \/ MarkRead(t) \/ Get(t)
    BY <1>5, <2>3, <2>4, <2>5 DEF Step, Find, Insert, ReadCursor, Scan, MarkRead, Get, TrimStore,
       AppendMessage, CountMessage, SearchHost, AddHost, WriteHostInfo, SetKillFlag, ClearSid,
       Clear, ReaderSteps, WriterSteps, Steps, ExclusiveOps
  <2>7. ~Get(u) BY <2>1 DEF Get
  <2> QED BY <1>2, <2>1, <2>2, <2>6, <2>7
<1>6. CASE UNCHANGED vars
  BY <1>2, <1>6 DEF vars, lockVars, localVars, storeVars, sessVars
<1> QED BY <1>1, <1>3, <1>4, <1>5, <1>6 DEF Next

(* Only a poll and a clear change the cursor of a session.                  *)
LEMMA CursorMoves ==
    ASSUME OnePolls, Inductive, AloneInv, NEW t \in Threads, Step(t), NEW s \in Sids
    PROVE  \/ sess'[s].i = sess[s].i
           \/ Clear(t) /\ sess'[s].i = 0
           \/ MarkRead(t) /\ call[t].sid = s /\ sess'[s].i = store[k[t]].i
<1>i. TypeOK /\ LockInv /\ sess \in [Sids -> Record] BY DEF Inductive, TypeOK
<1>1. \/ sess' = sess
      \/ Insert(t) \/ MarkRead(t) \/ AddHost(t) \/ WriteHostInfo(t) \/ SetKillFlag(t)
      \/ ClearSid(t) \/ Clear(t)
  BY DEF Step, Find, ReadCursor, Scan, Get, TrimStore, AppendMessage, CountMessage, SearchHost,
     Return, sessVars
<1>2. CASE Insert(t)
  <2>1. pc[t] = "insert" /\ call[t].sid \notin known BY <1>2 DEF Insert, AloneInv
  <2>2. s \notin known => sess[s].i = 0 BY DEF AloneInv
  <2> QED BY <1>i, <1>2, <2>1, <2>2 DEF Insert, sessVars, Fresh
<1>3. CASE MarkRead(t)
  BY <1>i, <1>3 DEF MarkRead, Marked, Record
<1>4. CASE AddHost(t) BY <1>i, <1>4 DEF AddHost, Record
<1>5. CASE WriteHostInfo(t) BY <1>i, <1>5 DEF WriteHostInfo, Record
<1>6. CASE SetKillFlag(t) BY <1>i, <1>6 DEF SetKillFlag, Record
<1>7. CASE ClearSid(t) BY <1>i, <1>7 DEF ClearSid, Emptied, Record
<1>8. CASE Clear(t) BY <1>8 DEF Clear, Fresh
<1> QED BY <1>1, <1>2, <1>3, <1>4, <1>5, <1>6, <1>7, <1>8

LEMMA ConcatUnique ==
    ASSUME NEW S, NEW a \in Seq(S), NEW b \in Seq(S), Unique(a), Unique(b),
           Elems(a) \cap Elems(b) = {}
    PROVE  Unique(a \o b)
<1>1. /\ Len(a) \in Nat /\ Len(b) \in Nat
      /\ DOMAIN a = 1 .. Len(a) /\ DOMAIN b = 1 .. Len(b)
      /\ DOMAIN (a \o b) = 1 .. Len(a) + Len(b)
      /\ \A j \in 1 .. Len(a) + Len(b) : (a \o b)[j] = IF j <= Len(a) THEN a[j] ELSE b[j - Len(a)]
  BY LenProperties, ConcatProperties
<1>2. \A i \in DOMAIN a, j \in DOMAIN b : a[i] # b[j] BY DEF Elems
<1>3. ASSUME NEW i \in 1 .. Len(a) + Len(b), NEW j \in 1 .. Len(a) + Len(b),
             (a \o b)[i] = (a \o b)[j], i <= j
      PROVE  i = j
  <2>1. CASE j <= Len(a) BY <1>1, <1>3, <2>1 DEF Unique
  <2>2. CASE i > Len(a)
    <3>1. i - Len(a) \in DOMAIN b /\ j - Len(a) \in DOMAIN b BY <1>1, <1>3, <2>2
    <3>2. b[i - Len(a)] = b[j - Len(a)] BY <1>1, <1>3, <2>2
    <3>3. i - Len(a) = j - Len(a) BY <3>1, <3>2 DEF Unique
    <3> QED BY <1>1, <3>3
  <2>3. CASE i <= Len(a) /\ j > Len(a)
    <3>1. i \in DOMAIN a /\ j - Len(a) \in DOMAIN b BY <1>1, <2>3
    <3> QED BY <1>1, <1>2, <1>3, <2>3, <3>1
  <2> QED BY <1>1, <2>1, <2>2, <2>3
<1> QED BY <1>1, <1>3 DEF Unique

(* What a poll that returns hands over is all that is new, in order.        *)
LEMMA ReturnExact ==
    ASSUME OnePolls, PollInv, AloneInv, ExactInv, NoWrap, NEW t \in Threads, Return(t),
           call[t].op = "read"
    PROVE  LET n == Len(out[t]) IN
           /\ t \in readers /\ n \in 0 .. Len(store)
           /\ \A a \in 1 .. n : out[t][a] = store[Len(store) - n + a].msg
           /\ \A j \in DOMAIN store : Old(call[t].sid, j) <=> j <= Len(store) - n
           /\ n > 0 => sess[call[t].sid].i = store[Len(store)].i
<1>i. TypeOK /\ InsideInv /\ out[t] \in Seq(Nat) BY DEF PollInv, Inductive, TypeOK
<1>s. Len(store) \in Nat /\ DOMAIN store = 1 .. Len(store) BY <1>i, StoreFacts
<1>n. PICK n \in Nat : n = Len(out[t]) BY <1>i, LenProperties
<1>1. t \in readers /\ pc[t] = "unlock" BY <1>i DEF Return, InsideInv, SharedOps
<1>2. PollExact(t) BY <1>1 DEF ExactInv
<1>3. PICK m \in Nat : m = Passed(t) /\ m = Len(store) BY <1>1, <1>s DEF Passed
<1>4. /\ n <= m
      /\ \A a \in 1 .. n : out[t][a] = store[m - n + a].msg
      /\ \A j \in 1 .. m - n : Old(call[t].sid, j)
      /\ \A j \in DOMAIN store : j > m - n /\ j <= m => ~Old(call[t].sid, j)
      /\ n > 0 => sess[call[t].sid].i = store[m].i
  BY <1>1, <1>2, <1>3, <1>n DEF PollExact
<1>5. ASSUME NEW j \in DOMAIN store PROVE Old(call[t].sid, j) <=> j <= m - n
  <2>1. j \in 1 .. m BY <1>s, <1>3
  <2>2. j <= m - n => j \in 1 .. m - n BY <2>1
  <2>3. ~(j <= m - n) => j > m - n /\ j <= m BY <2>1, <1>n
  <2> QED BY <1>4, <2>2, <2>3
<1>6. n \in 0 .. m /\ Len(store) = m BY <1>3, <1>4
<1> QED BY <1>1, <1>4, <1>5, <1>6, <1>n

LEMMA NextSession ==
    ASSUME OnePolls, PollInv, AloneInv, ExactInv, [Next]_vars, NoWrap', NEW s \in Sids
    PROVE  SessionExact(s)'
<1>i. /\ TypeOK /\ LockInv /\ IteratorInv /\ Inductive /\ InsideInv /\ TypeOK'
      /\ MaxInt \in Nat /\ written \in Nat /\ written' \in Nat /\ NoWrap
  BY PollInvFacts
<1>n. /\ ~Counting => kki = written
      /\ \A a \in DOMAIN store : store[a].i = store[a].msg /\ store[a].i < written
      /\ \A a, b \in DOMAIN store : a < b => store[a].i < store[b].i
      /\ SessionExact(s) /\ CursorCovers(s)
  BY <1>i DEF PollInv, NumbersInv, ExactInv, CoverInv
<1>s. /\ Len(store) \in Nat /\ DOMAIN store = 1 .. Len(store)
      /\ \A j \in DOMAIN store : store[j].i \in Int /\ store[j].msg \in Nat
  BY <1>i, StoreFacts
<1>t. /\ pc \in [Threads -> Steps] /\ out \in [Threads -> Seq(Nat)] /\ sess \in [Sids -> Record]
      /\ delivered \in [Sids -> Seq(Nat)] /\ readers \subseteq Threads /\ sess[s].i \in Int
  BY <1>i, RecordTypes DEF TypeOK
<1>w. written' = written \/ written' = written + 1 BY <1>i, WrittenGrows
<1>g. ASSUME delivered'[s] = delivered[s], sess'[s].i >= 0,
             (\A t \in readers' : Polls(t, s)' => Len(out'[t]) = 0) => CursorExact(s)'
      PROVE  SessionExact(s)'
  <2>1. \A m \in Elems(delivered[s]) : m < written'
    <3>1. Elems(delivered[s]) \subseteq Nat
      BY <1>t, LenProperties, ElementOfSeq DEF Elems
    <3> QED BY <1>i, <1>n, <1>w, <3>1 DEF SessionExact
  <2> QED BY <1>g, <1>n, <2>1 DEF SessionExact, Unique, Elems
<1>e. ASSUME store' = store, delivered'[s] = delivered[s], sess'[s].i = sess[s].i
      PROVE  CursorExact(s) => CursorExact(s)'
  BY <1>e DEF CursorExact, Old
<1>1. ASSUME NEW t \in Threads, NEW c \in Calls, LockShared(t, c) \/ LockExclusive(t, c)
      PROVE  SessionExact(s)'
  <2>1. /\ store' = store /\ delivered' = delivered /\ sess' = sess /\ t \notin readers
        /\ readers \subseteq readers'
        /\ \A u \in readers : call'[u] = call[u] /\ out'[u] = out[u]
    BY <1>i, <1>1 DEF LockShared, LockExclusive, Enter, storeVars, sessVars, InsideInv, TypeOK
  <2>2. (\A u \in readers' : Polls(u, s)' => Len(out'[u]) = 0)
           => \A u \in readers : Polls(u, s) => Len(out[u]) = 0
    BY <2>1 DEF Polls
  <2> QED BY <1>n, <1>g, <1>e, <2>1, <2>2 DEF SessionExact
<1>2. ASSUME NEW t \in Threads, Return(t) PROVE SessionExact(s)'
  <2>1. /\ delivered' = [delivered EXCEPT ![call[t].sid] =
                            IF call[t].op = "read" THEN @ \o out[t] ELSE @]
        /\ readers' = readers \ {t} /\ UNCHANGED <<store, written, sess, call, out>>
    BY <1>2 DEF Return, localVars, storeVars, sessVars
  <2>2. CASE ~(call[t].op = "read" /\ call[t].sid = s)
    <3>1. delivered'[s] = delivered[s] BY <1>t, <2>1, <2>2
    <3>2. (\A u \in readers' : Polls(u, s)' => Len(out'[u]) = 0)
             => \A u \in readers : Polls(u, s) => Len(out[u]) = 0
      BY <2>1, <2>2 DEF Polls
    <3> QED BY <1>n, <1>g, <1>e, <2>1, <3>1, <3>2 DEF SessionExact
  <2>3. CASE call[t].op = "read" /\ call[t].sid = s
    <3>n. PICK n \in Nat : n = Len(out[t])
      <4>1. out[t] \in Seq(Nat) BY <1>t
      <4> QED BY <4>1, LenProperties
    <3>1. /\ t \in readers /\ n \in 0 .. Len(store)
          /\ \A a \in 1 .. n : out[t][a] = store[Len(store) - n + a].msg
          /\ \A j \in DOMAIN store : Old(s, j) <=> j <= Len(store) - n
          /\ n > 0 => sess[s].i = store[Len(store)].i
      BY <1>i, <1>2, <2>3, <3>n, ReturnExact
    <3>2. out[t] \in Seq(Nat) /\ delivered[s] \in Seq(Nat) /\ DOMAIN out[t] = 1 .. n
      BY <1>t, <3>n, LenProperties
    <3>3. delivered'[s] = delivered[s] \o out[t] BY <1>t, <2>1, <2>3
    <3>4. Elems(delivered'[s]) = Elems(delivered[s]) \cup Elems(out[t])
      BY <3>2, <3>3, ConcatElements
    <3>p. \A a \in 1 .. n : /\ Len(store) - n + a \in DOMAIN store
                            /\ ~(Len(store) - n + a <= Len(store) - n)
      BY <1>s, <3>1
    <3>5. \A m \in Elems(out[t]) : m < written /\ m \notin Elems(delivered[s])
      <4>1. ASSUME NEW a \in 1 .. n PROVE out[t][a] < written /\ out[t][a] \notin Elems(delivered[s])
        <5>1. ~Old(s, Len(store) - n + a) BY <3>1, <3>p
        <5> QED BY <1>n, <3>1, <3>p, <5>1 DEF Old
      <4> QED BY <3>2, <4>1 DEF Elems
    <3>6. Unique(out[t])
      <4> SUFFICES ASSUME NEW a \in 1 .. n, NEW b \in 1 .. n, out[t][a] = out[t][b], a < b
                   PROVE  FALSE
        <5>1. ASSUME NEW a \in 1 .. n, NEW b \in 1 .. n, out[t][a] = out[t][b]
              PROVE  a < b \/ b < a \/ a = b
          OBVIOUS
        <5> QED BY <3>2, <5>1 DEF Unique
      <4>1. store[Len(store) - n + a].i < store[Len(store) - n + b].i
        <5>1. Len(store) - n + a < Len(store) - n + b BY <1>s
        <5> QED BY <1>n, <3>p, <5>1
      <4>2. store[Len(store) - n + a].msg = store[Len(store) - n + b].msg BY <3>1
      <4> QED BY <1>n, <1>s, <3>p, <4>1, <4>2
    <3>7. Unique(delivered'[s])
      <4>1. Unique(delivered[s]) /\ Elems(delivered[s]) \cap Elems(out[t]) = {}
        BY <1>n, <3>5 DEF SessionExact
      <4> QED BY <3>2, <3>3, <3>6, <4>1, ConcatUnique
    <3>8. \A m \in Elems(delivered'[s]) : m < written'
      BY <1>n, <2>1, <3>4, <3>5 DEF SessionExact
    <3>9. CursorExact(s)'
      <4>1. CASE n = 0
        <5>1. \A u \in readers : Polls(u, s) => Len(out[u]) = 0
          BY <3>n, <3>1, <4>1, OneReader
        <5>2. Elems(delivered'[s]) = Elems(delivered[s])
          <6>1. DOMAIN out[t] = {} BY <3>2, <4>1
          <6>2. Elems(out[t]) = {} BY <6>1 DEF Elems
          <6> QED BY <3>4, <6>2
        <5>3. CursorExact(s) BY <1>n, <5>1 DEF SessionExact
        <5> QED BY <2>1, <5>2, <5>3 DEF CursorExact, Old
      <4>2. CASE n > 0
        <5>1. ASSUME NEW j \in DOMAIN store
              PROVE  store[j].msg = 0 \/ store[j].msg \in Elems(delivered'[s])
          <6>1. CASE j <= Len(store) - n BY <3>1, <3>4, <6>1 DEF Old
          <6>2. CASE ~(j <= Len(store) - n)
            <7>1. PICK a \in 1 .. n : j = Len(store) - n + a
              <8>1. j - (Len(store) - n) \in 1 .. n /\ j = Len(store) - n + (j - (Len(store) - n))
                BY <1>s, <3>1, <6>2
              <8> QED BY <8>1
            <7> QED BY <3>1, <3>2, <3>4, <7>1 DEF Elems
          <6> QED BY <6>1, <6>2
        <5>2. \A j \in DOMAIN store : store[j].i <= sess[s].i
          <6>1. Len(store) \in DOMAIN store BY <1>s, <3>1, <4>2
          <6>2. \A j \in DOMAIN store : j < Len(store) \/ j = Len(store) BY <1>s
          <6>3. \A j \in DOMAIN store : j < Len(store) => store[j].i < store[Len(store)].i
            BY <1>n, <6>1
          <6>4. sess[s].i = store[Len(store)].i BY <3>1, <4>2
          <6>5. ASSUME NEW j \in DOMAIN store PROVE store[j].i <= store[Len(store)].i
            <7>1. CASE j < Len(store) BY <1>s, <6>1, <6>3, <7>1
            <7>2. CASE j = Len(store) BY <1>s, <6>1, <7>2
            <7> QED BY <6>2, <7>1, <7>2
          <6> QED BY <6>4, <6>5
        <5> QED BY <2>1, <5>1, <5>2 DEF CursorExact, Old
      <4> QED BY <4>1, <4>2
    <3> QED BY <1>n, <2>1, <3>7, <3>8, <3>9 DEF SessionExact
  <2> QED BY <2>2, <2>3
<1>3. ASSUME NEW t \in Threads, TrimStore(t) \/ AppendMessage(t) \/ Clear(t)
      PROVE  SessionExact(s)'
  <2>1. pc[t] \in WriterSteps /\ readers' = readers /\ delivered' = delivered
    BY <1>3 DEF TrimStore, AppendMessage, Clear, WriterSteps, ReaderSteps, Steps, ExclusiveOps,
       lockVars
  <2>2. readers = {} BY <1>i, <2>1 DEF LockInv
  <2>3. CursorExact(s) BY <1>n, <2>2 DEF SessionExact
  <2>4. CASE TrimStore(t)
    <3>1. PICK d \in {0, Drop} :
            /\ Len(store') = Len(store) - d
            /\ \A a \in 1 .. Len(store') : a + d \in 1 .. Len(store) /\ store'[a] = store[a + d]
      BY <1>i, <2>4, TrimmedElements DEF TrimStore, TypeOK
    <3>2. DOMAIN store' = 1 .. Len(store') BY <1>i, LenProperties DEF TypeOK
    <3>3. UNCHANGED sess BY <2>4 DEF TrimStore, sessVars
    <3>4. CursorExact(s)'
      BY <1>s, <2>1, <2>3, <3>1, <3>2, <3>3 DEF CursorExact, Old
    <3> QED BY <1>g, <1>n, <2>1, <3>3, <3>4 DEF SessionExact
  <2>5. CASE AppendMessage(t)
    <3>1. /\ pc[t] = "append" /\ sess' = sess
          /\ store' = Append(store, [i |-> kki, msg |-> written])
      BY <2>5 DEF AppendMessage, sessVars
    <3>2. kki = written
      BY <1>i, <1>n, <3>1, OneWriter DEF Counting, WriterSteps, ReaderSteps, Steps
    <3>3. /\ DOMAIN store' = 1 .. Len(store) + 1
          /\ \A a \in 1 .. Len(store) : store'[a] = store[a]
          /\ store'[Len(store) + 1] = [i |-> written, msg |-> written]
      BY <1>i, <3>1, <3>2, AppendProperties, LenProperties DEF TypeOK, Message
    <3>4. sess[s].i >= 0 /\ (sess[s].i <= 0 \/ sess[s].i < written) /\ written \notin Elems(delivered[s])
      BY <1>i, <1>n DEF SessionExact, CursorCovers
    <3>5. written <= sess[s].i <=> written = 0 BY <1>i, <1>t, <3>4
    <3>6. ASSUME NEW j \in DOMAIN store'
          PROVE  store'[j].i <= sess'[s].i <=> store'[j].msg = 0 \/ store'[j].msg \in Elems(delivered'[s])
      <4>1. CASE j \in 1 .. Len(store)
        BY <1>s, <2>1, <2>3, <3>1, <3>3, <4>1 DEF CursorExact, Old
      <4>2. CASE j = Len(store) + 1
        BY <2>1, <3>1, <3>3, <3>4, <3>5, <4>2
      <4> QED BY <1>s, <3>3, <4>1, <4>2
    <3>7. CursorExact(s)' BY <3>6 DEF CursorExact, Old
    <3> QED BY <1>g, <1>n, <2>1, <3>1, <3>7 DEF SessionExact
  <2>6. CASE Clear(t)
    <3>1. DOMAIN store' = {} /\ sess'[s].i = 0 BY <2>6 DEF Clear, Fresh
    <3>2. CursorExact(s)' BY <3>1 DEF CursorExact
    <3> QED BY <1>g, <2>1, <3>1, <3>2
  <2> QED BY <1>3, <2>4, <2>5, <2>6
<1>4. ASSUME NEW t \in Threads, Step(t), ~Return(t), ~TrimStore(t), ~AppendMessage(t), ~Clear(t)
      PROVE  SessionExact(s)'
  <2>1. UNCHANGED <<store, readers, call, delivered>>
    BY <1>4 DEF Step, Find, Insert, ReadCursor, Scan, MarkRead, Get, CountMessage, SearchHost,
       AddHost, WriteHostInfo, SetKillFlag, ClearSid, lockVars, storeVars, localVars
  <2>2. \A u \in Threads : Len(out'[u]) = 0 => Len(out[u]) = 0
    <3>1. CASE Scan(t)
      <4>1. \/ out' = out
            \/ k[t] \in 1 .. Len(store) /\ out' = [out EXCEPT ![t] = Append(out[t], store[k[t]].msg)]
        BY <3>1, <1>i, <1>s DEF Scan, AtEnd, IteratorInv
      <4>2. k[t] \in 1 .. Len(store) => Len(Append(out[t], store[k[t]].msg)) # 0
        BY <1>s, <1>t, AppendProperties, LenProperties
      <4> QED BY <1>t, <4>1, <4>2
    <3>2. CASE ~Scan(t)
      <4>1. out' = out
        BY <1>4, <3>2 DEF Step, Find, Insert, ReadCursor, MarkRead, Get, CountMessage, SearchHost,
           AddHost, WriteHostInfo, SetKillFlag, ClearSid, localVars
      <4> QED BY <4>1
    <3> QED BY <3>1, <3>2
  <2>3. (\A u \in readers' : Polls(u, s)' => Len(out'[u]) = 0)
           => \A u \in readers : Polls(u, s) => Len(out[u]) = 0
    BY <1>t, <2>1, <2>2 DEF Polls
  <2>4. CASE sess'[s].i = sess[s].i
    BY <1>n, <1>g, <1>e, <2>1, <2>3, <2>4 DEF SessionExact
  <2>5. CASE MarkRead(t) /\ call[t].sid = s /\ sess'[s].i = store[k[t]].i
    <3>1. pc[t] = "use" /\ call[t].op = "read" /\ k[t] > 0 BY <2>5 DEF MarkRead
    <3>2. t \in readers /\ k[t] \in DOMAIN store
      BY <1>i, <1>s, <3>1 DEF LockInv, ReaderSteps, IteratorInv, TypeOK
    <3>3. sess'[s].i >= 0 BY <1>n, <1>s, <2>5, <3>2
    <3>4. Polls(t, s) /\ Len(out[t]) # 0
      <4>1. PollExact(t) BY <1>i, <3>1, <3>2 DEF ExactInv
      <4>2. Len(out[t]) > 0 BY <3>1, <4>1 DEF PollExact
      <4> QED BY <2>5, <3>1, <3>2, <4>2 DEF Polls
    <3> QED BY <1>g, <2>1, <2>3, <3>2, <3>3, <3>4
  <2> QED BY <1>i, <1>4, <2>4, <2>5, CursorMoves
<1>5. CASE UNCHANGED vars
  <2>1. UNCHANGED <<store, readers, call, delivered, out, sess>>
    BY <1>5 DEF vars, lockVars, storeVars, sessVars, localVars
  <2>2. (\A u \in readers' : Polls(u, s)' => Len(out'[u]) = 0)
           => \A u \in readers : Polls(u, s) => Len(out[u]) = 0
    BY <2>1 DEF Polls
  <2> QED BY <1>n, <1>g, <1>e, <2>1, <2>2 DEF SessionExact
<1> QED BY <1>1, <1>2, <1>3, <1>4, <1>5 DEF Next

SingleInv == PollInv /\ AloneInv /\ ExactInv

LEMMA SingleHolds == ASSUME OnePolls PROVE Spec => []SingleInv
<1>1. Init => SingleInv
  <2> SUFFICES ASSUME Init PROVE AloneInv /\ ExactInv
    BY PollInvInit DEF SingleInv
  <2>1. AloneInv BY DEF Init, AloneInv, Fresh
  <2>2. ASSUME NEW s \in Sids PROVE SessionExact(s)
    <3>1. DOMAIN delivered[s] = {} /\ DOMAIN store = {} /\ sess[s].i = 0
      BY DEF Init, Fresh
    <3> QED BY <3>1 DEF SessionExact, Unique, Elems, CursorExact
  <2> QED BY <2>1, <2>2 DEF Init, ExactInv
<1>2. SingleInv /\ [Next]_vars => SingleInv'
  <2> SUFFICES ASSUME SingleInv, [Next]_vars PROVE SingleInv'
    OBVIOUS
  <2>1. PollInv' /\ AloneInv'
    BY NextPollInv, NextAlone DEF SingleInv, PollInv
  <2>2. ASSUME NoWrap' PROVE ExactInv'
    BY <2>2, NextPollExact, NextSession DEF SingleInv, ExactInv
  <2>3. ExactInv' BY <2>2 DEF ExactInv
  <2> QED BY <2>1, <2>3 DEF SingleInv
<1> QED BY <1>1, <1>2, PTL DEF Spec

(* With one polling thread no message is sent to a session twice.           *)
THEOREM NoMessageTwice == OnePolls => (Spec => [](NoWrap => AtMostOnce))
<1> SUFFICES ASSUME OnePolls PROVE Spec => [](NoWrap => AtMostOnce)
  OBVIOUS
<1>1. SingleInv => (NoWrap => AtMostOnce)
  BY DEF SingleInv, ExactInv, SessionExact, Unique, AtMostOnce
<1> QED BY <1>1, SingleHolds, PTL

(* The bound on the messages ever posted keeps their number from wrapping.  *)
CountInv ==
    /\ written <= MaxWrites
    /\ \A t \in Threads : pc[t] \in {"trim", "append"} => written < MaxWrites

LEMMA NextCount == Inductive /\ CountInv /\ [Next]_vars => CountInv'
<1> SUFFICES ASSUME Inductive, CountInv, [Next]_vars PROVE CountInv'
  OBVIOUS
<1>i. TypeOK /\ LockInv /\ pc \in [Threads -> Steps] /\ written \in Nat /\ MaxWrites \in Nat
  BY BoundsAssumption DEF Inductive, TypeOK
<1>1. ASSUME NEW t \in Threads, NEW c \in Calls, LockShared(t, c) \/ LockExclusive(t, c)
      PROVE  CountInv'
  <2>1. /\ written' = written /\ pc' = [pc EXCEPT ![t] = FirstStep(c.op)]
        /\ FirstStep(c.op) \in {"trim", "append"} => written < MaxWrites
    BY <1>1 DEF LockShared, LockExclusive, Enter, storeVars, FirstStep, SharedOps, ExclusiveOps
  <2> QED BY <1>i, <2>1 DEF CountInv
<1>2. ASSUME NEW t \in Threads, AppendMessage(t) PROVE CountInv'
  <2>1. /\ pc[t] = "append" /\ pc' = [pc EXCEPT ![t] = "count"] /\ written' = written + 1
    BY <1>2 DEF AppendMessage
  <2>2. \A u \in Threads : pc[u] \in {"trim", "append"} => u = t
    BY <1>i, <2>1, OneWriter DEF WriterSteps, ReaderSteps, Steps
  <2>3. \A u \in Threads : pc'[u] \notin {"trim", "append"} BY <1>i, <2>1, <2>2
  <2>4. written' <= MaxWrites BY <1>i, <2>1 DEF CountInv
  <2> QED BY <2>3, <2>4 DEF CountInv
<1>3. ASSUME NEW t \in Threads, Step(t), ~AppendMessage(t) PROVE CountInv'
  <2>1. /\ written' = written
        /\ \/ pc' = pc
           \/ pc[t] = "trim" /\ pc' = [pc EXCEPT ![t] = "append"]
           \/ \E q \in Steps \ {"trim", "append"} : pc' = [pc EXCEPT ![t] = q]
    BY <1>3 DEF Step, Find, Insert, ReadCursor, Scan, MarkRead, Get, TrimStore, CountMessage,
       SearchHost, AddHost, WriteHostInfo, SetKillFlag, ClearSid, Clear, Return, storeVars,
       Steps, ExclusiveOps
  <2> QED BY <1>i, <2>1 DEF CountInv
<1>4. CASE UNCHANGED vars
  BY <1>4 DEF vars, storeVars, CountInv
<1> QED BY <1>1, <1>2, <1>3, <1>4 DEF Next

LEMMA CountHolds == Spec => []CountInv
<1>1. Init => CountInv BY BoundsAssumption DEF Init, CountInv
<1> QED BY <1>1, NextCount, InvariantHolds, PTL DEF Spec

(* With one polling thread no step but Clear moves a session's cursor back. *)
THEOREM CursorsMoveForward == OnePolls /\ MaxWrites <= MaxInt => (Spec => CursorForward)
<1> SUFFICES ASSUME OnePolls, MaxWrites <= MaxInt PROVE Spec => CursorForward
  OBVIOUS
<1> DEFINE Forward == \A s \in Sids : sess'[s].i >= sess[s].i
                        \/ \E t \in writers : pc[t] = "clear"
<1>1. SingleInv /\ CountInv /\ [Next]_vars => [Forward]_vars
  <2> SUFFICES ASSUME SingleInv, CountInv, [Next]_vars, NEW s \in Sids
               PROVE  sess'[s].i >= sess[s].i \/ \E t \in writers : pc[t] = "clear"
    OBVIOUS
  <2>i. /\ TypeOK /\ LockInv /\ Inductive /\ AloneInv /\ sess[s].i \in Int /\ IteratorInv
        /\ written \in Nat /\ MaxWrites \in Nat /\ MaxInt \in Nat
    BY RecordTypes, BoundsAssumption DEF SingleInv, PollInv, Inductive, TypeOK
  <2>w. NoWrap BY <2>i DEF CountInv, NoWrap
  <2>s. /\ Len(store) \in Nat /\ DOMAIN store = 1 .. Len(store)
        /\ \A j \in DOMAIN store : store[j].i \in Int /\ store[j].msg \in Nat
    BY <2>i, StoreFacts
  <2>1. CASE sess'[s].i = sess[s].i BY <2>1, <2>i
  <2>2. ASSUME NEW t \in Threads, Clear(t) PROVE t \in writers /\ pc[t] = "clear"
    BY <2>i, <2>2 DEF Clear, LockInv, WriterSteps, ReaderSteps, Steps, ExclusiveOps
  <2>3. ASSUME NEW t \in Threads, MarkRead(t), call[t].sid = s, sess'[s].i = store[k[t]].i
        PROVE  sess'[s].i >= sess[s].i
    <3>1. pc[t] = "use" /\ call[t].op = "read" /\ k[t] > 0 BY <2>3 DEF MarkRead
    <3>2. t \in readers /\ k[t] \in DOMAIN store
      BY <2>i, <2>s, <3>1 DEF LockInv, ReaderSteps, IteratorInv, TypeOK
    <3>3. PollExact(t) BY <2>w, <3>1, <3>2 DEF SingleInv, ExactInv
    <3>n. PICK n \in Nat : n = Len(out[t])
      <4>1. out[t] \in Seq(Nat) BY <2>i DEF TypeOK
      <4> QED BY <4>1, LenProperties
    <3>4. /\ n > 0 /\ n <= k[t]
          /\ sess[s].i = IF n = 1 THEN id[t] ELSE store[k[t] - 1].i
          /\ \A j \in DOMAIN store : j > k[t] - n /\ j <= k[t] => ~Old(s, j)
          /\ \A j \in DOMAIN store : store[j].i <= id[t] <=> Old(s, j)
      BY <2>3, <3>1, <3>3, <3>n DEF PollExact, Passed
    <3>5. CASE n = 1
      <4>1. ~Old(s, k[t]) BY <2>s, <3>2, <3>4, <3>5
      <4>2. ~(store[k[t]].i <= id[t]) /\ sess[s].i = id[t] BY <3>2, <3>4, <3>5, <4>1
      <4> QED BY <2>i, <2>s, <2>3, <3>2, <4>2
    <3>6. CASE n # 1
      <4>1. k[t] - 1 \in DOMAIN store /\ k[t] - 1 < k[t] BY <2>s, <3>2, <3>4, <3>6
      <4>2. store[k[t] - 1].i < store[k[t]].i
        BY <2>w, <3>2, <4>1 DEF SingleInv, PollInv, NumbersInv
      <4> QED BY <2>i, <2>s, <2>3, <3>2, <3>4, <3>6, <4>1, <4>2
    <3> QED BY <3>5, <3>6
  <2>4. ASSUME NEW t \in Threads, NEW c \in Calls, LockShared(t, c) \/ LockExclusive(t, c)
        PROVE  sess' = sess
    BY <2>4 DEF LockShared, LockExclusive, sessVars
  <2>5. CASE UNCHANGED vars BY <2>1, <2>5 DEF vars, sessVars
  <2> QED BY <2>i, <2>1, <2>2, <2>3, <2>4, <2>5, CursorMoves DEF Next
<1> QED BY <1>1, SingleHolds, CountHolds, PTL DEF Spec, CursorForward

-----------------------------------------------------------------------------
(***************************************************************************)
(* The mailbox implements the abstract one.                                 *)
(***************************************************************************)
Box(st) == [j \in 1 .. Len(st) |-> st[j].msg]

LEMMA BoxElements ==
    ASSUME NEW st \in Seq(Message)
    PROVE  /\ Box(st) \in Seq(Nat) /\ Len(Box(st)) = Len(st) /\ Len(st) \in Nat
           /\ DOMAIN Box(st) = 1 .. Len(st)
           /\ \A j \in 1 .. Len(st) : Box(st)[j] = st[j].msg
<1>1. Len(st) \in Nat /\ DOMAIN st = 1 .. Len(st) BY LenProperties
<1>2. \A j \in 1 .. Len(st) : st[j].msg \in Nat
  <2>1. \A j \in 1 .. Len(st) : st[j] \in Message BY ElementOfSeq
  <2> QED BY <2>1 DEF Message
<1>3. Box(st) \in [1 .. Len(st) -> Nat] BY <1>2 DEF Box
<1>4. Box(st) \in Seq(Nat) BY <1>1, <1>3, SeqDef
<1>5. DOMAIN Box(st) = 1 .. Len(st) BY DEF Box
<1>6. Len(Box(st)) = Len(st) BY <1>1, <1>4, <1>5, LenProperties
<1> QED BY <1>1, <1>4, <1>5, <1>6 DEF Box

(* What the poll returns is what the abstract poll takes.                   *)
LEMMA OutIsUnread ==
    ASSUME OnePolls, SingleInv, NoWrap, NEW t \in Threads, Return(t), call[t].op = "read",
           NEW s \in Sids, s = call[t].sid
    PROVE  Abstract!Unread(s) = out[t]
<1>i. TypeOK /\ PollInv /\ AloneInv /\ ExactInv /\ store \in Seq(Message) /\ out[t] \in Seq(Nat)
  BY DEF SingleInv, PollInv, Inductive, TypeOK
<1>b. /\ Box(store) \in Seq(Nat) /\ Len(Box(store)) = Len(store) /\ Len(store) \in Nat
      /\ DOMAIN Box(store) = 1 .. Len(store) /\ DOMAIN store = 1 .. Len(store)
      /\ \A j \in 1 .. Len(store) : Box(store)[j] = store[j].msg /\ store[j].msg \in Nat
  BY <1>i, BoxElements, StoreFacts
<1>n. PICK n \in Nat : n = Len(out[t]) BY <1>i, LenProperties
<1>l. PICK l \in Nat : l = Len(store) BY <1>b
<1>1. /\ n \in 0 .. l
      /\ \A a \in 1 .. n : out[t][a] = store[l - n + a].msg
      /\ \A j \in DOMAIN store : Old(s, j) <=> j <= l - n
  BY <1>i, <1>n, <1>l, ReturnExact
<1>2. Abstract!UnreadAt(s) = l - n + 1 .. l
  <2>1. Abstract!UnreadAt(s) =
          {j \in DOMAIN Box(store) : Box(store)[j] >= 1
             /\ \A a \in DOMAIN delivered[s] : delivered[s][a] # Box(store)[j]}
    BY DEF Abstract!UnreadAt, Box
  <2>2. \A j \in 1 .. l : (Box(store)[j] >= 1 /\ \A a \in DOMAIN delivered[s] : delivered[s][a] # Box(store)[j])
                             <=> ~Old(s, j)
    BY <1>b, <1>l DEF Old, Elems
  <2>3. \A j \in 1 .. l : ~Old(s, j) <=> j \in l - n + 1 .. l
    <3>1. \A j \in 1 .. l : ~(j <= l - n) <=> j \in l - n + 1 .. l BY <1>1
    <3>2. \A j \in 1 .. l : j \in DOMAIN store BY <1>b, <1>l
    <3> QED BY <1>1, <3>1, <3>2 DEF Old
  <2>4. l - n + 1 .. l \subseteq 1 .. l BY <1>1
  <2> QED BY <1>b, <1>l, <2>1, <2>2, <2>3, <2>4
<1>3. ASSUME NEW d \in 0 .. l, Abstract!UnreadAt(s) = d + 1 .. l PROVE d = l - n
  <2>1. \A x \in 1 .. l : x \in d + 1 .. l <=> x \in l - n + 1 .. l BY <1>2, <1>3
  <2>2. ~(d < l - n)
    <3>1. d < l - n => d + 1 \in 1 .. l /\ d + 1 \in d + 1 .. l /\ d + 1 \notin l - n + 1 .. l
      BY <1>1
    <3> QED BY <2>1, <3>1
  <2>3. ~(d > l - n)
    <3>1. d > l - n => l - n + 1 \in 1 .. l /\ l - n + 1 \notin d + 1 .. l /\ l - n + 1 \in l - n + 1 .. l
      BY <1>1
    <3> QED BY <2>1, <3>1
  <2> QED BY <1>1, <2>2, <2>3
<1>4. (CHOOSE d \in 0 .. l : Abstract!UnreadAt(s) = d + 1 .. l) = l - n
  <2>1. l - n \in 0 .. l BY <1>1
  <2> QED BY <1>2, <1>3, <2>1
<1>5. Abstract!Unread(s) = SubSeq(Box(store), l - n + 1, l)
  <2>1. Abstract!Unread(s) =
          LET d == CHOOSE d \in 0 .. Len(Box(store)) : Abstract!UnreadAt(s) = d + 1 .. Len(Box(store))
          IN  SubSeq(Box(store), d + 1, Len(Box(store)))
    BY DEF Abstract!Unread, Box
  <2> QED BY <1>b, <1>l, <1>4, <2>1
<1>6. /\ SubSeq(Box(store), l - n + 1, l) \in Seq(Nat)
      /\ Len(SubSeq(Box(store), l - n + 1, l)) = n
      /\ \A a \in 1 .. n : SubSeq(Box(store), l - n + 1, l)[a] = Box(store)[l - n + a]
  <2>1. l - n + 1 \in Int /\ l \in Int /\ \A j \in l - n + 1 .. l : Box(store)[j] \in Nat
    BY <1>b, <1>l, <1>1
  <2>2. (l - n + 1 <= l) => l - (l - n + 1) + 1 = n BY <1>1
  <2>3. ~(l - n + 1 <= l) => n = 0 BY <1>1
  <2>4. \A a \in 1 .. n : l - n + 1 + a - 1 = l - n + a BY <1>1
  <2> QED BY <2>1, <2>2, <2>3, <2>4, SubSeqProperties
<1>7. \A a \in 1 .. n : l - n + a \in 1 .. l BY <1>1
<1>8. \A a \in 1 .. n : SubSeq(Box(store), l - n + 1, l)[a] = out[t][a]
  BY <1>b, <1>l, <1>1, <1>6, <1>7
<1> QED BY <1>i, <1>n, <1>5, <1>6, <1>8, SeqEqual

LEMMA StepRefines ==
    ASSUME OnePolls, SingleInv, NoWrap, [Next]_vars
    PROVE  [Abstract!Next]_<<Box(store), written, delivered>>
<1>i. /\ TypeOK /\ LockInv /\ Inductive /\ TypeOK' /\ store \in Seq(Message) /\ store' \in Seq(Message)
      /\ pc \in [Threads -> Steps] /\ delivered \in [Sids -> Seq(Nat)]
      /\ out \in [Threads -> Seq(Nat)] /\ written \in Nat /\ readers \subseteq Threads
  <2>1. TypeOK /\ LockInv /\ Inductive /\ TypeOK'
    BY NextType DEF SingleInv, PollInv, Inductive
  <2> QED BY <2>1 DEF TypeOK
<1>b. /\ Box(store) \in Seq(Nat) /\ Len(Box(store)) = Len(store) /\ Len(store) \in Nat
      /\ \A j \in 1 .. Len(store) : Box(store)[j] = store[j].msg
      /\ Box(store') \in Seq(Nat) /\ Len(Box(store')) = Len(store') /\ Len(store') \in Nat
      /\ \A j \in 1 .. Len(store') : Box(store')[j] = store'[j].msg
  BY <1>i, BoxElements
<1>s. Box(store)' = Box(store') BY DEF Box
<1>1. ASSUME NEW t \in Threads, TrimStore(t)
      PROVE  Abstract!Forget \/ UNCHANGED <<Box(store), written, delivered>>
  <2>1. UNCHANGED <<written, delivered>> /\ store' = Trimmed(store)
    BY <1>1 DEF TrimStore
  <2>2. PICK d \in {0, Drop} :
          /\ Len(store') = Len(store) - d
          /\ d = IF Len(store) > MaxKeep THEN Drop ELSE 0
          /\ \A a \in 1 .. Len(store') : a + d \in 1 .. Len(store) /\ store'[a] = store[a + d]
    BY <1>i, <2>1, TrimmedElements
  <2>3. CASE ~(Len(store) > MaxKeep)
    <3>1. store' = store BY <2>1, <2>3 DEF Trimmed
    <3> QED BY <2>1, <3>1, <1>s
  <2>4. CASE Len(store) > MaxKeep
    <3>l. PICK l \in Nat : l = Len(store) BY <1>b
    <3>1. d = Drop /\ d \in 1 .. l BY <1>b, <2>2, <2>4, <3>l, BoundsAssumption
    <3>2. /\ SubSeq(Box(store), d + 1, l) \in Seq(Nat)
          /\ Len(SubSeq(Box(store), d + 1, l)) = l - d
          /\ \A a \in 1 .. l - d : SubSeq(Box(store), d + 1, l)[a] = Box(store)[d + a]
      <4>1. /\ d + 1 \in Int /\ l \in Int
            /\ \A j \in d + 1 .. l : Box(store)[j] \in Nat
        <5>1. \A j \in d + 1 .. l : j \in 1 .. Len(Box(store)) BY <1>b, <3>1, <3>l
        <5> QED BY <1>b, <3>1, <5>1, ElementOfSeq
      <4>2. (d + 1 <= l) => l - (d + 1) + 1 = l - d BY <3>1
      <4>3. ~(d + 1 <= l) => l - d = 0 BY <3>1
      <4>4. \A a \in 1 .. l - d : d + 1 + a - 1 = d + a BY <3>1
      <4> QED BY <4>1, <4>2, <4>3, <4>4, SubSeqProperties
    <3>3. Len(store') = l - d /\ \A a \in 1 .. l - d : Box(store')[a] = Box(store)[d + a]
      <4>1. Len(store') = l - d BY <2>2, <3>l
      <4>2. ASSUME NEW a \in 1 .. l - d PROVE Box(store')[a] = Box(store)[d + a]
        <5>1. a + d = d + a /\ a + d \in 1 .. Len(store) /\ a \in 1 .. Len(store')
          BY <3>1, <3>l, <4>1
        <5>2. store'[a] = store[d + a] BY <2>2, <5>1
        <5> QED BY <1>b, <5>1, <5>2
      <4> QED BY <4>1, <4>2
    <3>4. Box(store') = SubSeq(Box(store), d + 1, l)
      <4>1. \A a \in 1 .. Len(Box(store')) : Box(store')[a] = SubSeq(Box(store), d + 1, l)[a]
        BY <1>b, <3>2, <3>3
      <4> QED BY <1>b, <3>2, <3>3, <4>1, SeqEqual
    <3>5. d \in 1 .. Drop BY <3>1, BoundsAssumption
    <3> QED BY <1>b, <1>s, <2>1, <2>4, <3>l, <3>4, <3>5 DEF Abstract!Forget, Box
  <2> QED BY <2>3, <2>4
<1>2. ASSUME NEW t \in Threads, AppendMessage(t) PROVE Abstract!Post
  <2>1. /\ store' = Append(store, [i |-> kki, msg |-> written]) /\ written' = written + 1
        /\ delivered' = delivered
    BY <1>2 DEF AppendMessage
  <2>2. /\ [i |-> kki, msg |-> written] \in Message
    BY <1>i DEF Message, TypeOK
  <2>3. /\ Len(store') = Len(store) + 1
        /\ \A a \in 1 .. Len(store) : store'[a] = store[a]
        /\ store'[Len(store) + 1] = [i |-> kki, msg |-> written]
    BY <1>i, <2>1, <2>2, AppendProperties
  <2>4. /\ Append(Box(store), written) \in Seq(Nat)
        /\ Len(Append(Box(store), written)) = Len(store) + 1
        /\ \A a \in 1 .. Len(store) : Append(Box(store), written)[a] = Box(store)[a]
        /\ Append(Box(store), written)[Len(store) + 1] = written
    BY <1>i, <1>b, AppendProperties
  <2>5. \A a \in 1 .. Len(store) + 1 : Box(store')[a] = Append(Box(store), written)[a]
    <3>1. \A a \in 1 .. Len(store) + 1 : a \in 1 .. Len(store) \/ a = Len(store) + 1 BY <1>b
    <3>2. Len(store) + 1 \in 1 .. Len(store') BY <1>b, <2>3
    <3>3. \A a \in 1 .. Len(store) : a \in 1 .. Len(store') BY <1>b, <2>3
    <3> QED BY <1>b, <2>3, <2>4, <3>1, <3>2, <3>3
  <2>6. Box(store') = Append(Box(store), written)
    BY <1>b, <2>3, <2>4, <2>5, SeqEqual
  <2> QED BY <1>s, <2>1, <2>6 DEF Abstract!Post, Box
<1>3. ASSUME NEW t \in Threads, Clear(t) PROVE Abstract!Clear
  <2>1. store' = <<>> /\ UNCHANGED <<written, delivered>> BY <1>3 DEF Clear
  <2>2. Len(Box(store')) = 0 BY <1>b, <2>1
  <2>3. Box(store') = <<>> BY <1>b, <2>2
  <2> QED BY <1>s, <2>1, <2>3 DEF Abstract!Clear, Box
<1>4. ASSUME NEW t \in Threads, Return(t)
      PROVE  Abstract!Next \/ UNCHANGED <<Box(store), written, delivered>>
  <2>1. /\ pc[t] = "unlock" /\ UNCHANGED <<store, written>>
        /\ delivered' = [delivered EXCEPT ![call[t].sid] =
                            IF call[t].op = "read" THEN @ \o out[t] ELSE @]
    BY <1>4 DEF Return, storeVars
  <2>2. Box(store)' = Box(store) BY <2>1 DEF Box
  <2>3. CASE call[t].op = "read"
    <3>1. PICK s \in Sids : s = call[t].sid
      BY <1>i, <2>1, CallTypes DEF TypeOK
    <3>2. Abstract!Unread(s) = out[t] BY <1>4, <2>3, <3>1, OutIsUnread
    <3>3. delivered' = [delivered EXCEPT ![s] = delivered[s] \o Abstract!Unread(s)]
      BY <2>1, <2>3, <3>1, <3>2
    <3>4. Abstract!Poll(s) BY <2>1, <2>2, <3>3 DEF Abstract!Poll, Box
    <3> QED BY <3>4 DEF Abstract!Next
  <2>4. CASE call[t].op # "read"
    <3>1. delivered' = delivered BY <1>i, <2>1, <2>4
    <3> QED BY <2>1, <2>2, <3>1
  <2> QED BY <2>3, <2>4
<1>5. ASSUME NEW t \in Threads,
             \/ \E c \in Calls : LockShared(t, c) \/ LockExclusive(t, c)
             \/ /\ Step(t) /\ ~TrimStore(t) /\ ~AppendMessage(t) /\ ~Clear(t) /\ ~Return(t)
      PROVE  UNCHANGED <<Box(store), written, delivered>>
  <2>1. UNCHANGED <<store, written, delivered>>
    BY <1>5 DEF LockShared, LockExclusive, Step, Find, Insert, ReadCursor, Scan, MarkRead, Get,
       CountMessage, SearchHost, AddHost, WriteHostInfo, SetKillFlag, ClearSid, storeVars
  <2> QED BY <2>1 DEF Box
<1>6. CASE UNCHANGED vars
  BY <1>6 DEF vars, storeVars, Box
<1> QED BY <1>1, <1>2, <1>3, <1>4, <1>5, <1>6 DEF Next, Step, Abstract!Next

(* A server with one polling thread gives its sessions what the abstract    *)
(* mailbox promises: whatever posts, trims, clears and edits of host lists  *)
(* come between its steps, each poll returns, at once as it seems, all the  *)
(* kept messages its session has not received, in the order of posting.     *)
THEOREM MailboxRefined == OnePolls /\ MaxWrites <= MaxInt => (Spec => MailboxSpec)
<1> SUFFICES ASSUME OnePolls, MaxWrites <= MaxInt PROVE Spec => MailboxSpec
  OBVIOUS
<1>1. Init => Abstract!Init
  <2> SUFFICES ASSUME Init PROVE Abstract!Init
    OBVIOUS
  <2>1. store = <<>> /\ store \in Seq(Message) BY DEF Init
  <2>2. Box(store) = <<>>
    <3>1. Len(Box(store)) = 0 /\ Box(store) \in Seq(Nat) BY <2>1, BoxElements
    <3> QED BY <3>1
  <2> QED BY <2>2 DEF Init, Abstract!Init, Box
<1>2. SingleInv /\ CountInv /\ [Next]_vars => [Abstract!Next]_<<Box(store), written, delivered>>
  <2> SUFFICES ASSUME SingleInv, CountInv, [Next]_vars
               PROVE  [Abstract!Next]_<<Box(store), written, delivered>>
    OBVIOUS
  <2>1. written \in Nat /\ MaxWrites \in Nat /\ MaxInt \in Nat
    BY BoundsAssumption DEF SingleInv, PollInv, Inductive, TypeOK
  <2>2. NoWrap BY <2>1 DEF CountInv, NoWrap
  <2> QED BY <2>2, StepRefines
<1> QED BY <1>1, <1>2, SingleHolds, CountHolds, PTL DEF Spec, MailboxSpec, Abstract!Spec, Box
=============================================================================
