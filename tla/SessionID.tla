------------------------------ MODULE SessionID ------------------------------
(***************************************************************************)
(* The chat mailbox of the web server: web/SeessionID.cpp and .h.  One      *)
(* global object keeps the last messages heard on the multicast group (the  *)
(* vector mmap) and one record per browser session (ptrsmap), and one       *)
(* boost::shared_mutex, myLock, guards both.  Every io thread of the server *)
(* and the multicast receiver call it concurrently.                         *)
(*                                                                          *)
(* A call takes the lock, runs the body of its method step by step, and     *)
(* releases the lock.  ReadFunction and the Get functions hold the lock     *)
(* shared although ptrsmap[sid] inserts a missing record and ReadFunction   *)
(* moves the cursor of the session, so those steps of two readers           *)
(* interleave.                                                              *)
(***************************************************************************)
EXTENDS Integers, Sequences

CONSTANTS
    Threads,     \* the threads that call the mailbox
    Sids,        \* session ids (the value of the sid cookie, "" without one)
    Hosts,       \* host names a session may subscribe to
    Calls,       \* the calls the threads make, see CallType
    MaxKeep,     \* 2000 in the code: trim when more messages than this are kept
    Drop,        \* 1000 in the code: how many of the oldest messages a trim erases
    MaxInt,      \* the largest value of the int that numbers messages
    MaxWrites,   \* bound of the model: messages ever posted
    MaxHosts,    \* bound of the model: host names WriteHostInfo lets a record hold
    MaxDelivered \* bound of the model: a session that received this many polls no more

SharedOps == {"read", "get"}
ExclusiveOps == {"write", "push", "hostinfo", "kill", "clearsid", "clear"}

(* A call: the method, the session it names (clear and write ignore it),    *)
(* the names push_back got after splitting its argument at the blanks       *)
(* (WriteHostInfo: its single name) and the value SetKillFlag stores.       *)
CallType == [by : Threads, op : SharedOps \cup ExclusiveOps, sid : Sids,
             names : Seq(Hosts), flag : BOOLEAN]

ASSUME CallsAssumption == Calls \subseteq CallType
ASSUME BoundsAssumption ==
    /\ MaxKeep \in Nat \ {0} /\ Drop \in 1 .. MaxKeep
    /\ {MaxInt, MaxWrites, MaxHosts, MaxDelivered} \subseteq Nat

VARIABLES
    readers,     \* threads that hold myLock shared
    writers,     \* threads that hold myLock exclusively
    store,       \* mmap: the kept messages, each with its number i
    kki,         \* the number the next message gets
    known,       \* the sids that have a record in ptrsmap
    sess,        \* ptrsmap: the record of each sid, Fresh for an unknown one
    pc,          \* the next step of each thread
    call,        \* the call each thread runs
    id,          \* ReadFunction's local: the cursor it started from
    k,           \* ReadFunction's iterator into the store
    out,         \* ReadFunction's local msg: what this poll returns
    todo,        \* push_back's names still to be added
    written,     \* history: messages posted so far; names the next one
    delivered    \* history: what the polls of each sid returned, in order

lockVars == <<readers, writers>>
storeVars == <<store, kki, written>>
sessVars == <<known, sess>>
localVars == <<call, id, k, out, todo>>
vars == <<lockVars, storeVars, sessVars, pc, localVars, delivered>>

-----------------------------------------------------------------------------
(* Operators named Mutant... are plausible slips in the definition behind   *)
(* them.  No specification uses them: they show that the properties notice. *)

MutantFreshNoFlag == [i |-> 0, hosts |-> <<>>]
MutantFreshNoCursor == [i |-> MaxInt, hosts |-> <<>>, killflag |-> FALSE]

(* The record sessionStruct() builds.                                       *)
Fresh == [i |-> 0, hosts |-> <<>>, killflag |-> FALSE]

MutantIncrementNot(x) == x

(* ++ on a two's complement std::atomic<int>.                               *)
Increment(x) == IF x = MaxInt THEN -MaxInt - 1 ELSE x + 1

(* What call holds before a thread's first call.                            *)
NoCall == [op |-> "none"]

Elems(s) == {s[j] : j \in DOMAIN s}

Init ==
    /\ readers = {} /\ writers = {}
    /\ store = <<>> /\ kki = 0
    /\ known = {} /\ sess = [s \in Sids |-> Fresh]
    /\ pc = [t \in Threads |-> "idle"]
    /\ call = [t \in Threads |-> NoCall]
    /\ id = [t \in Threads |-> 0]
    /\ k = [t \in Threads |-> 0]
    /\ out = [t \in Threads |-> <<>>]
    /\ todo = [t \in Threads |-> <<>>]
    /\ written = 0
    /\ delivered = [s \in Sids |-> <<>>]

-----------------------------------------------------------------------------
(***************************************************************************)
(* myLock.                                                                  *)
(***************************************************************************)
MutantIgnoreReaders == writers = {}
MutantNoExclusion == TRUE

(* unique_lock waits until nobody holds the lock.                           *)
Unlocked == readers = {} /\ writers = {}

FirstStep(op) == CASE op \in SharedOps -> "find"
                   [] op = "write" -> "trim"
                   [] OTHER -> op

(* The locals of a method start afresh with each call.                      *)
Enter(t, c) ==
    /\ pc[t] = "idle" /\ c.by = t
    /\ pc' = [pc EXCEPT ![t] = FirstStep(c.op)]
    /\ call' = [call EXCEPT ![t] = c]
    /\ id' = [id EXCEPT ![t] = 0]
    /\ k' = [k EXCEPT ![t] = 0]
    /\ out' = [out EXCEPT ![t] = <<>>]
    /\ todo' = [todo EXCEPT ![t] = c.names]

LockShared(t, c) ==
    /\ c.op \in SharedOps
    /\ c.op = "read" => Len(delivered[c.sid]) < MaxDelivered
    /\ writers = {}
    /\ readers' = readers \cup {t}
    /\ Enter(t, c)
    /\ UNCHANGED <<writers, storeVars, sessVars, delivered>>

LockExclusive(t, c) ==
    /\ c.op \in ExclusiveOps
    /\ c.op = "write" => written < MaxWrites
    /\ c.op = "hostinfo" => Len(sess[c.sid].hosts) < MaxHosts
    /\ Unlocked
    /\ writers' = writers \cup {t}
    /\ Enter(t, c)
    /\ UNCHANGED <<readers, storeVars, sessVars, delivered>>

(* The lock's guard object goes out of scope; a poll hands its string to    *)
(* the caller.                                                              *)
Return(t) ==
    /\ pc[t] = "unlock"
    /\ readers' = readers \ {t} /\ writers' = writers \ {t}
    /\ pc' = [pc EXCEPT ![t] = "idle"]
    /\ delivered' = [delivered EXCEPT ![call[t].sid] =
                        IF call[t].op = "read" THEN @ \o out[t] ELSE @]
    /\ UNCHANGED <<storeVars, sessVars, localVars>>

-----------------------------------------------------------------------------
(***************************************************************************)
(* ReadFunction and the Get functions, under the shared lock.               *)
(***************************************************************************)

(* ptrsmap[sid]: the search.  Every thread of a shared call may be here.    *)
Find(t) ==
    /\ pc[t] = "find"
    /\ pc' = [pc EXCEPT ![t] = IF call[t].sid \in known THEN "use" ELSE "insert"]
    /\ UNCHANGED <<lockVars, storeVars, sessVars, localVars, delivered>>

(* ptrsmap[sid]: the search missed, so a fresh record is linked in, over    *)
(* the one another reader may have linked meanwhile.  Two readers that      *)
(* insert at once race on the nodes of the map, and a node can be lost.     *)
Insert(t) ==
    /\ pc[t] = "insert"
    /\ pc' = [pc EXCEPT ![t] = "use"]
    /\ \/ /\ known' = known \cup {call[t].sid}
          /\ sess' = [sess EXCEPT ![call[t].sid] = Fresh]
       \/ /\ \E u \in Threads \ {t} : pc[u] = "insert"
          /\ UNCHANGED sessVars
    /\ UNCHANGED <<lockVars, storeVars, localVars, delivered>>

(* The first use of the record in ReadFunction: int id = ptrsmap[sid].i.    *)
ReadCursor(t) ==
    /\ pc[t] = "use" /\ call[t].op = "read" /\ k[t] = 0
    /\ pc' = [pc EXCEPT ![t] = "scan"]
    /\ id' = [id EXCEPT ![t] = sess[call[t].sid].i]
    /\ k' = [k EXCEPT ![t] = 1]
    /\ UNCHANGED <<lockVars, storeVars, sessVars, call, out, todo, delivered>>

MutantCovered(j, c) == store[j].i < c
Covered(j, c) == store[j].i <= c

MutantAtEnd(j) == j >= Len(store)
AtEnd(j) == j > Len(store)

(* The loop over mmap: skip what the cursor covers, copy what it does not.  *)
Scan(t) ==
    /\ pc[t] = "scan"
    /\ IF AtEnd(k[t])
       THEN pc' = [pc EXCEPT ![t] = "unlock"] /\ UNCHANGED <<k, out>>
       ELSE IF Covered(k[t], id[t])
       THEN k' = [k EXCEPT ![t] = @ + 1] /\ UNCHANGED <<pc, out>>
       ELSE /\ out' = [out EXCEPT ![t] = Append(@, store[k[t]].msg)]
            /\ pc' = [pc EXCEPT ![t] = "find"]
            /\ UNCHANGED k
    /\ UNCHANGED <<lockVars, storeVars, sessVars, call, id, todo, delivered>>

Marked(s, j) == IF s \in known THEN [sess EXCEPT ![s].i = store[j].i] ELSE sess

(* The other uses: ptrsmap[sid].i = i->i.  A record whose node was lost is  *)
(* not reached again, so the store into it has no effect.                   *)
MarkRead(t) ==
    /\ pc[t] = "use" /\ call[t].op = "read" /\ k[t] > 0
    /\ pc' = [pc EXCEPT ![t] = "scan"]
    /\ sess' = Marked(call[t].sid, k[t])
    /\ k' = [k EXCEPT ![t] = @ + 1]
    /\ UNCHANGED <<lockVars, storeVars, known, call, id, out, todo, delivered>>

(* GetIPAddr, GetVect, GetKillFlag and GetHostInfo copy a field out.        *)
Get(t) ==
    /\ pc[t] = "use" /\ call[t].op = "get"
    /\ pc' = [pc EXCEPT ![t] = "unlock"]
    /\ UNCHANGED <<lockVars, storeVars, sessVars, localVars, delivered>>

-----------------------------------------------------------------------------
(***************************************************************************)
(* The exclusive methods.                                                   *)
(***************************************************************************)

MutantTrimmed(s) == IF Len(s) > MaxKeep + 1 THEN SubSeq(s, Drop + 1, Len(s)) ELSE s
Trimmed(s) == IF Len(s) > MaxKeep THEN SubSeq(s, Drop + 1, Len(s)) ELSE s

(* WriteFunction: make room, append, number the next message.               *)
TrimStore(t) ==
    /\ pc[t] = "trim"
    /\ pc' = [pc EXCEPT ![t] = "append"]
    /\ store' = Trimmed(store)
    /\ UNCHANGED <<lockVars, kki, written, sessVars, localVars, delivered>>

AppendMessage(t) ==
    /\ pc[t] = "append"
    /\ pc' = [pc EXCEPT ![t] = "count"]
    /\ store' = Append(store, [i |-> kki, msg |-> written])
    /\ written' = written + 1
    /\ UNCHANGED <<lockVars, kki, sessVars, localVars, delivered>>

CountMessage(t) ==
    /\ pc[t] = "count"
    /\ pc' = [pc EXCEPT ![t] = "unlock"]
    /\ kki' = Increment(kki)
    /\ UNCHANGED <<lockVars, store, written, sessVars, localVars, delivered>>

(* push_back takes one name after the other and looks for it in the record, *)
SearchHost(t) ==
    /\ pc[t] = "push"
    /\ IF todo[t] = <<>>
       THEN pc' = [pc EXCEPT ![t] = "unlock"] /\ UNCHANGED <<known, todo>>
       ELSE /\ known' = known \cup {call[t].sid}
            /\ IF Head(todo[t]) \in Elems(sess[call[t].sid].hosts)
               THEN todo' = [todo EXCEPT ![t] = Tail(@)] /\ UNCHANGED pc
               ELSE pc' = [pc EXCEPT ![t] = "add"] /\ UNCHANGED todo
    /\ UNCHANGED <<lockVars, storeVars, sess, call, id, k, out, delivered>>

(* and adds it when it was not found.                                       *)
AddHost(t) ==
    /\ pc[t] = "add"
    /\ pc' = [pc EXCEPT ![t] = "push"]
    /\ sess' = [sess EXCEPT ![call[t].sid].hosts = Append(@, Head(todo[t]))]
    /\ todo' = [todo EXCEPT ![t] = Tail(@)]
    /\ UNCHANGED <<lockVars, storeVars, known, call, id, k, out, delivered>>

(* WriteHostInfo adds its name without looking for it.                      *)
WriteHostInfo(t) ==
    /\ pc[t] = "hostinfo" /\ todo[t] # <<>>
    /\ pc' = [pc EXCEPT ![t] = "unlock"]
    /\ known' = known \cup {call[t].sid}
    /\ sess' = [sess EXCEPT ![call[t].sid].hosts = Append(@, Head(todo[t]))]
    /\ UNCHANGED <<lockVars, storeVars, localVars, delivered>>

SetKillFlag(t) ==
    /\ pc[t] = "kill"
    /\ pc' = [pc EXCEPT ![t] = "unlock"]
    /\ known' = known \cup {call[t].sid}
    /\ sess' = [sess EXCEPT ![call[t].sid].killflag = call[t].flag]
    /\ UNCHANGED <<lockVars, storeVars, localVars, delivered>>

MutantEmptied(r) == Fresh
Emptied(r) == [r EXCEPT !.hosts = <<>>]

(* Clear(sid) empties the host list and keeps the cursor.                   *)
ClearSid(t) ==
    /\ pc[t] = "clearsid"
    /\ pc' = [pc EXCEPT ![t] = "unlock"]
    /\ known' = known \cup {call[t].sid}
    /\ sess' = [sess EXCEPT ![call[t].sid] = Emptied(@)]
    /\ UNCHANGED <<lockVars, storeVars, localVars, delivered>>

(* Clear() forgets messages and records and goes on numbering from kki.     *)
Clear(t) ==
    /\ pc[t] = "clear"
    /\ pc' = [pc EXCEPT ![t] = "unlock"]
    /\ store' = <<>>
    /\ known' = {} /\ sess' = [s \in Sids |-> Fresh]
    /\ UNCHANGED <<lockVars, kki, written, localVars, delivered>>

-----------------------------------------------------------------------------
Step(t) ==
    \/ Find(t) \/ Insert(t) \/ ReadCursor(t) \/ Scan(t) \/ MarkRead(t) \/ Get(t)
    \/ TrimStore(t) \/ AppendMessage(t) \/ CountMessage(t)
    \/ SearchHost(t) \/ AddHost(t) \/ WriteHostInfo(t) \/ SetKillFlag(t) \/ ClearSid(t) \/ Clear(t)
    \/ Return(t)

Next == \E t \in Threads :
    \/ \E c \in Calls : LockShared(t, c) \/ LockExclusive(t, c)
    \/ Step(t)

Spec == Init /\ [][Next]_vars

(* A thread inside a method keeps running, and one that waits for the lock  *)
(* gets it: boost::shared_mutex wakes every waiter when it is released, and *)
(* the calls of the multicast receiver are rare.                            *)
Fairness == \A t \in Threads :
    /\ WF_vars(Step(t))
    /\ \A c \in Calls : c.op = "read" => SF_vars(LockShared(t, c))

LiveSpec == Spec /\ Fairness

-----------------------------------------------------------------------------
(***************************************************************************)
(* Properties.                                                              *)
(***************************************************************************)
Message == [i : Int, msg : Nat]
Record == [i : Int, hosts : Seq(Hosts), killflag : BOOLEAN]
Steps == {"idle", "find", "insert", "use", "scan", "unlock", "trim", "append", "count", "add"}
         \cup (ExclusiveOps \ {"write"})

(* Types of the state; a thread inside a method knows its call.             *)
TypeOK ==
    /\ readers \in SUBSET Threads /\ writers \in SUBSET Threads
    /\ store \in Seq(Message) /\ kki \in Int /\ written \in Nat
    /\ known \in SUBSET Sids /\ sess \in [Sids -> Record]
    /\ pc \in [Threads -> Steps]
    /\ call \in [Threads -> CallType \cup {NoCall}]
    /\ \A t \in Threads : pc[t] # "idle" => call[t] \in CallType
    /\ id \in [Threads -> Int] /\ k \in [Threads -> Nat]
    /\ out \in [Threads -> Seq(Nat)] /\ todo \in [Threads -> Seq(Hosts)]
    /\ delivered \in [Sids -> Seq(Nat)]

(* The int that numbers messages has not wrapped around.                    *)
NoWrap == written <= MaxInt

(* The messages of the vector are numbered in strictly increasing order and *)
(* all below the next number, once WriteFunction has counted the last one.  *)
(* ReadFunction's single cursor per session is sound only because of this.  *)
NumbersIncrease ==
    NoWrap => /\ \A a, b \in DOMAIN store : a < b => store[a].i < store[b].i
              /\ \A a \in DOMAIN store : store[a].i <= kki
              /\ (\A t \in Threads : pc[t] # "count")
                    => \A a \in DOMAIN store : store[a].i < kki

(* WriteFunction trims before it appends, so the vector holds at most one   *)
(* message more than the limit its test names (SeessionID.cpp:103-110; the  *)
(* comment on line 102 says "keep 2000").                                   *)
StoreBound == Len(store) <= MaxKeep + 1

(* push_back's search and append are two steps; two threads that add the    *)
(* same host to a session never leave it there twice.  (WriteHostInfo does  *)
(* not search and is left out of the calls of the runs that check this.)    *)
HostsUnique ==
    \A s \in Sids : \A a, b \in DOMAIN sess[s].hosts :
        sess[s].hosts[a] = sess[s].hosts[b] => a = b

(* A reader's iterators into the vector stay valid: no step changes the     *)
(* messages while some thread holds the lock shared (SeessionID.cpp:34).    *)
IteratorsStayValid == [][readers # {} => store' = store]_vars

(* What the polls of s have returned or are about to return.                *)
Received(s) == Elems(delivered[s]) \cup
    UNION {Elems(out[t]) : t \in {u \in readers : call[u].op = "read" /\ call[u].sid = s}}

(* When ReadFunction returns, its session has received every message still  *)
(* kept, whatever other polls, trims and clears happened: the cursor never  *)
(* skips one.  Message number 0 is the exception: every cursor starts at 0  *)
(* (SeessionID.h:43) and so covers it from the start (SeessionID.cpp:36).   *)
PollComplete ==
    NoWrap => \A t \in readers : pc[t] = "unlock" /\ call[t].op = "read" =>
        \A j \in DOMAIN store : store[j].msg > 0 => store[j].msg \in Received(call[t].sid)

(* SeessionID.h:57: ReadFunction "reads the messages of sid that were not   *)
(* sent yet": a message that was sent to a session is never sent again.     *)
AtMostOnce ==
    \A s \in Sids : \A a, b \in DOMAIN delivered[s] :
        delivered[s][a] = delivered[s][b] => a = b

(* The cursor of a session only moves forward, until Clear() drops it.      *)
CursorForward ==
    [][\A s \in Sids : sess'[s].i >= sess[s].i
         \/ \E t \in writers : pc[t] = "clear"]_vars

(* A posted message reaches a session that keeps polling, unless a trim or  *)
(* a clear removes it first.                                                *)
EventuallyReceived ==
    \A n \in 1 .. MaxWrites - 1 : \A s \in Sids :
        (\E j \in DOMAIN store : store[j].msg = n)
            ~> (n \in Elems(delivered[s]) \/ \A j \in DOMAIN store : store[j].msg # n)

(* The abstract mailbox this module implements when one thread polls.       *)
Abstract == INSTANCE Mailbox WITH
    box <- [j \in 1 .. Len(store) |-> store[j].msg], next <- written, First <- 1
MailboxSpec == Abstract!Spec
=============================================================================
