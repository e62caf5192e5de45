--------------------------------- MODULE Chat ---------------------------------
(***************************************************************************)
(* The chat console: the requests under /chat/ that do_read dispatches      *)
(* (web/connection.cpp), the mailbox they poll (web/SeessionID.cpp), and    *)
(* the browser windows that send them.  A poll takes messages out of the    *)
(* mailbox when it is run, and its reply is written afterwards; a window    *)
(* may give up waiting, and ask again, at any time in between.              *)
(*                                                                          *)
(* Several io threads run handlers, and ReadFunction holds the lock of the  *)
(* mailbox shared: polls overlap, those of one session too, when a window   *)
(* gave one up or two windows share the cookie.  What writes the mailbox    *)
(* has it alone.  do_write ends its connection, so a connection is one      *)
(* request.                                                                 *)
(***************************************************************************)
EXTENDS Integers, Sequences, FiniteSets

CONSTANTS
    Windows,     \* the browser windows
    Homes,       \* in which browser each window may be: a set of functions
    Conns,       \* how many connections there are at a time
    Loads,       \* how many io threads there may be (4 in main.cpp), and for each
                 \* number where the windows and which cookies the browsers may start
                 \* with (ids an earlier run of the server gave them, or none), and the
                 \* bounds of the model: messages ever heard, commands ever sent
    NoSid,       \* the empty session id of a request without the sid cookie
    MaxKeep,     \* 2000 in the code
    Drop         \* 1000 in the code

Browsers == UNION {{h[w] : w \in Windows} : h \in Homes}

(* The id that is made up for a request without one is an md5 of endpoint   *)
(* and time: that of another window never comes out.                        *)
Sids == Windows \cup {NoSid}

PoolSizes == DOMAIN Loads
Load(posts, sent, starts) == [posts |-> posts, commands |-> sent, starts |-> starts]

ASSUME ChatAssumption ==
    /\ NoSid \notin Windows
    /\ \A h \in Homes : DOMAIN h = Windows
    /\ PoolSizes \subseteq Nat \ {0}
    /\ \A n \in PoolSizes :
          /\ Loads[n].starts \subseteq Homes \X [Browsers -> Sids]
          /\ Loads[n].posts \in Nat /\ Loads[n].commands \in Nat
    /\ MaxKeep \in Nat \ {0} /\ Drop \in 1 .. MaxKeep /\ Conns \in Nat

VARIABLES
    box, next,   \* mmap, as the numbers of the messages it keeps; kki
    known,       \* the sids that have a record in ptrsmap
    cursor,      \* the i of each record, 0 for a sid without one
    threads,     \* how many io threads there are
    home,        \* the browser of each window
    cookie,      \* the sid cookie of each browser
    conn,        \* what each connection is at
    commands,    \* how many commands were sent
    shown,       \* history: messages each window was shown in each session
    lost,        \* history: messages in replies that failed, per session
    raced,       \* history: sessions with polls that overlapped, or that raced
                 \* with another session's to insert a record
    alive        \* does the server's process run?

boxVars == <<box, next>>
recordVars == <<known, cursor>>
mailVars == <<boxVars, recordVars>>
pageVars == <<home, cookie, commands>>
historyVars == <<shown, lost, raced>>
vars == <<mailVars, threads, pageVars, conn, historyVars, alive>>

(* "poll" is recvmsg.asp or recvmsg.tes, "command" and "clear" are          *)
(* sendmsg.asp; what a command does other than to clear the mailbox goes    *)
(* to the multicast group or to the session's host list.                    *)
Kinds == {"poll", "command", "clear"}

Free == [phase |-> "free"]

Init ==
    /\ box = <<>> /\ next = 0
    /\ known = {} /\ cursor = [s \in Sids |-> 0]
    /\ threads \in PoolSizes
    /\ \E s \in Loads[threads].starts : home = s[1] /\ cookie = s[2]
    /\ conn = [c \in 1 .. Conns |-> Free] /\ commands = 0
    /\ shown = [w \in Windows |-> [s \in Sids |-> <<>>]]
    /\ lost = [s \in Sids |-> {}] /\ raced = {} /\ alive = TRUE

(* Operators named Mutant... are plausible slips in the definition behind   *)
(* them.  No specification uses them: they show that the properties notice. *)

-----------------------------------------------------------------------------
(***************************************************************************)
(* The lock.  A poll holds it shared from the search for the session's      *)
(* record to its last message; who wants to write waits for all polls.      *)
(***************************************************************************)
Polling(c) == conn[c].phase \in {"insert", "running"}
MutantQuiet == TRUE
Quiet == \A c \in 1 .. Conns : ~Polling(c)

(***************************************************************************)
(* The multicast receiver and the browser.                                  *)
(***************************************************************************)
Trimmed(s) == IF Len(s) > MaxKeep THEN SubSeq(s, Drop + 1, Len(s)) ELSE s

Heard ==
    /\ alive /\ next < Loads[threads].posts /\ Quiet
    /\ box' = Append(Trimmed(box), next)
    /\ next' = next + 1
    /\ UNCHANGED <<recordVars, threads, pageVars, conn, historyVars, alive>>

Waiting(w) == \E c \in 1 .. Conns : conn[c].phase # "free" /\ conn[c].window = w /\ conn[c].open

(* The session of a request is what its Cookie says, NoSid without one.     *)
MutantSessionOf(w) == NoSid
SessionOf(w) == cookie[home[w]]

(* id is the cursor a poll started from, at how far it has come in the box. *)
Asking(w, kind) == [phase |-> "asked", kind |-> kind, window |-> w, sid |-> SessionOf(w),
                    open |-> TRUE, id |-> 0, at |-> 0, msgs |-> <<>>]

(* A window waits for one reply at a time.  Which connection it gets makes  *)
(* no difference.                                                           *)
Ask(w, kind) ==
    /\ alive /\ ~Waiting(w)
    /\ commands' = commands + (IF kind = "poll" THEN 0 ELSE 1)
    /\ commands' <= Loads[threads].commands
    /\ \E c \in 1 .. Conns :
          /\ conn[c] = Free /\ \A d \in 1 .. c - 1 : conn[d] # Free
          /\ conn' = [conn EXCEPT ![c] = Asking(w, kind)]
    /\ UNCHANGED <<mailVars, threads, home, cookie, historyVars, alive>>

(* It closes its end; the request may be on its way still.                  *)
GiveUp(c) ==
    /\ conn[c].phase # "free" /\ conn[c].open
    /\ conn' = [conn EXCEPT ![c].open = FALSE]
    /\ UNCHANGED <<mailVars, threads, pageVars, historyVars, alive>>

-----------------------------------------------------------------------------
(***************************************************************************)
(* ReadFunction.                                                            *)
(***************************************************************************)

(* A request is served when a thread is free.                               *)
Asked(c) ==
    /\ alive /\ conn[c].phase = "asked"
    /\ Cardinality({d \in 1 .. Conns : Polling(d)}) < threads

(* The search of the first ptrsmap[sid], and what the loop starts from when *)
(* the record is found.                                                     *)
StartPoll(c) ==
    LET s == conn[c].sid IN
    /\ Asked(c) /\ conn[c].kind = "poll"
    /\ conn' = [conn EXCEPT ![c].phase = IF s \in known THEN "running" ELSE "insert",
                            ![c].id = IF s \in known THEN cursor[s] ELSE 0]
    /\ IF \E d \in 1 .. Conns : Polling(d) /\ conn[d].sid = s THEN raced' = raced \cup {s} ELSE UNCHANGED raced
    /\ UNCHANGED <<mailVars, threads, pageVars, shown, lost, alive>>

(* Session s gets a record, over the one another poll may have linked in    *)
(* meanwhile, or has one; its i becomes m.                                  *)
MutantStored(s, m) == known' = known \cup {s} /\ UNCHANGED cursor
Stored(s, m) == known' = known \cup {s} /\ cursor' = [cursor EXCEPT ![s] = m]

(* The search missed, so a fresh record is linked in.  Polls that insert at *)
(* once race on the nodes of the map, and only one of them may stay: what   *)
(* the others store goes nowhere, until they search the next time.          *)
Insert(c) ==
    /\ alive /\ conn[c].phase = "insert"
    /\ Stored(conn[c].sid, 0)
    /\ \E L \in SUBSET {d \in 1 .. Conns \ {c} : conn[d].phase = "insert"} :
          /\ conn' = [d \in 1 .. Conns |-> IF d \in L \cup {c} THEN [conn[d] EXCEPT !.phase = "running"]
                                                               ELSE conn[d]]
          /\ raced' = raced \cup {conn[d].sid : d \in L}
    /\ UNCHANGED <<boxVars, threads, pageVars, shown, lost, alive>>

MutantCollected(q, m) == <<m>> \o q
Collected(q, m) == Append(q, m)

Covered(m, id) == m <= id

(* One round of the loop: skip what the cursor covered, or take the message *)
(* and move the cursor onto it.                                             *)
ReadNext(c) ==
    LET m == box[conn[c].at + 1] IN
    /\ alive /\ conn[c].phase = "running" /\ conn[c].at < Len(box)
    /\ IF Covered(m, conn[c].id)
       THEN conn' = [conn EXCEPT ![c].at = @ + 1] /\ UNCHANGED recordVars
       ELSE /\ conn' = [conn EXCEPT ![c].at = @ + 1, ![c].msgs = Collected(@, m)]
            /\ Stored(conn[c].sid, m)
    /\ UNCHANGED <<boxVars, threads, pageVars, historyVars, alive>>

(* Behind the last message the lock is released and the reply written.      *)
EndPoll(c) ==
    /\ alive /\ conn[c].phase = "running" /\ conn[c].at = Len(box)
    /\ conn' = [conn EXCEPT ![c].phase = "reply", ![c].id = 0, ![c].at = 0]
    /\ UNCHANGED <<mailVars, threads, pageVars, historyVars, alive>>

-----------------------------------------------------------------------------
(***************************************************************************)
(* The other requests, and the replies.                                     *)
(***************************************************************************)

(* Clear() forgets messages and records and goes on numbering.              *)
Clear ==
    /\ Quiet
    /\ box' = <<>> /\ known' = {} /\ cursor' = [s \in Sids |-> 0]
    /\ UNCHANGED next

(* A command that edits the host list makes the session's record.           *)
EditHosts(s) == Quiet /\ known' = known \cup {s} /\ UNCHANGED <<boxVars, cursor>>

RunCommand(c) ==
    /\ Asked(c) /\ conn[c].kind # "poll"
    /\ IF conn[c].kind = "clear" THEN Clear ELSE EditHosts(conn[c].sid) \/ UNCHANGED mailVars
    /\ conn' = [conn EXCEPT ![c].phase = "reply"]
    /\ UNCHANGED <<threads, pageVars, historyVars, alive>>

(* The read fails, or a command's client is gone when its address is        *)
(* logged: the connection is stopped and nothing is run.                    *)
NotRun(c) ==
    /\ Asked(c)
    /\ conn' = [conn EXCEPT ![c] = Free]
    /\ UNCHANGED <<mailVars, threads, pageVars, historyVars, alive>>

(* remote_endpoint() of a client that is gone throws where its address is   *)
(* needed for a new id (X-Real-IP spared the log), and nothing catches it.  *)
ProcessDies(c) ==
    /\ Asked(c) /\ conn[c].kind # "poll" /\ conn[c].sid = NoSid /\ ~conn[c].open
    /\ alive' = FALSE
    /\ UNCHANGED <<mailVars, threads, pageVars, conn, historyVars>>

NewId(c) == IF conn[c].sid = NoSid THEN conn[c].window ELSE conn[c].sid

(* The reply reaches the window.  The page may keep the id of a command's   *)
(* reply as its cookie.                                                     *)
ReplyArrives(c) ==
    /\ alive /\ conn[c].phase = "reply" /\ conn[c].open
    /\ shown' = [shown EXCEPT ![conn[c].window][conn[c].sid] = @ \o conn[c].msgs]
    /\ \/ conn[c].kind # "poll" /\ cookie' = [cookie EXCEPT ![home[conn[c].window]] = NewId(c)]
       \/ UNCHANGED cookie
    /\ conn' = [conn EXCEPT ![c] = Free]
    /\ UNCHANGED <<mailVars, threads, home, commands, lost, raced, alive>>

Elems(s) == {s[i] : i \in DOMAIN s}

(* The write fails, and do_write's handler stops the connection.            *)
ReplyFails(c) ==
    /\ alive /\ conn[c].phase = "reply"
    /\ lost' = [lost EXCEPT ![conn[c].sid] = @ \cup Elems(conn[c].msgs)]
    /\ conn' = [conn EXCEPT ![c] = Free]
    /\ UNCHANGED <<mailVars, threads, pageVars, shown, raced, alive>>

Poll(c) == StartPoll(c) \/ Insert(c) \/ ReadNext(c) \/ EndPoll(c)
Serve(c) == Poll(c) \/ RunCommand(c) \/ NotRun(c) \/ ReplyArrives(c) \/ ReplyFails(c)

Next ==
    \/ Heard
    \/ \E w \in Windows, kind \in Kinds : Ask(w, kind)
    \/ \E c \in 1 .. Conns : GiveUp(c) \/ Serve(c) \/ ProcessDies(c)

Spec == Init /\ [][Next]_vars

(* Connections are served, every window goes on polling, and the network    *)
(* does not drop each of its polls before it is run.                        *)
StartPollOf(w) == \E c \in 1 .. Conns : StartPoll(c) /\ conn[c].window = w

LiveSpec ==
    /\ Spec
    /\ \A c \in 1 .. Conns : WF_vars(Serve(c))
    /\ \A w \in Windows : SF_vars(Ask(w, "poll")) /\ SF_vars(StartPollOf(w))

-----------------------------------------------------------------------------
(***************************************************************************)
(* Properties.                                                              *)
(***************************************************************************)
Request == [phase : {"asked", "insert", "running", "reply"}, kind : Kinds, window : Windows,
            sid : Sids, open : BOOLEAN, id : Nat, at : Nat, msgs : Seq(Nat)]

(* Types of the state; the mailbox is never more than one message over.     *)
TypeOK ==
    /\ box \in Seq(Nat) /\ Len(box) <= MaxKeep + 1 /\ threads \in PoolSizes
    /\ next \in 0 .. Loads[threads].posts /\ commands \in 0 .. Loads[threads].commands
    /\ known \in SUBSET Sids /\ cursor \in [Sids -> Nat]
    /\ home \in Homes /\ cookie \in [Browsers -> Sids]
    /\ conn \in [1 .. Conns -> Request \cup {Free}]
    /\ shown \in [Windows -> [Sids -> Seq(Nat)]]
    /\ lost \in [Sids -> SUBSET Nat] /\ raced \in SUBSET Sids /\ alive \in BOOLEAN

Unread(s) == {m \in Elems(box) : m > cursor[s]}
OnTheWay(s) == UNION {Elems(conn[c].msgs) : c \in {d \in 1 .. Conns : conn[d] # Free /\ conn[d].sid = s}}
Shown(s) == UNION {Elems(shown[w][s]) : w \in Windows}

(* A session whose polls never ran at the same time is shown no message     *)
(* twice, neither in one window nor in two that share the cookie, however   *)
(* often windows give up and ask again, and in whatever order the requests  *)
(* they gave up are served.  With one io thread that is every session; with *)
(* more, two polls of a session may overlap, and then both return the same  *)
(* messages (SessionID's AtMostOnce).                                       *)
ShownOnce ==
    \A s \in Sids \ raced : \A w, v \in Windows :
        \A i \in DOMAIN shown[w][s], j \in DOMAIN shown[v][s] :
            shown[w][s][i] = shown[v][s][j] => w = v /\ i = j

(* A window is shown the messages of such a session in the order they were  *)
(* heard.  A poll that overlaps another may put the cursor back, and then   *)
(* the next reply begins with older messages.                               *)
ShownInOrder ==
    \A w \in Windows, s \in Sids \ raced : \A i, j \in DOMAIN shown[w][s] :
        i < j => shown[w][s][i] < shown[w][s][j]

(* Overlapping or not, a poll makes a session miss nothing: a message that  *)
(* is still kept is beyond the session's cursor, in a reply or in a poll    *)
(* that runs, was shown, or went down with a reply that failed.  Message 0  *)
(* is the exception (SessionID).                                            *)
OnlyFailureLoses ==
    \A s \in Sids : \A m \in Elems(box) \ {0} :
        m \in Unread(s) \cup OnTheWay(s) \cup Shown(s) \cup lost[s]

(* Windows that go on polling catch up: each message that stays in the      *)
(* mailbox comes to be shown in the session every window has by then, or it *)
(* was in a reply that failed.                                              *)
Behind ==
    \E w \in Windows : LET s == cookie[home[w]] IN
        ~(Elems(box) \ {0} \subseteq Shown(s) \cup lost[s])
CatchesUp == Behind ~> ~Behind \/ ~alive
=============================================================================
