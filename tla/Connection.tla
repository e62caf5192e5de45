----------------------------- MODULE Connection ------------------------------
(***************************************************************************)
(* One connection of the web server: web/connection.cpp, the cycle of       *)
(* do_read, request dispatch, do_write and the file streams.  A connection  *)
(* has at most one asynchronous operation outstanding; its handler runs to  *)
(* the end before the next one and starts the next operation.               *)
(*                                                                          *)
(* The client's bytes are grouped into units: a request is hdr units of     *)
(* header and body units of body, and all requests form one stream whose    *)
(* units are numbered from 1.  A cell of the receive buffer holds the       *)
(* number of the unit last written to it.                                   *)
(***************************************************************************)
EXTENDS Integers, Sequences

CONSTANTS
    Clients,     \* a sequence of clients: what each does on this connection
    Cap,         \* 8192 in the code: the size of buffer_
    Junk         \* what the uninitialised contentlen may hold

(* method says whether the method is POST, length is the value of the       *)
(* Content-Length header or NoLength, and answer is how the handler ends:   *)
(* with do_write, with a file stream, or, for a Range it cannot use, with   *)
(* no reply at all (connection.cpp:1517-1528).                              *)
NoLength == -1
RequestType == [post : BOOLEAN, hdr : Nat \ {0}, body : Nat, length : Nat \cup {NoLength},
                answer : {"write", "stream", "nothing"}]

(* A client sends requests one after the other; one that pipelines does not *)
(* wait for the replies.                                                    *)
ClientType == [requests : Seq(RequestType), pipelined : BOOLEAN]

ASSUME ClientsAssumption == Clients \in Seq(ClientType)
ASSUME BufferAssumption == Cap \in Nat \ {0} /\ Junk \subseteq Nat

(* Where the units of each request of a client end in its stream.           *)
Ends(requests) ==
    LET end[r \in 0 .. Len(requests)] ==
            IF r = 0 THEN 0 ELSE end[r - 1] + requests[r].hdr + requests[r].body
    IN end
AllEnds == [c \in DOMAIN Clients |-> Ends(Clients[c].requests)]

VARIABLES
    client,      \* which of them it is
    sent,        \* units the client has sent
    peer,        \* is the client's end open?
    got,         \* units the server has read
    buffer,      \* buffer_
    n,           \* bytes_transferred of the completed read, f_offset added
    f_offset,    \* where the next read goes on in buffer_
    contentlen,  \* the last Content-Length seen
    sock,        \* is socket_ open?
    op,          \* the outstanding operation, or the completion that waits
    cur,         \* the request being answered, 0 for what is no request
    handled,     \* history: the requests dispatched, in order
    replies,     \* history: the requests whose reply was sent, in order
    failed       \* history: an operation failed, or the manager stopped this

clientVars == <<client, sent, peer>>
inVars == <<got, buffer, n>>
vars == <<clientVars, inVars, f_offset, contentlen, sock, op, cur, handled, replies, failed>>

Requests == Clients[client].requests
EndOf == AllEnds[client]
StartOf(r) == EndOf[r - 1] + 1
Total == EndOf[Len(Requests)]
RequestAt(i) == CHOOSE r \in 1 .. Len(Requests) : StartOf(r) <= i /\ i <= EndOf[r]

Init ==
    /\ client \in DOMAIN Clients /\ sent = 0 /\ peer = TRUE
    /\ got = 0 /\ buffer = [i \in 1 .. Cap |-> 0] /\ n = 0
    /\ f_offset = 0 /\ contentlen \in Junk
    /\ sock = TRUE /\ op = "read" /\ cur = 0
    /\ handled = <<>> /\ replies = <<>> /\ failed = FALSE

-----------------------------------------------------------------------------
(***************************************************************************)
(* The client.                                                              *)
(***************************************************************************)
Replied(r) == \E i \in DOMAIN replies : replies[i] = r

ClientSends ==
    /\ peer /\ sent < Total
    /\ Clients[client].pipelined \/ \A r \in 1 .. RequestAt(sent + 1) - 1 : Replied(r)
    /\ sent' = sent + 1
    /\ UNCHANGED <<client, peer, inVars, f_offset, contentlen, sock, op, cur, handled, replies, failed>>

ClientCloses ==
    /\ peer
    /\ peer' = FALSE
    /\ UNCHANGED <<client, sent, inVars, f_offset, contentlen, sock, op, cur, handled, replies, failed>>

-----------------------------------------------------------------------------
(***************************************************************************)
(* Starting and ending the operations.                                      *)
(***************************************************************************)

(* Operators named Mutant... are plausible slips in the definition behind   *)
(* them.  No specification uses them: they show that the properties notice. *)

MutantOffset(f) == f
Offset(f) == IF f >= Cap THEN 0 ELSE f

(* do_read() from offset f: a full buffer starts over; on a closed socket   *)
(* the read fails at once.                                                  *)
DoRead(f) ==
    /\ f_offset' = Offset(f)
    /\ op' = IF sock THEN "read" ELSE "error"

Room(f) == Cap - f

(* A read at offset f takes some of the waiting units, as many as fit.      *)
Fill(f) ==
    \E m \in 1 .. Room(f) :
        /\ m <= sent - got
        /\ got' = got + m
        /\ buffer' = [i \in 1 .. Cap |->
                        IF f < i /\ i <= f + m THEN got + (i - f) ELSE buffer[i]]
        /\ n' = f + m

ReadEnds ==
    /\ op = "read"
    /\ Fill(f_offset)
    /\ op' = "data"
    /\ UNCHANGED <<clientVars, f_offset, contentlen, sock, cur, handled, replies, failed>>

(* End of file, or the network: an outstanding operation fails.             *)
OperationFails ==
    /\ op \in {"read", "write", "stream"} /\ sock
    /\ op = "read" => sent = got
    /\ ~peer
    /\ op' = "error"
    /\ UNCHANGED <<clientVars, inVars, f_offset, contentlen, sock, cur, handled, replies, failed>>

(* connection_manager_.stop_all() closes the socket under the operation.    *)
ManagerStops ==
    /\ sock /\ sock' = FALSE /\ failed' = TRUE
    /\ op' = IF op \in {"read", "write", "stream"} THEN "aborted" ELSE op
    /\ UNCHANGED <<clientVars, inVars, f_offset, contentlen, cur, handled, replies>>

(* Every handler: an error other than operation_aborted stops the           *)
(* connection, and an aborted operation leaves it alone.                    *)
ErrorHandler ==
    /\ op \in {"error", "aborted"}
    /\ sock' = IF op = "error" THEN FALSE ELSE sock
    /\ failed' = (failed \/ op = "error")
    /\ op' = "none"
    /\ UNCHANGED <<clientVars, inVars, f_offset, contentlen, cur, handled, replies>>

-----------------------------------------------------------------------------
(***************************************************************************)
(* do_read's handler.                                                       *)
(***************************************************************************)

(* The request the buffer starts with, if it starts with one, and how many  *)
(* of its units are there in a row.                                         *)
Begins(r) == buffer[1] = StartOf(r)
InBuffer(r) == {i \in 1 .. n : \A j \in 1 .. i : buffer[j] = StartOf(r) + j - 1}
HeaderIn(r) == Begins(r) /\ Requests[r].hdr \in InBuffer(r)
HeaderStarted(r) == Begins(r) /\ n \in InBuffer(r) /\ n < Requests[r].hdr

(* The parser over the first n cells.  Text that is no header is bad, or    *)
(* looks like the start of one.                                             *)
ParseResults ==
    IF \E r \in 1 .. Len(Requests) : HeaderIn(r) THEN {"good"}
    ELSE IF \E r \in 1 .. Len(Requests) : HeaderStarted(r) THEN {"indeterminate"}
    ELSE {"bad", "indeterminate"}

(* bad: the stock reply 400.                                                *)
BadRequest ==
    /\ op = "data" /\ "bad" \in ParseResults
    /\ op' = "write" /\ cur' = 0
    /\ UNCHANGED <<clientVars, inVars, f_offset, contentlen, sock, handled, replies, failed>>

(* indeterminate: read on, from the same offset as before.                  *)
NeedsMore ==
    /\ op = "data" /\ "indeterminate" \in ParseResults
    /\ DoRead(f_offset)
    /\ UNCHANGED <<clientVars, inVars, contentlen, sock, cur, handled, replies, failed>>

(* good: the header is complete.  A header without Content-Length leaves    *)
(* contentlen as it was.                                                    *)
Length(r) == IF Requests[r].length = NoLength THEN contentlen ELSE Requests[r].length
MutantFinished(r) == n >= Requests[r].hdr
Finished(r) == n = Requests[r].hdr + Length(r)

MutantContinueAt == 0
ContinueAt == n

(* A POST whose body is not complete: read on behind what is there.         *)
BodyIncomplete(r) ==
    /\ op = "data" /\ HeaderIn(r)
    /\ Requests[r].post /\ ~Finished(r)
    /\ contentlen' = Length(r)
    /\ DoRead(ContinueAt)
    /\ UNCHANGED <<clientVars, inVars, sock, cur, handled, replies, failed>>

MutantResumeAt(r) == n
ResumeAt(r) == IF Requests[r].post THEN 0 ELSE f_offset

(* A complete POST, or any other method: run the request's handler.         *)
Dispatch(r) ==
    /\ op = "data" /\ HeaderIn(r)
    /\ Requests[r].post => Finished(r)
    /\ contentlen' = Length(r)
    /\ cur' = r
    /\ handled' = Append(handled, r)
    /\ IF Requests[r].answer = "nothing" THEN DoRead(ResumeAt(r))
       ELSE op' = Requests[r].answer /\ f_offset' = ResumeAt(r)
    /\ UNCHANGED <<clientVars, inVars, sock, replies, failed>>

(* sendmsg whose client is gone when its address is to be logged: the       *)
(* connection is stopped, and neither run nor answered is the request.      *)
DispatchStops(r) ==
    /\ op = "data" /\ HeaderIn(r)
    /\ Requests[r].post /\ Finished(r) /\ ~peer
    /\ contentlen' = Length(r) /\ f_offset' = ResumeAt(r)
    /\ sock' = FALSE /\ failed' = TRUE /\ op' = "none"
    /\ UNCHANGED <<clientVars, inVars, cur, handled, replies>>

-----------------------------------------------------------------------------
(***************************************************************************)
(* Writing.                                                                 *)
(***************************************************************************)
(* The last byte is with the client, which may send on before the server    *)
(* runs the handler.                                                        *)
WriteEnds ==
    /\ op \in {"write", "stream"} /\ sock
    /\ op' = IF op = "write" THEN "written" ELSE "streamed"
    /\ replies' = IF cur = 0 THEN replies ELSE Append(replies, cur)
    /\ UNCHANGED <<clientVars, inVars, f_offset, contentlen, sock, cur, handled, failed>>

(* do_write's handler after success: do_read(), for bkeepalive is always    *)
(* true, and then connection_manager_.stop() all the same.  The read that   *)
(* was just started is aborted, unless data was waiting and completed it    *)
(* at once.                                                                 *)
ReplyWritten ==
    /\ op = "written" /\ sock
    /\ f_offset' = Offset(f_offset)
    /\ sock' = FALSE
    /\ \/ Fill(f_offset') /\ op' = "data"
       \/ UNCHANGED inVars /\ op' = "aborted"
    /\ UNCHANGED <<clientVars, contentlen, cur, handled, replies, failed>>

(* The same after the manager closed the socket: the read fails at once.    *)
ReplyWrittenClosed ==
    /\ op = "written" /\ ~sock
    /\ DoRead(f_offset)
    /\ UNCHANGED <<clientVars, inVars, contentlen, sock, cur, handled, replies, failed>>

(* asyncsend_file after the last chunk reads on and leaves the connection   *)
(* open.                                                                    *)
StreamEnded ==
    /\ op = "streamed"
    /\ DoRead(f_offset)
    /\ UNCHANGED <<clientVars, inVars, contentlen, sock, cur, handled, replies, failed>>

(* On a socket that is closed already the write fails.                      *)
WriteFails ==
    /\ op \in {"write", "stream"} /\ ~sock
    /\ op' = "error"
    /\ UNCHANGED <<clientVars, inVars, f_offset, contentlen, sock, cur, handled, replies, failed>>

-----------------------------------------------------------------------------
ServerStep ==
    \/ ReadEnds \/ ErrorHandler \/ BadRequest \/ NeedsMore
    \/ \E r \in 1 .. Len(Requests) : BodyIncomplete(r) \/ Dispatch(r) \/ DispatchStops(r)
    \/ WriteEnds \/ WriteFails \/ ReplyWritten \/ ReplyWrittenClosed \/ StreamEnded

Next == ClientSends \/ ClientCloses \/ OperationFails \/ ManagerStops \/ ServerStep

Spec == Init /\ [][Next]_vars

(* The io thread runs the handlers that wait, sockets deliver what was      *)
(* sent, and the client sends what it has begun.                            *)
LiveSpec == Spec /\ WF_vars(ServerStep) /\ WF_vars(ClientSends)

-----------------------------------------------------------------------------
(***************************************************************************)
(* Properties.                                                              *)
(***************************************************************************)
Rising(s) == \A i, j \in DOMAIN s : i < j => s[i] < s[j]

TypeOK ==
    /\ client \in DOMAIN Clients /\ sent \in 0 .. Total /\ got \in 0 .. sent /\ peer \in BOOLEAN
    /\ buffer \in [1 .. Cap -> 0 .. Total] /\ n \in 0 .. Cap
    /\ f_offset \in 0 .. Cap /\ contentlen \in Nat
    /\ sock \in BOOLEAN /\ failed \in BOOLEAN
    /\ op \in {"none", "read", "data", "error", "aborted", "write", "stream",
               "written", "streamed"}
    /\ cur \in 0 .. Len(Requests)
    /\ handled \in Seq(1 .. Len(Requests)) /\ replies \in Seq(1 .. Len(Requests))

(* A read always has room: do_read never asks for zero bytes, which would   *)
(* complete at once without progress, nor writes behind the buffer.         *)
ReadHasRoom == op = "read" => f_offset < Cap

(* A request says how long its body is: a POST with its Content-Length, any *)
(* other by having none.                                                    *)
WellFormed(r) ==
    IF Requests[r].post THEN Requests[r].length = Requests[r].body ELSE Requests[r].body = 0

(* A POST is dispatched only when all of its body has arrived, in however   *)
(* many pieces, and it is in the buffer without a gap.                      *)
DispatchedWhole ==
    [][handled' # handled =>
         LET r == handled'[Len(handled')] IN
         Requests[r].post /\ WellFormed(r) =>
                             \A i \in 1 .. Requests[r].hdr + Requests[r].body :
                                buffer[i] = StartOf(r) + i - 1]_vars

(* Requests are dispatched in the order the client sent them and none       *)
(* twice, and each reply the client gets answers the last one dispatched.   *)
InOrderOnce ==
    /\ Rising(handled) /\ Rising(replies)
    /\ \A i \in DOMAIN replies : \E j \in DOMAIN handled : handled[j] = replies[i]
    /\ op \in {"write", "stream"} /\ cur # 0 =>
         handled # <<>> /\ cur = handled[Len(handled)] /\ ~Replied(cur)

(* connection.cpp:582: everything received so far is parsed again "when     *)
(* receiving asynchronously", so the text of a well formed request is never *)
(* answered 400, wherever the pieces it arrives in are cut.                 *)
NeverBad == ~(op = "write" /\ cur = 0)

(* A client that waits for replies and whose requests are well formed and   *)
(* fit the buffer, each header in one piece and each with an answer.        *)
Orderly ==
    /\ ~Clients[client].pipelined
    /\ \A r \in DOMAIN Requests :
          /\ WellFormed(r)
          /\ Requests[r].hdr = 1 /\ Requests[r].hdr + Requests[r].body <= Cap
          /\ Requests[r].answer # "nothing"

(* Whatever the pieces its bodies arrive in, no request of an orderly       *)
(* client is taken for text that is no request ...                          *)
OrderlyNeverBad == Orderly => NeverBad

(* ... and each that was sent completely is answered, or the connection     *)
(* ends: it sends no further one before.                                    *)
Unanswered == \E r \in DOMAIN Requests : sent = EndOf[r] /\ ~Replied(r)
Answered == Orderly /\ Unanswered ~> ~Unanswered \/ op = "none"
=============================================================================
