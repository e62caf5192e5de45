------------------------------- MODULE Replies -------------------------------
(***************************************************************************)
(* The one reply_ of a connection (web/reply.cpp), filled in again for each *)
(* request the connection answers (web/connection.cpp): do_file and         *)
(* do_fileM send it in front of a file and go on to the next request, the   *)
(* others send it with its content by do_write, which closes.  A header     *)
(* knows the request that set it, a content the requests it is made of, and *)
(* whether it was left there by get_fullpath.                               *)
(***************************************************************************)
EXTENDS Integers, Sequences

CONSTANTS
    Lengths,     \* lengths of files, parts of files and contents
    MaxRequests  \* requests on one connection

RepliesAssumption == Lengths \subseteq Nat /\ MaxRequests \in Nat

VARIABLES
    status, headers, content,  \* reply_
    open,                      \* the connection
    request,                   \* number of the request being answered
    sent                       \* what to_buffers gave to the socket last, and the file behind it

vars == <<status, headers, content, open, request, sent>>

Nothing == [status |-> 0, headers |-> <<>>, content |-> <<>>, file |-> 0]

Init ==
    /\ status = 0 /\ headers = <<>> /\ content = <<>>
    /\ open = TRUE /\ request = 0 /\ sent = Nothing

(* Operators named Mutant... are plausible slips in the definition behind   *)
(* them.  No specification uses them: they show that the properties notice. *)

(* A request comes in.                                                      *)
Asked == open /\ request < MaxRequests /\ request' = request + 1

(* Every handler resizes headers and sets all that are in it then.  Only    *)
(* the value of Content-Length matters here.                                *)
Resized(names, length) ==
    [i \in DOMAIN names |->
        [name |-> names[i], by |-> request', length |-> IF i = 1 THEN length ELSE 0]]

(* to_buffers: status line, headers, content.                               *)
ToBuffers(file) == [status |-> status', headers |-> headers', content |-> content', file |-> file]

(* do_write reads on when the connection is kept, and then closes it anyway.*)
MutantDoWrite == sent' = ToBuffers(0) /\ open' = open
DoWrite == sent' = ToBuffers(0) /\ open' = FALSE

-----------------------------------------------------------------------------
(* reply::stock_reply, a page of n bytes.                                   *)
Stock(code, n, stays) ==
    [status |-> code, headers |-> Resized(<<"Content-Length", "Content-Type">>, n),
     content |-> <<[by |-> request', len |-> n, left |-> stays]>>]

(* What get_fullpath makes of reply_.  A path it refuses is answered with a *)
(* stock 400 there; but do_read goes on to do_file with the empty path, and *)
(* do_fileM looks for the file the connection named before.                 *)
GetFullpath ==
    {[status |-> status, headers |-> headers, content |-> content]}
    \cup {Stock(400, n, TRUE) : n \in Lengths}

FileNames == <<"Content-Length", "Content-Type", "Last-Modified">>

(* do_file, do_fileM: the whole file.                                       *)
SendFile(n) ==
    /\ Asked
    /\ status' = 200 /\ headers' = Resized(FileNames, n)
    /\ \E rep \in GetFullpath : content' = rep.content
    /\ UNCHANGED open
    /\ sent' = ToBuffers(n)

(* A Range.                                                                 *)
SendRange(n) ==
    /\ Asked
    /\ status' = 206 /\ headers' = Resized(Append(FileNames, "Content-Range"), n)
    /\ \E rep \in GetFullpath : content' = rep.content
    /\ UNCHANGED open
    /\ sent' = ToBuffers(n)

(* Several ranges, or none: there is no reply.                              *)
SendNothing ==
    /\ Asked
    /\ sent' = Nothing
    /\ \E rep \in GetFullpath :
          status' = rep.status /\ headers' = rep.headers /\ content' = rep.content
    /\ UNCHANGED open

(* The client has the file: all but the status is left as it is.            *)
NotModified ==
    /\ Asked
    /\ status' = 304
    /\ \E rep \in GetFullpath : headers' = rep.headers /\ content' = rep.content
    /\ DoWrite

(* reply_ = stock_reply(not_found), or bad_request for a request that does  *)
(* not parse.                                                               *)
StockReply(code, n) ==
    /\ Asked
    /\ LET rep == Stock(code, n, FALSE)
       IN  status' = rep.status /\ headers' = rep.headers /\ content' = rep.content
    /\ DoWrite

(* The answers to commands, uploads and polls; those of the event stream    *)
(* and to DELETE are not to be cached.                                      *)
Answer(n, names) ==
    /\ Asked
    /\ status' = 200
    /\ content' = <<[by |-> request', len |-> n, left |-> FALSE]>>
    /\ headers' = Resized(names, n)
    /\ DoWrite

(* A long answer to a poll of a client that takes gzip: the pieces are      *)
(* appended to the content.                                                 *)
AnswerCompressed(n) ==
    /\ Asked
    /\ status' = 200
    /\ content' = Append(content, [by |-> request', len |-> n, left |-> FALSE])
    /\ headers' = Resized(<<"Content-Length", "Content-Type", "Content-Encoding">>, n)
    /\ DoWrite

Answers == {<<"Content-Length", "Content-Type">>, <<"Content-Length", "Content-Type", "Cache-Control">>}

Next ==
    \/ SendNothing \/ NotModified
    \/ \E n \in Lengths : SendFile(n) \/ SendRange(n) \/ AnswerCompressed(n)
    \/ \E n \in Lengths, code \in {400, 404} : StockReply(code, n)
    \/ \E n \in Lengths, names \in Answers : Answer(n, names)

-----------------------------------------------------------------------------
(***************************************************************************)
(* Properties.                                                              *)
(***************************************************************************)
LengthSent == IF sent.content = <<>> THEN sent.file ELSE sent.content[1].len

(* Is the page in it that get_fullpath left?                                *)
Leftover == \E i \in DOMAIN sent.content : sent.content[i].left

(* What the client gets is the answer to its request, though reply_ has     *)
(* been used before: no header and no byte of an earlier answer is sent     *)
(* again, the Content-Length is that of what follows, and only one of file  *)
(* and content does, the content in one piece.  A 304 has no body; its      *)
(* headers are those of the reply before it.  Nothing but the page that     *)
(* get_fullpath leaves when it refuses a path breaks this: it goes out in   *)
(* front of a file, of those that follow, and behind a 304.                 *)
ReplyIsOwn == ~Leftover =>
    /\ Len(sent.content) <= 1 /\ (sent.content # <<>> => sent.file = 0)
    /\ \A i \in DOMAIN sent.content : sent.content[i].by = request
    /\ sent.status \in {200, 206, 400, 404} =>
        /\ \A i \in DOMAIN sent.headers : sent.headers[i].by = request
        /\ sent.headers[1].name = "Content-Length" /\ sent.headers[1].length = LengthSent
    /\ sent.status = 304 => LengthSent = 0
=============================================================================
