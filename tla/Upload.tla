-------------------------------- MODULE Upload --------------------------------
(***************************************************************************)
(* One upload of a file: the two upload branches of do_read, asyncrecv_file *)
(* and asyncrecvfiletodb (web/connection.cpp).  The request is a header, an *)
(* opening boundary line, the part's header, the content and the closing    *)
(* boundary line.  It comes in pieces of any size; what is behind the       *)
(* content is cut off by looking for the boundary and counting dashes.      *)
(*                                                                          *)
(* The end of the body is kept byte by byte, for the code counts it.  Other *)
(* texts are as long as the instance likes: "h" is a byte of the request's  *)
(* header, "disp" the part's header up to the file's name and "name" the    *)
(* rest of it with its blank line; the boundary's text is the byte "b".     *)
(***************************************************************************)
EXTENDS Integers, Sequences, FiniteSetsExt

CONSTANTS
    Uploads,     \* what a client may send, see UploadType
    Cap,         \* 8192 in the code: the size of buffer_
    MaxLen       \* bound of the model: f_len is not counted on beyond it while
                 \* the part's header is looked for

(* db tells the two uris apart; dashes is how many dashes stand before the  *)
(* boundary's text in the body (do_read strips them from the Content-Type); *)
(* epilogue is the length of what follows the closing line within the       *)
(* Content-Length, extra of what the client sends behind that.              *)
UploadType == [db : BOOLEAN, hdr : Nat \ {0}, dashes : Nat, content : Seq({"x", "-"}),
               epilogue : Nat, extra : Nat]

ASSUME UploadsAssumption == \A u \in Uploads : u \in UploadType /\ u.dashes >= 2 /\ u.hdr <= Cap
ASSUME CapAssumption == Cap \in Nat \ {0} /\ MaxLen \in Nat

VARIABLES
    up,          \* the upload
    got,         \* bytes of it the server has read
    buffer,      \* buffer_
    mode,        \* the outstanding read, or how the upload ended
    f_offset,    \* where the next piece goes in buffer_
    recv_datalen,
    wfirst,      \* was the first piece of the file written?
    f_len,       \* the length the reply announces
    present,     \* is there a file on disk, or are there chunks in the database?
    file,        \* its bytes
    reply,       \* none, ok or error
    clean        \* history: see CleanRead

recvVars == <<f_offset, recv_datalen, wfirst>>
vars == <<up, got, buffer, mode, recvVars, f_len, present, file, reply, clean>>

Rep(s, k) == [i \in 1 .. k |-> s]
Closing(u) == <<"cr", "lf">> \o Rep("-", u.dashes) \o <<"b", "-", "-", "cr", "lf">>
Body(u) == Rep("-", u.dashes) \o <<"b", "disp", "name">> \o u.content
               \o Closing(u) \o Rep("e", u.epilogue)
Stream(u) == Rep("h", u.hdr) \o Body(u) \o Rep("n", u.extra)

(* Where the part's header ends in the buffer and the content begins.       *)
NameAt == up.hdr + up.dashes + 3
ContentAt == NameAt + 1
ContentEnd == NameAt + Len(up.content)

Init ==
    /\ up \in Uploads
    /\ got = 0 /\ buffer = [i \in 1 .. Cap |-> "junk"] /\ mode = "read"
    /\ f_offset = 0 /\ recv_datalen = 0 /\ wfirst = FALSE /\ f_len = 0
    /\ present = FALSE /\ file = <<>> /\ reply = "none" /\ clean = TRUE

(* Operators named Mutant... are plausible slips in the definition behind   *)
(* them.  No specification uses them: they show that the properties notice. *)

-----------------------------------------------------------------------------
(***************************************************************************)
(* Reading.                                                                 *)
(***************************************************************************)
Room == Cap - f_offset

(* The boundary is found safely if the closing line comes in one piece, and *)
(* if a later piece covers the opening line that is still in the buffer.    *)
CleanRead(m) ==
    /\ got + m <= ContentEnd \/ got + m >= up.hdr + Len(Body(up))
    /\ wfirst => m >= NameAt - 2 \/ got + m >= up.hdr + Len(Body(up))

(* A piece of m bytes is read behind f_offset.  A read without room         *)
(* completes at once with nothing.                                          *)
Piece(m) ==
    /\ m + got <= Len(Stream(up))
    /\ m \in IF Room = 0 THEN {0} ELSE 1 .. Room
    /\ got' = got + m
    /\ buffer' = [i \in 1 .. Cap |-> IF f_offset < i /\ i <= f_offset + m
                                     THEN Stream(up)[got + i - f_offset] ELSE buffer[i]]
    /\ clean' = (clean /\ CleanRead(m))
    /\ UNCHANGED up

(* Header and body are complete.                                            *)
MutantComplete(r) == r = Len(Body(up))
Complete(r) == r = up.hdr + Len(Body(up))

(* What do_read's first piece does: it holds the header, or Connection's    *)
(* NeedsMore reads on.  Not complete: go on with asyncrecv_file or          *)
(* asyncrecvfiletodb.                                                       *)
FirstPiece(m) == mode = "read" /\ Piece(m) /\ m >= up.hdr

StartOffset(m) == m

StartReceiving(m) ==
    /\ FirstPiece(m) /\ ~Complete(m)
    /\ mode' = "receive"
    /\ f_offset' = StartOffset(m) /\ recv_datalen' = m /\ wfirst' = FALSE /\ f_len' = 0
    /\ UNCHANGED <<present, file, reply>>

-----------------------------------------------------------------------------
(***************************************************************************)
(* Files on disk.                                                           *)
(***************************************************************************)
Last(f, k) == f[Len(f) - k + 1]
HasBoundary(f) == \E k \in 1 .. 5 : k <= Len(f) /\ Last(f, k) = "b"

(* From before the last five bytes back over dashes.  A seek before the     *)
(* start of the file reads nothing, and tp stays a dash.                    *)
MutantPastDashes(f) == Min({k \in 5 .. Len(f) + 6 : k > Len(f) \/ Last(f, k) # "-"})
PastDashes(f) == Min({k \in 6 .. Len(f) + 6 : k > Len(f) \/ Last(f, k) # "-"})

(* f_len = size - boffset, boffset one further; truncate() fails below 0.   *)
CutLength(f) == Len(f) - (PastDashes(f) + 1)
Truncated(f) == IF CutLength(f) < 0 THEN f ELSE SubSeq(f, 1, CutLength(f))

Reply(how) == mode' = "done" /\ reply' = how

(* The file is complete: cut the closing line off and reply; n is f_len.    *)
EndFile(f, n) ==
    /\ present' = TRUE
    /\ \/ /\ ~HasBoundary(f)
          /\ Reply("error") /\ file' = f /\ f_len' = n
       \/ /\ HasBoundary(f) /\ PastDashes(f) > Len(f)
          /\ mode' = "hung" /\ file' = f /\ f_len' = n /\ UNCHANGED reply
       \/ /\ HasBoundary(f) /\ PastDashes(f) <= Len(f)
          /\ Reply("ok") /\ file' = Truncated(f) /\ f_len' = CutLength(f)

(* The whole request in one piece.  The last four bytes are not written.    *)
WholeFile(m) ==
    /\ FirstPiece(m) /\ Complete(m) /\ ~up.db
    /\ EndFile(SubSeq(buffer', ContentAt, m - 4), f_len)
    /\ UNCHANGED recvVars

(* The part's header is looked for until it is found.                       *)
InBuffer(s) == \E i \in 1 .. recv_datalen' : buffer'[i] = s

(* What a later piece adds to a file on disk: the piece; of the first one   *)
(* with content all that is behind the part's header.                       *)
MutantPieceOf(m) == IF wfirst THEN SubSeq(buffer', 1, m)
                    ELSE SubSeq(buffer', Max({ContentAt, f_offset + 1}), recv_datalen')
PieceOf(m) == IF wfirst THEN SubSeq(buffer', 1, m)
              ELSE SubSeq(buffer', ContentAt, recv_datalen')

(* A later piece: a handler of the read in asyncrecv_file or ...todb.       *)
NextPiece(m) ==
    /\ mode = "receive" /\ Piece(m)
    /\ recv_datalen' = recv_datalen + m
    /\ wfirst' = (wfirst \/ InBuffer("disp"))
    /\ f_offset' = IF wfirst' THEN 0 ELSE f_offset + m

(* Only the first half of the part's header is there: strstr() finds no     *)
(* blank line and its null pointer is computed with.                        *)
HeaderCut == wfirst' /\ ~wfirst /\ ~InBuffer("name")

Crash ==
    /\ mode' = "crashed"
    /\ UNCHANGED <<f_len, reply>>

ReceiveFile(m) ==
    /\ NextPiece(m) /\ ~up.db
    /\ LET new == PieceOf(m)
           len == IF wfirst THEN f_len ELSE Len(new)
       IN
       \/ ~wfirst' /\ UNCHANGED <<mode, f_len, present, file, reply>>
       \/ HeaderCut /\ Crash /\ present' = TRUE /\ UNCHANGED file
       \/ /\ wfirst' /\ ~HeaderCut /\ ~Complete(recv_datalen')
          /\ file' = file \o new /\ present' = TRUE /\ f_len' = len
          /\ UNCHANGED <<mode, reply>>
       \/ /\ wfirst' /\ ~HeaderCut /\ Complete(recv_datalen')
          /\ EndFile(file \o new, len)

-----------------------------------------------------------------------------
(***************************************************************************)
(* Files in the database.  saveFile adds a chunk, storeFile makes the       *)
(* chunks a file, delFile drops them.                                       *)
(***************************************************************************)
(* strstr(): the first "b" in the buffer from position i, 0 if there is     *)
(* none; it looks on behind the piece into what earlier pieces left.        *)
Boundary(i) ==
    LET found == {j \in i .. Cap : buffer'[j] = "b"} IN IF found = {} THEN 0 ELSE Min(found)

(* The dashes that end at position i.                                       *)
Dashes(i) == i - Max({j \in 0 .. i : j = 0 \/ buffer'[j] # "-"})

(* The length of the chunk that is saved of n bytes up to the boundary at   *)
(* b: without the boundary, four bytes, the dashes and a line end.          *)
Before(n, b) == IF b = 0 THEN n ELSE n - 5 - Dashes(b - 1) - 2

(* What f_len counts of a later piece, apart from what is saved.            *)
MutantCounted(n, b) == IF b = 0 THEN n ELSE n - 5 - Dashes(b - 1)
Counted(n, b) == IF b = 0 THEN n ELSE n - 7 - Dashes(b - 1)

SavedOrNot(len, first) ==
    \/ file' = file \o SubSeq(buffer', first, first + len - 1) /\ present' = TRUE
    \/ file' = <<>> /\ present' = FALSE

(* The whole request in one piece.  When the database fails the reply is    *)
(* formatted without its arguments, and that exception ends the thread.     *)
WholeDb(m) ==
    /\ FirstPiece(m) /\ Complete(m) /\ up.db
    /\ UNCHANGED recvVars
    /\ LET end == m - 5
           len == end - NameAt - Dashes(end) - 2
       IN
       \/ /\ Boundary(end + 1) = 0
          /\ Reply("error") /\ f_len' = end - NameAt /\ UNCHANGED <<present, file>>
       \/ /\ Boundary(end + 1) # 0
          /\ f_len' = len /\ SavedOrNot(len, ContentAt)
          /\ \/ present' /\ Reply("ok")
             \/ ~present' /\ mode' = "crashed" /\ UNCHANGED reply

(* The first piece with content, and the later ones.  The search starts a   *)
(* few bytes before the end of the piece, but never within the part's       *)
(* header, which is longer than that.  A negative length is no length.      *)
ReceiveDb(m) ==
    /\ NextPiece(m) /\ up.db
    /\ LET b == IF wfirst THEN Boundary(Max({1, m - 4}))
                ELSE Boundary(Max({NameAt, recv_datalen' - 8}))
           n == IF wfirst THEN m ELSE recv_datalen' - NameAt
           len == Before(n, b)
       IN
       \/ /\ ~wfirst' /\ f_len' = Min({f_len + f_offset', MaxLen})
          /\ UNCHANGED <<mode, present, file, reply>>
       \/ (HeaderCut \/ (wfirst' /\ len < 0)) /\ Crash /\ UNCHANGED <<present, file>>
       \/ /\ wfirst' /\ ~HeaderCut /\ len >= 0
          /\ f_len' = IF wfirst THEN f_len + Counted(n, b) ELSE len
          /\ SavedOrNot(len, IF wfirst THEN 1 ELSE ContentAt)
          /\ \/ ~present' /\ Reply("error")
             \/ present' /\ Complete(recv_datalen') /\ Reply("ok")
             \/ present' /\ ~Complete(recv_datalen') /\ UNCHANGED <<mode, reply>>

-----------------------------------------------------------------------------
(***************************************************************************)
(* The end of the connection.                                               *)
(***************************************************************************)
(* The client is gone: do_read's handler stops the connection, the upload's *)
(* handlers remove what they have written as well.                          *)
ConnectionLost ==
    /\ mode \in {"read", "receive"}
    /\ mode' = "lost"
    /\ present' = FALSE /\ file' = <<>>
    /\ UNCHANGED <<up, got, buffer, recvVars, f_len, reply, clean>>

(* The manager closed the socket: operation_aborted is no reason to remove. *)
ServerStops ==
    /\ mode \in {"read", "receive"}
    /\ mode' = "stopped"
    /\ UNCHANGED <<up, got, buffer, recvVars, f_len, present, file, reply, clean>>

Receive ==
    \E m \in 0 .. Cap : StartReceiving(m) \/ WholeFile(m) \/ WholeDb(m)
                         \/ ReceiveFile(m) \/ ReceiveDb(m)

Next == Receive \/ ConnectionLost \/ ServerStops

Spec == Init /\ [][Next]_vars

(* The client sends all of the upload, and the io thread runs the handlers. *)
LiveSpec == Spec /\ WF_vars(Receive)

-----------------------------------------------------------------------------
(***************************************************************************)
(* Properties.                                                              *)
(***************************************************************************)
Symbols == {"h", "-", "b", "disp", "name", "x", "cr", "lf", "e", "n", "junk"}

(* Until the content begins, all that was received is in the buffer.         *)
TypeOK ==
    /\ up \in Uploads /\ got \in 0 .. Len(Stream(up)) /\ buffer \in [1 .. Cap -> Symbols]
    /\ mode \in {"read", "receive", "done", "hung", "crashed", "lost", "stopped"}
    /\ f_offset \in 0 .. Cap /\ recv_datalen \in 0 .. got
    /\ mode = "receive" /\ ~wfirst => recv_datalen = f_offset
    /\ wfirst \in BOOLEAN /\ f_len \in Int /\ present \in BOOLEAN
    /\ file \in Seq(Symbols) /\ reply \in {"none", "ok", "error"} /\ clean \in BOOLEAN

(* The file an upload is answered ok for holds exactly the content that was *)
(* sent, however it was cut into pieces on its way, and the length in the   *)
(* answer is its length.  That is for a body that ends with its closing     *)
(* line; on disk for a boundary with the four dashes browsers use or an     *)
(* upload in several pieces, in the database for pieces as CleanRead says.  *)
StoredExactly ==
    /\ reply = "ok" /\ up.epilogue = 0
    /\ IF up.db THEN clean ELSE up.dashes >= 4 \/ wfirst
    => present /\ file = up.content /\ f_len = Len(file)

(* Whatever the pieces do to the search for the boundary, the length the    *)
(* database is told is the length of the chunks it has.                     *)
LengthAsSaved == up.db /\ reply = "ok" => f_len = Len(file)

(* At whatever piece an upload to disk ends, and in whatever way, no piece  *)
(* of it is left out, repeated or out of its place: the file holds a        *)
(* beginning of what was sent behind the part's header.  That of an upload  *)
(* which a stopping server breaks off (connection.cpp:444 removes nothing)  *)
(* holds all that was received.                                             *)
HoldsBeginning ==
    ~up.db =>
        /\ \A i \in 1 .. Len(file) : NameAt + i <= got /\ file[i] = Stream(up)[NameAt + i]
        /\ mode = "stopped" /\ wfirst => Len(file) = got - NameAt

(* An upload as long as its Content-Length comes to an end: the count of    *)
(* the received bytes meets the sum of the lengths whatever the pieces are, *)
(* if the part's header fits the buffer behind the request's.               *)
UploadEnds == mode = "receive" /\ up.extra = 0 /\ NameAt <= Cap ~> mode # "receive"
=============================================================================
