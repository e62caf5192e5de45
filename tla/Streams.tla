------------------------------- MODULE Streams -------------------------------
(***************************************************************************)
(* GzipProcess.cpp: a chain of a gzip filter and a source is read in pieces *)
(* that are handed to a callback, pulled by the caller or copied to a file. *)
(* What the filter makes of the source is a stream of so many bytes; one    *)
(* that is broken ends in a gzip_error, somewhere on the way.               *)
(***************************************************************************)
EXTENDS Integers, Sequences

CONSTANTS
    Lengths,     \* lengths of what the filter yields
    Chunks       \* chunksize, or the length a caller asks for

StreamsAssumption == Lengths \subseteq Nat /\ Chunks \subseteq Nat

(* A compressor never fails.                                                *)
StreamType == [len : Lengths, broken : BOOLEAN]

VARIABLES
    fn,          \* the function that runs, none before the first
    stream,      \* what its chain yields
    chunk,       \* the length it asks for
    pos,         \* bytes the chain has given out
    buffers,     \* buffers of the loop that are not freed
    pieces,      \* what was delivered: where each piece starts, how long it is
    result       \* none, end, failed, or thrown: the exception is the caller's

vars == <<fn, stream, chunk, pos, buffers, pieces, result>>

Init ==
    /\ fn = "none" /\ stream = [len |-> 0, broken |-> FALSE] /\ chunk = 0 /\ pos = 0
    /\ buffers = 0 /\ pieces = <<>> /\ result = "none"

-----------------------------------------------------------------------------
(* A chain is built and read by f.                                          *)
Begin(f, s, n) ==
    /\ fn = "none"
    /\ fn' = f /\ stream' = s /\ chunk' = n
    /\ UNCHANGED <<pos, buffers, pieces, result>>

(* A file that does not open: nothing was put into the chain.               *)
Refused(f) ==
    /\ fn = "none"
    /\ fn' = f /\ result' = "failed"
    /\ UNCHANGED <<stream, chunk, pos, buffers, pieces>>

(* GzipAndCallback, UnGzipAndCallback: the caller's data, see GzipFromData. *)
AndCallback(s, n) == Begin("AndCallback", s, n)

(* GzipAndCallbackFromFile, UnGzipAndCallbackFromFile.                      *)
AndCallbackFromFile(s, n) == Begin("AndCallbackFromFile", s, n) \/ Refused("AndCallbackFromFile")

(* PushDataToZip, PushFileDataToZip and their twins: the object's own       *)
(* chain, once in its life.  GetDataCallbackFrom... loops over it,          *)
(* GetDataFrom... reads it once a call.                                     *)
Push(s, n) == \E f \in {"GetDataCallback", "GetData"} : Begin(f, s, n) \/ Refused(f)

(* GzipFromFile, UnGzipToFile: 1 if the source does not open or is broken.  *)
(* The target opens: the ofstream is never asked, and what copy() does with *)
(* one that is not open is left to the library.                             *)
FileToFile(s) == Begin("FileToFile", s, 1) \/ Refused("FileToFile")

(* GzipDataToFile, UnGzipDataToFile: 1 if the target does not open.         *)
DataToFile(s) == Begin("DataToFile", s, 1) \/ Refused("DataToFile")

-----------------------------------------------------------------------------
Loops == {"AndCallback", "AndCallbackFromFile", "GetDataCallback"}
Copies == {"FileToFile", "DataToFile"}
Catches == {"AndCallbackFromFile", "GetDataCallback", "GetData", "FileToFile"}

Running(fs) == fn \in fs /\ result = "none"

(* read(): the bytes that are left, at most n; -1 when there are none, n = 0 *)
(* included.  eof() never turns true: read() goes past the stream's state.  *)
MutantGiven(n) == n
Given(n) == IF stream.len - pos < n THEN stream.len - pos ELSE n

(* A broken stream throws at the latest where a read reaches its end.       *)
Throws(n) == stream.broken /\ pos + n > stream.len
MayThrow == stream.broken

Deliver(n) ==
    /\ pos' = pos + Given(n)
    /\ pieces' = Append(pieces, [at |-> pos, len |-> Given(n)])

(* The loop's buffer is not freed when read() throws.                       *)
Thrown == result' = IF fn \in Catches THEN "failed" ELSE "thrown"
Failed(lost) ==
    /\ Thrown
    /\ buffers' = buffers + lost
    /\ UNCHANGED <<fn, stream, chunk, pos, pieces>>

Ended == result' = "end" /\ UNCHANGED <<fn, stream, chunk, pos, buffers, pieces>>

LoopReads ==
    /\ Running(Loops)
    /\ \/ ~Throws(chunk) /\ Given(chunk) > 0 /\ Deliver(chunk)
          /\ UNCHANGED <<fn, stream, chunk, buffers, result>>
       \/ ~Throws(chunk) /\ Given(chunk) = 0 /\ Ended
       \/ MayThrow /\ Failed(1)

(* GetDataFromZip: the caller asks until it gets no more, as do_zip_file.   *)
GetData ==
    /\ Running({"GetData"})
    /\ \/ ~Throws(chunk) /\ Given(chunk) > 0 /\ Deliver(chunk)
          /\ UNCHANGED <<fn, stream, chunk, buffers, result>>
       \/ ~Throws(chunk) /\ Given(chunk) = 0 /\ Ended
       \/ MayThrow /\ Failed(0)

(* boost::iostreams::copy: of a broken stream the target keeps a part.      *)
Copy ==
    /\ Running(Copies)
    /\ \/ ~stream.broken /\ Deliver(stream.len) /\ result' = "end"
       \/ MayThrow /\ (\E n \in 0 .. stream.len : Deliver(n)) /\ Thrown
    /\ UNCHANGED <<fn, stream, chunk, buffers>>

Next ==
    \/ \E s \in StreamType, n \in Chunks : AndCallback(s, n) \/ AndCallbackFromFile(s, n) \/ Push(s, n)
    \/ \E s \in StreamType : FileToFile(s) \/ DataToFile(s)
    \/ LoopReads \/ GetData \/ Copy

-----------------------------------------------------------------------------
(***************************************************************************)
(* Properties.                                                              *)
(***************************************************************************)
(* Where the piece behind the first n of them starts.                       *)
EndOf(n) == IF n = 0 THEN 0 ELSE pieces[n].at + pieces[n].len
Delivered == EndOf(Len(pieces))

(* The pieces are the stream's bytes in order, none twice and none left     *)
(* out, none empty or longer than asked for.  Who came to the end without   *)
(* an error has had all of them, and the loop freed its buffers; only the   *)
(* two functions without a try block let an error out.                      *)
StreamDelivered ==
    /\ \A i \in DOMAIN pieces :
        /\ pieces[i].at = EndOf(i - 1)
        /\ pieces[i].at + pieces[i].len <= stream.len
        /\ fn \notin Copies => pieces[i].len \in 1 .. chunk
    /\ result = "end" => Delivered = (IF chunk = 0 THEN 0 ELSE stream.len) /\ buffers = 0
    /\ result = "end" => ~stream.broken \/ chunk = 0
    /\ result = "thrown" => stream.broken /\ fn \in {"AndCallback", "DataToFile"}
=============================================================================
