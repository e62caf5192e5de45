------------------------------ MODULE Download -------------------------------
(***************************************************************************)
(* Sending a file on a connection that is used again for the next one:      *)
(* do_file and do_fileM choose what to send, asyncsend_file and             *)
(* asyncsend_mfile send it chunk by chunk, each write's handler starting    *)
(* the next (web/connection.cpp).  A body is described by the offset of its *)
(* first byte in the file and its length.                                   *)
(***************************************************************************)
EXTENDS Integers

CONSTANTS
    Sizes,       \* lengths of files
    Chunk,       \* 8192 in the code: sizeof(buf)
    MaxInt,      \* the largest int
    Asks,        \* the requests of the client, see AskType
    Junk         \* what the uninitialised ifirst may hold

(* Where the file is found, on disk or in the database, and its Range:      *)
(* "a-b", "a-" (last is None) or "-b" (first is None).                      *)
None == -1
AskType == [db : BOOLEAN, range : BOOLEAN, first : Nat \cup {None}, last : Nat \cup {None}]

ASSUME SizesAssumption == Sizes \cup {MaxInt} \subseteq Nat /\ Chunk \in Nat \ {0}
ASSUME AsksAssumption == Asks \subseteq AskType /\ Junk \subseteq Nat

Smaller(a, b) == IF a < b THEN a ELSE b
Larger(a, b) == IF a > b THEN a ELSE b

(* Operators named Mutant... are plausible slips in the definition behind   *)
(* them.  No specification uses them: they show that the properties notice. *)

(* A number stored in an int.                                               *)
ToInt(x) == ((x + MaxInt + 1) % (2 * (MaxInt + 1))) - MaxInt - 1

VARIABLES
    size,        \* the file's length
    ask,         \* the request being answered
    phase,       \* idle, sending, done, or refused: no body was sent
    ifirst,      \* the member that do_file sets for a Range only
    readlen,     \* bytes still to send, unless the whole file is sent
    pos,         \* asyncsend_file's parameter ifirst: where the next chunk starts
    declared,    \* the Content-Length of the reply
    from, count  \* history: the body sent so far

vars == <<size, ask, phase, ifirst, readlen, pos, declared, from, count>>

NoAsk == [db |-> FALSE, range |-> FALSE, first |-> None, last |-> None]

Init ==
    /\ size \in Sizes
    /\ ask = NoAsk /\ phase = "idle"
    /\ ifirst \in Junk /\ readlen = 0 /\ pos = 0
    /\ declared = 0 /\ from = 0 /\ count = 0

(* The range the Range header selects, taken as it comes: an end behind the *)
(* end of the file is not cut.                                              *)
First(a) == IF a.first = None THEN size - a.last ELSE a.first
Last(a) == IF a.first = None \/ a.last = None THEN size - 1 ELSE a.last

MutantRangeLength(a) == Last(a) - First(a)
RangeLength(a) == Last(a) - First(a) + 1

(* A request is taken; begin is what the first chunk is told of ifirst.     *)
Take(a, begin) ==
    /\ phase # "sending"
    /\ ask' = a /\ phase' = "sending" /\ UNCHANGED size
    /\ pos' = begin /\ from' = begin /\ count' = 0

SelectRange(a) ==
    /\ ifirst' = First(a)
    /\ readlen' = ToInt(RangeLength(a))
    /\ declared' = readlen'

(* do_file: without Range the body starts at ifirst as it is.               *)
AskFile(a) ==
    /\ ~a.db
    /\ \/ a.range /\ SelectRange(a)
       \/ ~a.range /\ declared' = size /\ UNCHANGED <<ifirst, readlen>>
    /\ Take(a, ToInt(ifirst'))

(* do_fileM, the same for a file of the database, but for readlen.          *)
AskFileM(a) ==
    /\ a.db
    /\ \/ a.range /\ SelectRange(a)
       \/ ~a.range /\ declared' = size /\ readlen' = ToInt(size) /\ UNCHANGED ifirst
    /\ Take(a, ifirst')

(* The file is nowhere, the client has its time stamp (304), or the Range   *)
(* has no part or several: no body is sent, nor ifirst set.                 *)
Refuse(a) ==
    /\ phase # "sending"
    /\ ask' = a /\ phase' = "refused"
    /\ declared' = 0 /\ from' = 0 /\ count' = 0
    /\ UNCHANGED <<size, ifirst, readlen, pos>>

(* The length of the next chunk: a seek before the start or behind the end  *)
(* of the file reads nothing.                                               *)
Left == IF pos < 0 THEN 0 ELSE Larger(0, size - pos)
Whole == ~ask.range /\ ~ask.db
MutantNextLength == Smaller(Chunk, Left)
NextLength ==
    IF Whole THEN Smaller(Chunk, Left)
    ELSE Larger(0, Smaller(Smaller(Chunk, readlen), Left))

Advanced == IF ask.db THEN pos + NextLength ELSE ToInt(pos + NextLength)

SendChunk ==
    /\ phase = "sending" /\ NextLength > 0
    /\ pos' = Advanced
    /\ readlen' = IF Whole THEN readlen ELSE readlen - NextLength
    /\ count' = count + NextLength
    /\ UNCHANGED <<size, ask, phase, ifirst, declared, from>>

MutantEndOfBody ==
    /\ phase = "sending" /\ NextLength = 0
    /\ phase' = IF readlen > 0 THEN phase ELSE "done"
    /\ UNCHANGED <<size, ask, ifirst, readlen, pos, declared, from, count>>

(* Nothing left to read: on to the next request.                            *)
EndOfBody ==
    /\ phase = "sending" /\ NextLength = 0
    /\ phase' = "done"
    /\ UNCHANGED <<size, ask, ifirst, readlen, pos, declared, from, count>>

Next == (\E a \in Asks : AskFile(a) \/ AskFileM(a) \/ Refuse(a)) \/ SendChunk \/ EndOfBody

Spec == Init /\ [][Next]_vars

(* The io thread runs the write handlers.                                   *)
LiveSpec == Spec /\ WF_vars(SendChunk) /\ WF_vars(EndOfBody)

-----------------------------------------------------------------------------
(***************************************************************************)
(* Properties.                                                              *)
(***************************************************************************)
(* The bytes of the file a Range within the file selects.                   *)
WantedFirst == IF ask.first = None THEN size - ask.last ELSE ask.first
WantedLast == IF ask.first = None \/ ask.last = None THEN size - 1 ELSE ask.last

(* A Range that lies within the file, and whose ends an int holds; a suffix *)
(* is not longer than the file.                                             *)
Satisfiable ==
    /\ ask.range
    /\ IF ask.first = None THEN ask.last \in 1 .. size
       ELSE ask.first < size /\ (ask.last = None \/ ask.last \in ask.first .. size - 1)
    /\ WantedLast < MaxInt

(* What the client gets for such a Range is what it asked for, whatever was *)
(* sent on the connection before and however long the file is: the body     *)
(* starts where the Range says and is as long as the Range and the          *)
(* Content-Length say (the client reads the next reply behind it).          *)
BodyAsAsked ==
    phase = "done" /\ Satisfiable =>
        /\ count = declared /\ count = WantedLast - WantedFirst + 1
        /\ from = WantedFirst

(* Whatever is asked for, one after the other: a body is a piece of the     *)
(* file without gap or overlap, and it never runs over the Content-Length   *)
(* into the reply behind it.                                                *)
BodyStaysInBounds ==
    size <= MaxInt =>
        /\ count > 0 => from >= 0 /\ from + count <= size /\ pos = from + count
        /\ count <= Larger(0, declared)

(* Every download comes to its end.                                         *)
Ends == phase = "sending" ~> phase = "done"
=============================================================================
