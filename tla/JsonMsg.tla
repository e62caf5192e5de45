------------------------------- MODULE JsonMsg -------------------------------
(***************************************************************************)
(* The messages of the chat console, JsonMsg.cpp and .h: an object collects *)
(* fields, writes them as JSON, reads JSON into its fields, and is used for *)
(* one message after the other.  Senders and receivers are such objects; a  *)
(* message that was made may be heard by any of them, any number of times,  *)
(* or by nobody.  A JSON text is the sequence of its keys and values.       *)
(***************************************************************************)
EXTENDS Integers, Sequences, FiniteSetsExt, Functions

CONSTANTS
    Objects,     \* JsonMsg objects
    Hosts,       \* hosts of the network
    Values,      \* what each field may be set to, see Fields
    MaxCalls,    \* bound of the model: calls on the objects
    MaxDoc       \* bound of the model: keys in one document

(* hostStr, cmdString, sid and resultString.                                *)
Fields == {"host", "cmd", "sid", "result"}
NoText == ""
All == "all"

MessagesAssumption ==
    /\ DOMAIN Values = Fields /\ \A k \in Fields : NoText \notin Values[k]
    /\ All \notin Hosts /\ IsFiniteSet(Hosts)

VARIABLES
    field,       \* the fields of each object
    dstVector,   \* destinations it has read
    cmddst,      \* cmddstVector: destinations of the command it sends
    jsonParse,   \* its property tree
    hostvec,     \* the destinations everybody uses who names none: a global
    mapHost,     \* the hosts that are known: a global with a lock
    iterating,   \* the object that goes through mapHost without the lock
    disturbed,   \* whether the map was changed meanwhile
    wire,        \* the message last made, see Message
    heard,       \* history: the message each object holds just as it was read
    calls        \* calls so far

objectVars == <<field, dstVector, cmddst, jsonParse>>
globalVars == <<hostvec, mapHost>>
vars == <<objectVars, globalVars, iterating, disturbed, wire, heard, calls>>

Nobody == "nobody"
Blank == [k \in Fields |-> NoText]

(* json is what is sent; the rest is history: the fields and destinations   *)
(* the sender meant, and what its tree held before: the messages it made or *)
(* read last.                                                               *)
Message(o, entries, dst) ==
    [json |-> entries, meant |-> field[o], dst |-> dst, old |-> jsonParse[o]]
NoMessage == [json |-> <<>>, meant |-> Blank, dst |-> {}, old |-> <<>>]

Init ==
    /\ field = [o \in Objects |-> Blank]
    /\ dstVector = [o \in Objects |-> <<>>] /\ cmddst = [o \in Objects |-> <<>>]
    /\ jsonParse = [o \in Objects |-> <<>>]
    /\ hostvec \in {<<>>, <<All>>} \cup {<<h>> : h \in Hosts}
    /\ mapHost \in SUBSET Hosts
    /\ iterating = Nobody /\ disturbed = FALSE
    /\ wire = NoMessage /\ heard = [o \in Objects |-> NoMessage] /\ calls = 0

(* Operators named Mutant... are plausible slips in the definition behind   *)
(* them.  No specification uses them: they show that the properties notice. *)

(* An object runs one call at a time; what it had read is its own no more.  *)
Call(o) ==
    /\ iterating # o /\ calls < MaxCalls
    /\ calls' = calls + 1
Changed(o) == heard' = [heard EXCEPT ![o] = NoMessage]

-----------------------------------------------------------------------------
(* AddHost, AddCmd, AddResult, and the public members sid and cmddstVector. *)
SetField(o, k, v) ==
    /\ Call(o) /\ Changed(o)
    /\ field' = [field EXCEPT ![o][k] = v]
    /\ UNCHANGED <<dstVector, cmddst, jsonParse, globalVars, iterating, disturbed, wire>>

AddCommandDst(o, h) ==
    /\ Call(o) /\ Changed(o)
    /\ cmddst' = [cmddst EXCEPT ![o] = Append(@, h)]
    /\ UNCHANGED <<field, dstVector, jsonParse, globalVars, iterating, disturbed, wire>>

(* Reset clears neither sid nor the vectors nor the tree.                   *)
MutantCleared(f) == [f EXCEPT !.host = NoText, !.cmd = NoText]
Cleared(f) == [f EXCEPT !.host = NoText, !.cmd = NoText, !.result = NoText]
Reset(o) ==
    /\ Call(o) /\ Changed(o)
    /\ field' = [field EXCEPT ![o] = Cleared(@)]
    /\ UNCHANGED <<dstVector, cmddst, jsonParse, globalVars, iterating, disturbed, wire>>

(* MakeJsonString adds to the tree what is not empty, behind what it holds. *)
Named(dst) == <<[key |-> "dst", val |-> dst]>>
Entry(o, k) == IF field[o][k] = NoText THEN <<>> ELSE <<[key |-> k, val |-> field[o][k]]>>
Entries(o) == Entry(o, "host") \o Entry(o, "cmd") \o Entry(o, "sid") \o Entry(o, "result")
Make(o, dst) ==
    LET doc == jsonParse[o] \o (IF dst = <<>> THEN <<>> ELSE Named(dst[1])) \o Entries(o)
    IN  /\ Len(doc) <= MaxDoc
        /\ jsonParse' = [jsonParse EXCEPT ![o] = doc]
        /\ wire' = Message(o, doc, IF dst = <<>> THEN {} ELSE Range(dst[1]))
        /\ UNCHANGED <<field, dstVector, cmddst, globalVars>>

(* Destinations come from the command, or else from hostvec; "all" stands   *)
(* for the hosts of the map, which the lock keeps as it is for hostvec ...  *)
Sorted(hosts) == CHOOSE s \in Bijection(1 .. Cardinality(hosts), hosts) : TRUE
MakeFromHostvec(o) ==
    /\ Call(o) /\ Changed(o) /\ cmddst[o] = <<>>
    /\ Make(o, IF hostvec = <<>> THEN <<>>
               ELSE IF All \in Range(hostvec) THEN <<Sorted(mapHost)>> ELSE <<hostvec>>)
    /\ UNCHANGED <<iterating, disturbed>>

MakeForCommand(o) ==
    /\ Call(o) /\ Changed(o) /\ cmddst[o] # <<>> /\ All \notin Range(cmddst[o])
    /\ Make(o, <<cmddst[o]>>)
    /\ UNCHANGED <<iterating, disturbed>>

(* ... but not for a command.                                               *)
BeginMakeForAll(o) ==
    /\ Call(o) /\ Changed(o) /\ All \in Range(cmddst[o]) /\ iterating = Nobody
    /\ iterating' = o /\ disturbed' = FALSE
    /\ UNCHANGED <<objectVars, globalVars, wire>>

(* A map that changed under the iterator yields anything, and what it       *)
(* yields is what the sender put into the message.                          *)
EndMakeForAll ==
    /\ iterating # Nobody
    /\ \E hosts \in IF disturbed THEN SUBSET Hosts ELSE {mapHost} :
          Make(iterating, <<Sorted(hosts)>>)
    /\ iterating' = Nobody /\ disturbed' = FALSE
    /\ UNCHANGED <<heard, calls>>

(* Another thread learns of a host or forgets one, under its own lock.      *)
HostsChange ==
    /\ calls < MaxCalls /\ calls' = calls + 1
    /\ \E h \in Hosts : mapHost' = IF h \in mapHost THEN mapHost \ {h} ELSE mapHost \cup {h}
    /\ disturbed' = (iterating # Nobody)
    /\ UNCHANGED <<objectVars, hostvec, iterating, wire, heard>>

-----------------------------------------------------------------------------
(* get: the first entry of the key.                                         *)
KeysOf(doc) == {doc[i].key : i \in DOMAIN doc}
Get(doc, k) == doc[Min({i \in DOMAIN doc : doc[i].key = k})].val

(* ParseJson: Reset, then the fields the text holds; the destinations are   *)
(* appended to those of earlier messages.                                   *)
Read(f, doc) == [k \in Fields |-> IF k \in KeysOf(doc) THEN Get(doc, k) ELSE f[k]]
ParseJson(o) ==
    /\ Call(o) /\ wire.json # <<>>
    /\ field' = [field EXCEPT ![o] = Read(Cleared(@), wire.json)]
    /\ dstVector' = [dstVector EXCEPT ![o] =
                        IF "dst" \in KeysOf(wire.json) THEN @ \o Get(wire.json, "dst") ELSE @]
    /\ jsonParse' = [jsonParse EXCEPT ![o] = wire.json]
    /\ heard' = [heard EXCEPT ![o] = wire]
    /\ UNCHANGED <<cmddst, globalVars, iterating, disturbed, wire>>

(* A text that is no JSON, or the end of one that was cut off: read_json    *)
(* throws and leaves the tree.                                              *)
ParseGarbage(o) ==
    /\ Call(o) /\ Changed(o)
    /\ field' = [field EXCEPT ![o] = Cleared(@)]
    /\ UNCHANGED <<dstVector, cmddst, jsonParse, globalVars, iterating, disturbed, wire>>

(* invect.                                                                  *)
Invect(o, h) == Range(dstVector[o]) \cap {h, All} # {}

Next ==
    \/ \E o \in Objects :
          \/ \E k \in Fields : \E v \in Values[k] : SetField(o, k, v)
          \/ \E h \in Hosts \cup {All} : AddCommandDst(o, h)
          \/ Reset(o) \/ MakeFromHostvec(o) \/ MakeForCommand(o) \/ BeginMakeForAll(o)
          \/ ParseJson(o) \/ ParseGarbage(o)
    \/ EndMakeForAll \/ HostsChange

-----------------------------------------------------------------------------
(***************************************************************************)
(* Properties.                                                              *)
(***************************************************************************)
(* Reset leaves the tree, so a message stands behind those its sender read  *)
(* or made before, and of two entries with a key the older one is read.     *)
Understood(m, k) == IF k \in KeysOf(m.old) THEN Get(m.old, k) ELSE m.meant[k]

(* A message is understood by whoever hears it, whatever that object was    *)
(* used for before: command, host, result and session id are the sender's,  *)
(* where it has not an older value in its tree, and that value otherwise;   *)
(* one that is empty is empty with the hearer too, but for the session id,  *)
(* where the hearer keeps its own.  Where the tree named no destinations,   *)
(* each host the sender put into the message finds itself addressed.        *)
MessageArrives ==
    \A o \in Objects : LET m == heard[o] IN m.json # <<>> =>
        /\ \A k \in Fields : k # "sid" \/ Understood(m, k) # NoText =>
              field[o][k] = Understood(m, k)
        /\ "dst" \notin KeysOf(m.old) => \A h \in m.dst : Invect(o, h)
=============================================================================
