------------------------------ MODULE Helpers --------------------------------
(***************************************************************************)
(* The helpers of the server, one after the other: part says which one a    *)
(* behaviour is about, and the variables of the others stay as they are.    *)
(* The pure functions on texts (paths, parameters, forms, encodings) are    *)
(* given every text over some symbols, grown by one symbol a step;          *)
(* characters are their bytes where the code computes with them.            *)
(***************************************************************************)
EXTENDS RequestPath, Parameters, TextCodes

CONSTANTS
    Alnum, Dictionaries, Frequencies, Texts, Depth,         \* Segment
    Objects, Hosts, Values, MaxCalls, MaxDoc,               \* JsonMsg
    Inputs, Room,                                           \* Conversion
    StreamLengths, StreamChunks,                            \* Streams
    ReplyLengths, MaxRequests,                              \* Replies
    Symbols, Limit                                          \* what texts are made of, how long they get

VARIABLES
    part,                                                   \* see Parts
    text,                                                   \* the functions on texts, Segment
    dict, lines, flines, nodes, words, freqs, start, ret,   \* Segment
    field, dstVector, cmddst, jsonParse, hostvec, mapHost,  \* JsonMsg
    iterating, disturbed, wire, heard, calls,
    input, taken, out, size, cd, owned, discard, rounds,    \* Conversion
    stream, chunk, pos, buffers, pieces,                    \* Streams
    fn, result,                                             \* both of them
    status, headers, content, open, request, sent           \* Replies

textVars == <<text>>
segmentVars == <<dict, lines, flines, nodes, words, freqs, start, ret>>
jsonVars == <<field, dstVector, cmddst, jsonParse, hostvec, mapHost, iterating, disturbed,
              wire, heard, calls>>
conversionVars == <<input, taken, out, size, cd, owned, discard, rounds>>
streamVars == <<stream, chunk, pos, buffers, pieces>>
callVars == <<fn, result>>
replyVars == <<status, headers, content, open, request, sent>>
vars == <<part, textVars, segmentVars, jsonVars, conversionVars, streamVars, callVars, replyVars>>

-----------------------------------------------------------------------------
Segmenter == INSTANCE Segment
Messages == INSTANCE JsonMsg
Converter == INSTANCE Conversion
Zipper == INSTANCE Streams WITH Lengths <- StreamLengths, Chunks <- StreamChunks
Replier == INSTANCE Replies WITH Lengths <- ReplyLengths

TextParts == {"path", "pairs", "form", "utf8", "json"}
ByteParts == {"path", "utf8", "json"}
Parts == TextParts \cup {"segment", "messages", "conversion", "streams", "replies"}

ASSUME HelpersAssumption ==
    /\ Segmenter!SegmentAssumption /\ Messages!MessagesAssumption
    /\ Converter!ConversionAssumption /\ Zipper!StreamsAssumption /\ Replier!RepliesAssumption
    /\ RequestPathAssumption
    /\ \A p \in ByteParts : Symbols[p] \subseteq Bytes
    /\ \A p \in Symbols["form"] : InputLengths(p)

-----------------------------------------------------------------------------
(* Parts that do not run begin in one state.                                *)
Init ==
    /\ part \in Parts
    /\ Segmenter!Init /\ Messages!Init /\ Converter!Init /\ Zipper!Init /\ Replier!Init
    /\ part # "segment" => dict = CHOOSE d \in Dictionaries : TRUE
    /\ part # "messages" => hostvec = <<>> /\ mapHost = {}

GrowText ==
    /\ part \in TextParts /\ Len(text) < Limit[part]
    /\ \E c \in Symbols[part] : text' = Append(text, c)
    /\ UNCHANGED <<part, segmentVars, jsonVars, conversionVars, streamVars, callVars, replyVars>>

RunSegmenter ==
    /\ part = "segment" /\ Segmenter!Next
    /\ UNCHANGED <<part, jsonVars, conversionVars, streamVars, callVars, replyVars>>

RunMessages ==
    /\ part = "messages" /\ Messages!Next
    /\ UNCHANGED <<part, textVars, segmentVars, conversionVars, streamVars, callVars, replyVars>>

RunConverter ==
    /\ part = "conversion" /\ Converter!Next
    /\ UNCHANGED <<part, textVars, segmentVars, jsonVars, streamVars, replyVars>>

RunZipper ==
    /\ part = "streams" /\ Zipper!Next
    /\ UNCHANGED <<part, textVars, segmentVars, jsonVars, conversionVars, replyVars>>

RunReplier ==
    /\ part = "replies" /\ Replier!Next
    /\ UNCHANGED <<part, textVars, segmentVars, jsonVars, conversionVars, streamVars, callVars>>

Next == GrowText \/ RunSegmenter \/ RunMessages \/ RunConverter \/ RunZipper \/ RunReplier

Spec == Init /\ [][Next]_vars

-----------------------------------------------------------------------------
(***************************************************************************)
(* The properties of the parts, each stated in the module it is about.      *)
(***************************************************************************)
(* Segment: a word that begins a run of letters and digits takes all of it. *)
RunsTakenWhole == part = "segment" => Segmenter!RunsTakenWhole

(* Segment: a word has the class the dictionary gives it first.             *)
ClassesAsLoaded == part = "segment" => Segmenter!ClassesAsLoaded

(* JsonMsg: a message says what its sender meant, or had in its tree.       *)
MessageArrives == part = "messages" => Messages!MessageArrives

(* Conversion: a text is converted whole, within the buffer.                *)
ConvertedWhole == part = "conversion" => Converter!ConvertedWhole

(* Streams: pieces add up to the stream.                                    *)
StreamDelivered == part = "streams" => Zipper!StreamDelivered

(* Replies: a reply is the answer to its own request, unless get_fullpath   *)
(* left its page in it.                                                     *)
ReplyIsOwn == part = "replies" => Replier!ReplyIsOwn

(* RequestPath: the path of a request is that of the file it names.         *)
PathsFound == part = "path" => PathFound(text)

(* Parameters: what a query or a form says is found, as it was sent.        *)
ParametersFound ==
    /\ part = "pairs" => PairsFound(text)
    /\ part = "form" => FormFound(text)

(* TextCodes: UTF-8 is recognised, and escaping loses nothing but what is   *)
(* dropped, and what is behind a NUL.                                       *)
TextsSurvive ==
    /\ part = "utf8" => Utf8Passes(text)
    /\ part = "json" => EscapesUndone(text)
=============================================================================
