# Verification of the OlaSearch web server

TLA+ models of the C++ web server under `src/OlaSearch/web/`, checked with TLC
and proved about with TLAPS. Paths below are relative to `src/OlaSearch/`.

## The system

`web/main.cpp` starts an HTTP server that serves files from disk or MongoDB,
takes uploads, and runs a chat console: a browser posts commands and polls for
the messages heard on a multicast group. One process, a pool of four threads,
boost::asio completion handlers.

| Component | State | Operations | What is hard | What makes it correct |
|---|---|---|---|---|
| chat mailbox, `web/SeessionID.*` | messages with numbers, one record per session (cursor, hosts, flag), a reader-writer lock | ReadFunction, the Gets, WriteFunction, push_back, WriteHostInfo, SetKillFlag, Clear, Clear(sid) | called by every io thread and the multicast receiver; readers write under the shared lock; trims | each message once and in order to each session (not when its polls overlap), none lost but by trim or clear |
| server, `web/server.*`, `io_service_pool.*`, `connection_manager.*` | acceptor, socket to fill, set of connections, io_services | accept, start, stop, stop_all, signal, pool stop | handlers of several threads share a `std::set`; shutdown against accept | the set is exact, shutdown leaves nothing open, accepting stops with the acceptor only (or when do_accept catches an exception) |
| request parser, `web/request_parser.*` | state, request being filled | parse, consume | twenty states, fed again from the start of the buffer | accepts requests and nothing else, never touches a header that is not there |
| connection, `web/connection.*` | buffer, offset, content length, socket | do_read and its dispatch, do_write, the send loops, uploads | bodies in pieces, stale members on a reused connection, close against the next read | whole bodies, replies in order, no read without room |
| downloads, `do_file`, `do_fileM`, `asyncsend_*` | ifirst, readlen, position | ask, next chunk, end | int arithmetic, members that survive a request | the bytes asked for, as many as declared |
| chat requests, `/chat/*.asp` | session id of the request | sendmsg, recvmsg | a poll takes messages before its reply is written; clients give up and retry; polls run on several threads | a session whose polls do not overlap is shown each message once, in order; none loses a message but with a failed reply |
| uploads, `asyncrecv_*` | counters, open file, boundary | receive, cut the trailer, store | boundary split over reads, failures half way | the stored file is the sent one, or a beginning of it |
| replies, `web/reply.*` | one reply_ per connection | fill in, to_buffers, stock_reply | filled in again for the next request | a reply is the answer to its own request, as long as it says (but for a page `get_fullpath` leaves in it) |
| request handler, `web/request_handler.*` | none | url_decode, get_fullpath | escapes at the end of the text | names the file the client encoded, below the root (or by a name that begins with the root's text) |
| cookies and multipart, `web/ParserProcess.*`, `web/CRegex.*` | parsed maps | parse | string edges | finds every pair, as it was sent |
| JSON messages, `JsonMsg.*` | fields of a message, lists, a property tree | add, make, parse, reset | objects are used again; a global map of hosts that is read without its lock | a receiver reads what the sender meant |
| gzip streams, `GzipProcess.*` | a filter chain | read by callback, by call, copy to a file | streams that break half way | every byte once and in order |
| UTF-8 and GBK, `utf8.*` | buffers, an iconv descriptor | conversions, walkers, JSON escapes | output larger than the buffer, illegal or cut characters | a text is converted whole and within its buffer |
| word segmentation, `mmseg/mmseg.h` | a trie, frequencies | load, segment | the rules that choose between chunks | the words are the text, and a word that begins in a number or latin word takes all of it |
| mime types, XML, logger, `mongodb/` | tables, a file | – | – | – |

Interactions: the server hands each accepted socket to a `connection`, which it
registers with the `connection_manager`; a connection feeds its buffer to its
`request_parser`, then runs the branch of do_read that fits method and uri,
which may call the mailbox (`connection.cpp` 1012, 1015, 1019, 1074, 1142) or a
download. Every operation is an asynchronous call whose handler starts the next
one; a connection has one outstanding operation at a time. The multicast
receiver that calls `WriteFunction` is not in the repository.

## Modules

| Module | Models | Extends / composes |
|---|---|---|
| `SessionID` | the mailbox: every method, statement by statement where other threads may step in between | instantiates `Mailbox` |
| `Mailbox` | what the mailbox promises, without threads, locks or cursors | |
| `Server` | accept loop, pool, connection manager, signal, stop | |
| `Connection` | one connection from read to reply, over units of header and body | |
| `Download` | a sequence of downloads on one connection | |
| `Upload` | one upload, to disk or database, cut into pieces | |
| `Chat` | windows, their polls and commands, connections and mailbox; polls step by step, under the shared lock | |
| `RequestParser` | consume(), and parse() called again on the buffer | |
| `RequestGrammar` | a reference definition of requests, line by line | extends `RequestParser`, `SeqHelpers` |
| `Replies` | the reply_ of a connection, filled in again and again | |
| `RequestPath` | from a uri to the path of a file, and the url coders | |
| `Parameters` | cookies, query parameters, the parts of a form | |
| `JsonMsg` | objects that write and read the messages of the chat | |
| `Streams` | the ways to read a gzip chain | |
| `Conversion` | the callers of iconv and their buffers | |
| `TextCodes` | the walkers over bytes and the JSON escapes | |
| `Segment` | dictionary, trie, chunks and the words taken | |
| `SeqHelpers` | sums and selections that proofs can use; bytes | |
| `Helpers` | one of the eight helpers above at a time | extends `RequestPath`, `Parameters`, `TextCodes`, instantiates the others |
| `MCSessionID`, `MCConnection`, `MCDownload`, `MCUpload`, `MCChat`, `MCHelpers` | the instances TLC checks | extend their modules |
| `SessionIDProofs`, `ServerProofs`, `ConnectionProofs`, `DownloadProofs`, `UploadProofs`, `ChatProofs`, `RequestParserProofs`, `HelpersProofs` | the theorems | extend their modules |

Operators whose names start with `Mutant` stand before the definition they
vary and are used by no specification: each is a plausible slip, and replacing
the definition by it makes the property it is paired with fail.

**SessionID.** `mmap` is `store`, `ptrsmap` is `known` and `sess`, `myLock` is
`readers` and `writers`. A call is an element of the constant `Calls`. Taking
the lock is one step; the body of each method is a chain of steps named by
`pc`; `Return` releases the lock. `ReadFunction` and the Gets hold the lock
shared although `ptrsmap[sid]` inserts and `ptrsmap[sid].i = i->i` writes. That
is a data race, and the outcomes modelled are: one reader's record replaces the
other's, or one of two insertions is lost. A corrupted map that crashes the
process is not a state of the model. A message is the number of the post that
made it; `written` and `delivered` are history.

**Server.** A thread is an io_service. Its `pc` names the operation on
`connections_` it is inside of; the next step completes it. When another thread
is inside one too, an insertion or erasure may be lost. The size of the pool is
chosen from `PoolSizes` at the start (`pool`), as `main.cpp` passes it. The
io_services are handed out in turn: signals, acceptor, sockets, as the
constructor does. `do_accept` makes the next socket inside a try block; when that
throws, it returns with no accept armed (`server.cpp:72-76`), which `DoAccept`
does by its second disjunct and `caught` remembers. When `is_open` is false
behind an accept (59-62), the accepted socket stays open in the member `socket_`,
in no connection; the model counts it as none. What
a connection does between start and stop is an operation that ends well, fails
or is aborted (`ConnectionHandler`); peers and the network choose.

**Connection.** The client's stream is numbered units; a cell of the buffer
holds the number of the unit last written there, so overwritten and stale bytes
can be told from fresh ones. A request is a number of header units and body
units, its Content-Length (or none), and how its handler ends: by do_write, by
a file stream, or, for a Range of several parts, not at all. A command whose
client is gone when its address is logged stops its connection instead
(`DispatchStops`, `connection.cpp:959-969`). Abstracted: text
that is no header never parses as one; a NUL that handlers write behind the
data (`connection.cpp` 875, 933) is not kept; `bkeepalive` is always true in
the code; exceptions that leave a handler are not modelled.

**Download.** A body is the offset of its first byte and its length. `ToInt`
wraps as an int does. The text of the Range header is abstracted to its two
numbers, and files do not change while they are sent; `size`, chosen at the
start, is the length of the file asked for. `Refuse` stands for the
replies without a body (404, 304) and for a Range that gets no reply.
`do_zip_file` is never called.

**Upload.** The request is a header, an opening boundary line, the part's
header, the content and the closing line. What the code counts is kept byte by
byte: the content, the dashes, the line ends. The other texts are symbols of
length one: `h` for a byte of the request's header, `disp` and `name` for the
part's header up to and behind its file name, `b` for the boundary's text. A
piece of any length that fits is one read. `mode` is the outstanding read or
how the upload ended: done, hung in the loop over dashes, crashed on a null
pointer or a negative length, lost or stopped. `strstr` looks on behind the
piece into what earlier pieces left in the buffer, and the model does so too.
`clean` is history: the closing line came in one piece, and each later piece
was long enough to cover the opening line, whose boundary the search would meet
again.

**Chat.** A window asks for one thing at a time, may give up and ask again
while the abandoned request is still to be served, and may keep the session id
of a command's reply as its cookie; a browser may start with the id an earlier
run of the server gave it (`Loads`). do_write ends its connection, so a
connection is one request here: asked, then run, then its reply arrives or
fails. A pool of `threads` io threads (a size from `Loads`) runs the requests.
`ReadFunction` is not one step: `StartPoll` looks the session up and reads its
cursor, `Insert` links a fresh record in (and may lose those that other polls
link in at the same time, as in `SessionID`), `ReadNext` is one round of the loop,
`EndPoll` releases the lock. All this holds the lock shared, so polls overlap,
those of one session too; what writes the mailbox (`Heard`, `Clear`,
`EditHosts`) waits for `Quiet` and is one step, because the exclusive lock lets
nobody see it half done. `raced` is history: the sessions two of whose polls were
inside at the same time, or whose record another poll's insertion lost. What a
command does to a host list is in `SessionID`, what it does in the multicast
group is outside. The id made up for a request is named by its window.

**RequestParser.** One byte stands for each class that `consume` tells apart.
The version numbers are dropped, because nothing reads them.

**Replies.** A header and a piece of content know the request that set them,
and a content its length; texts are left out. An action is one handler from the
assignments to `reply_` to the call that gives `to_buffers()` to the socket.
`GetFullpath` is the exception: it fills `reply_` with the stock 400 and sends
nothing, because do_read ignores it and goes on (`request_handler.cpp:31`, 38;
`connection.cpp:1211-1233`); what it left is marked `left`.

**RequestPath, Parameters, TextCodes.** Pure functions on texts, as recursive
functions over positions. `RequestPath` and `TextCodes` compute with
bytes, because sign, range and overlap of bytes decide what they do; a character
of `Parameters` is a symbol, and a part of a form is its field's name with its
length, its file and its lines. `Ascending` of `SeqHelpers` selects positions
in their order, here the places where a text is cut and the pieces that are
kept. What comes out is compared with a definition that does not walk over the
text: sets of stretches, well-formedness, reading back. The JSON escapes end with
`rstr.append(rp)`, which cuts at the first NUL of what they wrote (`CString`).

**JsonMsg.** A JSON text is the sequence of its keys and values. An object is a
sender or a receiver, one message after the other; `wire` is the message last
made, which anybody may parse, any number of times. `MakeJsonString` of a
command for all goes through `mapHost` without its lock, so it is two steps, and
a map that another thread changes between them yields any set of hosts, which no
property restricts. `Reset` keeps the tree, so a message holds behind the entries
its sender has read or made before (`old`); `old`, `heard` and the other fields of
`wire` beside `json` are history.

**Streams.** What a filter makes of its source is a number of bytes, and whether
it breaks. One read is a step. A broken stream throws somewhere on the way, at
the latest where a read reaches its end. The
functions for compressing and their
twins for decompressing differ in the filter only, so one action stands for
both. The file that is copied to opens: the code does not ask its ofstream, and
what it writes into one that did not open goes nowhere.

**Conversion.** A character has a kind (good, illegal, cut off), the bytes it
takes before, and those it takes after. `Iconv` converts as far as it can and
says why it stopped; each caller's loop is a chain of actions, with the branches
where memory or the conversion fails. A good character takes at least one byte
after the conversion and at most twice what it took before
(`ConversionAssumption`).

**Segment.** The trie is the set of its paths with their classes. `FirstWord` is
one round of segment's loop: all chunks of up to `Depth` words, the order of the
rules, the first of the best. Frequencies are the logarithms that load computes.

## What the runs show

| Run | Instance | Shows |
|---|---|---|
| `session_one` | 1 poller, 1 writer, 2 sessions, 4 posts, limit 2 | `TypeOK`, `NumbersIncrease`, `StoreBound`, `CursorForward`; it implements `Mailbox`; `EventuallyReceived` |
| `session_shared` | 2 pollers, 2 writers, 1 session, 3 posts, limit 1 | `PollComplete`, `HostsUnique`, `IteratorsStayValid` |
| `session_twice` | the same | `AtMostOnce` is violated |
| `server_pool` | 1 io_service or 2, 2 peers | `ManagerTracks`, `AloneStopsClean` (both about a pool of one), `KeepsAccepting` (unless do_accept catches an exception); `ShutsDown`: a signal drains the server, and stop ends every thread |
| `server_unclean` | 2 io_services, 2 peers | `CleanStop` is violated |
| `connection_any` | 3 clients of 5 or 6 requests, buffer of 5, waiting or pipelining | `ReadHasRoom`, `InOrderOnce`, `DispatchedWhole`; `OrderlyNeverBad`, `Answered` |
| `connection_split` | one header in two pieces | `NeverBad` is violated |
| `download_any` | files of 7 and of 20, chunks of 3, an int up to 15, ranges between all edges | `BodyAsAsked`, `BodyStaysInBounds`, `Ends` |
| `upload_any` | 42 uploads of 15 to 33 bytes, buffer of 20 | `StoredExactly`, `LengthAsSaved`, `HoldsBeginning`, `UploadEnds` |
| `chat_any` | 2 windows, 2 connections; 1 io thread, 1 browser, 2 messages and 1 command; 2 threads, 1 browser, 3 messages; 4 threads, 2 browsers, one with a cookie of an earlier run, 2 messages | `ShownOnce`, `ShownInOrder` (sessions whose polls did not overlap), `OnlyFailureLoses`, `CatchesUp` (all) |
| `parser_requests` | 11 kinds of bytes, texts up to 24, fields of 1, 1 header | `BackIsDefined`, `AgreesWithGrammar` |
| `helpers` | one helper at a time, see below | `ReplyIsOwn`, `PathsFound`, `ParametersFound`, `TextsSurvive`, `MessageArrives`, `StreamDelivered`, `ConvertedWhole`, `RunsTakenWhole`, `ClassesAsLoaded` |

What the properties of `helpers` say: a reply carries no header, no content and
no length of an earlier one, except the headers of a 304, and the page that
`get_fullpath` left, which goes out in front of a file (`ReplyIsOwn`); the path of
an encoded file name comes back, an accepted path does not climb, and it lies
below the root or is itself a name that begins with the root's text: with the
root /a, the uri /aa is taken as it is (`PathsFound`); each name of a query or
cookie has the value that stands last, the list of a query's parameters has them
all in their order, and fields of a form keep theirs (`ParametersFound`); UTF-8
text is never taken for GBK, and an escaped text reads as the text, up to its
first NUL and without the control characters that are dropped (`TextsSurvive`);
every receiver reads a message as it was meant, whatever the receiver read
before, except that a sender's older entry for a field stands first and is read
instead, and that destinations are those meant only where no older ones stand in
the way (`MessageArrives`); pieces of a stream add up to it, and errors come out
of two functions only (`StreamDelivered`); a conversion takes every character
once, within its buffer but for `charconv` of an empty text, and closes what it
opened (`ConvertedWhole`); words lie end to end in the text, and one that begins
with a letter or digit goes on until no other follows, though the trie offers
every beginning of it; a word of the dictionary that begins in front of a run may
end within it: x, xa and aa cut xaaa into xa and aa (`RunsTakenWhole`); words that
share nodes keep their classes, when no word follows a longer one that begins
with it, or itself (`ClassesAsLoaded`).

**Bounds.** The limits of the mailbox (2000, 1000) become 2 or 1 and 1, so that
three posts make a trim; four posts trim twice. Two pollers are enough for every
race on one record, because a step of one thread touches one record. Two
connections are enough for a race on the set and one to spare; with two
io_services the acceptor and the signals are on different threads, as with four.
A buffer of five units is met exactly, passed, and cut at every place by bodies
of two, three and seven units. A receive buffer of 20 bytes holds the shortest
uploads whole, so that both the branch for a request in one piece and the pieces
are taken, and every cut of the closing line is one of the reads; contents of up
to four bytes end, or do not, in the dashes that the code counts back over. A
header of 18 fills that buffer (`MaxLen` bounds the length that is then counted
on for ever). The mailbox of the chat keeps one message and trims one; two
connections let a window ask again behind a request it gave up, or two polls
overlap. `Loads` gives each size of the pool its own bounds. With one thread, a
command brings both windows of a browser a session id or clears the mailbox.
With two, three messages leave two that can be received, for order and loss, and
force a trim, and all polls are of the empty session, so they race. With four
(of which two connections keep two busy), one browser has a cookie of an earlier
run, and polls of different sessions overlap without being one another's. A file
of seven with chunks of three has whole chunks, a short last one, and ranges
that begin and end before, on and behind the end; the file of 20 is longer than
the largest int (`MaxInt`, 15), so that its positions wrap. 24 bytes hold a
request with a folded header, and every shorter text.

In `helpers` texts grow by one symbol a step, from symbols chosen per function:
the separators, the bytes where a branch changes, and one or two others.
Five symbols hold an escape behind a slash, two pairs with a blank, or a path
that climbs; six bytes hold a character of four and one of two, or every overlap
of a lead byte with the next character; four fields are every input of the page
once. Two JsonMsg objects and five calls are a message made, read, an object
used again and a second message read over the first (`MaxCalls`, `MaxDoc` are
bounds of the model). Streams of up to seven bytes in pieces of 0, 1, 3 and 8
end in the middle of a piece, at its end and before it. Conversions have four
characters, which take up to twice their bytes, and buffers of 0, 3 and 8. Four
requests on a connection come in every order of kinds of reply. The segmenter
cuts all texts of up to five of four characters, under a sorted dictionary whose
words begin alike and one that is not sorted.

**Fairness.** `SessionID!LiveSpec`: a thread inside a method keeps running, and
one that waits for the lock gets it (`boost::shared_mutex` wakes every waiter
when the lock is released). `Server!LiveSpec`: every thread of the pool keeps
running handlers (weak fairness of each thread's steps), and the handlers of the
signal's io_service are not passed over for ever (strong fairness), since an
io_service runs its handlers in order; peers, signals and `stopwebsvr` owe
nothing. `Connection!LiveSpec`: the io thread runs waiting handlers and the
client sends the rest of what it began. `Download!LiveSpec`: write handlers
run. `Upload!LiveSpec`: the client sends its upload and the read handlers run.
`Chat!LiveSpec`: each request is served or its connection fails, windows go on
polling (strong fairness, because a window that waits for another reply cannot
ask), and not every poll of a window is dropped before it is run, without which
no protocol delivers anything. The configurations of `Server`, `Connection`,
`Upload`, `Chat` and `Helpers` do not check deadlock: a stopped pool, a closed
connection, an ended upload, a dead process and a function that returned are
ends of the behaviour. `helpers` has no liveness, so no fairness.

## Where the code and its comments part

Checked by the violation runs:

- `SeessionID.cpp:27` – two polls of a session at once return the same
  messages, against `SeessionID.h:57`.
- `server.cpp:59` – with the pool of four that `main.cpp:20` asks for, the
  acceptor and the signal set live on different threads; a connection that
  passes the `is_open` test just before the signal is inserted behind
  `stop_all` and stays open, against `connection_manager.hpp:20`.
- `connection.cpp:1244` – an incomplete header is overwritten by the next
  read, so a request that arrives in two pieces gets a 400, against the comment
  at line 582.

Visible in the models, without a run of their own:

- Message number 0 is covered by every fresh cursor and never received
  (`SeessionID.cpp:36`); `MailboxSpec` holds with `First <- 1`.
- When making the next socket throws, do_accept logs it and returns, and the server
  accepts no more (`server.cpp:72`); `KeepsAccepting` has this as its exception.
- A socket accepted while the acceptor closes stays open in the member `socket_`
  (`server.cpp:59-62`).
- Two windows that share a cookie, or a window and a poll it gave up, may be shown
  a message twice, or older ones behind newer ones, when their polls overlap:
  `ShownOnce` and `ShownInOrder` leave such sessions out.
- The trim leaves up to 2001 messages where its comment says 2000
  (`SeessionID.cpp:102`); `StoreBound` states the bound that holds.
- Two threads of the pool can be inside the manager's set at once
  (`connection_manager.cpp:22`), which the disjuncts guarded by `Races` model.
- The handler of do_write stops the connection after a successful reply
  (`connection.cpp:1720`), so a connection is kept alive only after file
  streams; a request that was already waiting in the socket is read before the
  close takes effect, is run, and its reply is lost (`ReplyWritten`).
- A whole-file download behind a ranged one starts at the range's offset
  (`connection.cpp:1473`): the member `ifirst` is set by ranges only, and by
  nobody before the first one. `BodyAsAsked` is therefore about ranges.
- An upload to disk that comes in one piece is cut off by counting dashes from
  a fixed place (`connection.cpp:795-802`). With fewer than the four dashes
  browsers use, up to two bytes of content go too, and content that is empty or
  all dashes never ends the loop. `StoredExactly` asks for four dashes there.
- An upload to the database whose closing line is split over two reads, or
  whose last pieces are short, stores wrong bytes (`connection.cpp:226`): the
  search misses the boundary or finds the opening one, still in the buffer.
  `StoredExactly` asks for clean reads there; `LengthAsSaved` holds always.
- A part's header that is cut between two reads is not handled: `strstr`
  returns null and is computed with (`connection.cpp:175`, 371). When it does
  not fit the buffer at all, the next read asks for no bytes and completes at
  once, for ever; `UploadEnds` leaves that case out.
- A stopping server leaves the partial file of a running upload
  (`connection.cpp:444`), a rejected upload is removed under the wrong name
  (813), and a failing database formats a reply without its arguments (704).
- A poll's messages are gone when its reply fails: `ReadFunction` has moved the
  cursor (`connection.cpp:1074`). `OnlyFailureLoses` says nothing else loses one.
- A first command, without a cookie, subscribes hosts for the empty session,
  not for the id its reply brings (`connection.cpp:1015`).
- `remote_endpoint()` at `connection.cpp:978` is outside the try block; when the
  client is gone by then, the exception ends the process (`ProcessDies`).
- A 304 sends the headers of the reply before it on the connection, or none
  (`connection.cpp:1389`, 1561): only the status is set. `ReplyIsOwn` leaves the
  headers of a 304 out.
- A client that takes gzip is recognised by `find_first_of("gzip")`, which finds
  any of these four letters (`connection.cpp:1081`, 1149).
- A whole file, or a suffix of it, beyond the largest int wraps and is cut off
  (`connection.cpp:456`); `BodyAsAsked` asks for ranges whose ends fit an int.
- `url_decode` takes "%2g", "%+4" and "%-1" for escapes
  (`request_handler.cpp:193`), and `get_fullpath` takes a path whose text begins
  like the root for one that is below it already; `PathsFound` has this as an
  exception.
- When `get_fullpath` refuses a path, the stock 400 it put into `reply_` is not
  sent as one: do_read ignores it and runs do_file (`request_handler.cpp:31`, 38;
  `connection.cpp:1211-1233`). The page goes out in front of a file, or of the files
  that follow on the connection, unless a reply that sets the content comes first.
  `ReplyIsOwn` leaves such replies out.
- `processsdounry` finds a file's name only for the fields "files[]", "filedata"
  and names of 6 to 8 characters, and cuts a value at its first line end
  (`ParserProcess.cpp:99`).
- `isgbk`'s lower range for the second byte is empty, a GBK character at the end
  of a text is not seen, and one with a lead byte of 0xC0 or more is taken for
  UTF-8 (`utf8.cpp:153`). `TextsSurvive` is about text that is UTF-8.
- `utojson` keeps the raw control byte behind its backslash; it and `sutojson` cut
  a text at its first NUL (`utf8.cpp:76`, 106).
- `charconv` of an empty text allocates nothing and writes a NUL behind that
  (`utf8.cpp:129-140`); `ConvertedWhole` leaves it out.
- `utf8_to_gb` and `gb_to_utf8` leave the iconv descriptor open when the
  conversion fails, which `ConvertedWhole` leaves out; `z_convert` does not check
  `iconv_open`.
- `JsonMsg::Reset` keeps the session id, the destinations and the tree
  (`JsonMsg.cpp:139`): an object that made or read a message sends those entries
  again, in front of its new ones, and receivers read the old ones.
  `MessageArrives` says which (`Understood`).
- `UnGzipAndCallback` and `UnGzipDataToFile` have no try block, and the loops
  leak their buffer when a read throws (`GzipProcess.cpp:98`); `GetDataFrom...`
  returns -1 for the end and for an error.
- The accumulator of a chunk's variance passes through a `size_t`
  (`mmseg.h:284`), so that the fourth rule hardly ever decides. Words of the
  dictionary that begin with a letter or digit are never taken unless they are
  the whole run; one that begins in front of a run can cut it (`RunsTakenWhole`).

## What is proved

Each theorem holds for every value of its module's constants under the
assumptions named there (`CallsAssumption`, `PoolSizesAssumption`,
`HelpersAssumption`, ...): any number of threads, peers, clients, windows and
requests, any sizes of buffers, files and texts. A proof module is named after
its model. All theorems are about `Spec`, which has no fairness. The argument
is the same everywhere: an invariant holds initially, each action keeps it (a
lemma for the action, or a step of one lemma), and it implies the property.

| Module | Theorem | States |
|---|---|---|
| `SessionIDProofs` | `TypeCorrect` | `[]TypeOK` |
| | `IteratorsCorrect` | `IteratorsStayValid` |
| | `StoreBounded` | `[]StoreBound` |
| | `NumbersCorrect` | `[]NumbersIncrease` |
| | `HostsStayUnique` | `[]HostsUnique`, when nobody calls `WriteHostInfo` |
| | `PollsComplete` | `[]PollComplete` |
| | `NoMessageTwice` | `[]AtMostOnce` until the numbers wrap, with one polling thread |
| | `CursorsMoveForward` | `CursorForward`, with one polling thread and `MaxWrites <= MaxInt` |
| | `MailboxRefined` | `MailboxSpec`, the refinement of `Mailbox`, with the same |
| `ServerProofs` | `AcceptingKept` | `[]KeepsAccepting` |
| | `AloneTracks` | `[]ManagerTracks` |
| | `AloneCloses` | `[]AloneStopsClean` |
| `ConnectionProofs` | `ReadsHaveRoom` | `[]ReadHasRoom` |
| | `RequestsInOrder` | `[]InOrderOnce` |
| | `PostsDispatchedWhole` | `DispatchedWhole` |
| | `OrderlyIsNeverBad` | `[]OrderlyNeverBad` |
| `DownloadProofs` | `BodiesStayInBounds` | `[]BodyStaysInBounds` |
| | `BodiesAsAsked` | `[]BodyAsAsked` |
| `UploadProofs` | `UploadsStoredExactly` | `[]StoredExactly` |
| | `LengthsAsSaved` | `[]LengthAsSaved` |
| | `FilesHoldBeginnings` | `[]HoldsBeginning` |
| | `UploadTypes` | `[]TypeOK` |
| `ChatProofs` | `NothingShownTwice` | `[]ShownOnce` |
| | `ShownAsHeard` | `[]ShownInOrder` |
| | `NothingElseLost` | `[]OnlyFailureLoses` |
| | `OneThreadNeverRaces` | with one io thread, `raced` stays empty: the first two hold for every session |
| `RequestParserProofs` | `BackAlwaysDefined` | `[]BackIsDefined` |
| | `ParserTypes` | `[]TypeOK` |
| | `RequestsAgree` | `[]AgreesWithGrammar` |
| `HelpersProofs` | `RepliesAreOwn` | `[]ReplyIsOwn` |
| | `StreamsDelivered` | `[]StreamDelivered` |
| | `ClassesLoaded` | `[]ClassesAsLoaded` |
| | `MessagesArrive` | `[]MessageArrives` |
| | `ConversionsWhole` | `[]ConvertedWhole` |
| | `TextsPass` | `[]TextsSurvive` |
| | `PathsAlwaysFound` | `[]PathsFound` |
| | `ParametersAlwaysFound` | `[]ParametersFound` |
| | `RunsAlwaysTaken` | `[]RunsTakenWhole` |

**SessionIDProofs.** `TypeOK` is not inductive: `MarkRead` stores the number of
the message under the iterator, and that is an integer only if the iterator
points into the vector. So the base is `Inductive == TypeOK /\ LockInv /\
IteratorInv`. `IteratorInv` says where a reader's iterator may point. It
survives the steps of other threads because no step changes the vector while a
reader is inside (`ReadersFreezeStore`), and that follows from `LockInv`: a
thread in a step of an exclusive method is in `writers`, writers exclude
readers, and there is at most one. `RoomInv` and `NumbersInv` add what holds
between the steps of WriteFunction: room for one message after the trim, and
`kki` one behind between append and count.

`PollsComplete` holds for any number of polling threads, though they race on
the record and its cursor. The point of its invariant is that a cursor moved
*back* by a slower thread does no harm to completeness: whatever thread wrote
it, every kept message at or below a cursor was received by its session or is
in the hands of a poll that has not returned, which `CoverInv` says of each
step of a poll. What such a race breaks is `AtMostOnce` (run `session_twice`).
With one polling thread (`OnePolls`: in a pool of one) the cursor a poll found
is the one it moves (`AloneInv`), what it collects is exactly the kept messages
above it (`ExactInv`), and with these the poll is atomic: `MailboxRefined` maps
its step under the lock to the abstract one and every other step to a stutter
or to the abstract post, trim, clear or edit. `CountInv` is why
`MaxWrites <= MaxInt` keeps numbers from wrapping. Without it, or with two
polling threads, `AtMostOnce` and with it the refinement are false, as
`session_twice` shows for two threads.

**ServerProofs.** `AcceptingKept` needs, for a pool of any size, only which
connection a thread's step is about (`CurrentInv`), and that `caught` is set by
the step that leaves no accept armed and by no other. For a pool of one
`OneThreadInv` ties the set to the sockets: an open socket is in the set or is
the one the thread is just starting, erasing or closing, and once the signal
was handled and the set cleared no socket is open.

**ConnectionProofs.** `BufferInv`: a read goes on behind something only if that
begins with the header of a POST, and the first cells hold the units that were
read last. `HandledInv`: what was dispatched began before the unit now at the
front of the buffer. `PostsDispatchedWhole` and `OrderlyIsNeverBad` are about
requests whose Content-Length is right (`WellFormed`). `OrderlyInv` adds what a
client that waits for its replies guarantees: it has sent nothing of a request
before the earlier ones are answered, so a loaded buffer begins a request.
Lemmas on where requests end (`SumsExist`, `EndsFacts`, `StreamFacts`) come
first; they go by the least counterexample, because no prover here can use an
induction theorem.

**DownloadProofs.** `ChunksInv` says, of files whose length an int holds, that
the next chunk starts where the last one ended and how much is left; what
`ToInt` does (`ToIntFacts`) is needed only to show that an int holds these
numbers. `RangeInv` says the same of ranges that can be satisfied, in files of
any length.

**UploadProofs.** Until the content begins, the buffer holds all that was
received (`Prefix`). On the way to disk the file is all that was received of the
content and of what stands behind it (`Received`), so the cut at the end, which
counts back over dashes, meets the closing line wherever the pieces were cut
(`CutFacts`); what the cut leaves, and what a broken upload leaves, is a
beginning of it (`FilesHoldBeginnings`). On the way to the database the length
told is that of the chunks, and while the reads are clean no boundary is left in
the buffer behind the opening line (`NoBoundary`), so the search finds the
closing line and no other. The proof is why `CleanRead` has the bound it has.

**ChatProofs.** Any number of io threads. `PlaceInv`: of each session that did
not race, a message the mailbox has handed out is in exactly one place: with a
poll that runs or in its reply, shown by one window, or lost with a failed reply.
`OrderInv` orders these places: each window's list is in order, and the poll or
reply a window waits for is newer than all it was shown. A poll that runs is the
only one of such a session, so the cursor it started from is the one it moves.
For `NothingElseLost`, which is about all sessions, no such thing is known; as in
`PollsComplete`, what counts is that whatever poll wrote a cursor, every kept
message at or below it was returned or is in the hands of a poll that runs.
`BoxInv` and `RequestInv` describe the mailbox and the requests. `OneThreadInv`
is why nothing races in a pool of one.

**RequestParserProofs.** `NamedInv`: every header in the list has a name, and
in the states of a header line there is one. That the parser accepts the
requests of `RequestGrammar` and no other text, with no bound on texts, fields
or headers, needs what every state knows of the input: `Reading` says it of the
lines that have ended and of the one that is open. Up to the end of the request
line the open line is the method, the uri and the version as far as they have
come (`LineSoFar`); behind it the first line can be read as a request line in
one way only (`RequestLineIs`), with the fields collected, the lines after it
are a block of header lines, and the headers collected are those of the block
and of the open line (`HeadersSoFar`). The lemmas follow a byte through both
descriptions: `LineGrows` for the lines, `HeadersGrow` and `ValueGrows` for the
headers in them, folded lines included, `Moves` for the parser's states. A text
that was refused is no request because its last line is open (`Refuses`), one
that still waits for an answer because it has no empty line at its end (`NotYet`).

**HelpersProofs.** A behaviour of `Helpers` is about one helper (`OnlyOne`), so
each invariant is one of the helper's. `ReplierInv`: the content of an open
connection is empty or begins with the page that `get_fullpath` left.
`ZipperInv`: what was given out is what was delivered, and nothing before a
copy. `SegmenterInv`: every node lies on the path of a line that was read, and
each word's node has the class of its line, because an earlier line through that
node would begin with the word. `MessagesInv`: in a message, the first entry of
a field is the one its sender's tree had, or else the sender's own, and none if
that is empty (`Faithful`), and what an object heard holds until it is called
again. `ConcatFacts` and `GetFacts` are the lemmas on reading texts that were
put together.

What recursive functions compute is proved without an induction theorem: that
such a function exists and is the one that CHOOSE picks (`Recursion`,
`LookAhead`), and that what holds of 0 and goes on from one number to the next,
or back from the end of a text, holds everywhere (`Climb`, `Descend`), follow
from the least or greatest counterexample. On these rest the lemmas on sums,
on selections (`Lists`: the one sequence that has the numbers of a set in
ascending order) and on concatenations (`Lies`: where each piece lies).

`ConverterInv`: what was taken of a text is in the buffer, each good character
once and in order, and fits; when cconvert calls iconv again, there is room for
all that is left (`LoopOf`), because no character more than doubles, so that
the second call is the last. The theorem assumes of iconv what
`ConversionAssumption` says, and nothing of the texts but that only their last
character can be cut off.

A text is a sequence of the symbols given (`SymbolInv`), whatever its length;
the symbols of paths, UTF-8 and JSON texts are bytes, and with that the three
theorems on texts come down to lemmas on one text. `AnyUtf8Passes` goes from
character to character, which `PieceAt` shows to be what both walkers step over.
`AnyEscapeUndone` and `EncodeUndone` put the reader's place in the escaped text
beside the writer's place in the text; cutting the escaped text at its first NUL
is escaping the text cut at its first (`CutEscape`). `AnyPathFound` knows of the
root only that it is a text of bytes, and of `Index` that it has no "..",
without which a path could climb (`RequestPathAssumption`); whether the name
begins with the root's text decides which of the two places it has. `PairsHeld`
lays the pieces between two cuts on the stretches of the definition, one to one
and in order (`Cuts`, `PieceIsStretch`), and the map holds of equal names the
last. `FormAlways` needs that the names "files[]" and "filedata" have their
lengths (`InputLengths`).

`WordsInv` is `RunsTakenWhole` with the types of what segment keeps. The argument
is about the best chunk: a chunk is a walk from word to word (`Walk`). When the
text at hand begins a run, no word of a walk steps from within the run over its
end, so a chunk either ends within the run or visits its end; and from any chunk
whose first word stops before the end, another is made whose first word is the
whole run and that reaches as far (`Lengthened`): it is longer, or as long with
fewer words, so that the first is beaten by one of the first two rules
(`WholeRun`). The rounding of the third rule and the degrees of the fourth
matter only for there being a best chunk at all (`BestExists`, which takes the
best by one measure after the other).

### Only model-checked

Liveness (`EventuallyReceived`, `ShutsDown`, `Answered`, `Ends`, `UploadEnds`,
`CatchesUp`): fairness and ENABLED are out of the prover's reach. Every safety
property of a passing run is a theorem.

## Not modelled

- Code nobody calls: `handle_request` (the dispatch is do_read's), `do_zip_file`.
- Tables: mime types, status lines, the pages of stock replies.
- Library calls and output: the XML file, the logger, regular expressions (in
  `CRegex` too, whose match is an input of `Chat`), the date parsers and
  `isdatestr`, the string replacements, `GBK_To_Unicode`, a call of mbstowcs.
- Reading and trimming the lines of the dictionary; a line without a tab
  (`mmseg.h:357`) or a mark at the start of the file is outside `Segment`.
- A second source pushed on one `CGzipProcess`, which no caller does.
- `mongodb/`, a test program for an external database; `web/md5*`, digests from
  elsewhere; `mmseg/utf8cpp/`, third-party headers.

Where a module other than `SessionID` has a `TypeOK`, that is a part of the
proofs' invariants and not a property of a run.

## Plan

1. Done: `SessionID` with `Mailbox`, `Server`, `RequestParser` with its
   grammar, `Connection`, `Download`, `Upload`, `Chat`; the first theorems.
2. Done: the helpers (`RequestPath`, `Parameters`, `JsonMsg`, `Replies`,
   `Streams`, `Conversion`, `TextCodes`, `Segment`), the server with both sizes
   of pool in one run, downloads of a file longer than an int.
3. Done: the proofs of all safety properties of the mailbox, the server, the
   connection, downloads, uploads and the chat, the refinement of `Mailbox`,
   and the proofs for the parser, replies, streams, messages, the segmenter,
   conversions, the functions on texts, and the parser's grammar.
4. Conditional requests: the time stamp of a file that an upload replaces
   between two downloads.
