# A TLA+ model of BuzingaServ

BuzingaServ is a single-threaded HTTP/1.1 server in C++: one `poll()` loop, a
state machine per connection, and CGI scripts run as child processes behind two
pipes. This directory models it, checks the models on small instances with TLC,
and proves what matters most for every instance with TLAPS.

## 1. The system

| component | source | state | operations |
|---|---|---|---|
| event loop (`HTTPServer`) | `src/src/HTTPServer.cpp` | `_active_servers`, `_active_clients`, `_active_pipes`, the copy of the poll table being walked | `handleActivePollFDs`, `handleNewConnection`, `handleExistingConnection`, `handlePipeConnection`, `getClientByPipeFd` |
| poll table (`Poll`) | `src/src/Poll.cpp` | `_poll_fds`, in the order of `addPollFD` | `addPollFD`, `setEvents` (first match), `removeFD` (all matches), `getPollFDs` (a copy), `pollFDs`, `checkREvents` |
| client (`Client`) | `src/src/Client.cpp` | `_state`, `cgiBodyIsSent`, `cgiHasBeenRead`, `KO`, the four pipe numbers | `handleConnection`: one branch per state, chosen by the *mask* of the entry visited |
| CGI (`CGI`) | `src/src/CGI.cpp` | `_pid`, `body`, `_bodyBytesWritten` | `parseURIForCGI`, `start`, `send`, `receive` |
| request (`HTTPRequest`) | `src/src/HTTPRequest.cpp` | text read so far, headers, body, `_content_length` | `receive`, the parsers it calls |
| response (`HTTPResponse`) | `src/src/HTTPResponse.cpp` | text, `_bytes_sent` | `send`, `clear` |
| files (`FileManager`) | `src/src/FileManager.cpp` | the stream `_request_target`, `_response`, `_autoindex` | `manage` (GET, POST, DELETE), `openErrorPage`, `loadErrorPage`, `manageCgi` |
| sockets (`Socket`, `Server`) | `src/src/Socket.cpp`, `src/src/Server.cpp` | one descriptor each | `accept` on construction, `close` on destruction |
| configuration | `src/src/Token.cpp`, `src/src/ConfigSyntax.cpp`, `src/src/ConfigParser.cpp`, `src/src/ServerSettings.cpp`, `src/src/LocationSettings.cpp` | token list, server blocks, locations | `tokenizeStream`, `syntax`, the settings constructors, `sortServerSettings`, `resolveLocation`, `resolveMethod`, `resolveAlias` |
| listings (`AutoIndexGenerator`) | `src/src/AutoIndexGenerator.cpp` | none; a file in `/tmp` while a listing is made | `OpenAutoIndex` |
| support | `HTTPStatus`, `StatusCode`, the exceptions, `Logger`, `Color`, `main` | | |

**How they interact.** `main` builds the server; `run()` reads the
configuration, opens one listening socket per group of server blocks, and calls
`handleActivePollFDs` for ever. Each call polls once, copies the table and
visits every reported entry of the *copy*. A visit calls `handleConnection` of
a client, through its socket or through a pipe, and then sets the mask of an
entry, removes it, or destroys the client. `CGI::start` adds two pipes to the
same table and to `_active_pipes`; a pipe is led back to its client by number.
Exceptions are control flow: a `ClientException` becomes an error page (or ends
the process, for a CGI request), a `PollException` drops a descriptor, a
`runtime_error` ends `run()`, anything else ends the process.

**What is hard.**

- *Stale reports.* The copy is walked while visits close, remove and re-use
  descriptor numbers.
- *Two ways into one client.* A CGI client is driven through its socket and
  through two pipes, often in the same round.
- *Mask and state.* The branch taken depends on the mask that was in the table
  and on the state the client is in now; they are set in different places.
- *Timeouts* strike every client at once, whatever it is doing.
- *Children.* `waitpid` blocks the only thread; a script may end at any moment.
- *Reads* cut a request anywhere, and each cut takes another way through the
  parser and the two places that check limit and completeness.
- *Streams* read ahead and write late, on files that others empty, remove and
  create again.
- *Inherited descriptors.* Nothing is closed on `exec`: a script holds open what
  other requests wait to see closed.
- *Ending the process* is a possible outcome of many error paths, and then all
  clients lose.

**What makes each part correct.**

- loop and poll table: a report is acted on only while it is true; every client
  has one entry and it asks for what the client waits for; no connection is
  dropped without an answer; every request that was sent is answered in the end.
- client and CGI: a client reads, writes and closes its own descriptors only;
  a script gets the body and the peer its output, each whole; what was opened for
  a script is closed; one response per connection.
- server: it outlives any request, peer or script.

  (Of these the code keeps some, some up to a condition, and some not at all;
  section 3 says which.)
- request and response: the body is as long as announced and no longer than
  allowed; the bytes sent are the response, once and in order.
- files: a response carries one version of a file.
- configuration: a text is accepted or refused as a whole by its form, and read
  as it is written; a server block is reached under its own address; the longest
  matching location wins.

## 2. Modules

| module | models | status |
|---|---|---|
| `EventLoop` | event loop, poll table, client state machine, CGI, accept/close, kernel, peers, scripts | done |
| `MCEventLoop` | instances of `EventLoop` for TLC | done |
| `Delivery` | what is promised of static requests, as peers see it; `EventLoop` implements it | done |
| `EventLoopProofs` | type correctness and descriptor ownership | proved |
| `EventLoopQuiet` | requests that end the process by themselves, resets and exhaustion apart, the server runs on | proved |
| `EventLoopStatic` | on `EventLoopQuiet`: static requests are answered whole, no wake-up is lost, the copy of the table holds, `Delivery` is implemented | proved |
| `EventLoopOutput` | on `EventLoopProofs`: the output of a script is read to its end, short text kept as it is | proved |
| `Tokenizer` | `tokenizeStream`: the file becomes a token list | done |
| `ConfigReader` | on `Tokenizer`: `ConfigParser::syntax` and the constructors of the settings, over one token list | done |
| `ConfigReaderProofs` | the tokens are those of the file, the syntax check accepts the well-formed texts, and the constructors follow it, whatever the file | proved |
| `MCConfigReader` | instances of `ConfigReader` for TLC | done |
| `Routing` | grouping of server blocks, choice of block and location, the path a target means: operators | done |
| `RequestReader` | one connection from its bytes to its answer, on `Routing` | done |
| `RequestReaderProofs` | types, requests kept whole, none left waiting, right answers, however the reads cut them | proved |
| `MCRequestReader` | configurations, requests and odd texts for TLC | done |
| `CgiPipes` | the pipes between server and scripts, who holds which end, and the server's blocking calls | done |
| `CgiPipesProofs` | types, bodies, closed and forgotten ends and one-sided waits, whatever scripts do and whenever timeouts come | proved |
| `MCCgiPipes` | instance of `CgiPipes` for TLC | done |
| `FileStore` | the streams of requests for one file and its directory, against the file system | done |
| `FileStoreProofs` | types, what the name holds, what readers get, and which descriptors leak | proved |
| `MCFileStore` | instance of `FileStore` for TLC | done |

`RequestReader` and `FileStore` look at one connection and one file in the detail
that `EventLoop` leaves out; `CgiPipes` at the processes around the loop. Each
lets the visits `EventLoop` orders come in any order their state allows, so what
holds of them holds under the loop.

### EventLoop

Everything between two calls of `poll()` is one thread, so one visited entry is
one step; between steps, peers and scripts move.

| variable | code |
|---|---|
| `server` | how the process stands: running, `failed` (`run()` caught and returned), `aborted` (uncaught exception, failed assertion, signal), `killed` (`_exit` in a handler) |
| `pollfds` | `Poll::_poll_fds`; a *ticket* (the how-many-eth `addPollFD`) stands for the position, so that removing an entry leaves the others' names alone |
| `todo` | what is left of the copy `getPollFDs()` made for this round, with `revents` |
| `activePipes` | `_active_pipes` |
| `client` | `_active_clients`, by the connection it serves; `fd = NoFd` when there is none. `open` is `_request_target.is_open()`, `begun` says part of the present response is out, `left` is how many chunks are left to load or send, `body` how many writes of the body are left |
| `desc` | the kernel's table: what each descriptor number means |
| `peer` | a connection as its peer sees it: what it asks for (`kind`), how many reads the request takes (`need`), what is sent and not read (`inbox`), what it got |
| `child` | the script of a connection: running, exited or reaped, units written and taken; `binary` says a NUL was among them, `intact` that `CGI::body` is still what was taken |

| action | code |
|---|---|
| `Poll(W)` | `pollFDs()` reports something, `getPollFDs()` copies. `W`: the sockets and pipes that had been filled and have room again |
| `Timeout` | `pollFDs()` reports nothing for 2500 ms: the loop over all clients |
| `VisitUnownedHangUp` | `POLLHUP` on what is no pipe of a client: `getClientByPipeFd` throws |
| `VisitScriptHangUp` | `POLLHUP` on a CGI client's pipe: the "500 KO" path |
| `VisitBroken` | `PollException`: remove the descriptor, destroy the client of that number |
| `VisitListener` | `handleNewConnection` |
| `VisitClient` | `handleExistingConnection`, which is `handleConnection` and `AfterClient` |
| `VisitPipe` | `handlePipeConnection`, which is `handleConnection` and `AfterPipe` |
| `VisitUnknown` | "Unknown file descriptor" |
| `Connect`, `SendSegment`, `Lengthen`, `HalfClose`, `HangUp` | a peer; `Lengthen` adds to a request that is not all sent |
| `ScriptWrites`, `ScriptExits` | a script |

`handleConnection` is one operator per branch (`Receive`, `Load`,
`LoadErrorPage`, `SendResponse`, `StartScript`, `SendBody`, `ReceiveOutput`, and
`BadRequest` for every other pairing of mask and state); `Fail` is its
`catch (ClientException &)`.

*Abstractions.* A request is a member of `AllKinds`: what distinguishes requests
here is only which handlers they pass and which exceptions they raise.
`StaticKinds` are served, refused or answered with an error page; `CgiKinds` are for
scripts; `FatalKinds` end the process without any script: `malformed` (a header
line `substr` throws on, `HTTPRequest.cpp:158`; a length `stoi` throws on, `:169`; a
block without a limit, where `stoull` throws, `:55`), `unrouted` (no location, or no
`Host`) and `unservable` (`readdir(NULL)` for a directory that cannot be listed,
`AutoIndexGenerator.cpp:49-59`; a path `exists()` throws on). A DELETE
on a CGI location, which runs as a static request and whose failure does not end
the process, is the class `delete`. Sizes are
counted in calls: a file, response or body takes one up to `MaxChunks` or
`MaxBody` calls. A socket or a pipe that nothing was written to has room; a
filled one may or may not. `CGI::send` on a full pipe blocks in `write` until
the script has read, which is one step here, as the script is free to do so. The
two fields `_serverToCgiFd`/`_cgiToServerFd` are uninitialised until a script is
started: an accepted client gets any numbers of `Residue`, or one that matches
nothing. The second `waitpid` of a client leaves `status` unwritten: both
outcomes of the test that follows are allowed. Of what a script writes the model
keeps whether it holds a NUL: `CGI.cpp:99` appends the buffer as a C string, so that
a NUL or a read that fills the buffer may leave less or more than was read
(`Appended`).

*Number allocation.* `Candidates(S)` are the numbers the kernel may pick out of
the free ones. `LowestOf` is what POSIX promises when nothing else takes
numbers; `AnyOf` also covers numbers taken for a while by files the server has
open, which the model leaves out. The findings use `LowestOf` where they are
about numbers.

### Tokenizer and ConfigReader

`Tokenizer` reads the stream up to the next blank, turn by turn, and cuts what it
gets at number signs, brackets and semicolons; its variables are the file, how
far it is read (`at`) and the token list (`text`). The token list is then walked twice: `syntax` accepts or rejects it, and then
`ServerSettings` and `LocationSettings` walk it again with loops that check
nothing the first walk is supposed to have checked. `ConfigReader` is these two walks, one
turn of a loop a step.

| variable | code |
|---|---|
| `phase` | the loop that is running; at the end `rejected` (by `syntax`), `invalid` (a setter or `validateBlock` threw), `read`, or `overrun` |
| `it` | the iterator |
| `close` | `closing_token` of `syntaxServerBlock` and of `syntaxLocationBlock` |
| `block`, `owner`, `places` | the `ServerSettings` and `LocationSettings` under construction and the locations so far |
| `applied` | the setter calls made: for whom, by which key, with which value |

| action | one turn of the loop of |
|---|---|
| `Tokenize` | `tokenizeStream`, with `stripComments`, `splitString`, `identifyToken` |
| `CheckText` | `syntax` |
| `CheckServerBlock` | `syntaxServerBlock`, with `findBlockEnd` and `syntaxLine` |
| `CheckLocationBlock` | `syntaxLocationBlock`, with `syntaxLine` |
| `ReadText` | `ParseConfig`, which constructs one `ServerSettings` after the other |
| `ReadServerBlock` | `ServerSettings::ServerSettings`, with `validateBlock` |
| `ReadLocationBlock` | `LocationSettings::LocationSettings` |

*Abstractions.* A file is a sequence of blanks, line ends, marks, number signs and
words; words that touch spell a word of which only is known that the program has
no use for it (`Other`). Of a setter only which key it belongs to and which values it
throws on (`Refused`) are kept. Reading past the last token is undefined in C++; the model
stops in `overrun`, so nothing is claimed of what follows. `findBlockEnd` of a
block that is never closed gets there; `SyntaxDecides` says that the syntax
check gets there for no well-formed text.

### Delivery

A connection is `idle`, `pending`, `open` or `closed`, and what was sent over it
`nothing`, a `part` of an answer, or the `whole`. It is closed by the step that
completes its answer. `EventLoop` maps its peers' phases to the one and `SentOf`
what they got to the other; `Delivers` is `Delivery!Spec` under that mapping. A
408 in the middle of another answer counts as an answer here; `OneResponse` says
what is wrong with it.

### Routing and RequestReader

| variable | code |
|---|---|
| `config`, `listen`, `asked`, `text` | the blocks of the configuration, the address of the connection, the request its peer means, what it sends; never changed |
| `read`, `http`, `req`, `ended` | how much is read; `_http_request`; method, target, headers, body, `_content_length`; `_header_end` |
| `setting`, `limit`, `cgi` | `_serversetting` of `Client` and of `FileManager`; `_max_body_size`; `_cgi` |
| `state`, `mask`, `outcome` | `_state`; the state last returned; what the request came to |

| action | code |
|---|---|
| `Receive` | `HTTPRequest::receive` (`ReadHeader`, `ReadBody`) and the `Receiving` branch after it (`Understood`, `Resolved`) |
| `BadRequest` | the last branch of `handleConnection`, for mask and state that do not fit |
| `Load` | the `Loading` branch: `parseURIForCGI` or `resolveRequestTarget` |

*Abstractions.* A text is a sequence of symbols: CR, LF, space, colon, slash and
words; the parsers' `find` and `substr` work on these. A read returns any next
piece of up to `BufferSize` symbols. A word of `Scripts` stands for one that ends
in `.py`, a key of `Number` for its value. `stoi`, `stoull`, `substr` and `at`
throw as they do in C++, which is the outcome `aborted`: nobody catches them.
Whether a file exists is `FileStore`'s matter, whether a script does is left
out. A peer that closes before it has sent everything is in `EventLoop`.
`RequestReader` has no fairness: that a request comes to its end is
`NeverWaiting`, a state property, since whether visits come is decided by the
loop.

### CgiPipes

| variable | code |
|---|---|
| `server`, `inside` | whether the process runs; the call it is blocked in |
| `phase`, `unsent` | `_state` of a client; writes of the body still to be made |
| `input`, `output` | what the kernel holds in `_serverToCgiFd`, part by part, and in `_cgiToServerFd`, counted |
| `holds` | the ends of pipes and connections each process has open |
| `script` | each script's process: `_pid`, what it does next, what it has read, whether it saw the end, what it wrote |

| action | code |
|---|---|
| `Accept`, `Ask` | `handleNewConnection`; the visits that end in `CGI_Start` |
| `Start`, `Execute` | `CGI::start` in the server, and in the child up to `execve` |
| `Send`, `Written` | `CGI::send`: the call of `write()` and its return; what is written is always the first part of the body (`Part`) |
| `Receive`, `Received` | `CGI::receive`: the call of `waitpid()`, its return and the rest |
| `Mismatched` | visits that meet a state their mask does not fit, the "500 KO" path, and a report of the pipe of a client that was timed out: the process ends |
| `Timeout` | nothing is reported for 2500 ms: clients that receive or wait for output are to send a 408, and their pipes stay open |
| `Finish` | the response is sent and the client destroyed, its socket closed |
| `Reads`, `SeesEnd`, `Writes`, `Exits` | a script |

*Abstractions.* Bodies, outputs and pipes are counted in writes; of a body the
model keeps which part each write took. Descriptors are
named by what they are, as numbers are `EventLoop`'s matter. A script's program
is any of `Programs`, among them ones that write before they read. Output that
fills the buffer of `receive()` takes two calls, which is in `EventLoop`.

### FileStore

| variable | code |
|---|---|
| `want` | method and body of each client's request |
| `path`, `content` | the file the name stands for, and what files hold, removed ones too |
| `file` | `_request_target` of each `FileManager`: the file it has open, position, what it has fetched or keeps, what was read, `_bytes_sent` |
| `open` | descriptors the process has for files and directories |
| `value`, `meant`, `listings` | history: what the file should hold, what each GET should return, directories opened |

| action | code |
|---|---|
| `OpenGet`, `Get` | `openGetFile` and `manageGet`, further visits |
| `OpenListing` | `resolveRequestTarget` with `OpenAutoIndex` |
| `OpenPost`, `Post` | `openPostFile` and `managePost`, further visits |
| `Delete` | `manageDelete` |
| `Answer` | the last write of the response and the destructor of the client, which flushes and closes its stream |
| `Crash` | the process ends (see `EventLoop` for the ways) and is started again |

*Abstractions.* Contents are counted in pieces of one visit, and a piece carries
the name of the client that wrote it. `std::fstream` fetches up to `ReadAhead`
pieces at once and writes once it keeps more than `WriteBack`. A last piece may
be a short one, in which case the end is seen with it, or a full one, in which
case it takes another read. A listing is two pieces, the page and the line of
the file. Errors of the disk are left out.

## 3. Runs

| run | spec | checks | instance |
|---|---|---|---|
| `static` | `Spec` | `OwnDescriptors` `StoppedByCulprit` `ClosedAfterAnswer` `Watched` `SnapshotCurrent` `Delivers` | 2 connections, 3 numbers beside the listener's (all can be taken), 5 static and 2 fatal classes, requests in up to 2 reads, up to 1 extra segment, half-close |
| `cgi` | `Spec` | `TypeOK` `OwnDescriptors` `OutputComplete` | 2 connections, 5 of the 6 CGI classes, unrouted targets and files, bodies up to 2 writes, output up to a full read, resets, pipe fields that hold the number of a descriptor |
| `served` | `FairSpec` | `Served` | 2 connections, files, surplus bodies and scripts, responses of up to 2 chunks, requests that are lengthened before they are sent, half-close |
| `spliced` | `Spec` | violates `OneResponse` | files of up to 2 chunks |
| `dropped` | `Spec` | violates `ClosedAfterAnswer` | 3 connections, lowest number first, a body of 3 writes |
| `config` | `FairSpec` | `TokensRight` `SyntaxDecides` `SettingsFollow` `ReadingEnds` | all blocks of 3 out of 9 lines and locations, a block before each of them, all texts one edit away from a block and from a pair of blocks, a block with blanks, line ends or comments of 7 kinds anywhere, and all files of up to 4 symbols out of 5 |
| `misread` | `Spec` | violates `EverySettingKept` | the same blocks, location keys unrestricted |
| `requests` | `Spec` | `TypeOK` `RequestKept` `RightAnswer` `NeverWaiting` | 2 configurations of up to 4 blocks on 2 addresses, 4 methods, 10 targets, 3 hosts, bodies of up to 3 symbols, headers given twice, 10 texts that are no request; reads of up to 12 symbols |
| `misgrouped` | `Spec` | violates `OwnAddress` | addresses not in sorted order |
| `bodyless` | `Spec` | violates `BodyKept` | `Content-length` |
| `pipes` | `FairSpec` | `TypeOK` `BodyGiven` `NoMutualWait` `OnlyTimeoutsLeak` `Freed` `EndSeen` | 2 scripts of 5 programs, pipes that hold 1 write, bodies of up to 2, timeouts |
| `files` | `FairSpec` | `TypeOK` `StoreIsRight` `ReadIsRight` `OnlyListingsLeak` `Answered` | 3 clients of any method, contents and bodies of up to 2 pieces, 3 descriptors, 2 pieces read ahead, 1 kept |

*Why these bounds.* Two connections are what it takes for one to be visited
between two steps of another, and to be given a number another one has just
closed; the pipes of a CGI client add two entries for the same client, so two
connections also give four or five entries in one round. `dropped` needs a
third, one to hold the number below the pipe's. A second chunk, read or write is
what distinguishes "not yet" from "done"; a third repeats the second. In
`static` both connections can take all numbers but one, in a run with `Connect`
before a close they take all they need. The class `script refused`, which `cgi`
leaves out for time, ends the process in the step in which `unrouted` does. In
`served` a peer may lengthen its request without end, as long as it has not sent it
all, so that its requests are not finite; what it has still to send at any moment
is bounded. `CHECK_DEADLOCK FALSE` is set where scripts, resets or requests can
end the server, or all connections can be used up: no step follows.

For `ConfigReader`, three items are what a valid block needs (`listen`, `root`,
one location), so every block of three contains the valid ones and those that
lack one, have one twice or in another order. A second block shows that the
iterator leaves the first one where the second begins. The edits (a token
dropped, doubled, replaced by any other, a bracket or semicolon put in, the text
cut short) are the mistakes that a syntax check exists for. Reading stops when
it is done: `CHECK_DEADLOCK FALSE`.

For `RequestReader`, a read of twelve symbols takes some requests whole and
cuts every one in every place, also inside the empty line; a request is read in
any number of reads, so any two cuts are seen together. The locations nest three
deep, in two orders, with every field that changes the answer set somewhere; a
body can be as long as allowed and one longer. `CgiPipes` needs two scripts for
one to inherit the other's ends, a pipe of one write and a body of two for the
body to fill it. `FileStore` needs three clients: one to have the file open,
one to remove it, one to create it again; two pieces of content are one that is
there and one still to come, also to a stream that has fetched both; three
descriptors run out on the second listing, and the third ends the process. Every
client makes one request and the connections end: `CHECK_DEADLOCK FALSE`.

*What they show.* `OwnDescriptors`: despite clients that are driven from three
descriptors and pipe numbers that go stale, no handler touches a descriptor of
another client. `Watched` and `SnapshotCurrent`: without scripts, the copy of
the table is exact at every visit and mask and state agree (but for the surplus
body). `StoppedByCulprit`: requests that are served, refused or answered with an error
page cannot end the server together where none does alone. It is not a claim that
the server lives: a CGI request, a request of the `FatalKinds`, a reset and a lack of
numbers do end it, and are excused. `ClosedAfterAnswer`: no static request is closed
unanswered, also not by a timeout. `Delivers`: a static connection is accepted,
answered whole, and closed in the step that completes the answer and in no other.
`OutputComplete`: thanks to the `waitpid` before the read, reading stops at the end of
a script's output and not before, and text shorter than the buffer is in the
response as it was written. Longer output, or output with a NUL, may not be, and a
process that ends on the way loses it. `Served`: a request that has been sent is
answered, whatever others do, scripts up to where the server itself ends. A
request that is *not* finished is answered only if all peers fall silent in the
end (`Silence`): the timeout comes when no descriptor at all reports for 2.5 s, so
that one peer that keeps sending, connecting, or that shuts down its sending side
early keeps all others from their 408. `TokensRight`: the tokens are those a declarative reading of the
file gives, wherever comments and line ends stand. `SyntaxDecides`: the syntax
check accepts exactly the texts of a declarative definition, `WellFormed`, although
it finds the end of a block by counting from the token *after* the one that follows the bracket.
`WellFormed` is not the grammar of `README.md:100-129`, with which the code
disagrees in both directions. The code refuses what that grammar has: a path
without a slash at either end (`ConfigSyntax.cpp:48-58`; the grammar has any WORD), a
block `global`, a line of a server block whose key is `location`. It accepts what
that grammar has not: an empty text, a server block that has only lines or only
locations, and lines after locations. (`validateBlock` asks for `listen`,
`root` and a location later, which is `Sound` in `SettingsFollow`.)
`SettingsFollow`: the second walk never loses its place in an accepted text, and
makes exactly the settings the text states, as long as every key of a location
is known; `misread` shows that this condition is needed. `ReadingEnds`: no text
keeps either walk in a loop. `RequestKept`: what is understood of a request is
what was sent, whichever way it was cut. `RightAnswer`: its answer is the one a
declarative reading of the configuration gives (longest location, first block of
that name, else the first), although limit and completeness are checked in
two places. `NeverWaiting`: no cut leaves a whole request waiting. `BodyGiven`:
a script that sees the end of its input has been given as much as the body is long, and
a body of one write as it was. A longer one it has not: every write starts from
`body.c_str()` (`CGI.cpp:64`), so that the first 256 bytes stand in the place of each
later part. `NoMutualWait` and
`Freed`: the server is kept in `waitpid()` or `write()` only by output that
overflows its pipe, or by an input another script inherited; two scripts that
read their input before they write are no danger to each other unless one is forked while
the other's body is being sent. `EndSeen`: inherited copies of a connection
delay its end, but not for good. `OnlyTimeoutsLeak`: the server closes both ends it
keeps, but for one case: a client that was timed out before its script was waited for is
destroyed with the end its output is read from still open, and its script is
never reaped. `StoreIsRight` and `ReadIsRight`: GETs, DELETEs and one POST at a time are
safe to mix, also with a file removed and created again while it is read, and
with a crash that meets no POST; the histories say `Unknown` exactly when a POST
overlaps. `OnlyListingsLeak`: a directory is left open by every listing, and
nothing else by anything. `Answered`: every request begun comes to its end,
also one that finds no descriptor left, unless the process ends.

*Fairness.* `FairSpec` assumes: the process is scheduled (`WF` on `Visit`);
`poll()` reports in the end what is ready again and again (`SF` on `Poll` with
all filled buffers drained, that is, peers go on reading); it returns when
nothing is ready for 2500 ms (`WF` on `Timeout`); every script ends (`WF` on
`ScriptExits`). The first part of `Served` assumes nothing of peers that send, the second
the silence its premise states: without it TLC finds the half-closed peer that keeps
the loop spinning and another waiting for ever. `SF` rather than `WF` on
`Poll`, because what has room changes from poll to poll. `FairSpec` of `ConfigReader` is
`WF_vars(Next)`: start-up is one thread that never waits. `CgiPipes`: the kernel
schedules the server (`WF` on `Serve`) and each script (`WF` on `Run(c)`).
`Freed` and `EndSeen` assume in addition, in their own statement, that no script
overflows its pipe or holds another's input for good. `FileStore`: every client
whose socket has room is visited in the end (`WF` on `Visit(c)`), which is
what `served` shows of the loop while the process lives.

*Findings.* Five documented expectations do not hold; `PROJECT.json` quotes the
documents.

1. `dropped`: an entry of a closed pipe outlives the pipe, and the `POLLNVAL` it
   draws destroys the client that has just been given its number.
2. `spliced`: a 408 in the middle of a file.
3. `misread`: a location key the server does not know makes it lose the setting
   after it.
4. `misgrouped`: a block is put into the group of another address, and requests
   to that address are served by it.
5. `bodyless`: the request the tests send, with `Content-length`, loses its body.

Outcomes the model also shows, for which no document says otherwise: a reset
connection ends the server (`HTTPServer.cpp:116`); a script that exits before
the next `poll()` ends it too, through the "500 KO" path that can never send its
answer (`HTTPServer.cpp:126`, `Client.cpp:192`); output of a buffer or more ends
it through the second `waitpid`; a script that outlives the timeout ends it once
its pipe reports, and until then leaks a descriptor and a child; a body longer than
256 bytes reaches its script with its beginning repeated (`CGI.cpp:64`); output with a
NUL is cut there, and a read of exactly 1024 bytes is appended without an end
(`CGI.cpp:99`); a peer that half-closes before its request is complete keeps the
loop spinning and all timeouts away (`HTTPRequest.cpp:193`); a malformed header line or
length, a request without a `Host` and a listing of a missing directory end the
server; a target without `.py` on a CGI location is closed without a byte
(`CGI.cpp:212`); a listing leaks a descriptor, and enough of them end the server
(`AutoIndexGenerator.cpp:49`); a block without `client_max_body_size` ends it at
the first request (`HTTPRequest.cpp:55`). The hazards in `PROJECT.json` name these
lines, and say of each what is checked and what is only allowed.

## 4. Proofs

For every value of the constants allowed by the assumptions of `EventLoop`
(`ListenFd \in Fds`, `NoFd \notin Fds`, `Candidates(S)` a subset of `S`,
non-empty when `S` is, natural bounds):

- `EventLoopProofs!Consistency`, `TypeCorrect`, `Ownership`: `[]Consistent`, and
  from it `[]TypeOK` and `[]OwnDescriptors`.
- `EventLoopQuiet!RunsOn`: `[]StoppedByCulprit`, with the culprits named above: CGI
  requests, `FatalKinds`, resets, exhaustion.
- `EventLoopStatic!OrderlyUntilCulprit`: `Orderly` holds until a request of
  `CgiKinds` or `FatalKinds` has been accepted or an accepted peer has reset. Where nobody sends
  such requests or resets (`StaticOnly`, the instance of `static` and any larger
  one), `ClosedWhole`, `WakeUps`, `SnapshotHolds` and `Refinement`:
  `[]ClosedAfterAnswer`, `[]Watched`, `[]SnapshotCurrent` and `Delivers`.
- `EventLoopOutput!OutputWhole`: `[]OutputComplete`, for any mixture of requests.

For every value of the constants of `CgiPipes` (`Server` is no client, a
pipe holds at least one write, programs are sequences of reads and writes):

- `CgiPipesProofs!Agreement`, `PipesTypeCorrect`, `BodiesGiven`, `TimeoutsLeave`,
  `WaitsAreOneSided`: `[]Inv`, and from it `[]TypeOK`, `[]BodyGiven`,
  `[]OnlyTimeoutsLeak` and `[]NoMutualWait`.

And for every value of the constants of `FileStore` (finitely many clients, a
piece is at least one, a stream fetches at least one piece, marks are no clients):

- `FileStoreProofs!FilesTypeCorrect`, `LeaksOnlyListings`, `StoreRight`,
  `ReadsRight`: `[]TypeOK`, `[]OnlyListingsLeak`, `[]StoreIsRight`,
  `[]ReadIsRight`.

And of `ConfigReader` (a file is a sequence of strings, no key or path is a bracket
or a semicolon, `location` is no key of a server block):

- `ConfigReaderProofs!TokensAre`, `SyntaxRight`, `SettingsRight`: `[]TokensRight`,
  `[]SyntaxDecides`, `[]SettingsFollow`, for files of any length.

And of `RequestReader` (a read takes at least one symbol; a number is natural; a
configuration is a non-empty sequence of blocks; what peers mean are requests: no
word of a line holds a line end, a key no colon, there is a `Host` that is more than
a port, and a `Content-Length`, where there is one, is the number of the body's
length):

- `RequestReaderProofs!Types`, `RequestKeptWhole`, `NeverLeftWaiting`: `[]TypeOK`,
  `[]RequestKept`, `[]NeverWaiting`, for requests and buffers of any length and
  every cut. Nothing is assumed of text that means no request.
- `RequestReaderProofs!Answered`: `[]RightAnswer`, if every configuration is
  `InOrder` (each block has an address of an earlier one or a greater one than all
  of those) and every request with a body `Announces` it. The run `requests` meets
  both; `misgrouped` and `bodyless` show what becomes of an answer and of a body
  without them. Neither is an assumption of the module, so the findings and the
  other three theorems do not have them.

*Argument for ownership.* `OwnDescriptors` is not inductive: whether a visit to
a pipe is safe depends on whose the pipe is, on numbers in `activePipes`, on the
listener's number, and on what a free number may still appear in. `Consistent`
adds to the types that (a) every client holds what it thinks it holds, (b) every
socket descriptor belongs to a live client and every pipe descriptor to at most
one role, (c) the listener's number stays the listener's. `InitConsistent` and
`NextConsistent` prove it inductive, with one lemma per branch of
`handleConnection`, proved once for both callers over `ReturnWith`, because the
two callers differ only in what they do with table, pipes and client afterwards.

*Argument for `RunsOn`.* The property is about how the server can end, so it is
strengthened with what keeps every ending out of reach while there is no
culprit: every live client is static and has exactly one entry, no entry is of
anything but the listener or a live client, everything in the copy is still so
and reports no hang-up, and no script runs. `Calm` holds until a culprit
appears, and `Culprit` is never undone.

*Argument for the pipes.* `BodyGiven` says nothing of a body until its end has
been seen, and `OnlyTimeoutsLeak` nothing of a client until it is done. `Inv` says
of every client what holds on the way (`Fits`): every write of its body has been
read, is in the pipe, or is still to be made (`NothingLost`), and all a pipe ever
holds are first parts (`Types`); the server has open the ends the client's state calls
for (`Keeps`) and, after a timeout, the one it forgot (`Left`), so that the input
has a writer, and no end is seen, while some of the body is left (`EndFits`); there
is a script exactly when the state says so (`BodyFits`), which is what tells a
client that timed out in `CGI_Read` from one that never asked. `OneClient` proves once,
for all steps but a timeout, that what concerns one client leaves the others alone;
`TimeoutInv` looks at all of them.

`NoMutualWait` asks that a script the server waits for can go on. `CanRun` says
so by the guards of the script's calls rather than with `ENABLED`, which is out
of the prover's reach. It rests on `Inv`, by which a client that is being served
has a script, and on `ScriptFits`: a script that runs has let go of the end of its own input.

*Argument for static requests.* None of the three invariants is inductive. That a
connection is only closed after its answer needs to know, of every state, what
part of an answer can have been sent (`Stage`); that the state reached is the one
waited for needs the mask set when the state was entered (`Registered`); and
that a report still holds at its visit, that nothing visited before changes the
entry of another client (`StillTrue`). The three together, `Orderly`, are
inductive with `Quiet`, and their step also is a step of `Delivery` or stutters: the
answer's last chunk is sent in the same step that destroys the client.

*Argument for outputs.* `OutputComplete` is about the moment `hasRead` is set.
`Taken` keeps what was true then: the script is reaped, what it wrote is taken,
and the client never gets back to a state of a script, nor to one in which an
error page takes the place of its response. That short text is intact rests on
every read of it being a short one, which takes all of it at once.

*Argument for files.* `Streams` says which records a stream can be in: open only
while its request is under way, on a file that exists, with no more kept than its
buffer takes. With it `OnlyListingsLeak` is inductive as it stands. `StoreIsRight`
only speaks when nobody writes; `StoreKept` says that while one does, the file
and what the stream keeps are together the part of the body given so far
(`Faithful`), so that closing it leaves the body. `ReadIsRight` only speaks of
answered requests; `Gets` says of one under way that what it has got, what its
stream keeps and what it has still to fetch are together what it should get
(`Coming`), and that nobody writes that file. The lemmas `ReadPieceEffect` and
`WritePieceEffect` prove once, for both, what a visit does to a stream.

*Argument for the syntax check.* `WellFormed` is said of a whole text, by depth
and line of each token; the code walks it with three loops and looks up the end
of a block before it enters it. `Walk` says of each loop that the iterator begins a
line, that every token before it is well placed, that its depth is the loop's,
and that the end looked up is where that depth is left (`Closing`). So the walk
accepts nothing ill-formed (`LineAccepted`, `Entered`), and where it refuses a
line, some token of the text is ill placed (`LineRefused`, `Refusal`). The first
token of a block needs care: `findBlockEnd` does not count it, so that the end it
finds may be wrong if that token is a bracket; `Surrounded` allows this, as
such a text is refused on the next turn and is indeed not well-formed.

*Argument for the constructors.* `SettingsFollow` speaks of the end. `Construction`
says of each loop of the second walk that it begins a line, at that loop's depth,
and that `applied` is `Before(it)`: the settings the text states by values before
the iterator (`Followed`). To get from there to the next line needs that a setting
is made to the block one is inside of, so that `block` and `owner` are the tokens
before the innermost open brackets (`Inside`, `OwnerIs`), and that what
`validateBlock` looks for in the settings made is what the text states of that
block (`Furnished`, `BlockValid`). An unknown key of a location breaks the first
part, which is why `KnownKeys` is a premise, and the walk then stays off the lines.

*Argument for the tokens.* `Tokens` reads the whole file at once, `tokenizeStream`
in turns, each of which may end in the middle of a line. `Listed` is the
invariant: the token list `Lists` the tokens that begin behind the stream, one
for each place, in their order, and the stream is `Fresh`, so that neither a comment
nor a word goes on where the next turn starts. Between two blanks the only comment
begins at the number sign (`ChunkSpells`), the marks and words of what is kept are
those of the file (`ChunkBegins`), `splitString` lists them (`SplitLists`), the
two lists join (`ListsJoin`), and in what is skipped no token begins
(`CommentSkipped`). A list of that kind is unique (`ListsOnly`), so at the end it
is `Tokens`.

*Argument for requests.* `Kept` bounds what is kept by what was read, and gives
`TypeOK`. `RequestKept` says nothing before a request is whole; `Understands` does:
until the header is in, `http` is all that was read and nothing is understood
(`Waiting`); afterwards method, target and headers are those meant, the length is
the one announced, and the body is what was read behind the header (`Knowing`). Its
core is that whether the header is in depends on how much was read and on
nothing else: no beginning of a header but the whole one ends in an empty line,
although values may be empty and a read may end between CR and LF (`HeaderCut`), and that what
`ReadHeader` finds in a text that holds it whole is what was rendered (`Parsed`).
`NeverWaiting` follows, as a request that still waits has more to come.

*Argument for answers.* Three reference definitions are met by loops of the code. The
groups that `sortServerSettings` makes of the blocks so far are `Ordered` by
address, and each `Serves` its address: its first block is the first there, and its
first of a name the first of that name; the code relies on the order without
checking it, hence `InOrder`. `resolveLocation` has found the longest and
first location among those it went through (`FoundSoFar`). `Decided` ties both to
the request: what is still open has the block, limit and location of the reference,
and has passed every check that could have given it another answer, so that the
last one gives the right one.

Depth, lines, tokens and header lines are counts, folds and functions over the length of a
text. What is said of them is proved by induction without a predicate as
parameter: the set of numbers for which it fails would have a least one
(`LeastNumber`, from the well-foundedness of `<`). That there is a function which
calls itself as `Split` does is proved in the same way (`SplitExists`).

*TLC only.* Liveness, which is stated with fairness: `Served`, `Freed`, `EndSeen`,
`ReadingEnds`, and `Answered` of `FileStore`. Fairness and `ENABLED` are out of the
prover's reach. Every invariant of a passing run, and the refinement of `Delivery`,
is proved. The five findings are counterexamples, which a run shows and no proof
could.

## 5. Not modelled, and why

Byte contents and the log: no property here tells them apart. Error pages but for
the states they pass through. The script's environment. `POLLPRI` and a failing
`poll()`: no descriptor of the server causes them. The set-up of listening
sockets, which runs once before the loop. Errors of the disk, and two directories
whose escaped names in `/tmp` are the same. `HTTPStatus`, `Logger`: formatting. Of
the configuration: how `listen` and `client_max_body_size` are checked and converted,
and the identifier `global` of the grammar in the repository's README, which the
code does not have. Of a body longer than a buffer, and of output with a NUL, the bytes
that arrive: the models say which part is sent and whether the text is intact.

## 6. Plan

What is left is outside the models rather than unproved in them: the error pages and
the environment of scripts as data, the checks of `listen` and
`client_max_body_size`, and the set-up of the listening sockets. Of the proofs, an
answer that needs no `InOrder` would need a `sortServerSettings` that looks up
its group by address; `misgrouped` should then pass, and `Answered` lose its first
hypothesis.
