# ExpressWeb in TLA+

ExpressWeb is a small HTTP server library in C++ on Boost.Asio and Boost.Beast. Its own code is `src/`
(about a thousand lines: `Http.cpp`, `Server.cpp`, `fields_alloc.h`, `Algorithm.cpp`, `Util.cpp`), a header
joining tool in `contrib/OneHeader`, and examples. This directory holds TLA+ models of it, TLC
configurations that check them on small instances, and proofs that TLAPS checks for every value of
the constants. `PROJECT.json` maps every definition to the lines it models and names a mutant of the
code for every property.

Paths such as `Http.cpp:22` are in the repository's `src/` directory, unless another directory is given.

## Inventory

| component | state | operations | how it interacts | status |
|---|---|---|---|---|
| **Http::Worker** (`Http.cpp`, `Http.h`) | socket, read buffer, parser, two optional responses with serializers, deadline timer, field allocator, write callback | `start`, `accept`, `read_request`, `process_request`, `send_bad_response`, `send_file`, `check_deadline` | started by `Server::start`; all workers share one acceptor and one io_context, which runs their completion handlers one at a time | modelled |
| **fields_alloc / static_pool** (`fields_alloc.h`) | pool pointer, block count, reference count | construct, copy, destroy, allocate, deallocate | every message of a worker holds a copy of the worker's allocator | modelled |
| **Server** (`Server.cpp`, `Server.h`) | options, each a `boost::optional`; callbacks | setters, `start()`, `start(cb)` | makes the acceptor, the io_context and the workers, then blocks in `run()` or spins in `poll()` | modelled |
| **Algorithm** (`Algorithm.cpp`) | none | `stripslashes`, `stripslashesC` | used by the request forwarding example | modelled |
| **Util** (`Util.cpp`), target rules of `send_file` | none | `mime_type`, the choice of the file | called by `send_file` | modelled |
| **OneHeader** (`contrib/OneHeader/src`) | stream buffer, list of includes, output | collect the includes, copy the files, chunk by chunk | build tool | modelled |
| **WebSocket session** (`example/beastWebSocketClientAsync`) | stream, buffer, request, its own lifetime | resolve, connect, handshake, write, read, close as a chain of handlers | client of a WebSocket server | modelled |
| **WebSocket client** (`example/beastWebSocketClient`) | the same on the stack of `main` | the same as blocking calls | client of a WebSocket server | modelled |
| **HTTP client** (`example/beastHTTPClient`) | socket, request, response | resolve, connect, write, read, shutdown | client of the workers | modelled, composed with them |
| **Request forwarding** (`example/beastHTTPServerRequestForward`) | one request, one worker without a socket | parse JSON, fill the request, `process_request` | a PHP page runs it; the worker's write callback prints the response | modelled |
| **Configured server** (`example/beastHTTPServer`) | options from a JSON file, `App` (an earlier Server) | get, check, set, `start` | starts workers | not modelled: earlier copies of Server and Worker |
| `ServerCreate`, `ServerRoute` | none | three calls of Server each | | not modelled |
| vendored libraries, build files | | | | not modelled; Asio and Beast appear as environment |

### What is hard here

* **One thread, many interleavings.** Handlers do not run at the same time, but an operation that has
  completed waits in the io_context until its handler runs. Between the two, another handler may close
  the socket (the deadline), the timer may be given a new expiry, or time may pass. The comment "The
  deadline may have moved, so check it has really passed" (`Http.cpp:213`) is about one such order.
* **A ring of handlers.** `accept -> read_request -> process_request -> send_* -> accept` never ends; a
  path that starts no operation loses a worker, one that starts two makes it serve two clients with one buffer.
* **State kept between clients.** The read buffer, the parser, the responses, the timer and the pool belong to
  the worker, not to the connection.
* **Object lifetime under cancellation.** The message being written is a member; closing the socket under the
  write only queues its handler.
* **A pool that only resets when empty.** A single message kept too long lets the pool fill over many requests.
* **Input in pieces.** A chunk of a file may end in the middle of a directive, a request may arrive in parts, a frame of
  a WebSocket peer may come before it is asked for.
* **Peers that stop.** The clients have no time-outs of their own; what ends them is the other side's deadline, or its closing.
* **Views of strings.** Options are kept as `string_view`s; who owns the text, and how long, is nowhere written down.
* **Start-up that fails half way.** `start()` fills in defaults before the acceptor may throw; the object
  can be used again.

The full list, line by line, is under `hazards` in `PROJECT.json`.

## Modules

### HttpWorker, and RequestLifecycle above it

`HttpWorker` models all workers of a server. Each completion handler is one action that does everything
the handler does, with the calls it makes: `OnAccepted` is the success branch of the handler in `accept()`,
with `expires_after` and the whole of `read_request()`; `OnReadError`, `OnWritten` and `OnAcceptError` end with the
whole of `accept()`; `OnRequest` is `process_request`, `send_file` and `send_bad_response`; `OnTimer` is
`check_deadline` with its `async_wait`. The functions called by several handlers are operators (`Accept`,
`GiveDeadline`, `Respond`, ...) that give the next values of the variables those functions assign.

| variable | code |
|---|---|
| `sock`, `buffer`, `parser`, `message` | `socket_`, the origin of the bytes in `buffer_`, the request in `parser_`, the engaged optionals |
| `expiry` | ticks until `request_deadline_` expires, `Never` for `time_point::max()` |
| `ops`, `waits` | Asio's outstanding operations and timer waits, each with its state: pending, or completed and waiting for its handler |
| `backlog` | the listening socket's queue |
| `started` | workers whose `start()` was called; handlers run when all are started, as `run()` is called after the loop |
| `age` | history: ticks since the connection was accepted |

The environment is in actions of its own: connections arrive (`Connect`), accepts succeed or fail, with or without
consuming a connection, reads make progress, complete with or without further bytes left in the buffer (a
pipelined request), or fail, writes end well or not, timers fire, time passes. What a request asks is
abstracted to what `process_request` and `send_file` tell apart. A request records which connections its bytes came
from: that is all a property needs of its content.

Asio's rules that the model relies on: closing a socket completes its pending operations with an error, but an
operation that has completed keeps its result; a new expiry aborts the waits that have not fired yet, but a fired one keeps
its handler; an operation started on a closed socket fails. The connection that an accept delivers is put into the
socket when its handler is run.

`RequestLifecycle` is the promise without sockets, handlers and timers: a worker takes a client nobody serves,
receives one request, answers once, and lets go; early only if its time is up. `ImplementsLifecycle` is its
specification under the refinement mapping `client <- sock`, with `phase` read off the worker's one operation.

### StaticPool, FieldsAlloc, RegionAllocator

`StaticPool` has the pool as a record and its member functions as operators, so that two modules can use them.
`Destroy` and `HasRoom` are written as the code has them: `if (refs_--) return` lets the last reference go without freeing,
and `last >= end()` refuses an exact fit. `FieldsAlloc` adds the allocator objects and the blocks in use.
`RegionAllocator` is the promise to its users: a block in use overlaps no other and lies in the region, and a region
with nothing in it refuses only a request that is not smaller than the whole.

### WorkerMemory

What each step of a worker does to the pool, over any sequence of requests: `emplace` destroys the old message and its
fields before it makes the new one, `reset` frees, `set` allocates, and `bad_alloc` leaves `run()`. With a write
callback there is one more way out of `send_file` (`BodyThrows`): a directory can be opened, and `reserve` of its size,
or reading it, throws (`Http.cpp:167-170`) when the response has the fields that come before the body (`BeforeBody` of
them). It stays engaged with these, the callback is not called, and the owner of the worker, which gets the exception,
may call again; with a socket the exception ends `Server::start`. `OneDelivery` therefore says two things: a request that
ends in an exception delivers nothing, and any other delivers one response, once, with all its fields. A callback that
itself throws is left out. The three set-ups are a socket (`Server::start`), a write callback alone (the forwarding example) and both. For a worker with both, the
properties are not claimed: the response given to the callback stays engaged while the socket's is written, so the pool
does not empty between requests, and a file that disappears between the two opens is delivered to the callback twice. No
program in the repository makes one.

### Server

Every setter and both `start()` overloads, with the ways out of them: the acceptor throws, `run()` returns because there
is no worker, a handler throws. The options keep what they were given, or the defaults that `start` filled in,
and the program may set some and start again. `asked` is what the program last asked for. `onClose` stands for
`onConnection` and `onRequest` too: the three are stored and passed on alike.

### HttpExchange

Extends HttpWorker with the other end of its connections: each client is a run of `example/beastHTTPClient`, a sequence
of blocking calls without a time-out, any of which may throw. `request` and `reply` say how much of each message the
network has taken. The steps of the workers are HttpWorker's own; its reads are restricted to bytes that the client has
sent (`RequestArrives`), its writes fill `reply` (`ReplyLeaves`). A connection is named by its client, which runs again
only when it has ended.

### WebSocketExchange, WebSocketLink, WebSocketSession, WebSocketClient

`WebSocketExchange` is what both clients promise: one message out, the peer's first message in, printed only when the
connection was closed gracefully, or a failure that prints nothing. `WebSocketLink` is their common environment: the
frames the peer has sent wait in order; the peer may refuse the handshake, speak before it is asked, close, cut the
connection with or without loss of what was not read, or do nothing for ever.

`WebSocketSession` is the asynchronous client. `ops` are the operations outstanding; each handler (`OnResolve` ...
`OnClose`, and `OnError` for their common first lines) consumes one and starts the next. An operation says whether the
handler bound to it holds a `shared_ptr`; the object is `alive` while one does. `WebSocketClient` is the blocking one:
`pc` is the call `main` is in, and an exception from any of them goes to the same `catch`. `WebSocketClients` runs one
of the two against the same peer; both refine the exchange with `answer <- buffer` and the outcome read off what has
been printed and where `main` is.

### OneHeader

`main` of the tool, the loop of `scanStream`, and the two callbacks. `Scan` is the loop over the buffer that both
callbacks have: it returns the names it found, the text between directives, and what stays in the buffer. What the code
erases is a place in the buffer that moves on. `Collect` and `Copy` are one round of `scanStream` each, with the
callback it calls. The references (`Stripped`, `NamesIn`, `Joined`) look at the whole text character by character and
know nothing of chunks. The token is a constant: all that matters of `#include "` is that it ends in a quote, and of the
twenty characters that are kept that they are at least all of it but one.

### Algorithm, Target, ForwardRequest, and RequestPath above them

`Algorithm` is a round of the loops of `stripslashes` and `stripslashesC` at a time, with the memory they may touch; the
reference decides by the parity of the backslashes before a character. `Target` is the beginning of `send_file`, and
`mime_type`; its properties follow the path as the file system does, segment by segment. `ForwardRequest` is the `main`
of the forwarding example, from the argument to the exit status, with the members of the JSON object as the input. The
request's pool is the one of StaticPool, of which only the sum matters here, as nothing is given back while the request
lives.

`RequestPath` puts them together: `caller` says whether the text is a `REQUEST_URI` of the forwarding program, which
strips it (`Strips`), makes it the target (`TargetIsSet`), fills the request and serves it (`ProcessRequest`); or a
target that arrived at a socket (`ServesSocket`); or a text that some program gives to one of the functions. `target`,
`str` and `answer` are shared by the parts.

What the code does here, without a text in the repository to hold it against:

* `stripslashesC` stops one before the end: it loses the last character of a text that does not end in an escape, and leaves its memory on an empty one.
* An escape that is not in the switch loses both its characters, so `.\x.` becomes `..`; the test for `..` comes after that, and holds.
* A lone backslash at the end takes the NUL behind the text for its own. In a target this NUL ends the name that `c_str()` gives to the system: `/\`
  opens the directory instead of its index file, and `/a.html\` is sent as `application/text`. `IsBelowRoot` and `IsTypeOfFile` leave such targets out of their last claims.
* The document root of the forwarding program is a `string_view` of the `std::string` that `erase_all_copy` returns (`main.cpp:692-693`), which is destroyed at the end of
  the statement, before the worker reads the view. The model leaves open what the root is then.

## Runs

| run | instance | shows |
|---|---|---|
| `worker_safety` | 2 workers, 2 clients, 2 ticks; symmetric | all safety properties of the workers, the refinement of RequestLifecycle |
| `worker_liveness` | 1 worker, 2 clients, 2 ticks; no symmetry | every connection ends, every queued client is accepted |
| `fields_alloc` | pool of 8, blocks of 1-3, up to 3 allocator objects | the pool's invariants and the refinement of RegionAllocator |
| `worker_memory` | pool of 10, request fields of 1-3, three response fields of which two come before the body, all set-ups | no carry-over between requests; one whole response per request, none for one that ends in an exception |
| `server_options` | 3 ports (0, ordinary, too large), 2 addresses, worker numbers 0 and negative | the server runs with what was asked for last |
| `server_localhost` | the same | **violated**: the default host `localhost` becomes 0.0.0.0 |
| `server_callback` | the same, with fairness | **violated**: the callback of `start(cb)` is never called |
| `http_exchange` | 1 worker, 2 clients, 2 ticks | nobody is answered before he has asked; every client returns |
| `websocket_clients` | both clients, all configurations, a peer with 2 messages | one chain of handlers, the object alive under it; both refine WebSocketExchange, print only after a graceful closing, and return once the peer closes or cuts |
| `websocket_found` | the same, the asynchronous client alone | **violated**: "Found the required information", and then an assertion fails for want of a scheme |
| `one_header` | all inputs and all included files up to 6 characters of 4, chunks of 1, 2, 3 and 5 | the result is that of a scan of the whole text; no directive is lost at the end of a chunk |
| `request_path` | texts and targets up to 6 characters, URIs up to 5, objects with up to 3 members, a pool of 6 | the functions against their reference and the memory they touch; the file is below the root and has its own type; a complete request is answered, once, and the exit status says so |

**Bounds.** Two workers compete for one backlog and two clients are enough for a leftover of one to meet the other, in
the buffer, the parser or the timer; a worker has one operation and one wait, so more workers only add independent
copies. Two ticks distinguish "given a deadline", "some time left" and "passed". Eight units with blocks of up
to three let the pool fill exactly, overflow, and be given back in every order. Ten units hold a request,
a response, and not always both. `UIntValues = 8` stands for 2^32 so that a negative number of workers stays a small number
of workers; `WorkersAsAsked` claims nothing for such a number, which the cast makes a large one. `MaxOwners` bounds the allocator objects. Clients connect again and again; nothing else is bounded. Two messages of a WebSocket peer are one more
than is read. In `one_header` the token has three characters for the code's ten and two are kept for its twenty: the least for which no directive is lost: one less loses one; six characters hold a directive with its name and something on either side. Six characters of a target
hold `/../`, a query with a slash, a directory with a dot; six of a text hold every run of backslashes before and behind a character. A pool of six is filled exactly by three members of two units.

**Deadlock** is checked where the system must go on (the workers). `fields_alloc` and `worker_memory` may stop: all
objects are destroyed, or `bad_alloc` ends the program. The clients, the tools and the functions end; a WebSocket client also
waits for ever for a peer that says nothing, as the code does. `http_exchange` goes on and is checked. In `server_options` a server that polls
without a worker spins for ever without a change of state.

**Symmetry** is used only in `worker_safety`: workers and clients are only compared for equality, and its properties are
invariants, an action property and a safety refinement.

**Fairness** (`FairSpec` of HttpWorker): `ioc.run()` runs every queued handler, the clock goes on, an
expired timer fires: weak fairness, per worker. Strong fairness for accepting: an `accept` that fails is tried again
at once (`Http.cpp:34`), and a queue that is never emptied although tried infinitely often would be a failure of the
kernel, not of the server. Nothing is assumed of a connected client: it may send nothing and read nothing for
ever, and then it is the deadline that ends its connection. HttpExchange adds that a client goes on when its call can end; the network owes nobody a request or a reply.
The WebSocket modules assume that `main`, the handlers and the operations that can end go on, and nothing of the peer: a peer that is silent for ever
holds the client for ever, and their liveness properties begin where it closes or cuts the connection. `FairSpec` of Server says only that `start()` goes on
while it has something to do.

## Proofs

`HttpProofs` proves, for any set of workers and clients and any time-out, the type invariant, `OneChain`,
`AnswersItsOwnClient`, `MessageLivesWithItsWrite`, `DeadlineIsItsOwn` and the action property `NoEarlyClose`. None of
them is inductive alone: that a worker has one operation says nothing about what the operation's handler will find.
`IInv` therefore says for every worker that it has not been started and is idle, or has exactly one operation and one
wait and the operation *fits* (`Fits`): an accept finds the socket closed, the buffer empty and no response; a read
finds only bytes of its own connection and no response; a write finds exactly its own message and serializer and a
request parsed from its own connection. The deadline may have closed the socket in each of these states, so `Fits`
allows it everywhere; that is why the write's connection is kept in the operation. There is one lemma per action; the
actions of one worker leave the others unchanged (`OneWorkerStep`), and `Tick` touches only time.

It proves further that the workers implement RequestLifecycle. What `IInv` does not say is that a connection is in one
place only (`InOnePlace`): queued once, or held by one accept whose handler has not run, or open on one socket. Without
it two workers could be given the same client. `PhaseStep` says what a step of one worker does to the mapped phases;
there is one lemma for each handler, which maps it to one step of the lifecycle or to a stutter. That an end before the
answer comes from the connection's own deadline is `DeadlineIsItsOwn`, part of `IInv`.

And `AnsweredAfterAsking` of the workers together with their clients. The steps of the composition are steps of the
workers (`StepIsWorkers`), so `LInv` is at hand; `Serves` adds what an operation tells of the client it serves: no reply
before the write, and a whole request behind a read that has succeeded. A write changes the reply of one connection, and
as a connection is in one place only, no other worker's operation depends on it (`ReplyServes`).

`FieldsAllocProofs` proves, for any pool size, block sizes and number of objects, that the counter equals the number of
blocks, that the memory outlives the objects, and that the allocator refines RegionAllocator. The invariant adds that
blocks lie below the pointer (`BelowPointer`) and are pairwise disjoint. That the pointer is reset exactly when nothing
is in use comes from the exact counter and the cardinality of a set from which one element is taken.

`Induction` is what the other proofs have for induction: a set of naturals that is not empty has a least element (the
library's `WFMin`, which takes a set and no operator), so a *set* that has 0 and is closed under successor has all of
them. From it come the existence of a function given by a rule for its next value (`Recursion`), and with that the
recursive functions of the models have the values their definitions say: sums of sequences (`Total` in `Sums`: the empty
one, one more number, a prefix), the fields that are given back one after the other, what is kept of a text.

`WorkerMemoryProofs` proves the properties of WorkerMemory for any pool, any sizes and numbers of fields and any
set-ups: `BooksBalance`, `NoCarryOver`, `OneDelivery`, `OwnFieldsAlone`. `Balanced` is about the books of one memory,
and every operation of a message keeps it (`ResetBalanced`, `EmplaceBalanced`, `InsertBalanced`, `BeginBalanced`): the
count is that of the fields, a message that is not engaged has none, and an empty pool begins at its start. `Exact` is
stronger, the pointer is the *sum* of the fields there are: it holds only when no message was replaced or reset while
another lived, and `Fits` says in which phases of which set-up that is so. A response that finds no room has been filled
up to some field of its own (`NoRoomForResponse`), and by `Exact` what was before it is the request's.

`RequestPathProofs` has the proofs about Algorithm and about RequestPath above it. Of `Algorithm` it proves, for texts
of any length, where the index and the answer of the two functions stay (`TypeOK`) and that the empty text in
`stripslashesC` is the only one for which memory of others is touched (`InBounds`). The invariant adds that the answer
of `stripslashesC` stays shorter than its text (`AnswerFits`), which leaves room for the NUL: a round writes at most one
character and reads at least one, and the loop ends one before the last. It proves what `stripslashes` keeps
(`StripsByParity`). `Stripping` says after each round that the answer is what the reference keeps of the text so far and
that the next character is not escaped; the second half is what makes it inductive. The reference counts backslashes
back from a character, the code never looks back: `OneRun` says that there is one number of them, and `EscapedStep` that
a character is escaped just when a backslash stands before it that is not.

It proves further the properties of RequestPath for any texts, targets, arguments, pool and table. A text is stripped by
steps of Algorithm and touched by nothing else (`StripsAsAlgorithm`), which carries over its properties. `PInv` says
where `main` of the forwarding program is (`MainState`): between two members the pool has taken what the members so far
take (`UsedSoFar`) and the names set are theirs (`SetSoFar`), so when it ends for want of room the sum of all of them
does not fit, and when it ends for want of a root there is no such member: `AnsweredOnceIfComplete`. Which file is
served is a fact about texts: what is served is a path (`IsPath`: it begins with a slash and has no two dots in a row),
the query and an index file keep it one (`BaseIsPath`, `OpenedIsPath`), and the walk along a path, whose segments are
never `..`, goes down by one with each segment (`NeverUp`); that gives `StaysBelowRoot`. For `TypeIsTheFiles`,
`KnownSuffix` says that an extension of the table, which has no dot or slash in it, is found behind the last dot just
when the file's own name ends in it.

`OneHeaderProofs` proves the four properties of OneHeader for any texts, any files and any sizes of chunks: however the
chunks cut the files, the result is that of a scan of each whole file. A scan goes on from place to place, sometimes
over a whole directive, so its induction goes down from the end (`DownwardInduction`, and `JumpRecursion` for the
existence of such functions, in `Induction`). What is found from a place on is what the text's end alone has (`Shifts`),
and where no directive begins the characters are plain (`Skips`). The heart of it is `StopFacts`: where the loop over
the buffer ends, no directive begins before what is kept, *whatever follows*, because what is kept is long enough for a
token that has only begun (`KeepAssumption`), and in a directive that has no end yet no other can begin whose end is
there, because the token ends in a quote (`TokenAssumption`). So a scan of the buffer, and a later one of what it keeps
with what follows, find what a scan of both together finds (`ScanSplits`), and at the end of a file what is kept is
plain (`KeptIsPlain`). The invariant says at each stage that what has been found or written, with what is found in the
rest (`Unread`), is the whole (`Progress`); `NoNameLost` and `NoTextLost` alone would not know that the list is complete
when the copying begins, nor that the buffer is empty between two files.

`ServerProofs` proves, for any ports, addresses, numbers of workers, roots and callbacks, the three invariants of
Server. The options are what was last asked for, or nothing, or the default of an earlier start (`OptionsAsAsked`); a
server is either down, without acceptor and workers, or its acceptor and workers are made from complete options, which
do not change while it is up (`Up`). That a port in range survives its conversion is `UShortFacts`.

`WebSocketClientsProofs` proves `AliveWhileUsed` and `InStep` of the asynchronous client, for any number of messages of
its peer: there is at most one operation, its handler owns the session, and it fits how far the exchange has come
(`OneOperation`, `Fits`). It adds the blocking client and proves that both implement WebSocketExchange and print only
after a graceful closing. What makes the answer the peer's *first* message is `InboxFits`: as long as none was taken,
the first message that waits is number 1, and when none waits none was said. `AsyncFits` and `SyncFits` say the rest, by
operation and by call; a call that ends and an operation that completes do the same to the link, so both clients use the
same facts about it (`EndsFacts`).

The proofs use only the named assumptions on the constants (`WorkerAssumption`, `PoolAssumption`, `SizesAssumption`,
`OwnersAssumption`, `ModesAssumption`, `FieldsAssumption`, `BodyAssumption`, `TextsAssumption`, `SizeAssumption`, `TargetsAssumption`,
`ArgumentsAssumption`, `EmptyTextAssumption`, `IndexAssumption`, `TableAssumption`, `LowerAssumption`,
`ServerAssumption`, `MessagesAssumption`, `TokenAssumption`, `KeepAssumption`, `ChunksAssumption`, `WorldsAssumption`,
`OutputAssumption`).

Model-checked only: the liveness properties, which are beyond the prover; and the three properties that do not hold, of
which TLC shows a counterexample.

## Not modelled, and why

The content of requests and responses beyond what the handlers test; the text of headers, messages and errors; Beast's
parser (it appears as an action that stores fields or fails); rapidjson (it appears as what it finds in a document);
errors of closing a socket; a write callback that throws; in OneHeader, files of nearly 4 GiB and more, whose size and
place do not fit 32 bits, and directories in the place of files, which open and have a size that is the file system's to
say (often -1, and then the loop of `scanStream` does not end, `OneHeader.h:52-65`); the lifetime of strings that the options of a Server view, beyond what is said of the
forwarding program above; destruction of a Server while it runs (it cannot happen: `start` blocks).
`example/beastHTTPServer`, whose Worker and App are earlier copies of `Http.cpp` and `Server.cpp`; what is left of it
reads options from a file and checks that all are there. The PHP page that runs the forwarding example runs a program
and prints what it printed. `ServerCreate` and `ServerRoute` are three calls each, and `ServerRoute` calls a member
function that Server does not have. The Worker of the forwarding example is an earlier copy too.

Nearly all of the repository's text is vendored: the headers of OpenSSL and RapidJSON (also once more as one file),
http-parser, Crow, bustache. The repository's own code, about 3400 lines with the examples and OneHeader, is modelled;
the share of the whole tree that the map covers stays small because of that, and modelling other projects' parsers would
say nothing of this one.

## Plan

The components are modelled, and every property of the passing runs that is not a liveness property is proved. What is
left would be to follow the code when it changes.
