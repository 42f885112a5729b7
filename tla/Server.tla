-------------------------------- MODULE Server --------------------------------
(***************************************************************************)
(* ExpressWeb::Server of src/src/Server.cpp: the options a program sets in *)
(* any order and any number of times, and start(), which completes them    *)
(* with defaults, opens the acceptor, makes the workers and runs the       *)
(* io_context. A start that throws or returns leaves the options as it     *)
(* found or made them, and the program may set some and start again. What  *)
(* the workers do is HttpWorker. onConnection and onRequest are handled    *)
(* like onClose, and onClose stands for the three of them.                 *)
(***************************************************************************)
EXTENDS Integers, Sequences

CONSTANTS
    Ports,          \* the numbers a program may pass to setPort
    Addresses,      \* the texts it may pass to setAddress
    Numerals,       \* those of them that make_address accepts
    WorkerNums,     \* the numbers it may pass to setWorkerNum
    UIntValues,     \* how many values an unsigned int has (2^32; less in TLC)
    Roots,          \* the paths it may pass to setDocumentRoot
    Handlers,       \* the callbacks it may register
    Unset,          \* an empty boost::optional
    Any,            \* 0.0.0.0, the value of a default-constructed address
    Empty           \* an empty std::function

ASSUME ServerAssumption ==
    /\ Ports \subseteq Int /\ WorkerNums \subseteq Int
    /\ UIntValues \in Nat /\ UIntValues > 4
    /\ Numerals \subseteq Addresses /\ "localhost" \in Addresses \ Numerals
    /\ Unset \notin Addresses \cup Roots \cup Handlers \cup {Any, Empty, "/"}
    /\ Unset \notin Int

VARIABLES
    options,    \* the optionals of the Server object
    running,    \* no start() is running, or how far it has come
    endpoint,   \* where the acceptor listens, or Unset for no acceptor
    workers,    \* what each worker of the list was given
    asked,      \* history: what was last passed to the setters
    startCalls  \* history: calls of the callback given to start()

vars == <<options, running, endpoint, workers, asked, startCalls>>

UShort == 0 .. 65535
UInt == 0 .. UIntValues - 1

Options == [port : UShort \cup {Unset},
            address : Numerals \cup {Any, Unset},
            poll : BOOLEAN \cup {Unset},
            workerNum : UInt \cup {Unset},
            documentRoot : Roots \cup {"/", Unset},
            staticServe : BOOLEAN,
            onClientError : Handlers \cup {Empty, Unset},
            onClose : Handlers \cup {Unset}]

WorkerOptions == [documentRoot : Roots \cup {"/", Unset},
                  onClientError : Handlers \cup {Empty, Unset},
                  onClose : Handlers \cup {Unset}]

TypeOK ==
    /\ options \in Options
    /\ running \in {"no", "making", "run", "poll"}
    /\ endpoint = Unset \/ endpoint \in [port : UShort, address : Numerals \cup {Any}]
    /\ workers \in Seq(WorkerOptions)
    /\ asked \in [port : Ports \cup {Unset}, address : Addresses \cup {Unset},
                  workerNum : WorkerNums \cup {Unset}, documentRoot : Roots \cup {Unset}]
    /\ startCalls \in Nat

-----------------------------------------------------------------------------
(* The setters: called before start(), and after one that threw or returned. *)

\* Slip: an option that has a value, a default of an earlier start say, keeps it.
SetOnce(name, value) ==
    /\ running = "no"
    /\ options' = [options EXCEPT ![name] = IF @ = Unset THEN value ELSE @]
    /\ UNCHANGED <<running, endpoint, workers, startCalls>>

Set(name, value) ==
    /\ running = "no"
    /\ options' = [options EXCEPT ![name] = value]
    /\ UNCHANGED <<running, endpoint, workers, startCalls>>

Ask(name, value) == asked' = [asked EXCEPT ![name] = value]

\* Slip: the cast is left out.
NoCast(n) == n

\* static_cast<unsigned short>(port)
ToUShort(n) == n % 65536

\* static_cast<unsigned int>(workerNum)
ToUInt(n) == n % UIntValues

\* make_address(address, ec) with the error code thrown away.
MakeAddress(text) == IF text \in Numerals THEN text ELSE Any

SetPort(n) == Set("port", ToUShort(n)) /\ Ask("port", n)
SetAddress(text) == Set("address", MakeAddress(text)) /\ Ask("address", text)
SetPoll(b) == Set("poll", b) /\ UNCHANGED asked
SetWorkerNum(n) == Set("workerNum", ToUInt(n)) /\ Ask("workerNum", n)
SetDocumentRoot(path) == Set("documentRoot", path) /\ Ask("documentRoot", path)
SetStaticServe(b) == Set("staticServe", b) /\ UNCHANGED asked
OnClientError(h) == Set("onClientError", h) /\ UNCHANGED asked
OnClose(h) == Set("onClose", h) /\ UNCHANGED asked

-----------------------------------------------------------------------------
(* start().                                                                *)

\* "if (!option_) setOption(default)"
Default(value, default) == IF value = Unset THEN default ELSE value

\* start(cb), or start() with an empty function: cb replaces the handler of
\* client errors, and the options get their defaults, before the acceptor is
\* opened, which may throw.
Start(cb) ==
    /\ running = "no"
    /\ options' = [options EXCEPT
                     !.onClientError = cb,
                     !.port = Default(@, ToUShort(80)),
                     !.address = Default(@, MakeAddress("localhost")),
                     !.poll = Default(@, FALSE),
                     !.workerNum = Default(@, ToUInt(4)),
                     !.documentRoot = Default(@, "/")]
    /\ \/ /\ endpoint' = [port |-> options'.port, address |-> options'.address]
          /\ running' = "making"
       \/ UNCHANGED <<endpoint, running>>
    /\ UNCHANGED <<workers, asked, startCalls>>

\* Slip: one round too many.
OneMoreWorker == Len(workers) <= options.workerNum

\* "i < n"
MoreWorkers == Len(workers) < options.workerNum

\* One round of the loop that makes and starts the workers: a worker gets the
\* document root only "if (staticServe_ && documentRoot_)".
MakeWorker ==
    /\ running = "making" /\ MoreWorkers
    /\ workers' = Append(workers,
         [documentRoot |-> IF options.staticServe THEN options.documentRoot ELSE Unset,
          onClientError |-> options.onClientError,
          onClose |-> options.onClose])
    /\ UNCHANGED <<options, running, endpoint, asked, startCalls>>

\* The workers are made: poll for ever, or run until there is nothing to do.
Run ==
    /\ running = "making" /\ ~MoreWorkers
    /\ running' = IF options.poll THEN "poll" ELSE "run"
    /\ UNCHANGED <<options, endpoint, workers, asked, startCalls>>

\* run() returns when no operation is outstanding: at once when there is no
\* worker, otherwise never, for a worker always has one (OneChain of
\* HttpWorker). It throws what a handler throws (std::bad_alloc, WorkerMemory).
\* Either way the acceptor and the workers go.
Leave ==
    /\ running \in {"run", "poll"}
    /\ running = "poll" => workers # <<>>
    /\ running' = "no" /\ endpoint' = Unset /\ workers' = <<>>
    /\ UNCHANGED <<options, asked, startCalls>>

Init ==
    /\ options = [port |-> Unset, address |-> Unset, poll |-> Unset,
                  workerNum |-> Unset, documentRoot |-> Unset, staticServe |-> FALSE,
                  onClientError |-> Unset, onClose |-> Unset]
    /\ running = "no"
    /\ endpoint = Unset
    /\ workers = <<>>
    /\ asked = [port |-> Unset, address |-> Unset,
                workerNum |-> Unset, documentRoot |-> Unset]
    /\ startCalls = 0

Next ==
    \/ \E n \in Ports : SetPort(n)
    \/ \E text \in Addresses : SetAddress(text)
    \/ \E b \in BOOLEAN : SetPoll(b) \/ SetStaticServe(b)
    \/ \E n \in WorkerNums : SetWorkerNum(n)
    \/ \E path \in Roots : SetDocumentRoot(path)
    \/ \E h \in Handlers : OnClientError(h) \/ OnClose(h)
    \/ \E cb \in Handlers \cup {Empty} : Start(cb)
    \/ MakeWorker
    \/ Run
    \/ Leave

Spec == Init /\ [][Next]_vars

\* start() waits for nothing before the io_context runs.
FairSpec == Spec /\ WF_vars(MakeWorker \/ Run)

-----------------------------------------------------------------------------
(* Properties.                                                             *)

\* The acceptor listens on the port and numeric address that were asked for
\* last, with 80 for no port: neither the order of the setters, nor a default
\* left by an earlier start that failed, gets in between (Server.cpp:5-37,
\* 101-106, 118-120).
ListensWhereAsked ==
    endpoint # Unset =>
        /\ asked.port = Unset => endpoint.port = 80
        /\ asked.port \in UShort => endpoint.port = asked.port
        /\ asked.address \in Numerals => endpoint.address = asked.address

\* Once the io_context runs there are the workers that were asked for, 4 for
\* none, all alike, so that it does not matter which of them accepts a client;
\* they have a document root only when static files are served, and then the
\* one asked for last (Server.cpp:51-82, 111-144; Server.h:78-81).
WorkersAsAsked ==
    running \in {"run", "poll"} =>
        /\ asked.workerNum = Unset => Len(workers) = 4
        /\ asked.workerNum \in UInt => Len(workers) = asked.workerNum
        /\ \A i, j \in 1..Len(workers) : workers[i] = workers[j]
        /\ \A i \in 1..Len(workers) :
              /\ ~options.staticServe => workers[i].documentRoot = Unset
              /\ options.staticServe =>
                    workers[i].documentRoot =
                      IF asked.documentRoot = Unset THEN "/" ELSE asked.documentRoot

-----------------------------------------------------------------------------
(* What the code and the documentation say and the code does not do.       *)

\* A server that was given no host, or the host "localhost", listens on this
\* machine only, not on every interface (Server.cpp:105; README.md:157, 197).
DefaultIsLocalhost ==
    endpoint # Unset /\ asked.address \in {Unset, "localhost"} => endpoint.address # Any

\* The callback given to start() is called when the server is up (README.md:
\* 141-146).
StartCallbackCalled ==
    running = "making" /\ options.onClientError # Empty ~> startCalls > 0
===============================================================================
