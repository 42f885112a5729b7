------------------------------ MODULE HttpWorker ------------------------------
(***************************************************************************)
(* The workers of an ExpressWeb server: src/src/Http.cpp, run by one       *)
(* io_context thread (Server.cpp: io_context{1}, ioc.run() or ioc.poll()). *)
(*                                                                         *)
(* Every worker owns one socket, one read buffer, one parser, one pair of  *)
(* response messages and one deadline timer.  A completion handler runs to *)
(* its end before the next one starts, so a handler with every call it     *)
(* makes is one action; what the kernel, the clients and the clock do      *)
(* happens between two handlers, in actions of their own.  An operation    *)
(* that has completed waits in the io_context until its handler is run:    *)
(* other handlers may run in between, which is where the hard cases are.   *)
(***************************************************************************)
EXTENDS Naturals, Sequences, SequencesExt

CONSTANTS
    Workers,    \* the Worker objects of Server::start
    Clients,    \* the peers that connect, one connection each at a time
    None,       \* no connection: a closed socket, an empty parser
    Timeout     \* the 60 seconds a request may take, in ticks of the clock

ASSUME WorkerAssumption ==
    /\ Timeout \in Nat \ {0}
    /\ None \notin Clients

VARIABLES
    ops,        \* the I/O operations started and not yet handled, per worker
    waits,      \* the timer waits started and not yet handled, per worker
    sock,       \* the connection the worker's socket is open on, or None
    buffer,     \* the connections whose unparsed bytes are in the read buffer
    parser,     \* the request last parsed, or None
    message,    \* the engaged optionals among the responses and serializers
    expiry,     \* ticks until the deadline; Never for time_point::max()
    backlog,    \* the listening socket's queue of connections
    started,    \* the workers whose start() has been called
    age         \* ticks since the open connection was accepted; 0 when closed

vars == <<ops, waits, sock, buffer, parser, message, expiry, backlog, started,
          age>>

-----------------------------------------------------------------------------
(* The data.                                                               *)

\* time_point::max(): larger than any deadline a request is given.
Never == Timeout + 1

Writes == {"write_string", "write_file"}

\* An asynchronous operation.  "conn" is the connection it works on (for an
\* accept: the connection it has accepted).
Operation == [kind  : {"accept", "read"} \cup Writes,
              state : {"pending", "ok", "error"},
              conn  : Clients \cup {None}]

\* A request as process_request and send_file tell them apart, and the
\* connections whose bytes it was parsed from.
Request == [ask : {"get", "get_bad_target", "other_method"}, from : SUBSET Clients]

\* The optionals a response of either kind lives in while it is written.
Parts == [write_string |-> {"string_response", "string_serializer"},
          write_file   |-> {"file_response", "file_serializer"}]

\* A wait is armed until the timer expires or is given a new expiry.
Wait == {"armed", "fired", "aborted"}

TypeOK ==
    /\ ops \in [Workers -> Seq(Operation)]
    /\ waits \in [Workers -> Seq(Wait)]
    /\ sock \in [Workers -> Clients \cup {None}]
    /\ buffer \in [Workers -> SUBSET Clients]
    /\ parser \in [Workers -> Request \cup {None}]
    /\ message \in [Workers -> SUBSET UNION {Parts[k] : k \in Writes}]
    /\ expiry \in [Workers -> 0..Never]
    /\ backlog \in Seq(Clients)
    /\ started \in SUBSET Workers
    /\ age \in [Workers -> 0..Timeout]

-----------------------------------------------------------------------------
(* What asio does with outstanding operations and waits.                   *)

WithState(o, state) == [kind |-> o.kind, state |-> state, conn |-> o.conn]

\* Closing a socket cancels the reads and writes pending on it; an operation
\* that has already completed, and an accept, keep their result.
Cancelled(o) ==
    IF o.kind # "accept" /\ o.state = "pending" THEN WithState(o, "error") ELSE o

CancelAll(s) == [i \in 1..Len(s) |-> Cancelled(s[i])]

\* Giving a timer a new expiry aborts the waits that have not fired yet.
AbortWaits(s) == [i \in 1..Len(s) |-> IF s[i] = "armed" THEN "aborted" ELSE s[i]]

\* An operation started on a closed socket completes with an error.
OpOn(kind, c) ==
    [kind |-> kind, state |-> IF c = None THEN "error" ELSE "pending", conn |-> c]

PendingAccept == [kind |-> "accept", state |-> "pending", conn |-> None]

\* The connections that are neither closed nor still in the backlog: open on a
\* worker's socket, or held by an accept whose handler has not run.
Held == {sock[w] : w \in Workers} \cup
        UNION {{ops[w][i].conn : i \in {j \in 1..Len(ops[w]) : ops[w][j].kind = "accept"}}
                 : w \in Workers}

Running == started = Workers

-----------------------------------------------------------------------------
(* The member functions of Worker that handlers call, and their steps.     *)
(* Each one fixes the next value of the variables it names; "rest" is what *)
(* is left of the worker's operations when the running handler's is taken  *)
(* off.  A definition marked "Slip" is the one after it with a plausible   *)
(* mistake in it; no action uses it.                                       *)

\* Slip: the previous client's bytes are not consumed.
AcceptKeepsBuffer(w, rest) ==
    /\ sock' = [sock EXCEPT ![w] = None]
    /\ buffer' = buffer
    /\ ops' = [ops EXCEPT ![w] = Append(CancelAll(rest), PendingAccept)]
    /\ age' = [age EXCEPT ![w] = 0]

\* Slip: the previous connection is not closed.
AcceptKeepsSocket(w, rest) ==
    /\ buffer' = [buffer EXCEPT ![w] = {}]
    /\ ops' = [ops EXCEPT ![w] = Append(rest, PendingAccept)]
    /\ UNCHANGED <<sock, age>>

\* accept(): close the previous connection, drop what was read from it and
\* not used, and wait for the next one. The optionals it tests, and those that
\* the other members test, are set: Server::start makes every worker with a
\* socket, an acceptor and a timer, and without a write callback.
Accept(w, rest) ==
    /\ sock' = [sock EXCEPT ![w] = None]
    /\ buffer' = [buffer EXCEPT ![w] = {}]
    /\ ops' = [ops EXCEPT ![w] = Append(CancelAll(rest), PendingAccept)]
    /\ age' = [age EXCEPT ![w] = 0]

\* Slip: the new connection is left with the timer as it stands.
GiveNoDeadline(w) == UNCHANGED <<expiry, waits>>

\* Slip: the time allowed is doubled.
GiveTwiceTheTime(w) ==
    /\ expiry' = [expiry EXCEPT ![w] = 2 * Timeout]
    /\ waits' = [waits EXCEPT ![w] = AbortWaits(@)]

\* expires_after(60 seconds): a new expiry, and the armed wait is aborted.
GiveDeadline(w) ==
    /\ expiry' = [expiry EXCEPT ![w] = Timeout]
    /\ waits' = [waits EXCEPT ![w] = AbortWaits(@)]

\* read_request(), on the connection c that has just been accepted.
ReadRequest(w, c, rest) ==
    /\ parser' = [parser EXCEPT ![w] = None]
    /\ ops' = [ops EXCEPT ![w] = Append(rest, OpOn("read", c))]

\* The end of send_bad_response and of send_file: the message and its
\* serializer are emplaced and the write is started.
Respond(w, kind, rest) ==
    /\ message' = [message EXCEPT ![w] = @ \cup Parts[kind]]
    /\ ops' = [ops EXCEPT ![w] = Append(rest, OpOn(kind, sock[w]))]

\* Slip: send_file does not return when it has sent "File not found".
ProcessRequestFallsThrough(w, rest) ==
    /\ parser[w].ask = "get"
    /\ message' = [message EXCEPT ![w] = UNION {Parts[k] : k \in Writes}]
    /\ ops' = [ops EXCEPT ![w] = rest \o <<OpOn("write_string", sock[w]),
                                         OpOn("write_file", sock[w])>>]

\* process_request: a GET is answered by send_file, which refuses a bad target
\* and a file it cannot open; any other method is refused.
ProcessRequest(w, rest) ==
    \/ /\ parser[w].ask \in {"other_method", "get_bad_target"}
       /\ Respond(w, "write_string", rest)
    \/ /\ parser[w].ask = "get"
       /\ \E found \in BOOLEAN :
             Respond(w, IF found THEN "write_file" ELSE "write_string", rest)

\* Slip: the message is kept when it has been written.
KeepMessage(w, kind) == UNCHANGED message

\* The serializer and the message are reset when the write has ended.
FreeMessage(w, kind) == message' = [message EXCEPT ![w] = @ \ Parts[kind]]

\* Slip: the handler of a wait takes the deadline for passed.
AlwaysPassed(w) == TRUE

\* "The deadline may have moved, so check it has really passed."
DeadlinePassed(w) == expiry[w] = 0

\* Slip: the timer is not waited for again.
WaitNoMore(s) == s

\* async_wait at the end of check_deadline.
WaitAgain(s) == Append(s, "armed")

\* check_deadline(): when the deadline has passed, close the socket and wait
\* without a deadline.  "rest" is what is left of the worker's waits.
CheckDeadline(w, rest) ==
    \/ /\ DeadlinePassed(w)
       /\ sock' = [sock EXCEPT ![w] = None]
       /\ ops' = [ops EXCEPT ![w] = CancelAll(@)]
       /\ age' = [age EXCEPT ![w] = 0]
       /\ expiry' = [expiry EXCEPT ![w] = Never]
       /\ waits' = [waits EXCEPT ![w] = WaitAgain(AbortWaits(rest))]
    \/ /\ ~DeadlinePassed(w)
       /\ waits' = [waits EXCEPT ![w] = WaitAgain(rest)]
       /\ UNCHANGED <<sock, ops, age, expiry>>

-----------------------------------------------------------------------------
(* The completion handlers, and start().                                   *)

\* The handler of w's i-th operation is being run.
Handling(w, i, kinds, state) ==
    /\ Running
    /\ ops[w][i].kind \in kinds
    /\ ops[w][i].state = state

\* start(): accept(), then check_deadline() on a timer that never expires.
Start(w) ==
    /\ w \notin started
    /\ started' = started \cup {w}
    /\ Accept(w, ops[w])
    /\ waits' = [waits EXCEPT ![w] = WaitAgain(@)]
    /\ UNCHANGED <<parser, message, expiry, backlog>>

\* async_accept failed: try again.
OnAcceptError(w, i) ==
    /\ Handling(w, i, {"accept"}, "error")
    /\ Accept(w, RemoveAt(ops[w], i))
    /\ UNCHANGED <<waits, parser, message, expiry, backlog, started>>

\* async_accept succeeded: the socket is open on the new connection, which is
\* given its deadline, and its request is read.
OnAccepted(w, i) ==
    /\ Handling(w, i, {"accept"}, "ok")
    /\ sock' = [sock EXCEPT ![w] = ops[w][i].conn]
    /\ GiveDeadline(w)
    /\ ReadRequest(w, ops[w][i].conn, RemoveAt(ops[w], i))
    /\ age' = [age EXCEPT ![w] = 0]
    /\ UNCHANGED <<buffer, message, backlog, started>>

\* async_read failed: the connection is given up.
OnReadError(w, i) ==
    /\ Handling(w, i, {"read"}, "error")
    /\ Accept(w, RemoveAt(ops[w], i))
    /\ UNCHANGED <<waits, parser, message, expiry, backlog, started>>

\* async_read produced a request: answer it.  The deadline may have closed the
\* socket since.
OnRequest(w, i) ==
    /\ Handling(w, i, {"read"}, "ok")
    /\ ProcessRequest(w, RemoveAt(ops[w], i))
    /\ UNCHANGED <<waits, sock, buffer, parser, expiry, backlog, started, age>>

\* async_write ended, well or not: free the message and take the next client.
OnWritten(w, i) ==
    /\ \E kind \in Writes, state \in {"ok", "error"} :
          /\ Handling(w, i, {kind}, state)
          /\ FreeMessage(w, kind)
    /\ Accept(w, RemoveAt(ops[w], i))
    /\ UNCHANGED <<waits, parser, expiry, backlog, started>>

\* check_deadline(), from the handler of w's i-th wait, whatever its error code.
OnTimer(w, i) ==
    /\ Running
    /\ waits[w][i] # "armed"
    /\ CheckDeadline(w, RemoveAt(waits[w], i))
    /\ UNCHANGED <<buffer, parser, message, backlog, started>>

-----------------------------------------------------------------------------
(* The kernel, the clients and the clock.                                  *)

\* w's i-th operation is pending and completes in this state.
Complete(w, i, kinds, state) ==
    /\ ops[w][i].kind \in kinds
    /\ ops[w][i].state = "pending"
    /\ ops' = [ops EXCEPT ![w][i] = WithState(@, state)]

\* A client connects: the listening socket queues it.
Connect(c) ==
    /\ c \notin ToSet(backlog) \cup Held
    /\ backlog' = Append(backlog, c)
    /\ UNCHANGED <<ops, waits, sock, buffer, parser, message, expiry, started,
                   age>>

\* The accept of some worker takes the connection at the head of the queue.
AcceptSucceeds(w, i) ==
    /\ backlog # <<>>
    /\ ops[w][i] = PendingAccept
    /\ ops' = [ops EXCEPT ![w][i] =
                   [kind |-> "accept", state |-> "ok", conn |-> Head(backlog)]]
    /\ backlog' = Tail(backlog)
    /\ UNCHANGED <<waits, sock, buffer, parser, message, expiry, started, age>>

\* An accept fails, with the connection (aborted by its peer) or without (no
\* descriptor left).
AcceptFails(w, i) ==
    /\ Complete(w, i, {"accept"}, "error")
    /\ backlog' \in {backlog} \cup (IF backlog = <<>> THEN {} ELSE {Tail(backlog)})
    /\ UNCHANGED <<waits, sock, buffer, parser, message, expiry, started, age>>

\* async_read has received a part of a message.
ReadProgresses(w, i) ==
    /\ ops[w][i].kind = "read"
    /\ ops[w][i].state = "pending"
    /\ buffer' = [buffer EXCEPT ![w] = @ \cup {ops[w][i].conn}]
    /\ UNCHANGED <<ops, waits, sock, parser, message, expiry, backlog, started,
                   age>>

\* async_read has parsed a whole message from the bytes in the buffer and those
\* that came; bytes that follow the message stay in the buffer.
ReadCompletes(w, i) ==
    /\ Complete(w, i, {"read"}, "ok")
    /\ \E ask \in {"get", "get_bad_target", "other_method"},
          from \in {buffer[w], buffer[w] \cup {ops[w][i].conn}} \ {{}} :
          /\ parser' = [parser EXCEPT ![w] = [ask |-> ask, from |-> from]]
          /\ \E left \in {{}, from} : buffer' = [buffer EXCEPT ![w] = left]
    /\ UNCHANGED <<waits, sock, message, expiry, backlog, started, age>>

\* The peer closes or resets the connection, or what it sends is no HTTP
\* message within the limits.
ReadFails(w, i) ==
    /\ Complete(w, i, {"read"}, "error")
    /\ UNCHANGED <<waits, sock, buffer, parser, message, expiry, backlog,
                   started, age>>

\* The response is written, or the connection breaks before it is.
WriteEnds(w, i) ==
    /\ \E state \in {"ok", "error"} : Complete(w, i, Writes, state)
    /\ UNCHANGED <<waits, sock, buffer, parser, message, expiry, backlog,
                   started, age>>

\* The timer queue finds that the timer has expired.
TimerFires(w, i) ==
    /\ waits[w][i] = "armed"
    /\ expiry[w] = 0
    /\ waits' = [waits EXCEPT ![w][i] = "fired"]
    /\ UNCHANGED <<ops, sock, buffer, parser, message, expiry, backlog, started,
                   age>>

\* One tick of steady_clock.  Time since a deadline is not counted.
Tick ==
    /\ \E w \in Workers : expiry[w] \in 1..Timeout
    /\ expiry' = [w \in Workers |-> IF expiry[w] \in 1..Timeout THEN expiry[w] - 1
                                                                ELSE expiry[w]]
    /\ age' = [w \in Workers |-> IF sock[w] # None /\ age[w] < Timeout
                                   THEN age[w] + 1 ELSE age[w]]
    /\ UNCHANGED <<ops, waits, sock, buffer, parser, message, backlog, started>>

-----------------------------------------------------------------------------
(* The specification.                                                      *)

\* The workers as Server::start constructs them.
Init ==
    /\ ops = [w \in Workers |-> <<>>]
    /\ waits = [w \in Workers |-> <<>>]
    /\ sock = [w \in Workers |-> None]
    /\ buffer = [w \in Workers |-> {}]
    /\ parser = [w \in Workers |-> None]
    /\ message = [w \in Workers |-> {}]
    /\ expiry = [w \in Workers |-> Never]
    /\ backlog = <<>>
    /\ started = {}
    /\ age = [w \in Workers |-> 0]

\* One run of the handler of w's i-th operation.
Handle(w, i) ==
    \/ OnAcceptError(w, i)
    \/ OnAccepted(w, i)
    \/ OnReadError(w, i)
    \/ OnRequest(w, i)
    \/ OnWritten(w, i)

\* What the kernel does with w's i-th operation.
Kernel(w, i) ==
    \/ AcceptSucceeds(w, i)
    \/ AcceptFails(w, i)
    \/ ReadProgresses(w, i)
    \/ ReadCompletes(w, i)
    \/ ReadFails(w, i)
    \/ WriteEnds(w, i)

Next ==
    \/ \E w \in Workers : Start(w)
    \/ \E w \in Workers : \E i \in 1..Len(ops[w]) : Handle(w, i) \/ Kernel(w, i)
    \/ \E w \in Workers : \E i \in 1..Len(waits[w]) : OnTimer(w, i) \/ TimerFires(w, i)
    \/ \E c \in Clients : Connect(c)
    \/ Tick

Spec == Init /\ [][Next]_vars

-----------------------------------------------------------------------------
(* Fairness: the io_context runs every handler that is queued, the clock   *)
(* goes on and an expired timer fires.  Nothing is assumed of a connected  *)
(* client, which may send and take nothing for ever; accepts do not fail   *)
(* for ever while a connection is queued.                                  *)

Fairness ==
    /\ \A w \in Workers :
         /\ WF_vars(Start(w))
         /\ WF_vars(\E i \in 1..Len(ops[w]) : Handle(w, i))
         /\ WF_vars(\E i \in 1..Len(waits[w]) : OnTimer(w, i))
         /\ WF_vars(\E i \in 1..Len(waits[w]) : TimerFires(w, i))
    /\ WF_vars(Tick)
    /\ SF_vars(\E w \in Workers : \E i \in 1..Len(ops[w]) : AcceptSucceeds(w, i))

FairSpec == Spec /\ Fairness

-----------------------------------------------------------------------------
(* Properties.                                                             *)

\* A started worker always has exactly one I/O operation outstanding and
\* exactly one wait on its timer: no handler starts two, and none returns
\* without starting the next one (every path of Http.cpp:22-229).
OneChain ==
    \A w \in started : Len(ops[w]) = 1 /\ Len(waits[w]) = 1

\* A response is only written to the connection that sent the request it
\* answers: nothing read from an earlier client is left in the buffer
\* (Http.cpp:27) when the next request is parsed.
AnswersItsOwnClient ==
    \A w \in Workers : \A i \in 1..Len(ops[w]) :
        ops[w][i].kind \in Writes /\ ops[w][i].conn # None
            => parser[w].from = {ops[w][i].conn}

\* The message being written and its serializer live exactly as long as the
\* write (Http.cpp:109-116 and 199-206), even when the deadline closes the
\* socket under it; while a request is read no response holds pool memory.
MessageLivesWithItsWrite ==
    \A w \in Workers :
        message[w] = UNION {Parts[ops[w][i].kind] :
                              i \in {j \in 1..Len(ops[w]) : ops[w][j].kind \in Writes}}

\* An open connection has its own deadline, the full time after it was
\* accepted, whatever handlers of the previous one's timer are still queued
\* (Http.cpp:39 and 213-214).
DeadlineIsItsOwn ==
    \A w \in Workers : sock[w] # None => expiry[w] = Timeout - age[w]

\* check_deadline never closes a connection before its time: a handler left
\* over from an earlier deadline finds that "the deadline may have moved".
NoEarlyClose ==
    [][\A w \in Workers :
         (\E i \in 1..Len(waits[w]) : OnTimer(w, i)) /\ sock[w] # None /\ sock'[w] = None
            => age[w] = Timeout]_vars

\* The phase a worker is in, read off its socket and its operation.
PhaseOf(o) ==
    CASE o.kind = "read" /\ o.state = "pending"   -> "receiving"
      [] o.kind = "read" /\ o.state = "ok"        -> "requested"
      [] o.kind \in Writes /\ o.state = "pending" -> "responding"
      [] OTHER                                    -> "over"

phase == [w \in Workers |-> IF sock[w] = None THEN "idle" ELSE PhaseOf(ops[w][1])]

Lifecycle == INSTANCE RequestLifecycle WITH client <- sock

\* The workers implement the request lifecycle: no client is served by two of
\* them, none is answered twice or before its request is complete, and none is
\* dropped but by its own failure or by its own deadline.
ImplementsLifecycle == Lifecycle!Spec

\* Every connection ends, also that of a client which sends nothing and reads
\* nothing: the deadline closes it (Http.cpp:38-40, 211-229).
ConnectionsEnd ==
    \A w \in Workers : sock[w] # None ~> sock[w] = None

\* Every queued connection leaves the queue: no worker is lost for ever, and a
\* failed accept is tried again (Http.cpp:32-35).
ClientsAccepted ==
    \A c \in Clients : c \in ToSet(backlog) ~> c \notin ToSet(backlog)

-----------------------------------------------------------------------------
(* The inductive invariant behind the safety properties.                   *)

\* An outstanding operation o fits the rest of its worker: the socket, the
\* buffer, the parser and the messages are what its kind and state require.
Fits(o, socket, bytes, request, optionals) ==
    /\ o.kind = "accept" =>
          /\ socket = None /\ bytes = {} /\ optionals = {}
          /\ o.state = "ok" => o.conn # None
    /\ o.kind = "read" =>
          /\ o.conn # None /\ socket \in {o.conn, None}
          /\ bytes \subseteq {o.conn} /\ optionals = {}
          /\ o.state = "ok" => request \in Request /\ request.from = {o.conn}
    /\ o.kind \in Writes =>
          /\ socket \in {o.conn, None} /\ optionals = Parts[o.kind]
          /\ o.conn # None => request \in Request /\ request.from = {o.conn}

WorkerInv(w) ==
    \/ /\ w \notin started
       /\ ops[w] = <<>> /\ waits[w] = <<>> /\ sock[w] = None /\ message[w] = {}
    \/ /\ w \in started
       /\ \E o \in Operation, t \in Wait :
             /\ ops[w] = <<o>> /\ waits[w] = <<t>>
             /\ Fits(o, sock[w], buffer[w], parser[w], message[w])

\* Every started worker has one operation, which fits it, and one wait, and
\* the deadline of an open connection counts from its own start.
IInv ==
    /\ TypeOK
    /\ \A w \in Workers : WorkerInv(w)
    /\ DeadlineIsItsOwn
===============================================================================
