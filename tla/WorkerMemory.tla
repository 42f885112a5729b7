----------------------------- MODULE WorkerMemory -----------------------------
(***************************************************************************)
(* The memory of one worker of src/src/Http.cpp: the request in its parser *)
(* and its two responses keep their header fields in the one pool of       *)
(* alloc_ (Http.h:66), which takes its memory back only when no field is   *)
(* left.  HttpWorker says when the handlers run; this module says what     *)
(* each of them does to the pool: for a worker with a socket, as           *)
(* Server::start makes it; for one with a write callback alone, as         *)
(* example/beastHTTPServerRequestForward makes it; and for one with both.  *)
(***************************************************************************)
EXTENDS StaticPool, Sums, FiniteSets

CONSTANTS
    Modes,          \* the ways a worker is set up that are considered
    FieldSizes,     \* the sizes of the fields of a request
    ResponseFields, \* the sizes of the fields every response is given, in order
    BeforeBody      \* how many of them it has when its body is read from the file

ASSUME ModesAssumption == Modes \subseteq [socket : BOOLEAN, callback : BOOLEAN]
ASSUME FieldsAssumption == FieldSizes \subseteq Nat \ {0} /\ ResponseFields \in Seq(Nat \ {0})
ASSUME BodyAssumption == BeforeBody \in 0..Len(ResponseFields)

VARIABLES
    mode,       \* whether socket_ and writeCallback_ are set
    mem,        \* the pool, the engaged messages and their fields
    phase,      \* what the worker is doing
    delivered   \* calls of the write callback for the present request

vars == <<mode, mem, phase, delivered>>

Messages == {"request", "string_response", "file_response"}

Phases == {"ready", "reading", "writing_string", "writing_file", "crashed", "thrown"}

TypeOK ==
    /\ mode \in Modes
    /\ mem.pool \in Pool
    /\ mem.engaged \in SUBSET Messages
    /\ mem.fields \in [Messages -> Seq(Nat)]
    /\ phase \in Phases
    /\ delivered \in Nat

-----------------------------------------------------------------------------
(* boost::optional of a message whose fields use the pool.                 *)

\* k fields are destroyed, one after the other.
DeallocAll(pool, k) ==
    LET left[i \in 0..k] == IF i = 0 THEN pool ELSE Dealloc(left[i - 1]) IN left[k]

\* Slip: the message goes, its fields stay.
ResetLeaks(m, msg) ==
    [pool |-> m.pool, engaged |-> m.engaged \ {msg}, fields |-> [m.fields EXCEPT ![msg] = <<>>]]

\* reset(): the message, if there is one, is destroyed with its fields and its
\* copy of the allocator.
Reset(m, msg) ==
    IF msg \notin m.engaged THEN m
    ELSE [pool |-> Destroy(DeallocAll(m.pool, Len(m.fields[msg]))),
          engaged |-> m.engaged \ {msg},
          fields |-> [m.fields EXCEPT ![msg] = <<>>]]

\* emplace(..., make_tuple(alloc_)): the old message is destroyed, then the new
\* one is made with a copy of the allocator.
Emplace(m, msg) ==
    LET r == Reset(m, msg)
    IN  [r EXCEPT !.pool = Share(@), !.engaged = @ \cup {msg}]

\* One more field, or string, of a message.
Insert(m, msg, n) ==
    [pool |-> Alloc(m.pool, n), engaged |-> m.engaged,
     fields |-> [m.fields EXCEPT ![msg] = Append(@, n)]]

\* A response: emplaced and given the first k of its fields.
Begin(m, msg, k) ==
    LET filled[j \in 0..k] ==
          IF j = 0 THEN Emplace(m, msg) ELSE Insert(filled[j - 1], msg, ResponseFields[j])
    IN  filled[k]

CanBegin(m, msg, k) == HasRoom(Emplace(m, msg).pool, Total(SubSeq(ResponseFields, 1, k)))

\* A whole response.
Respond(m, msg) == Begin(m, msg, Len(ResponseFields))

CanRespond(m, msg) == CanBegin(m, msg, Len(ResponseFields))

-----------------------------------------------------------------------------
(* The steps of a worker.                                                  *)

\* bad_alloc leaves the handler, io_context::run() and Server::start.
Crash(m) == mem' = m /\ phase' = "crashed"

\* read_request(), once a client was accepted.
ReadRequest ==
    /\ phase = "ready" /\ mode.socket
    /\ mem' = Emplace(mem, "request")
    /\ phase' = "reading"
    /\ delivered' = 0
    /\ UNCHANGED mode

\* The parser stores one more field of the request.  Without room it lets
\* bad_alloc through, or makes it an error of async_read, which is ReadFails:
\* that depends on the version of the library.
ParseField(n) ==
    /\ phase = "reading"
    /\ \/ /\ HasRoom(mem.pool, n)
          /\ mem' = Insert(mem, "request", n)
          /\ UNCHANGED phase
       \/ /\ ~HasRoom(mem.pool, n)
          /\ Crash(mem)
    /\ UNCHANGED <<mode, delivered>>

\* async_read ends with an error: accept() is called, the parser stays.
ReadFails ==
    /\ phase = "reading"
    /\ phase' = "ready"
    /\ UNCHANGED <<mode, mem, delivered>>

\* send_bad_response, when the callback was called "calls" times before.
SendBadResponse(m, calls) ==
    \/ /\ CanRespond(m, "string_response")
       /\ mem' = Respond(m, "string_response")
       /\ delivered' = calls + (IF mode.callback THEN 1 ELSE 0)
       /\ phase' = IF mode.socket THEN "writing_string" ELSE "ready"
    \/ /\ ~CanRespond(m, "string_response")
       /\ Crash(Emplace(m, "string_response"))
       /\ delivered' = calls

\* The part of send_file under "if (socket_)": the file may be gone by now.
SendFileToSocket(m, calls) ==
    \/ SendBadResponse(m, calls)
    \/ /\ CanRespond(m, "file_response")
       /\ mem' = Respond(m, "file_response")
       /\ phase' = "writing_file"
       /\ delivered' = calls
    \/ /\ ~CanRespond(m, "file_response")
       /\ Crash(Emplace(m, "file_response"))
       /\ delivered' = calls

\* Slip: send_file does not return after "File not found".
SendFileToCallbackTwice(m) ==
    \/ /\ mem' = Respond(Respond(m, "string_response"), "string_response")
       /\ delivered' = 2
       /\ phase' = "ready"

\* A directory can be opened, but reserve() of its size, or reading it, throws.
\* The response was begun and stays so; the exception goes to the owner of the
\* worker, or through io_context::run() out of Server::start.
BodyThrows(m) ==
    /\ CanBegin(m, "string_response", BeforeBody)
    /\ mem' = Begin(m, "string_response", BeforeBody)
    /\ phase' = "thrown"
    /\ delivered' = 0

\* The part of send_file under "if (writeCallback_)", and what follows it.
SendFileToCallback(m) ==
    \/ SendBadResponse(m, 0)
    \/ BodyThrows(m)
    \/ /\ CanRespond(m, "string_response")
       /\ \/ /\ mode.socket
             /\ SendFileToSocket(Respond(m, "string_response"), 1)
          \/ /\ ~mode.socket
             /\ mem' = Respond(m, "string_response")
             /\ delivered' = 1
             /\ phase' = "ready"
    \/ /\ ~CanRespond(m, "string_response")
       /\ Crash(Emplace(m, "string_response"))
       /\ delivered' = 0

\* process_request: called when a request has been read, or by the owner of a
\* worker without socket, whose request is in a pool of its own; the owner may
\* call again after an exception.
ProcessRequest ==
    /\ IF mode.socket THEN phase = "reading" ELSE phase \in {"ready", "thrown"}
    /\ \/ SendBadResponse(mem, 0)
       \/ mode.callback /\ SendFileToCallback(mem)
       \/ ~mode.callback /\ mode.socket /\ SendFileToSocket(mem, 0)
    /\ UNCHANGED mode

\* The handlers of async_write free the response and call accept().
WriteEnds ==
    /\ \/ phase = "writing_string" /\ mem' = Reset(mem, "string_response")
       \/ phase = "writing_file" /\ mem' = Reset(mem, "file_response")
    /\ phase' = "ready"
    /\ UNCHANGED <<mode, delivered>>

Init ==
    /\ mode \in Modes
    /\ mem = [pool |-> NewPool, engaged |-> {}, fields |-> [msg \in Messages |-> <<>>]]
    /\ phase = "ready"
    /\ delivered = 0

Next ==
    \/ ReadRequest
    \/ \E n \in FieldSizes : ParseField(n)
    \/ ReadFails
    \/ ProcessRequest
    \/ WriteEnds

Spec == Init /\ [][Next]_vars

-----------------------------------------------------------------------------
(* Properties.                                                             *)

\* Every field of an engaged message is counted by the pool, and every message
\* and alloc_ itself hold one reference: emplace and reset keep the books of
\* fields_alloc.h:40-68 balanced over any sequence of requests.
BooksBalance ==
    /\ mem.pool.count = Len(mem.fields["request"]) + Len(mem.fields["string_response"])
                          + Len(mem.fields["file_response"])
    /\ mem.pool.refs = 1 + Cardinality(mem.engaged)

\* The workers the repository makes have a socket or a callback.  With both, the
\* response given to the callback stays engaged while the socket's is written
\* and the next request is read, so the pool never empties; and a file that goes
\* away in between is delivered twice, as found and as not found.
OneSided == mode.socket # mode.callback

\* While a request is read or answered, the pool holds nothing but that request
\* and its response: a long-lived worker has the whole pool for each request,
\* however the requests before it ended, and can only run out of memory within
\* one request.
NoCarryOver ==
    OneSided /\ (phase # "ready" \/ ~mode.socket)
        => mem.pool.p = Total(mem.fields["request"]) + Total(mem.fields["string_response"])
                          + Total(mem.fields["file_response"])

\* A worker with a callback alone calls it once for every request it gets through,
\* with a response that has all its fields, although send_file goes on to its
\* socket part after the call (Http.cpp:175-177); and for a request that ends in
\* an exception, after a response was begun, it is not called at all (Http.cpp:168).
OneDelivery ==
    [][ProcessRequest /\ mode.callback /\ OneSided =>
         IF phase' \in {"crashed", "thrown"} THEN delivered' = 0
         ELSE delivered' = 1 /\ mem'.fields["string_response"] = ResponseFields]_vars

\* A worker runs out of memory for one request alone: bad_alloc, which ends all
\* workers, means that this request's own fields and its response's do not fit
\* the pool, however many requests came before (fields_alloc.h:55-57, 80-82).
OwnFieldsAlone ==
    [][OneSided /\ phase' = "crashed" =>
         LET own == Total(mem.fields["request"])
         IN  \/ phase = "reading" /\ \E n \in FieldSizes : own + n >= Size
             \/ own + Total(ResponseFields) >= Size]_vars
===============================================================================
