--------------------------- MODULE WebSocketSession ---------------------------
(***************************************************************************)
(* The asynchronous WebSocket client of                                    *)
(* example/beastWebSocketClientAsync: main() reads the options and starts  *)
(* one session, whose handlers start each other until one of them fails or *)
(* the connection is closed; then ioc.run() returns.  A handler keeps the  *)
(* session alive through the shared_ptr bound into it.                     *)
(***************************************************************************)
EXTENDS WebSocketLink

VARIABLES
    file,       \* the configuration file
    stage,      \* of main(): "configuring", "running" (in ioc.run()),
                \* "returned", "thrown" or "aborted" (a failed assertion)
    ops,        \* the asynchronous operations started and not yet handled
    alive,      \* the session object exists
    buffer,     \* the number of the message in buffer_, or 0
    printed     \* the message printed at the end, or 0

ownVars == <<file, stage, ops, alive, buffer, printed>>
vars == <<wire, peer, inbox, sent, said, file, stage, ops, alive, buffer,
          printed>>

-----------------------------------------------------------------------------
(* The data.                                                               *)

\* What the file has for each option: as the port 80 or 443, another one or none;
\* and whether the others are there.
\* A file that cannot be opened or parsed, or is no object, yields none of them.
Configuration ==
    [port : {"standard", "other", "none"}, scheme : BOOLEAN, host : BOOLEAN,
     target : BOOLEAN, request : BOOLEAN]

Kinds == {"resolve", "connect", "handshake", "write", "read", "close"}

\* owner: the handler bound to the operation holds a reference to the session.
Operation == [kind : Kinds, state : {"pending", "ok", "error"}, owner : BOOLEAN]

TypeOK ==
    /\ LinkTypeOK
    /\ file \in Configuration
    /\ stage \in {"configuring", "running", "returned", "thrown", "aborted"}
    /\ ops \in Seq(Operation)
    /\ alive \in BOOLEAN
    /\ buffer \in 0..MaxMessages
    /\ printed \in 0..MaxMessages

-----------------------------------------------------------------------------
(* The session.                                                            *)

\* Slip: the handler of a read is bound to the bare pointer.
StartWithoutOwner(kind) ==
    [kind |-> kind, state |-> "pending", owner |-> kind # "read"]

\* std::bind(&session::on_..., shared_from_this(), ...)
Started(kind) == [kind |-> kind, state |-> "pending", owner |-> TRUE]

\* The handler of the i-th operation is done and leaves these new operations:
\* the session is destroyed when nothing refers to it any more.
Leaves(i, new) ==
    LET rest == RemoveAt(ops, i) \o new
    IN  /\ ops' = rest
        /\ alive' = \E j \in 1..Len(rest) : rest[j].owner

\* The i-th operation was of this kind and went well.
Handling(i, kind) == stage = "running" /\ ops[i].kind = kind /\ ops[i].state = "ok"

\* Slip: what has failed is tried again, instead of return fail(...).
RetryAfterError(i) == <<Started(ops[i].kind)>>

AfterError(i) == <<>>

OnError(i) ==
    /\ stage = "running" /\ ops[i].state = "error"
    /\ Leaves(i, AfterError(i))
    /\ UNCHANGED <<wire, peer, inbox, sent, said, file, stage, buffer, printed>>

OnResolve(i) ==
    /\ Handling(i, "resolve")
    /\ Leaves(i, <<Started("connect")>>)
    /\ UNCHANGED <<wire, peer, inbox, sent, said, file, stage, buffer, printed>>

\* on_connect; the request that async_handshake_ex composes is left out.
OnConnect(i) ==
    /\ Handling(i, "connect")
    /\ Leaves(i, <<Started("handshake")>>)
    /\ UNCHANGED <<wire, peer, inbox, sent, said, file, stage, buffer, printed>>

OnHandshake(i) ==
    /\ Handling(i, "handshake")
    /\ Leaves(i, <<Started("write")>>)
    /\ UNCHANGED <<wire, peer, inbox, sent, said, file, stage, buffer, printed>>

\* Slips: the message is sent again; the connection is closed while the answer
\* is being read.
WriteAfterWrite == <<Started("write")>>
ReadAndCloseAfterWrite == <<Started("read"), Started("close")>>

AfterWrite == <<Started("read")>>

OnWrite(i) ==
    /\ Handling(i, "write")
    /\ Leaves(i, AfterWrite)
    /\ UNCHANGED <<wire, peer, inbox, sent, said, file, stage, buffer, printed>>

OnRead(i) ==
    /\ Handling(i, "read")
    /\ Leaves(i, <<Started("close")>>)
    /\ UNCHANGED <<wire, peer, inbox, sent, said, file, stage, buffer, printed>>

OnClose(i) ==
    /\ Handling(i, "close")
    /\ printed' = buffer
    /\ Leaves(i, <<>>)
    /\ UNCHANGED <<wire, peer, inbox, sent, said, file, stage, buffer>>

-----------------------------------------------------------------------------
(* The operations' ends: the link does what the operation asks of it.      *)

Ends(kind, result) ==
    \/ kind = "resolve" /\ ResolveEnds(result) /\ UNCHANGED buffer
    \/ kind = "connect" /\ ConnectEnds(result) /\ UNCHANGED buffer
    \/ kind = "handshake" /\ HandshakeEnds(result) /\ UNCHANGED buffer
    \/ kind = "write" /\ WriteEnds(result) /\ UNCHANGED buffer
    \/ kind = "read" /\ \E m \in 0..MaxMessages :
          /\ ReadEnds(result, m)
          /\ buffer' = IF result = "ok" THEN m ELSE buffer
    \/ kind = "close" /\ CloseEnds(result) /\ UNCHANGED buffer

Complete(i) ==
    /\ ops[i].state = "pending"
    /\ \E result \in {"ok", "error"} :
          /\ Ends(ops[i].kind, result)
          /\ ops' = [ops EXCEPT ![i].state = result]
    /\ UNCHANGED <<file, stage, alive, printed>>

\* The peer answers a request that has reached it.
AnswerHandshake ==
    /\ \E i \in 1..Len(ops) : ops[i].kind = "handshake" /\ ops[i].state = "pending"
    /\ PeerAnswers
    /\ UNCHANGED ownVars

-----------------------------------------------------------------------------
(* main().                                                                 *)

\* The check of the options; the scheme is not among them.
HasRequired == file.port # "none" /\ file.host /\ file.target /\ file.request

\* "Found the required information": the session is made and run() is called
\* with *clientScheme, which asserts that there is one.
Launch ==
    /\ stage = "configuring" /\ HasRequired
    /\ IF file.scheme
         THEN stage' = "running" /\ ops' = <<Started("resolve")>> /\ alive' = TRUE
         ELSE stage' = "aborted" /\ UNCHANGED <<ops, alive>>
    /\ UNCHANGED <<wire, peer, inbox, sent, said, file, buffer, printed>>

\* "Could not get the required information": nobody catches the exception.
Refuse ==
    /\ stage = "configuring" /\ ~HasRequired
    /\ stage' = "thrown"
    /\ UNCHANGED <<wire, peer, inbox, sent, said, file, ops, alive, buffer, printed>>

\* ioc.run() has nothing more to wait for.
Return ==
    /\ stage = "running" /\ ops = <<>>
    /\ stage' = "returned"
    /\ UNCHANGED <<wire, peer, inbox, sent, said, file, ops, alive, buffer, printed>>

Init ==
    /\ LinkInit
    /\ file \in Configuration
    /\ stage = "configuring" /\ ops = <<>> /\ alive = FALSE
    /\ buffer = 0 /\ printed = 0

Handle(i) ==
    \/ OnError(i) \/ OnResolve(i) \/ OnConnect(i) \/ OnHandshake(i)
    \/ OnWrite(i) \/ OnRead(i) \/ OnClose(i)

PeerActs == AnswerHandshake \/ (Peer /\ UNCHANGED ownVars)

Next ==
    \/ Launch \/ Refuse \/ Return
    \/ \E i \in 1..Len(ops) : Handle(i) \/ Complete(i)
    \/ PeerActs

Spec == Init /\ [][Next]_vars

-----------------------------------------------------------------------------
(* Properties.                                                             *)

\* The session's buffers and strings exist as long as an operation uses them:
\* every handler on the way keeps the object alive (main.cpp:95-173), and it
\* is destroyed when the last one has run.
AliveWhileUsed == alive <=> ops # <<>>

\* The chain of handlers neither forks nor breaks: the operation outstanding
\* tells how far the exchange is, and nothing is outstanding once it has been
\* printed or main() is past run() (main.cpp:99-184).
InStep ==
    /\ Len(ops) <= 1
    /\ \A i \in 1..Len(ops) :
          /\ stage = "running" /\ printed = 0
          /\ ops[i].kind \in {"resolve", "connect", "handshake"} => sent = 0
          /\ ops[i].kind \in {"read", "close"} => sent = 1
          /\ ops[i].kind = "close" => buffer # 0

\* "Found the required information from the configuration file."
\* (main.cpp:269-271): the options it asks for are all a run needs.
FoundIsEnough == HasRequired => stage # "aborted"
===============================================================================
