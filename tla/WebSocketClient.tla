---------------------------- MODULE WebSocketClient ----------------------------
(***************************************************************************)
(* The synchronous WebSocket client of example/beastWebSocketClient: one   *)
(* call after the other, each of which blocks until it ends or throws; an  *)
(* exception ends main() with EXIT_FAILURE.                                *)
(***************************************************************************)
EXTENDS WebSocketLink

VARIABLES
    file,       \* the configuration file, as in WebSocketSession
    pc,         \* the call main() is in, or how it has ended
    buffer,     \* the number of the message read, or 0
    printed     \* the message printed at the end, or 0

vars == <<wire, peer, inbox, sent, said, file, pc, buffer, printed>>

Configuration ==
    [port : {"standard", "other", "none"}, scheme : BOOLEAN, host : BOOLEAN,
     target : BOOLEAN, request : BOOLEAN]

\* The call after each call, in the order of main().
NextCall == [resolve |-> "connect", connect |-> "compose", handshake |-> "write",
             write |-> "read", read |-> "close", close |-> "print"]

Ended == {"success", "failure", "aborted"}

TypeOK ==
    /\ LinkTypeOK
    /\ file \in Configuration
    /\ pc \in {"configure", "compose", "print"} \cup DOMAIN NextCall \cup Ended
    /\ buffer \in 0..MaxMessages
    /\ printed \in 0..MaxMessages

\* Slip: main() goes on although the call has failed.
IgnoreError(call) == NextCall[call]

\* The exception is caught, reported, and main() returns EXIT_FAILURE.
Caught(call) == "failure"

\* Slip: the answer is printed as soon as it is read.
PrintBeforeClose(call) == IF call = "read" THEN "print" ELSE NextCall[call]

After(call) == NextCall[call]

\* The blocking call has ended, well or with an exception.
Call(call, result) ==
    /\ pc = call
    /\ pc' = IF result = "ok" THEN After(call) ELSE Caught(call)
    /\ UNCHANGED <<file, printed>>

Results == {"ok", "error"}

Resolve == \E r \in Results : Call("resolve", r) /\ ResolveEnds(r) /\ UNCHANGED buffer
Connect == \E r \in Results : Call("connect", r) /\ ConnectEnds(r) /\ UNCHANGED buffer
Handshake == \E r \in Results : Call("handshake", r) /\ HandshakeEnds(r) /\ UNCHANGED buffer
Write == \E r \in Results : Call("write", r) /\ WriteEnds(r) /\ UNCHANGED buffer
Close == \E r \in Results : Call("close", r) /\ CloseEnds(r) /\ UNCHANGED buffer

\* The buffer is filled when the read ends well, and left alone otherwise.
Read ==
    \E r \in Results, m \in 0..MaxMessages :
        /\ Call("read", r) /\ ReadEnds(r, m)
        /\ buffer' = IF r = "ok" THEN m ELSE buffer

HasRequired == file.port # "none" /\ file.host /\ file.target /\ file.request

Configure ==
    /\ pc = "configure"
    /\ pc' = IF HasRequired THEN "resolve" ELSE "failure"
    /\ UNCHANGED <<wire, peer, inbox, sent, said, file, buffer, printed>>

\* handshake_ex composes its request: *clientScheme is evaluated only when the
\* port is one of the two, and asserts that there is a scheme.
Compose ==
    /\ pc = "compose"
    /\ pc' = IF file.port = "standard" /\ ~file.scheme THEN "aborted" ELSE "handshake"
    /\ UNCHANGED <<wire, peer, inbox, sent, said, file, buffer, printed>>

PrintAnswer ==
    /\ pc = "print"
    /\ printed' = buffer
    /\ pc' = "success"
    /\ UNCHANGED <<wire, peer, inbox, sent, said, file, buffer>>

\* The peer answers the request of a handshake that has begun.
PeerActs ==
    /\ (pc = "handshake" /\ PeerAnswers) \/ Peer
    /\ UNCHANGED <<file, pc, buffer, printed>>

Init ==
    /\ LinkInit
    /\ file \in Configuration
    /\ pc = "configure" /\ buffer = 0 /\ printed = 0

Main ==
    \/ Configure \/ Resolve \/ Connect \/ Compose \/ Handshake \/ Write \/ Read
    \/ Close \/ PrintAnswer

Next == Main \/ PeerActs

Spec == Init /\ [][Next]_vars
===============================================================================
