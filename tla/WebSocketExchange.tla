--------------------------- MODULE WebSocketExchange ---------------------------
(***************************************************************************)
(* What the two WebSocket clients promise, without names, connections and  *)
(* handlers: send one message, take the first message the peer sends, and  *)
(* print it when the connection was closed gracefully; or fail, at any     *)
(* point before that, and print nothing.  WebSocketSession and             *)
(* WebSocketClient implement this module.                                  *)
(***************************************************************************)
EXTENDS Naturals

VARIABLES
    sent,       \* the number of messages the client has sent
    said,       \* the number of messages the peer has sent
    answer,     \* the number of the message the client has taken, or 0
    outcome     \* "running", "printed" or "failed"

vars == <<sent, said, answer, outcome>>

Init == sent = 0 /\ said = 0 /\ answer = 0 /\ outcome = "running"

Send ==
    /\ outcome = "running" /\ sent = 0
    /\ sent' = 1
    /\ UNCHANGED <<said, answer, outcome>>

\* The peer may say anything at any time, also before it is asked.
Say == said' = said + 1 /\ UNCHANGED <<sent, answer, outcome>>

Take ==
    /\ outcome = "running" /\ sent = 1 /\ said > 0 /\ answer = 0
    /\ answer' = 1
    /\ UNCHANGED <<sent, said, outcome>>

PrintAnswer ==
    /\ outcome = "running" /\ answer # 0
    /\ outcome' = "printed"
    /\ UNCHANGED <<sent, said, answer>>

Fail ==
    /\ outcome = "running"
    /\ outcome' = "failed"
    /\ UNCHANGED <<sent, said, answer>>

Next == Send \/ Say \/ Take \/ PrintAnswer \/ Fail

Spec == Init /\ [][Next]_vars
===============================================================================
