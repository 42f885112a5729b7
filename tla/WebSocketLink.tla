----------------------------- MODULE WebSocketLink -----------------------------
(***************************************************************************)
(* The connection of a WebSocket client to its peer, and how the calls of  *)
(* the client end on it: the environment of WebSocketSession and           *)
(* WebSocketClient, from how they use Boost.Asio and Boost.Beast.  The     *)
(* frames the peer has sent wait in order until a call of the client takes *)
(* them; the peer may be silent for ever, close, or cut the connection.    *)
(***************************************************************************)
EXTENDS Naturals, Sequences, SequencesExt

CONSTANT MaxMessages    \* bound on what the peer says

ASSUME MessagesAssumption == MaxMessages \in Nat \ {0}

VARIABLES
    wire,       \* "none": not connected; "up"; "cut": closed or reset by the peer
    peer,       \* the peer: "waiting", "upgraded" or "closed" (it sends no more)
    inbox,      \* the frames the peer has sent and the client has not taken
    sent,       \* the number of messages the client has sent
    said        \* the number of messages the peer has sent

linkVars == <<wire, peer, inbox, sent, said>>

\* A frame of the peer; its messages are numbered.
Frame == [kind : {"upgrade", "refusal", "message", "close"}, number : 0..MaxMessages]

Message(m) == [kind |-> "message", number |-> m]
Control(kind) == [kind |-> kind, number |-> 0]

LinkTypeOK ==
    /\ wire \in {"none", "up", "cut"}
    /\ peer \in {"waiting", "upgraded", "closed"}
    /\ inbox \in Seq(Frame)
    /\ sent \in 0..1
    /\ said \in 0..MaxMessages

LinkInit == wire = "none" /\ peer = "waiting" /\ inbox = <<>> /\ sent = 0 /\ said = 0

-----------------------------------------------------------------------------
(* The peer.                                                               *)

\* It answers the request for a handshake, one way or the other.
PeerAnswers ==
    /\ wire = "up" /\ peer = "waiting"
    /\ \/ peer' = "upgraded" /\ inbox' = Append(inbox, Control("upgrade"))
       \/ peer' = "closed" /\ inbox' = Append(inbox, Control("refusal"))
    /\ UNCHANGED <<wire, sent, said>>

PeerSpeaks ==
    /\ wire = "up" /\ peer = "upgraded" /\ said < MaxMessages
    /\ said' = said + 1
    /\ inbox' = Append(inbox, Message(said + 1))
    /\ UNCHANGED <<wire, peer, sent>>

PeerCloses ==
    /\ wire = "up" /\ peer = "upgraded"
    /\ peer' = "closed"
    /\ inbox' = Append(inbox, Control("close"))
    /\ UNCHANGED <<wire, sent, said>>

\* The connection is shut down, or reset: then what was not read is lost.
PeerCuts ==
    /\ wire = "up"
    /\ wire' = "cut" /\ peer' = "closed"
    /\ inbox' \in {inbox, <<>>}
    /\ UNCHANGED <<sent, said>>

Peer == PeerSpeaks \/ PeerCloses \/ PeerCuts

-----------------------------------------------------------------------------
(* The ways a call of the client ends; "ok" or "error".                    *)

\* The next frame is of this kind; a call takes it.
TakesFrame(kind) == inbox # <<>> /\ Head(inbox).kind = kind /\ inbox' = Tail(inbox)

Broken == wire = "cut" /\ UNCHANGED inbox

ResolveEnds(result) == result \in {"ok", "error"} /\ UNCHANGED linkVars

ConnectEnds(result) ==
    /\ result \in {"ok", "error"}
    /\ wire' = IF result = "ok" THEN "up" ELSE wire
    /\ UNCHANGED <<peer, inbox, sent, said>>

HandshakeEnds(result) ==
    /\ \/ result = "ok" /\ TakesFrame("upgrade")
       \/ result = "error" /\ TakesFrame("refusal")
       \/ result = "error" /\ Broken
    /\ UNCHANGED <<wire, peer, sent, said>>

\* A write ends when the kernel has taken the bytes, whatever the peer does.
WriteEnds(result) ==
    /\ \/ result = "ok" /\ sent' = sent + 1
       \/ result = "error" /\ wire = "cut" /\ UNCHANGED sent
    /\ UNCHANGED <<wire, peer, inbox, said>>

\* Reading yields message m, or fails: a close frame ends the stream.
ReadEnds(result, m) ==
    /\ \/ result = "ok" /\ TakesFrame("message") /\ m = Head(inbox).number
       \/ result = "error" /\ TakesFrame("close")
       \/ result = "error" /\ Broken
    /\ UNCHANGED <<wire, peer, sent, said>>

\* Closing skips what is before the peer's close frame.
CloseEnds(result) ==
    /\ \/ result = "ok" /\ Contains(inbox, Control("close")) /\ inbox' = <<>>
       \/ result = "error" /\ Broken
    /\ UNCHANGED <<wire, peer, sent, said>>
===============================================================================
