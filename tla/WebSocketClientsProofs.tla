------------------------ MODULE WebSocketClientsProofs ------------------------
(***************************************************************************)
(* Proofs about WebSocketClients, for any number of messages of the peer.  *)
(* First the asynchronous client alone: its handlers form one chain, and   *)
(* the session object lives exactly as long as an operation of it is       *)
(* outstanding.  Then both: they implement the same exchange,              *)
(* WebSocketExchange, and print only after a graceful close.               *)
(***************************************************************************)
EXTENDS WebSocketClients, TLAPS

-----------------------------------------------------------------------------
(* The asynchronous client.                                                *)

\* A message read is one the peer has sent, so its number is not 0.
Numbered == \A k \in 1..Len(inbox) : inbox[k].kind = "message" => inbox[k].number # 0

\* How far the exchange is while o is outstanding or waits for its handler.
Fits(o) ==
    /\ o.owner
    /\ o.kind \in {"resolve", "connect", "handshake"} => sent = 0
    /\ o.kind = "write" => sent = (IF o.state = "ok" THEN 1 ELSE 0)
    /\ o.kind \in {"read", "close"} => sent = 1
    /\ o.kind = "read" /\ o.state = "ok" => buffer # 0
    /\ o.kind = "close" => buffer # 0

\* Nothing is outstanding, or one operation, whose handler owns the session.
OneOperation ==
    \/ ops = <<>> /\ ~alive /\ (stage = "configuring" => sent = 0 /\ printed = 0)
    \/ /\ Len(ops) = 1 /\ alive /\ stage = "running" /\ printed = 0
       /\ Fits(ops[1])

IInv == TypeOK /\ Numbered /\ OneOperation

\* The handler of the only operation leaves what it starts.
LEMMA LeavesFacts ==
    ASSUME ops \in Seq(Operation), Len(ops) = 1, NEW new \in Seq(Operation), Leaves(1, new)
    PROVE  /\ ops' = new
           /\ alive' = \E j \in 1..Len(new) : new[j].owner
  <1>1. RemoveAt(ops, 1) = <<>>
    BY DEF RemoveAt
  <1>2. RemoveAt(ops, 1) \o new = new
    BY <1>1
  <1>. QED  BY <1>2 DEF Leaves

LEMMA StartedFacts ==
    ASSUME NEW kind \in Kinds
    PROVE  /\ <<Started(kind)>> \in Seq(Operation) /\ Len(<<Started(kind)>>) = 1
           /\ <<Started(kind)>>[1] = Started(kind)
           /\ Started(kind).kind = kind /\ Started(kind).owner
           /\ Started(kind).state = "pending"
  BY DEF Started, Operation

\* What a handler that starts one operation has to show.
LEMMA ChainGoesOn ==
    ASSUME IInv, Len(ops) = 1, NEW kind \in Kinds,
           Leaves(1, <<Started(kind)>>),
           UNCHANGED <<wire, peer, inbox, sent, said, file, stage, buffer, printed>>,
           stage = "running", Fits(Started(kind))
    PROVE  IInv'
  <1>1. ops' = <<Started(kind)>> /\ ops' \in Seq(Operation) /\ Len(ops') = 1
           /\ ops'[1] = Started(kind) /\ alive' = TRUE
    <2>1. ops \in Seq(Operation)  BY DEF IInv, TypeOK
    <2>2. <<Started(kind)>> \in Seq(Operation)  BY StartedFacts
    <2>3. /\ ops' = <<Started(kind)>>
          /\ alive' = \E j \in 1..Len(<<Started(kind)>>) : <<Started(kind)>>[j].owner
      BY <2>1, <2>2, LeavesFacts
    <2>4. \E j \in 1..Len(<<Started(kind)>>) : <<Started(kind)>>[j].owner
      BY StartedFacts
    <2>. QED  BY <2>2, <2>3, <2>4, StartedFacts
  <1>2. printed' = 0 /\ stage' = "running"
    BY DEF IInv, OneOperation
  <1>3. Fits(Started(kind))'
    BY DEF Fits, Started
  <1>4. TypeOK'  BY <1>1 DEF IInv, TypeOK, LinkTypeOK
  <1>5. Numbered'  BY DEF IInv, Numbered
  <1>. QED  BY <1>1, <1>2, <1>3, <1>4, <1>5 DEF IInv, OneOperation, Fits

\* What a handler that starts nothing has to show.
LEMMA ChainEnds ==
    ASSUME IInv, Len(ops) = 1, Leaves(1, <<>>), stage = "running",
           UNCHANGED <<wire, peer, inbox, sent, said, file, stage, buffer>>,
           printed' \in 0..MaxMessages
    PROVE  IInv'
  <1>1. <<>> \in Seq(Operation) /\ Len(<<>>) = 0  OBVIOUS
  <1>2. ops' = <<>> /\ alive' = FALSE
    <2>1. ops \in Seq(Operation)  BY DEF IInv, TypeOK
    <2>2. ops' = <<>> /\ alive' = \E j \in 1..Len(<<>>) : <<>>[j].owner
      BY <1>1, <2>1, LeavesFacts
    <2>3. ~\E j \in 1..Len(<<>>) : <<>>[j].owner  BY <1>1
    <2>. QED  BY <2>2, <2>3
  <1>3. TypeOK'  BY <1>1, <1>2 DEF IInv, TypeOK, LinkTypeOK
  <1>4. Numbered'  BY DEF IInv, Numbered
  <1>. QED  BY <1>2, <1>3, <1>4 DEF IInv, OneOperation

\* Handlers and completions are of the only operation.
LEMMA OnlyOne ==
    ASSUME IInv, NEW i \in 1..Len(ops)
    PROVE  i = 1 /\ Len(ops) = 1 /\ stage = "running" /\ printed = 0 /\ alive /\ Fits(ops[1])
           /\ ops[1] \in Operation
  <1>1. ops \in Seq(Operation) /\ OneOperation  BY DEF IInv, TypeOK
  <1>2. ops # <<>>  BY <1>1
  <1>3. Len(ops) = 1 /\ stage = "running" /\ printed = 0 /\ alive /\ Fits(ops[1])
    BY <1>1, <1>2 DEF OneOperation
  <1>. QED  BY <1>1, <1>3

LEMMA HandleInvariant == ASSUME IInv, NEW i \in 1..Len(ops), Handle(i) PROVE IInv'
  <1>. USE OnlyOne
  <1>1. CASE OnError(i)
    BY <1>1, ChainEnds DEF OnError, AfterError, IInv, TypeOK
  <1>2. CASE OnResolve(i)
    <2>1. Fits(Started("connect"))  BY <1>2 DEF OnResolve, Handling, Fits, Started
    <2>. QED  BY <1>2, <2>1, ChainGoesOn DEF OnResolve, Kinds
  <1>3. CASE OnConnect(i)
    <2>1. Fits(Started("handshake"))  BY <1>3 DEF OnConnect, Handling, Fits, Started
    <2>. QED  BY <1>3, <2>1, ChainGoesOn DEF OnConnect, Kinds
  <1>4. CASE OnHandshake(i)
    <2>1. Fits(Started("write"))  BY <1>4 DEF OnHandshake, Handling, Fits, Started
    <2>. QED  BY <1>4, <2>1, ChainGoesOn DEF OnHandshake, Kinds
  <1>5. CASE OnWrite(i)
    <2>1. Fits(Started("read"))  BY <1>5 DEF OnWrite, Handling, Fits, Started
    <2>. QED  BY <1>5, <2>1, ChainGoesOn DEF OnWrite, AfterWrite, Kinds
  <1>6. CASE OnRead(i)
    <2>1. Fits(Started("close"))  BY <1>6 DEF OnRead, Handling, Fits, Started
    <2>. QED  BY <1>6, <2>1, ChainGoesOn DEF OnRead, Kinds
  <1>7. CASE OnClose(i)
    BY <1>7, ChainEnds DEF OnClose, IInv, TypeOK
  <1>. QED  BY <1>1, <1>2, <1>3, <1>4, <1>5, <1>6, <1>7 DEF Handle

\* A frame taken is a frame that was sent; the others keep their numbers.
LEMMA TailFacts ==
    ASSUME LinkTypeOK, Numbered, NEW kind, TakesFrame(kind)
    PROVE  /\ inbox' \in Seq(Frame) /\ Numbered'
           /\ Head(inbox) \in Frame
           /\ kind = "message" => Head(inbox).number # 0
  <1>1. inbox \in Seq(Frame) /\ inbox # <<>> /\ inbox' = Tail(inbox) /\ Head(inbox).kind = kind
    BY DEF LinkTypeOK, TakesFrame
  <1>2. Len(inbox) >= 1 /\ Head(inbox) = inbox[1] /\ inbox[1] \in Frame
    BY <1>1
  <1>3. Tail(inbox) \in Seq(Frame) /\ Len(Tail(inbox)) = Len(inbox) - 1
          /\ \A k \in 1..Len(Tail(inbox)) : Tail(inbox)[k] = inbox[k + 1]
    BY <1>1
  <1>4. Numbered'  BY <1>1, <1>3 DEF Numbered
  <1>. QED  BY <1>1, <1>2, <1>3, <1>4 DEF Numbered

\* The link and the buffer stay well typed when an operation ends.
LEMMA EndsTypes ==
    ASSUME LinkTypeOK, Numbered, buffer \in 0..MaxMessages,
           NEW kind \in Kinds, NEW result \in {"ok", "error"}, Ends(kind, result),
           kind = "write" => sent = 0
    PROVE  LinkTypeOK' /\ Numbered' /\ buffer' \in 0..MaxMessages
  <1>. USE MessagesAssumption
  <1>0. LinkTypeOK /\ Numbered /\ buffer \in 0..MaxMessages  OBVIOUS
  <1>1. CASE kind = "resolve"
    BY <1>0, <1>1 DEF Ends, ResolveEnds, linkVars, LinkTypeOK, Numbered
  <1>2. CASE kind = "connect"
    BY <1>0, <1>2 DEF Ends, ConnectEnds, LinkTypeOK, Numbered
  <1>3. CASE kind = "handshake"
    <2>1. HandshakeEnds(result) /\ UNCHANGED buffer  BY <1>3 DEF Ends
    <2>2. inbox' \in Seq(Frame) /\ Numbered'
      BY <1>0, <2>1, TailFacts DEF HandshakeEnds, Broken, LinkTypeOK, Numbered
    <2>. QED  BY <1>0, <2>1, <2>2 DEF HandshakeEnds, LinkTypeOK
  <1>4. CASE kind = "write"
    BY <1>0, <1>4 DEF Ends, WriteEnds, LinkTypeOK, Numbered
  <1>5. CASE kind = "read"
    <2>1. PICK m \in 0..MaxMessages :
             ReadEnds(result, m) /\ buffer' = IF result = "ok" THEN m ELSE buffer
      BY <1>5 DEF Ends
    <2>2. inbox' \in Seq(Frame) /\ Numbered'
      BY <1>0, <2>1, TailFacts DEF ReadEnds, Broken, LinkTypeOK, Numbered
    <2>. QED  BY <1>0, <2>1, <2>2 DEF ReadEnds, LinkTypeOK
  <1>6. CASE kind = "close"
    <2>1. CloseEnds(result) /\ UNCHANGED buffer  BY <1>6 DEF Ends
    <2>2. inbox' \in Seq(Frame) /\ Numbered'
      <3>1. CASE inbox' = <<>>  BY <3>1 DEF Numbered
      <3>2. CASE inbox' = inbox  BY <1>0, <3>2 DEF LinkTypeOK, Numbered
      <3>. QED  BY <2>1, <3>1, <3>2 DEF CloseEnds, Broken
    <2>. QED  BY <1>0, <2>1, <2>2 DEF CloseEnds, LinkTypeOK
  <1>. QED  BY <1>1, <1>2, <1>3, <1>4, <1>5, <1>6 DEF Kinds

\* ... and the operation still tells how far the exchange is.
LEMMA EndsFits ==
    ASSUME IInv, NEW o \in Operation, o.state = "pending", Fits(o),
           NEW result \in {"ok", "error"}, Ends(o.kind, result)
    PROVE  Fits([o EXCEPT !.state = result])'
  <1>. DEFINE p == [o EXCEPT !.state = result]
  <1>0. p.kind = o.kind /\ p.owner /\ p.state = result /\ o.kind \in Kinds
    BY DEF Operation, Fits
  <1>1. CASE o.kind \in {"resolve", "connect", "handshake"}
    <2>1. sent' = sent
      BY <1>1 DEF Ends, ResolveEnds, ConnectEnds, HandshakeEnds, linkVars
    <2>. QED  BY <1>0, <1>1, <2>1 DEF Fits
  <1>2. CASE o.kind = "write"
    <2>1. WriteEnds(result) /\ sent = 0  BY <1>2 DEF Ends, Fits
    <2>. QED  BY <1>0, <1>2, <2>1 DEF WriteEnds, Fits
  <1>3. CASE o.kind = "read"
    <2>1. PICK m \in 0..MaxMessages :
             ReadEnds(result, m) /\ buffer' = IF result = "ok" THEN m ELSE buffer
      BY <1>3 DEF Ends
    <2>2. result = "ok" => buffer' # 0
      BY <2>1, TailFacts DEF ReadEnds, IInv, TypeOK
    <2>3. sent' = sent /\ sent = 1  BY <1>3, <2>1 DEF ReadEnds, Fits
    <2>. QED  BY <1>0, <1>3, <2>2, <2>3 DEF Fits
  <1>4. CASE o.kind = "close"
    <2>1. CloseEnds(result) /\ buffer' = buffer  BY <1>4 DEF Ends
    <2>. QED  BY <1>0, <1>4, <2>1 DEF CloseEnds, Fits
  <1>. QED  BY <1>0, <1>1, <1>2, <1>3, <1>4 DEF Kinds

LEMMA CompleteInvariant == ASSUME IInv, NEW i \in 1..Len(ops), Complete(i) PROVE IInv'
  <1>0. PICK o : o = ops[1]  OBVIOUS
  <1>1. /\ i = 1 /\ Len(ops) = 1 /\ stage = "running" /\ printed = 0 /\ alive
        /\ Fits(o) /\ o \in Operation
    BY <1>0, OnlyOne
  <1>2. PICK result \in {"ok", "error"} :
          Ends(o.kind, result) /\ ops' = [ops EXCEPT ![1].state = result]
    BY <1>0, <1>1 DEF Complete
  <1>3. o.state = "pending" /\ UNCHANGED <<file, stage, alive, printed>> /\ o.kind \in Kinds
    BY <1>0, <1>1 DEF Complete, Operation
  <1>4. ops \in Seq(Operation) /\ [o EXCEPT !.state = result] \in Operation
    BY <1>1 DEF IInv, TypeOK, Operation
  <1>5. ops' \in Seq(Operation) /\ Len(ops') = 1 /\ ops'[1] = [o EXCEPT !.state = result]
    BY <1>0, <1>1, <1>2, <1>4
  <1>6. o.kind = "write" => sent = 0  BY <1>1, <1>3 DEF Fits
  <1>7. LinkTypeOK' /\ Numbered' /\ buffer' \in 0..MaxMessages
    BY <1>2, <1>3, <1>6, EndsTypes DEF IInv, TypeOK
  <1>8. Fits([o EXCEPT !.state = result])'
    BY <1>1, <1>2, <1>3, EndsFits
  <1>9. Fits(ops[1])'
    BY <1>5, <1>8 DEF Fits
  <1>10. TypeOK'  BY <1>3, <1>5, <1>7 DEF IInv, TypeOK
  <1>. QED  BY <1>1, <1>3, <1>5, <1>7, <1>9, <1>10 DEF IInv, OneOperation

\* The peer's frames are well typed and its messages numbered.
LEMMA PeerTypes ==
    ASSUME LinkTypeOK, Numbered, PeerAnswers \/ Peer
    PROVE  LinkTypeOK' /\ Numbered' /\ sent' = sent
  <1>. USE MessagesAssumption
  <1>0. LinkTypeOK /\ Numbered /\ inbox \in Seq(Frame) /\ said \in Nat
    BY DEF LinkTypeOK
  <1>1. ASSUME NEW f \in Frame, f.kind = "message" => f.number # 0, inbox' = Append(inbox, f)
        PROVE  inbox' \in Seq(Frame) /\ Numbered'
    BY <1>0, <1>1 DEF Numbered
  <1>2. CASE PeerAnswers
    <2>1. Control("upgrade") \in Frame /\ Control("refusal") \in Frame
            /\ Control("upgrade").kind # "message" /\ Control("refusal").kind # "message"
      BY DEF Control, Frame
    <2>2. inbox' \in Seq(Frame) /\ Numbered'
      BY <1>2, <2>1, <1>1 DEF PeerAnswers
    <2>. QED  BY <1>0, <1>2, <2>2 DEF PeerAnswers, LinkTypeOK
  <1>3. CASE PeerSpeaks
    <2>1. Message(said + 1) \in Frame /\ Message(said + 1).number # 0
      BY <1>0, <1>3 DEF PeerSpeaks, Message, Frame
    <2>2. inbox' \in Seq(Frame) /\ Numbered'
      BY <1>3, <2>1, <1>1 DEF PeerSpeaks
    <2>. QED  BY <1>0, <1>3, <2>2 DEF PeerSpeaks, LinkTypeOK
  <1>4. CASE PeerCloses
    <2>1. Control("close") \in Frame /\ Control("close").kind # "message"
      BY DEF Control, Frame
    <2>2. inbox' \in Seq(Frame) /\ Numbered'
      BY <1>4, <2>1, <1>1 DEF PeerCloses
    <2>. QED  BY <1>0, <1>4, <2>2 DEF PeerCloses, LinkTypeOK
  <1>5. CASE PeerCuts
    <2>1. CASE inbox' = <<>>
      BY <1>0, <1>5, <2>1 DEF PeerCuts, LinkTypeOK, Numbered
    <2>2. CASE inbox' = inbox
      BY <1>0, <1>5, <2>2 DEF PeerCuts, LinkTypeOK, Numbered
    <2>. QED  BY <1>5, <2>1, <2>2 DEF PeerCuts
  <1>. QED  BY <1>2, <1>3, <1>4, <1>5 DEF Peer

LEMMA PeerInvariant == ASSUME IInv, PeerActs PROVE IInv'
  <1>1. UNCHANGED ownVars /\ (PeerAnswers \/ Peer)
    BY DEF PeerActs, AnswerHandshake
  <1>2. LinkTypeOK' /\ Numbered' /\ sent' = sent
    BY <1>1, PeerTypes DEF IInv, TypeOK
  <1>3. TypeOK'  BY <1>1, <1>2 DEF IInv, ownVars, TypeOK
  <1>4. OneOperation'  BY <1>1, <1>2 DEF IInv, OneOperation, Fits, ownVars
  <1>. QED  BY <1>2, <1>3, <1>4 DEF IInv

LEMMA MainInvariant == ASSUME IInv, Launch \/ Refuse \/ Return PROVE IInv'
  <1>1. CASE Launch
    <2>1. TypeOK /\ OneOperation /\ stage = "configuring"  BY <1>1 DEF Launch, IInv
    <2>2. ops = <<>> /\ ~alive /\ sent = 0 /\ printed = 0  BY <2>1 DEF OneOperation
    <2>3. CASE file.scheme
      <3>1. stage' = "running" /\ ops' = <<Started("resolve")>> /\ alive'
              /\ UNCHANGED <<wire, peer, inbox, sent, said, file, buffer, printed>>
        BY <1>1, <2>3 DEF Launch
      <3>2. ops' \in Seq(Operation) /\ Len(ops') = 1 /\ ops'[1] = Started("resolve")
        BY <3>1, StartedFacts DEF Kinds
      <3>3. Fits(ops[1])'  BY <2>2, <3>1, <3>2 DEF Fits, Started
      <3>4. TypeOK'  BY <2>1, <3>1, <3>2 DEF TypeOK, LinkTypeOK
      <3>5. Numbered'  BY <3>1 DEF IInv, Numbered
      <3>. QED  BY <2>2, <3>1, <3>2, <3>3, <3>4, <3>5 DEF IInv, OneOperation
    <2>4. CASE ~file.scheme
      BY <1>1, <2>1, <2>2, <2>4 DEF Launch, IInv, TypeOK, LinkTypeOK, Numbered, OneOperation
    <2>. QED  BY <2>3, <2>4
  <1>2. CASE Refuse
    BY <1>2 DEF Refuse, IInv, TypeOK, LinkTypeOK, Numbered, OneOperation
  <1>3. CASE Return
    BY <1>3 DEF Return, IInv, TypeOK, LinkTypeOK, Numbered, OneOperation
  <1>. QED  BY <1>1, <1>2, <1>3

LEMMA InitInvariant == Init => IInv
  <1>. SUFFICES ASSUME Init PROVE IInv  OBVIOUS
  <1>1. inbox = <<>> /\ inbox \in Seq(Frame) /\ ops = <<>> /\ ops \in Seq(Operation)
    BY DEF Init, LinkInit
  <1>2. 0 \in 0..MaxMessages /\ 0 \in 0..1  BY MessagesAssumption
  <1>3. LinkTypeOK  BY <1>1, <1>2 DEF Init, LinkInit, LinkTypeOK
  <1>4. TypeOK  BY <1>1, <1>2, <1>3 DEF Init, TypeOK
  <1>5. Numbered  BY <1>1 DEF Numbered
  <1>. QED  BY <1>1, <1>4, <1>5 DEF Init, LinkInit, IInv, OneOperation

LEMMA NextInvariant == ASSUME IInv, [Next]_vars PROVE IInv'
  <1>1. CASE Launch \/ Refuse \/ Return  BY <1>1, MainInvariant
  <1>2. ASSUME NEW i \in 1..Len(ops), Handle(i) PROVE IInv'  BY <1>2, HandleInvariant
  <1>3. ASSUME NEW i \in 1..Len(ops), Complete(i) PROVE IInv'  BY <1>3, CompleteInvariant
  <1>4. CASE PeerActs  BY <1>4, PeerInvariant
  <1>5. CASE UNCHANGED vars
      BY <1>5 DEF vars, IInv, TypeOK, LinkTypeOK, Numbered, OneOperation, Fits
  <1>. QED  BY <1>1, <1>2, <1>3, <1>4, <1>5 DEF Next

\* The inductive invariant: one operation at most, and it fits the exchange.
THEOREM Invariant == Spec => []IInv
  <1>1. Init => IInv  BY InitInvariant
  <1>2. IInv /\ [Next]_vars => IInv'  BY NextInvariant
  <1>. QED  BY <1>1, <1>2, PTL DEF Spec

\* The session object exists exactly while an operation of it is outstanding or
\* waits for its handler (main.cpp:95-184).
THEOREM LivesWithItsOperations == Spec => []AliveWhileUsed
  <1>1. IInv => AliveWhileUsed
    BY DEF IInv, TypeOK, OneOperation, AliveWhileUsed
  <1>. QED  BY <1>1, Invariant, PTL

\* The handlers are one chain: never two operations, none after the answer was
\* printed, and each one tells how far the exchange is (main.cpp:99-184).
THEOREM OneChainOfHandlers == Spec => []InStep
  <1>1. IInv => InStep
    <2>1. CASE ops = <<>>  BY <2>1 DEF InStep
    <2>2. CASE OneOperation /\ ops # <<>>
      <3>1. Len(ops) = 1 /\ stage = "running" /\ printed = 0 /\ Fits(ops[1])
        BY <2>2 DEF OneOperation
      <3>2. \A i \in 1..Len(ops) : i = 1  BY <3>1
      <3>. QED  BY <3>1, <3>2 DEF Fits, InStep
    <2>. QED  BY <2>1, <2>2 DEF IInv
  <1>. QED  BY <1>1, Invariant, PTL

-----------------------------------------------------------------------------
(* Both clients.                                                           *)

\* What waits in the inbox fits what the peer has done; and as long as the
\* client has taken no message, the first one there is the peer's first.
InboxFits ==
    /\ \A k \in 1..Len(inbox) :
          /\ inbox[k].kind \in {"refusal", "close"} => peer = "closed"
          /\ inbox[k].kind = "message" => said > 0
    /\ buffer = 0 =>
          /\ \A k \in 1..Len(inbox) :
                inbox[k].kind = "message" /\ (\A j \in 1 .. k - 1 : inbox[j].kind # "message")
                    => inbox[k].number = 1
          /\ peer # "closed" /\ (\A k \in 1..Len(inbox) : inbox[k].kind # "message")
                => said = 0

LinkInv == LinkTypeOK /\ Numbered /\ InboxFits

\* No message before the read has ended, no print before the close has.
AsyncFits ==
    /\ stage = "configuring" => buffer = 0
    /\ \A i \in 1..Len(ops) :
          /\ ops[i].kind # "close" /\ ~(ops[i].kind = "read" /\ ops[i].state = "ok")
                => buffer = 0
          /\ ops[i].kind = "close" /\ ops[i].state = "ok"
                => peer = "closed" /\ inbox = <<>>
    /\ printed # 0 => peer = "closed" /\ inbox = <<>>

\* The same of the blocking client, by the call it is in.
SyncFits ==
    /\ pc \in {"configure", "resolve", "connect", "compose", "handshake", "write"}
          => sent = 0 /\ buffer = 0
    /\ pc = "read" => sent = 1 /\ buffer = 0
    /\ pc \in {"close", "print"} => buffer # 0
    /\ pc \in {"print", "success"} => peer = "closed" /\ inbox = <<>>
    /\ printed # 0 <=> pc = "success"

AsyncInv == program = "async" /\ pc = "configure" /\ OneOperation /\ AsyncFits

SyncInv ==
    program = "sync" /\ stage = "configuring" /\ ops = <<>> /\ ~alive /\ SyncFits

ClientsInv == ClientsTypeOK /\ LinkInv /\ (AsyncInv \/ SyncInv)

-----------------------------------------------------------------------------
(* The link, whichever client uses it.                                     *)

\* The peer's frames keep the inbox in order.
LEMMA PeerFits ==
    ASSUME LinkInv, PeerAnswers \/ Peer, UNCHANGED buffer
    PROVE  LinkInv' /\ sent' = sent /\ said' \in {said, said + 1}
  <1>1. LinkTypeOK' /\ Numbered' /\ sent' = sent  BY PeerTypes DEF LinkInv
  <1>2. inbox \in Seq(Frame) /\ said \in Nat  BY MessagesAssumption DEF LinkInv, LinkTypeOK
  <1>3. ASSUME NEW f \in Frame, inbox' = Append(inbox, f),
               f.kind \in {"refusal", "close"} => peer' = "closed",
               f.kind = "message" => f.number = said + 1 /\ said' = said + 1,
               f.kind # "message" => said' = said,
               peer # "closed"
        PROVE  InboxFits'
    <2>1. /\ Len(inbox') = Len(inbox) + 1 /\ inbox'[Len(inbox) + 1] = f
          /\ \A k \in 1..Len(inbox) : inbox'[k] = inbox[k]
          /\ Len(inbox) \in Nat
      BY <1>2, <1>3
    <2>2. \A k \in 1..Len(inbox') : k \in 1..Len(inbox) \/ k = Len(inbox) + 1
      BY <2>1
    <2>3. \A k \in 1..Len(inbox') :
            /\ inbox'[k].kind \in {"refusal", "close"} => peer' = "closed"
            /\ inbox'[k].kind = "message" => said' > 0
      BY <1>2, <1>3, <2>1, <2>2 DEF LinkInv, InboxFits
    <2>4. ASSUME buffer = 0, NEW k \in 1..Len(inbox'), inbox'[k].kind = "message",
                 \A j \in 1 .. k - 1 : inbox'[j].kind # "message"
          PROVE  inbox'[k].number = 1
      <3>1. CASE k \in 1..Len(inbox)
        <4>1. \A j \in 1 .. k - 1 : inbox[j].kind # "message"  BY <2>1, <2>4, <3>1
        <4>. QED  BY <2>1, <2>4, <3>1, <4>1 DEF LinkInv, InboxFits
      <3>2. CASE k = Len(inbox) + 1
        <4>1. \A j \in 1..Len(inbox) : inbox[j].kind # "message"  BY <2>1, <2>4, <3>2
        <4>2. said = 0  BY <1>3, <2>4, <4>1 DEF LinkInv, InboxFits
        <4>. QED  BY <1>3, <2>1, <2>4, <3>2, <4>2
      <3>. QED  BY <2>2, <3>1, <3>2
    <2>5. ASSUME buffer = 0, peer' # "closed", \A k \in 1..Len(inbox') : inbox'[k].kind # "message"
          PROVE  said' = 0
      <3>1. f.kind # "message" /\ \A k \in 1..Len(inbox) : inbox[k].kind # "message"
        BY <2>1, <2>5
      <3>. QED  BY <1>3, <2>5, <3>1 DEF LinkInv, InboxFits
    <2>. QED  BY <2>3, <2>4, <2>5 DEF InboxFits
  <1>4. CASE PeerAnswers
    <2>1. \A kind \in {"upgrade", "refusal"} :
            Control(kind) \in Frame /\ Control(kind).kind = kind
      BY MessagesAssumption DEF Control, Frame
    <2>. QED  BY <1>1, <1>3, <1>4, <2>1 DEF PeerAnswers, LinkInv
  <1>5. CASE PeerSpeaks
    <2>1. Message(said + 1) \in Frame /\ Message(said + 1).kind = "message"
            /\ Message(said + 1).number = said + 1
      BY <1>2, <1>5, MessagesAssumption DEF PeerSpeaks, Message, Frame
    <2>. QED  BY <1>1, <1>3, <1>5, <2>1 DEF PeerSpeaks, LinkInv
  <1>6. CASE PeerCloses
    <2>1. Control("close") \in Frame /\ Control("close").kind = "close"
      BY MessagesAssumption DEF Control, Frame
    <2>. QED  BY <1>1, <1>3, <1>6, <2>1 DEF PeerCloses, LinkInv
  <1>7. CASE PeerCuts
    <2>1. CASE inbox' = <<>>
      BY <1>1, <1>7, <2>1 DEF PeerCuts, LinkInv, InboxFits
    <2>2. CASE inbox' = inbox
      BY <1>1, <1>7, <2>2 DEF PeerCuts, LinkInv, InboxFits
    <2>. QED  BY <1>7, <2>1, <2>2 DEF PeerCuts
  <1>. QED  BY <1>4, <1>5, <1>6, <1>7 DEF Peer

\* The frame a call takes leaves the inbox in order.
LEMMA TakeFits ==
    ASSUME LinkInv, NEW kind, TakesFrame(kind), UNCHANGED <<peer, said>>,
           (buffer' = buffer /\ kind # "message") \/ buffer' # 0
    PROVE  /\ InboxFits'
           /\ kind = "message" => said > 0
           /\ kind = "message" /\ buffer = 0 => Head(inbox).number = 1
  <1>1. inbox \in Seq(Frame) /\ inbox # <<>> /\ inbox' = Tail(inbox) /\ Head(inbox).kind = kind
    BY DEF LinkInv, LinkTypeOK, TakesFrame
  <1>2. Len(inbox) \in Nat /\ Len(inbox) >= 1 /\ Head(inbox) = inbox[1]
    BY <1>1
  <1>3. Len(inbox') = Len(inbox) - 1 /\ \A k \in 1..Len(inbox') : inbox'[k] = inbox[k + 1]
    BY <1>1
  <1>4. \A k \in 1..Len(inbox') :
          /\ inbox'[k].kind \in {"refusal", "close"} => peer' = "closed"
          /\ inbox'[k].kind = "message" => said' > 0
    BY <1>2, <1>3 DEF LinkInv, InboxFits
  <1>5. ASSUME buffer' = 0, NEW k \in 1..Len(inbox'), inbox'[k].kind = "message",
               \A j \in 1 .. k - 1 : inbox'[j].kind # "message"
        PROVE  inbox'[k].number = 1
    <2>1. buffer = 0 /\ inbox[1].kind # "message"  BY <1>1, <1>2, <1>5
    <2>2. ASSUME NEW j \in 1 .. (k + 1) - 1 PROVE inbox[j].kind # "message"
      <3>1. CASE j = 1  BY <2>1, <3>1
      <3>2. CASE j # 1
        <4>1. j - 1 \in 1 .. k - 1 /\ j - 1 \in 1..Len(inbox')  BY <1>2, <1>3, <3>2
        <4>2. inbox'[j - 1] = inbox[(j - 1) + 1] /\ (j - 1) + 1 = j  BY <1>3, <4>1
        <4>. QED  BY <1>5, <4>1, <4>2
      <3>. QED  BY <3>1, <3>2
    <2>3. k + 1 \in 1..Len(inbox) /\ inbox'[k] = inbox[k + 1]  BY <1>2, <1>3
    <2>. QED  BY <1>5, <2>1, <2>2, <2>3 DEF LinkInv, InboxFits
  <1>6. ASSUME buffer' = 0, peer' # "closed",
               \A k \in 1..Len(inbox') : inbox'[k].kind # "message"
        PROVE  said' = 0
    <2>1. buffer = 0 /\ inbox[1].kind # "message"  BY <1>1, <1>2, <1>6
    <2>2. ASSUME NEW j \in 1..Len(inbox) PROVE inbox[j].kind # "message"
      <3>1. CASE j = 1  BY <2>1, <3>1
      <3>2. CASE j # 1
        <4>1. j - 1 \in 1..Len(inbox')  BY <1>2, <1>3, <3>2
        <4>2. inbox'[j - 1] = inbox[(j - 1) + 1] /\ (j - 1) + 1 = j  BY <1>3, <4>1
        <4>. QED  BY <1>6, <4>1, <4>2
      <3>. QED  BY <3>1, <3>2
    <2>. QED  BY <1>6, <2>1, <2>2 DEF LinkInv, InboxFits
  <1>7. InboxFits'  BY <1>4, <1>5, <1>6 DEF InboxFits
  <1>8. 1 \in 1..Len(inbox) /\ \A j \in 1 .. 1 - 1 : inbox[j].kind # "message"  BY <1>2
  <1>9. kind = "message" => said > 0  BY <1>1, <1>2, <1>8 DEF LinkInv, InboxFits
  <1>10. kind = "message" /\ buffer = 0 => Head(inbox).number = 1
    BY <1>1, <1>2, <1>8 DEF LinkInv, InboxFits
  <1>. QED  BY <1>7, <1>9, <1>10

\* A call that leaves the inbox alone leaves it in order.
LEMMA LeftAlone ==
    ASSUME LinkInv, UNCHANGED <<inbox, peer, said, buffer>>
    PROVE  InboxFits'
  BY DEF LinkInv, InboxFits

\* What an operation, or a call, that ends has done.
LEMMA EndsFacts ==
    ASSUME LinkInv, buffer \in 0..MaxMessages,
           NEW kind \in Kinds, NEW result \in {"ok", "error"}, Ends(kind, result),
           kind \in {"resolve", "connect", "handshake", "write"} => sent = 0,
           kind # "close" => buffer = 0, kind = "close" => buffer # 0
    PROVE  /\ LinkInv' /\ buffer' \in 0..MaxMessages
           /\ UNCHANGED <<peer, said>>
           /\ sent' = IF kind = "write" /\ result = "ok" THEN 1 ELSE sent
           /\ buffer' = IF kind = "read" /\ result = "ok" THEN 1 ELSE buffer
           /\ kind = "read" /\ result = "ok" => said > 0
           /\ kind = "close" /\ result = "ok" => peer = "closed" /\ inbox' = <<>>
  <1>1. LinkTypeOK' /\ Numbered' /\ buffer' \in 0..MaxMessages  BY EndsTypes DEF LinkInv
  <1>2. CASE kind = "resolve"
    BY <1>1, <1>2, LeftAlone DEF Ends, ResolveEnds, linkVars, LinkInv
  <1>3. CASE kind = "connect"
    BY <1>1, <1>3, LeftAlone DEF Ends, ConnectEnds, LinkInv
  <1>4. CASE kind = "handshake"
    <2>1. HandshakeEnds(result) /\ buffer' = buffer  BY <1>4 DEF Ends
    <2>2. InboxFits'  BY <2>1, TakeFits, LeftAlone DEF HandshakeEnds, Broken
    <2>. QED  BY <1>1, <1>4, <2>1, <2>2 DEF HandshakeEnds, LinkInv
  <1>5. CASE kind = "write"
    <2>1. WriteEnds(result) /\ buffer' = buffer /\ sent = 0  BY <1>5 DEF Ends
    <2>2. InboxFits'  BY <2>1, LeftAlone DEF WriteEnds
    <2>. QED  BY <1>1, <1>5, <2>1, <2>2 DEF WriteEnds, LinkInv
  <1>6. CASE kind = "read"
    <2>0. PICK m \in 0..MaxMessages :
             ReadEnds(result, m) /\ buffer' = IF result = "ok" THEN m ELSE buffer
      BY <1>6 DEF Ends
    <2>1. UNCHANGED <<peer, said, sent>> /\ buffer = 0  BY <1>6, <2>0 DEF ReadEnds
    <2>2. CASE result = "ok"
      <3>1. TakesFrame("message") /\ buffer' = Head(inbox).number  BY <2>0, <2>2 DEF ReadEnds
      <3>2. Head(inbox).number # 0  BY <3>1, TailFacts DEF LinkInv
      <3>3. InboxFits' /\ said > 0 /\ buffer' = 1  BY <2>1, <3>1, <3>2, TakeFits
      <3>. QED  BY <1>1, <1>6, <2>1, <2>2, <3>3 DEF LinkInv
    <2>3. CASE result = "error"
      <3>1. buffer' = buffer /\ (TakesFrame("close") \/ Broken)  BY <2>0, <2>3 DEF ReadEnds
      <3>2. InboxFits'  BY <2>1, <3>1, TakeFits, LeftAlone DEF Broken
      <3>. QED  BY <1>1, <1>6, <2>1, <2>3, <3>1, <3>2 DEF LinkInv
    <2>. QED  BY <2>2, <2>3
  <1>7. CASE kind = "close"
    <2>1. CloseEnds(result) /\ buffer' = buffer /\ buffer # 0  BY <1>7 DEF Ends
    <2>2. UNCHANGED <<peer, said, sent>>  BY <2>1 DEF CloseEnds
    <2>3. CASE result = "ok"
      <3>1. Contains(inbox, Control("close")) /\ inbox' = <<>>  BY <2>1, <2>3 DEF CloseEnds
      <3>2. PICK k \in 1..Len(inbox) : inbox[k] = Control("close")
        BY <3>1 DEF Contains
      <3>3. peer = "closed"  BY <3>2 DEF LinkInv, InboxFits, Control
      <3>4. InboxFits'  BY <2>1, <3>1 DEF InboxFits
      <3>. QED  BY <1>1, <1>7, <2>1, <2>2, <2>3, <3>1, <3>3, <3>4 DEF LinkInv
    <2>4. CASE result = "error"
      <3>1. inbox' = inbox  BY <2>1, <2>4 DEF CloseEnds, Broken
      <3>2. InboxFits'  BY <2>1, <2>2, <3>1, LeftAlone
      <3>. QED  BY <1>1, <1>7, <2>1, <2>2, <2>4, <3>2 DEF LinkInv
    <2>. QED  BY <2>3, <2>4
  <1>. QED  BY <1>2, <1>3, <1>4, <1>5, <1>6, <1>7 DEF Kinds

-----------------------------------------------------------------------------
(* The blocking client.                                                    *)

\* Its module has the link's definitions for itself: they are the same.
LEMMA SameLink ==
    /\ Blocking!LinkTypeOK <=> LinkTypeOK
    /\ Blocking!PeerAnswers <=> PeerAnswers
    /\ Blocking!Peer <=> Peer
    /\ Blocking!LinkInit <=> LinkInit
  <1>1. Blocking!LinkTypeOK <=> LinkTypeOK
    BY DEF Blocking!LinkTypeOK, LinkTypeOK, Blocking!Frame, Frame
  <1>2. Blocking!PeerAnswers <=> PeerAnswers
    BY DEF Blocking!PeerAnswers, PeerAnswers, Blocking!Control, Control
  <1>3. Blocking!Peer <=> Peer
    BY DEF Blocking!Peer, Peer, Blocking!PeerSpeaks, PeerSpeaks, Blocking!PeerCloses, PeerCloses,
           Blocking!PeerCuts, PeerCuts, Blocking!Control, Control, Blocking!Message, Message
  <1>4. Blocking!LinkInit <=> LinkInit  BY DEF Blocking!LinkInit, LinkInit
  <1>. QED  BY <1>1, <1>2, <1>3, <1>4

\* Its calls end as the operations of the other client do.
Calls == Blocking!Resolve \/ Blocking!Connect \/ Blocking!Handshake \/ Blocking!Write
            \/ Blocking!Read \/ Blocking!Close

LEMMA CallFacts ==
    ASSUME Calls
    PROVE  \E kind \in Kinds, result \in {"ok", "error"} :
              Blocking!Call(kind, result) /\ Ends(kind, result)
  <1>1. CASE Blocking!Resolve
    BY <1>1 DEF Blocking!Resolve, Blocking!Results, Blocking!ResolveEnds, Blocking!linkVars,
                Kinds, Ends, ResolveEnds, linkVars
  <1>2. CASE Blocking!Connect
    BY <1>2 DEF Blocking!Connect, Blocking!Results, Blocking!ConnectEnds, Kinds, Ends, ConnectEnds
  <1>3. CASE Blocking!Handshake
    BY <1>3 DEF Blocking!Handshake, Blocking!Results, Blocking!HandshakeEnds, Blocking!TakesFrame,
                Blocking!Broken, Kinds, Ends, HandshakeEnds, TakesFrame, Broken
  <1>4. CASE Blocking!Write
    BY <1>4 DEF Blocking!Write, Blocking!Results, Blocking!WriteEnds, Kinds, Ends, WriteEnds
  <1>5. CASE Blocking!Read
    BY <1>5 DEF Blocking!Read, Blocking!Results, Blocking!ReadEnds, Blocking!TakesFrame,
                Blocking!Broken, Kinds, Ends, ReadEnds, TakesFrame, Broken
  <1>6. CASE Blocking!Close
    BY <1>6 DEF Blocking!Close, Blocking!Results, Blocking!CloseEnds, Blocking!Control,
                Blocking!Contains, Blocking!Broken, Kinds, Ends, CloseEnds, Control, Contains,
                Broken
  <1>. QED  BY <1>1, <1>2, <1>3, <1>4, <1>5, <1>6 DEF Calls
LEMMA NextCallFacts ==
    /\ Blocking!NextCall["resolve"] = "connect"
    /\ Blocking!NextCall["connect"] = "compose"
    /\ Blocking!NextCall["handshake"] = "write"
    /\ Blocking!NextCall["write"] = "read"
    /\ Blocking!NextCall["read"] = "close"
    /\ Blocking!NextCall["close"] = "print"
  BY DEF Blocking!NextCall

Places == {"configure", "compose", "print", "resolve", "connect", "handshake", "write", "read",
           "close", "success", "failure", "aborted"}

LEMMA ClientsTypes ==
    ClientsTypeOK <=> /\ TypeOK
                      /\ pc \in Places
                      /\ program \in {"async", "sync"}
  <1>1. DOMAIN Blocking!NextCall =
          {"resolve", "connect", "handshake", "write", "read", "close"}
    BY DEF Blocking!NextCall
  <1>2. Blocking!TypeOK <=> /\ LinkTypeOK /\ file \in Configuration /\ pc \in Places
                            /\ buffer \in 0..MaxMessages /\ printed \in 0..MaxMessages
    BY <1>1, SameLink DEF Blocking!TypeOK, Blocking!Configuration, Configuration, Blocking!Ended,
                          Places
  <1>. QED  BY <1>2 DEF ClientsTypeOK, TypeOK

LEMMA ClientsTypesNext ==
    TypeOK' /\ pc' \in Places /\ program' \in {"async", "sync"} => ClientsTypeOK'
  <1>1. (TypeOK /\ pc \in Places /\ program \in {"async", "sync"})' => ClientsTypeOK'
    BY ClientsTypes, PTL
  <1>. QED  BY <1>1

\* The steps of the blocking client that are no calls of the link.
LEMMA OwnSteps ==
    ASSUME ClientsInv, SyncInv, UNCHANGED <<program, stage, ops, alive>>,
           Blocking!Configure \/ Blocking!Compose \/ Blocking!PrintAnswer
    PROVE  ClientsInv' /\ [Exchange!Next]_(Exchange!vars)
  <1>0. TypeOK /\ LinkInv /\ SyncFits /\ printed \in 0..MaxMessages /\ buffer \in 0..MaxMessages
    BY ClientsTypes DEF ClientsInv, SyncInv, TypeOK
  <1>1. UNCHANGED <<wire, peer, inbox, sent, said, file, buffer>>
    BY DEF Blocking!Configure, Blocking!Compose, Blocking!PrintAnswer
  <1>2. LinkInv'  BY <1>0, <1>1 DEF LinkInv, LinkTypeOK, Numbered, InboxFits
  <1>3. CASE Blocking!Configure \/ Blocking!Compose
    <2>1. /\ pc \in {"configure", "compose"} /\ printed' = printed
          /\ pc' \in {"resolve", "failure", "aborted", "handshake"}
      BY <1>3 DEF Blocking!Configure, Blocking!Compose
    <2>2. SyncFits'  BY <1>0, <1>1, <2>1 DEF SyncFits
    <2>3. ClientsTypeOK'  BY <1>0, <1>1, <2>1, ClientsTypes, ClientsTypesNext DEF ClientsInv, TypeOK, LinkTypeOK, Places
    <2>4. Outcome = "running" /\ Outcome' \in {"running", "failed"}
      BY <1>0, <2>1 DEF SyncInv, SyncFits, Outcome, GoesOn, SyncEnded
    <2>. QED
      BY <1>1, <1>2, <2>2, <2>3, <2>4 DEF ClientsInv, SyncInv, Exchange!Next, Exchange!Fail, Exchange!vars
  <1>4. CASE Blocking!PrintAnswer
    <2>1. pc = "print" /\ pc' = "success" /\ printed' = buffer  BY <1>4 DEF Blocking!PrintAnswer
    <2>2. buffer # 0 /\ printed = 0  BY <1>0, <2>1 DEF SyncFits
    <2>3. SyncFits'  BY <1>0, <1>1, <2>1, <2>2 DEF SyncFits
    <2>4. ClientsTypeOK'  BY <1>0, <1>1, <2>1, ClientsTypes, ClientsTypesNext DEF ClientsInv, TypeOK, LinkTypeOK, Places
    <2>5. Outcome = "running" /\ Outcome' = "printed"
      BY <2>1, <2>2 DEF SyncInv, Outcome, GoesOn, SyncEnded
    <2>. QED
      BY <1>1, <1>2, <2>2, <2>3, <2>4, <2>5
         DEF ClientsInv, SyncInv, Exchange!Next, Exchange!PrintAnswer, Exchange!vars
  <1>. QED  BY <1>3, <1>4

\* A call of the blocking client sends, takes, fails or does nothing of these.
LEMMA CallSteps ==
    ASSUME ClientsInv, SyncInv, UNCHANGED <<program, stage, ops, alive>>, Calls
    PROVE  ClientsInv' /\ [Exchange!Next]_(Exchange!vars)
  <1>0. TypeOK /\ LinkInv /\ SyncFits /\ buffer \in 0..MaxMessages
    BY ClientsTypes DEF ClientsInv, SyncInv, TypeOK
  <1>1. PICK kind \in Kinds, result \in {"ok", "error"} :
          Blocking!Call(kind, result) /\ Ends(kind, result)
    BY CallFacts
  <1>2. /\ pc = kind /\ UNCHANGED <<file, printed>>
        /\ pc' = IF result = "ok" THEN Blocking!NextCall[kind] ELSE "failure"
    BY <1>1 DEF Blocking!Call, Blocking!After, Blocking!Caught
  <1>3. /\ kind \in {"resolve", "connect", "handshake", "write"} => sent = 0
        /\ kind # "close" => buffer = 0
        /\ kind = "close" => buffer # 0
        /\ kind = "read" => sent = 1
        /\ printed = 0
    BY <1>0, <1>2 DEF SyncFits, Kinds
  <1>4. /\ LinkInv' /\ buffer' \in 0..MaxMessages
        /\ UNCHANGED <<peer, said>>
        /\ sent' = IF kind = "write" /\ result = "ok" THEN 1 ELSE sent
        /\ buffer' = IF kind = "read" /\ result = "ok" THEN 1 ELSE buffer
        /\ kind = "read" /\ result = "ok" => said > 0
        /\ kind = "close" /\ result = "ok" => peer = "closed" /\ inbox' = <<>>
    BY <1>0, <1>1, <1>3, EndsFacts
  <1>5. Outcome = "running"
    BY <1>2, <1>3 DEF SyncInv, Outcome, GoesOn, SyncEnded, Kinds
  <1>6. CASE result = "error"
    <2>1. pc' = "failure" /\ UNCHANGED <<sent, buffer>>  BY <1>2, <1>4, <1>6
    <2>2. SyncFits'  BY <1>2, <1>3, <2>1 DEF SyncFits
    <2>3. ClientsTypeOK'
      BY <1>0, <1>2, <1>4, <2>1, ClientsTypes, ClientsTypesNext DEF ClientsInv, TypeOK, LinkInv, Places
    <2>4. Outcome' = "failed"
      BY <1>2, <1>3, <2>1 DEF SyncInv, Outcome, GoesOn, SyncEnded
    <2>. QED
      BY <1>4, <1>5, <2>1, <2>2, <2>3, <2>4 DEF ClientsInv, SyncInv, Exchange!Next, Exchange!Fail
  <1>7. CASE result = "ok"
    <2>1. pc' = Blocking!NextCall[kind]  BY <1>2, <1>7
    <2>2. pc' \in Places \ SyncEnded /\ pc' \notin {"success", "configure", "resolve"}
      BY <2>1, NextCallFacts DEF Kinds, Places, SyncEnded
    <2>3. SyncFits'
      BY <1>2, <1>3, <1>4, <1>7, <2>1, NextCallFacts DEF SyncFits, Kinds
    <2>4. ClientsTypeOK'
      BY <1>0, <1>2, <1>4, <2>2, ClientsTypes, ClientsTypesNext DEF ClientsInv, TypeOK, LinkInv
    <2>5. Outcome' = "running"
      BY <1>2, <1>3, <2>2 DEF SyncInv, Outcome, GoesOn
    <2>6. [Exchange!Next]_(Exchange!vars)
      BY <1>3, <1>4, <1>5, <1>7, <2>5
         DEF Exchange!Next, Exchange!Send, Exchange!Take, Exchange!vars
    <2>. QED  BY <1>4, <2>3, <2>4, <2>6 DEF ClientsInv, SyncInv
  <1>. QED  BY <1>6, <1>7

-----------------------------------------------------------------------------
(* The asynchronous client.                                                *)

\* What its invariant gives, in any state and after any step of it.
LEMMA AsyncFacts ==
    ASSUME ClientsInv, AsyncInv
    PROVE  /\ IInv /\ LinkInv /\ AsyncFits /\ OneOperation
           /\ buffer \in 0..MaxMessages /\ printed \in 0..MaxMessages
           /\ ops \in Seq(Operation) /\ pc = "configure" /\ program = "async"
  BY ClientsTypes DEF ClientsInv, AsyncInv, LinkInv, IInv, TypeOK

LEMMA AsyncNext ==
    ASSUME ClientsInv, AsyncInv, UNCHANGED <<program, pc>>, Next,
           InboxFits', AsyncFits'
    PROVE  ClientsInv'
  <1>1. IInv'  BY AsyncFacts, NextInvariant
  <1>2. ClientsTypeOK'
    BY <1>1, AsyncFacts, ClientsTypesNext DEF IInv, Places
  <1>. QED  BY <1>1, <1>2, AsyncFacts DEF ClientsInv, AsyncInv, LinkInv, IInv, TypeOK

\* main() starts the session, or ends without an answer.
LEMMA MainSteps ==
    ASSUME ClientsInv, AsyncInv, UNCHANGED <<program, pc>>, Launch \/ Refuse \/ Return
    PROVE  ClientsInv' /\ [Exchange!Next]_(Exchange!vars)
  <1>0. LinkInv /\ AsyncFits /\ OneOperation /\ pc = "configure" /\ program = "async"
    BY AsyncFacts
  <1>1. UNCHANGED <<wire, peer, inbox, sent, said, file, buffer, printed>>
    BY DEF Launch, Refuse, Return
  <1>2. InboxFits'  BY <1>0, <1>1, LeftAlone
  <1>3. /\ AsyncFits'
        /\ Outcome' = Outcome \/ (Outcome = "running" /\ Outcome' = "failed")
    <2>1. CASE Launch
      <3>1. stage = "configuring" /\ ops = <<>> /\ printed = 0 /\ buffer = 0
        BY <1>0, <2>1 DEF Launch, OneOperation, AsyncFits
      <3>2. CASE file.scheme
        <4>1. ops' = <<Started("resolve")>> /\ stage' = "running"  BY <2>1, <3>2 DEF Launch
        <4>2. Len(ops') = 1 /\ ops'[1] = Started("resolve") /\ ops' # <<>>
          BY <4>1, StartedFacts DEF Kinds
        <4>3. AsyncFits'  BY <1>1, <3>1, <4>1, <4>2 DEF AsyncFits, Started
        <4>. QED  BY <1>0, <1>1, <3>1, <4>2, <4>3 DEF Outcome, GoesOn
      <3>3. CASE ~file.scheme
        <4>1. ops' = <<>> /\ stage' = "aborted"  BY <2>1, <3>1, <3>3 DEF Launch
        <4>2. AsyncFits'  BY <1>1, <3>1, <4>1 DEF AsyncFits
        <4>. QED  BY <1>0, <1>1, <3>1, <4>1, <4>2 DEF Outcome, GoesOn
      <3>. QED  BY <3>2, <3>3
    <2>2. CASE Refuse
      <3>1. stage = "configuring" /\ ops = <<>> /\ printed = 0 /\ ops' = <<>> /\ stage' = "thrown"
        BY <1>0, <2>2 DEF Refuse, OneOperation
      <3>2. AsyncFits'  BY <1>1, <3>1 DEF AsyncFits
      <3>. QED  BY <1>0, <1>1, <3>1, <3>2 DEF Outcome, GoesOn
    <2>3. CASE Return
      <3>1. stage = "running" /\ ops = <<>> /\ ops' = <<>> /\ stage' = "returned"
        BY <2>3 DEF Return
      <3>2. AsyncFits'  BY <1>0, <1>1, <3>1 DEF AsyncFits
      <3>. QED  BY <1>0, <1>1, <3>1, <3>2 DEF Outcome, GoesOn
    <2>. QED  BY <2>1, <2>2, <2>3
  <1>4. ClientsInv'  BY <1>2, <1>3, AsyncNext DEF Next
  <1>. QED  BY <1>1, <1>3, <1>4 DEF Exchange!Next, Exchange!Fail, Exchange!vars

\* A handler goes on, or ends the exchange: it prints or it fails.
LEMMA HandleSteps ==
    ASSUME ClientsInv, AsyncInv, UNCHANGED <<program, pc>>, NEW i \in 1..Len(ops), Handle(i)
    PROVE  ClientsInv' /\ [Exchange!Next]_(Exchange!vars)
  <1>0. /\ IInv /\ LinkInv /\ AsyncFits /\ pc = "configure" /\ program = "async"
        /\ ops \in Seq(Operation)
    BY AsyncFacts
  <1>1. PICK o \in Operation : o = ops[1]  BY <1>0, OnlyOne
  <1>2. i = 1 /\ Len(ops) = 1 /\ stage = "running" /\ printed = 0 /\ Fits(o)
    BY <1>0, <1>1, OnlyOne
  <1>3. UNCHANGED <<wire, peer, inbox, sent, said, file, stage, buffer>>
    BY DEF Handle, OnError, OnResolve, OnConnect, OnHandshake, OnWrite, OnRead, OnClose
  <1>4. InboxFits'  BY <1>0, <1>3, LeftAlone
  <1>5. Outcome = "running"
    BY <1>0, <1>2 DEF Outcome, GoesOn
  <1>6. ASSUME ops' = <<>>, printed' = printed
        PROVE  AsyncFits' /\ [Exchange!Next]_(Exchange!vars)
    <2>1. AsyncFits'  BY <1>2, <1>3, <1>6 DEF AsyncFits
    <2>2. Outcome' = "failed"  BY <1>0, <1>2, <1>3, <1>6 DEF Outcome, GoesOn
    <2>. QED  BY <1>3, <1>5, <2>1, <2>2 DEF Exchange!Next, Exchange!Fail
  <1>7. ASSUME NEW kind \in Kinds, Leaves(1, <<Started(kind)>>), printed' = printed,
               kind # "close" => buffer = 0
        PROVE  AsyncFits' /\ [Exchange!Next]_(Exchange!vars)
    <2>1. <<Started(kind)>> \in Seq(Operation) /\ Len(<<Started(kind)>>) = 1
            /\ <<Started(kind)>>[1] = Started(kind)
      BY StartedFacts
    <2>2. ops' = <<Started(kind)>>  BY <1>0, <1>2, <1>7, <2>1, LeavesFacts
    <2>3. Len(ops') = 1 /\ ops'[1] = Started(kind) /\ ops' # <<>>  BY <2>1, <2>2
    <2>4. AsyncFits'  BY <1>2, <1>3, <1>7, <2>3, StartedFacts DEF AsyncFits
    <2>5. Outcome' = "running"  BY <1>0, <1>2, <1>7, <2>3 DEF Outcome, GoesOn
    <2>. QED  BY <1>3, <1>5, <2>4, <2>5 DEF Exchange!vars
  <1>8. ASSUME Leaves(1, <<>>) PROVE ops' = <<>>
    <2>1. <<>> \in Seq(Operation)  OBVIOUS
    <2>. QED  BY <1>0, <1>2, <1>8, <2>1, LeavesFacts
  <1>9. o.kind \notin {"read", "close"} => buffer = 0
    BY <1>0, <1>1, <1>2 DEF AsyncFits
  <1>10. AsyncFits' /\ [Exchange!Next]_(Exchange!vars)
    <2>1. CASE OnError(i)  BY <1>2, <1>6, <1>8, <2>1 DEF OnError, AfterError
    <2>2. CASE OnResolve(i)
      BY <1>1, <1>2, <1>7, <1>9, <2>2 DEF OnResolve, Handling, Kinds
    <2>3. CASE OnConnect(i)
      BY <1>1, <1>2, <1>7, <1>9, <2>3 DEF OnConnect, Handling, Kinds
    <2>4. CASE OnHandshake(i)
      BY <1>1, <1>2, <1>7, <1>9, <2>4 DEF OnHandshake, Handling, Kinds
    <2>5. CASE OnWrite(i)
      BY <1>1, <1>2, <1>7, <1>9, <2>5 DEF OnWrite, AfterWrite, Handling, Kinds
    <2>6. CASE OnRead(i)
      BY <1>1, <1>2, <1>7, <2>6 DEF OnRead, Handling, Kinds
    <2>7. CASE OnClose(i)
      <3>1. printed' = buffer /\ ops' = <<>>  BY <1>2, <1>8, <2>7 DEF OnClose
      <3>2. o.kind = "close" /\ o.state = "ok"  BY <1>1, <1>2, <2>7 DEF OnClose, Handling
      <3>3. buffer # 0 /\ peer = "closed" /\ inbox = <<>>
        BY <1>0, <1>1, <1>2, <3>2 DEF Fits, AsyncFits
      <3>4. AsyncFits'  BY <1>2, <1>3, <3>1, <3>3 DEF AsyncFits
      <3>5. Outcome' = "printed"  BY <3>1, <3>3 DEF Outcome
      <3>. QED  BY <1>3, <1>5, <3>3, <3>4, <3>5 DEF Exchange!Next, Exchange!PrintAnswer
    <2>. QED  BY <2>1, <2>2, <2>3, <2>4, <2>5, <2>6, <2>7 DEF Handle
  <1>11. ClientsInv'  BY <1>4, <1>10, AsyncNext DEF Next
  <1>. QED  BY <1>10, <1>11

\* An operation that ends sends, takes or does neither.
LEMMA CompleteSteps ==
    ASSUME ClientsInv, AsyncInv, UNCHANGED <<program, pc>>, NEW i \in 1..Len(ops), Complete(i)
    PROVE  ClientsInv' /\ [Exchange!Next]_(Exchange!vars)
  <1>0. /\ IInv /\ LinkInv /\ AsyncFits /\ pc = "configure" /\ program = "async"
        /\ ops \in Seq(Operation) /\ buffer \in 0..MaxMessages
    BY AsyncFacts
  <1>1. PICK o \in Operation : o = ops[1]  BY <1>0, OnlyOne
  <1>2. i = 1 /\ Len(ops) = 1 /\ stage = "running" /\ printed = 0 /\ Fits(o)
    BY <1>0, <1>1, OnlyOne
  <1>3. PICK result \in {"ok", "error"} :
          Ends(o.kind, result) /\ ops' = [ops EXCEPT ![1].state = result]
    BY <1>1, <1>2 DEF Complete
  <1>4. o.state = "pending" /\ UNCHANGED <<stage, printed>> /\ o.kind \in Kinds
    BY <1>1, <1>2 DEF Complete, Operation
  <1>5. /\ o.kind \in {"resolve", "connect", "handshake", "write"} => sent = 0
        /\ o.kind # "close" => buffer = 0
        /\ o.kind = "close" => buffer # 0
        /\ o.kind = "read" => sent = 1
    BY <1>0, <1>1, <1>2, <1>4 DEF Fits, AsyncFits
  <1>6. /\ LinkInv' /\ UNCHANGED <<peer, said>>
        /\ sent' = IF o.kind = "write" /\ result = "ok" THEN 1 ELSE sent
        /\ buffer' = IF o.kind = "read" /\ result = "ok" THEN 1 ELSE buffer
        /\ o.kind = "read" /\ result = "ok" => said > 0
        /\ o.kind = "close" /\ result = "ok" => peer = "closed" /\ inbox' = <<>>
    BY <1>0, <1>3, <1>4, <1>5, EndsFacts
  <1>7. /\ Len(ops') = 1 /\ ops' # <<>>
        /\ ops'[1].kind = o.kind /\ ops'[1].state = result
    <2>1. PICK p \in Operation : p = [o EXCEPT !.state = result]  BY DEF Operation
    <2>2. p.kind = o.kind /\ p.state = result  BY <2>1 DEF Operation
    <2>3. ops' = [ops EXCEPT ![1] = p]  BY <1>1, <1>3, <2>1
    <2>4. ops \in Seq(Operation) /\ Len(ops) = 1  BY <1>0, <1>2
    <2>5. Len(ops') = 1 /\ ops'[1] = p  BY <2>3, <2>4
    <2>. QED  BY <2>2, <2>5
  <1>8. AsyncFits'  BY <1>2, <1>4, <1>5, <1>6, <1>7 DEF AsyncFits
  <1>9. ClientsInv'  BY <1>6, <1>8, AsyncNext DEF Next, LinkInv
  <1>10. Outcome = "running" /\ Outcome' = "running"
    BY <1>0, <1>2, <1>4, <1>7 DEF Outcome, GoesOn
  <1>11. [Exchange!Next]_(Exchange!vars)
    BY <1>5, <1>6, <1>10 DEF Exchange!Next, Exchange!Send, Exchange!Take, Exchange!vars
  <1>. QED  BY <1>9, <1>11

\* What the peer does is not seen until a call or an operation ends.
LEMMA SaySteps ==
    ASSUME LinkInv, PeerAnswers \/ Peer, UNCHANGED <<buffer, printed>>, Outcome' = Outcome
    PROVE  [Exchange!Next]_(Exchange!vars)
  <1>1. sent' = sent  BY PeerFits
  <1>2. said' \in {said, said + 1}  BY PeerFits
  <1>. QED  BY <1>1, <1>2 DEF Exchange!Next, Exchange!Say, Exchange!vars

\* A peer that has closed stays closed, and its frames are only taken.
LEMMA ClosedFacts ==
    ASSUME LinkInv, PeerAnswers \/ Peer, peer = "closed", inbox = <<>>
    PROVE  peer' = "closed" /\ inbox' = <<>>
  BY DEF Peer, PeerAnswers, PeerSpeaks, PeerCloses, PeerCuts

LEMMA AsyncPeerSteps ==
    ASSUME ClientsInv, AsyncInv, UNCHANGED <<program, pc>>, PeerActs
    PROVE  ClientsInv' /\ [Exchange!Next]_(Exchange!vars)
  <1>0. LinkInv /\ AsyncFits  BY AsyncFacts
  <1>1. (PeerAnswers \/ Peer) /\ UNCHANGED <<file, stage, ops, alive, buffer, printed>>
    BY DEF PeerActs, AnswerHandshake, ownVars
  <1>2. InboxFits'  BY <1>0, <1>1, PeerFits DEF LinkInv
  <1>3. AsyncFits'  BY <1>0, <1>1, ClosedFacts DEF AsyncFits
  <1>4. Outcome' = Outcome  BY <1>1 DEF Outcome, GoesOn
  <1>5. ClientsInv'  BY <1>2, <1>3, AsyncNext DEF Next
  <1>. QED  BY <1>0, <1>1, <1>4, <1>5, SaySteps

LEMMA SyncPeerSteps ==
    ASSUME ClientsInv, SyncInv, UNCHANGED <<program, stage, ops, alive>>, Blocking!PeerActs
    PROVE  ClientsInv' /\ [Exchange!Next]_(Exchange!vars)
  <1>0. LinkInv /\ SyncFits /\ TypeOK  BY ClientsTypes DEF ClientsInv, SyncInv
  <1>1. (PeerAnswers \/ Peer) /\ UNCHANGED <<file, pc, buffer, printed>>
    BY SameLink DEF Blocking!PeerActs
  <1>2. LinkInv' /\ sent' = sent  BY <1>0, <1>1, PeerFits
  <1>3. SyncFits'  BY <1>0, <1>1, <1>2, ClosedFacts DEF SyncFits
  <1>4. Outcome' = Outcome  BY <1>1 DEF Outcome, GoesOn
  <1>5. TypeOK'  BY <1>0, <1>1, <1>2 DEF TypeOK, LinkInv
  <1>6. ClientsTypeOK'
    BY <1>1, <1>5, ClientsTypes, ClientsTypesNext DEF ClientsInv
  <1>. QED  BY <1>0, <1>1, <1>2, <1>3, <1>4, <1>6, SaySteps DEF ClientsInv, SyncInv

-----------------------------------------------------------------------------
(* The theorems.                                                           *)

LEMMA ClientsInitInv == ClientsInit => ClientsInv /\ Exchange!Init
  <1>. SUFFICES ASSUME ClientsInit PROVE ClientsInv /\ Exchange!Init  OBVIOUS
  <1>1. IInv  BY InitInvariant DEF ClientsInit
  <1>2. ClientsTypeOK  BY <1>1, ClientsTypes DEF ClientsInit, IInv, Places
  <1>3. /\ inbox = <<>> /\ said = 0 /\ sent = 0 /\ buffer = 0 /\ printed = 0
        /\ ops = <<>> /\ stage = "configuring" /\ ~alive /\ pc = "configure"
        /\ program \in {"async", "sync"}
    BY DEF ClientsInit, Init, LinkInit
  <1>4. InboxFits  BY <1>3 DEF InboxFits
  <1>5. AsyncFits /\ SyncFits  BY <1>3 DEF AsyncFits, SyncFits
  <1>6. ClientsInv
    BY <1>1, <1>2, <1>3, <1>4, <1>5 DEF ClientsInv, IInv, TypeOK, LinkInv, AsyncInv, SyncInv
  <1>7. Outcome = "running"  BY <1>3 DEF Outcome, GoesOn, SyncEnded
  <1>. QED  BY <1>3, <1>6, <1>7 DEF Exchange!Init

LEMMA ClientsSteps ==
    ASSUME ClientsInv, [ClientsNext]_clientsVars
    PROVE  ClientsInv' /\ [Exchange!Next]_(Exchange!vars)
  <1>1. CASE Async
    <2>1. program = "async" /\ UNCHANGED <<program, pc>> /\ Next  BY <1>1 DEF Async, Runs
    <2>2. AsyncInv  BY <2>1 DEF ClientsInv, SyncInv
    <2>3. ASSUME NEW i \in 1..Len(ops), Handle(i) \/ Complete(i)
          PROVE  ClientsInv' /\ [Exchange!Next]_(Exchange!vars)
      BY <2>1, <2>2, <2>3, HandleSteps, CompleteSteps
    <2>. QED  BY <2>1, <2>2, <2>3, MainSteps, AsyncPeerSteps DEF Next
  <1>2. CASE Sync
    <2>1. program = "sync" /\ UNCHANGED <<program, stage, ops, alive>> /\ Blocking!Next
      BY <1>2 DEF Sync, Runs
    <2>2. SyncInv  BY <2>1 DEF ClientsInv, AsyncInv
    <2>. QED
      BY <2>1, <2>2, OwnSteps, CallSteps, SyncPeerSteps
         DEF Blocking!Next, Blocking!Main, Calls
  <1>3. CASE UNCHANGED clientsVars
    <2>1. /\ UNCHANGED <<wire, peer, inbox, sent, said, file, stage, ops, alive, buffer,
                         printed, program, pc>>
      BY <1>3 DEF clientsVars
    <2>2. TypeOK'  BY <2>1, ClientsTypes DEF ClientsInv, TypeOK, LinkTypeOK
    <2>3. ClientsTypeOK'  BY <2>1, <2>2, ClientsTypes, ClientsTypesNext DEF ClientsInv
    <2>4. LinkInv'  BY <2>1 DEF ClientsInv, LinkInv, LinkTypeOK, Numbered, InboxFits
    <2>5. AsyncInv' \/ SyncInv'
      BY <2>1 DEF ClientsInv, AsyncInv, SyncInv, AsyncFits, SyncFits, OneOperation, Fits
    <2>6. Outcome' = Outcome  BY <2>1 DEF Outcome, GoesOn
    <2>. QED  BY <2>1, <2>3, <2>4, <2>5, <2>6 DEF ClientsInv, Exchange!vars
  <1>. QED  BY <1>1, <1>2, <1>3 DEF ClientsNext

\* The inductive invariant of both clients.
THEOREM ClientsInvariant == ClientsSpec => []ClientsInv
  <1>1. ClientsInit => ClientsInv  BY ClientsInitInv
  <1>2. ClientsInv /\ [ClientsNext]_clientsVars => ClientsInv'  BY ClientsSteps
  <1>. QED  BY <1>1, <1>2, PTL DEF ClientsSpec

\* The types, of both clients.
THEOREM ClientsTypeCorrect == ClientsSpec => []ClientsTypeOK
  <1>1. ClientsInv => ClientsTypeOK  BY DEF ClientsInv
  <1>. QED  BY <1>1, ClientsInvariant, PTL

\* An answer is printed only when the peer has closed its side and nothing it
\* said is unread (main.cpp:176-184; 184-189 of the blocking client).
THEOREM PrintsOnlyWhenClosed == ClientsSpec => []PrintedAfterClose
  <1>1. ClientsInv => PrintedAfterClose
    BY DEF ClientsInv, AsyncInv, SyncInv, AsyncFits, SyncFits, PrintedAfterClose
  <1>. QED  BY <1>1, ClientsInvariant, PTL

\* Both clients implement the exchange, and the exit status of the blocking one
\* tells whether it has printed an answer.
THEOREM SameExchange == ClientsSpec => ImplementsExchange
  <1>1. ClientsInit => Exchange!Init  BY ClientsInitInv
  <1>2. ClientsInv /\ [ClientsNext]_clientsVars => [Exchange!Next]_(Exchange!vars)
    BY ClientsSteps
  <1>3. ClientsInv => (program = "sync" => (pc = "success" <=> printed # 0))
    BY DEF ClientsInv, AsyncInv, SyncInv, SyncFits
  <1>. QED
    BY <1>1, <1>2, <1>3, ClientsInvariant, PTL
       DEF ClientsSpec, ImplementsExchange, Exchange!Spec
===============================================================================
