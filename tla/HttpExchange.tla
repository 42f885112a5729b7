----------------------------- MODULE HttpExchange -----------------------------
(***************************************************************************)
(* The workers of HttpWorker with real clients: each client is a run of    *)
(* example/beastHTTPClient, which connects, writes one GET request, reads  *)
(* the response and shuts its socket down, each call blocking until it     *)
(* ends or throws.  The client has no timeouts: only the server's deadline *)
(* can release it.  A connection is named by its client.                   *)
(***************************************************************************)
EXTENDS HttpWorker

VARIABLES
    call,       \* the call a client is in, or how its main() has ended
    request,    \* how much of its request the network has taken
    reply       \* how much of the response the network has taken

clientVars == <<call, request, reply>>
allVars == <<ops, waits, sock, buffer, parser, message, expiry, backlog, started,
             age, call, request, reply>>

Amount == {"none", "part", "whole"}

Ended == {"success", "failure"}

ExchangeTypeOK ==
    /\ TypeOK
    /\ call \in [Clients -> {"connect", "write", "read", "shutdown"} \cup Ended]
    /\ request \in [Clients -> Amount]
    /\ reply \in [Clients -> Amount]

\* The server has closed the connection of c, or never took it.
Gone(c) == c \notin ToSet(backlog) \cup Held

-----------------------------------------------------------------------------
(* The client.  An exception ends it with EXIT_FAILURE.                    *)

Goes(c, next) == call' = [call EXCEPT ![c] = next]

ClientConnects(c) ==
    /\ call[c] = "connect"
    /\ Connect(c)
    /\ Goes(c, "write")
    /\ request' = [request EXCEPT ![c] = "none"]
    /\ reply' = [reply EXCEPT ![c] = "none"]

\* An option is missing, the name is not resolved, or the connection refused.
ClientConnectFails(c) ==
    /\ call[c] = "connect"
    /\ Goes(c, "failure")
    /\ UNCHANGED <<vars, request, reply>>

\* The request leaves in one piece or in two, unless the server has gone.
ClientWrites(c) ==
    /\ call[c] = "write"
    /\ \/ /\ request[c] = "none"
          /\ request' = [request EXCEPT ![c] = "part"]
          /\ UNCHANGED call
       \/ /\ request' = [request EXCEPT ![c] = "whole"]
          /\ Goes(c, "read")
       \/ /\ Gone(c)
          /\ Goes(c, "failure")
          /\ UNCHANGED request
    /\ UNCHANGED <<vars, reply>>

\* http::read returns a whole response, or fails at the end of the stream.
ClientReads(c) ==
    /\ call[c] = "read"
    /\ \/ reply[c] = "whole" /\ Goes(c, "shutdown")
       \/ reply[c] # "whole" /\ Gone(c) /\ Goes(c, "failure")
    /\ UNCHANGED <<vars, request, reply>>

\* shutdown: "not_connected happens sometimes so don't bother reporting it".
ClientShutsDown(c) ==
    /\ call[c] = "shutdown"
    /\ \E error \in {"none", "not_connected", "other"} :
          Goes(c, IF error = "other" THEN "failure" ELSE "success")
    /\ UNCHANGED <<vars, request, reply>>

\* The program is run again.
ClientRestarts(c) ==
    /\ call[c] \in Ended
    /\ Goes(c, "connect")
    /\ UNCHANGED <<vars, request, reply>>

Client(c) ==
    \/ ClientConnects(c) \/ ClientConnectFails(c) \/ ClientWrites(c)
    \/ ClientReads(c) \/ ClientShutsDown(c)

-----------------------------------------------------------------------------
(* The server.  Its reads get what the clients have sent.                  *)

\* Bytes of the request arrive, all of it or a part; the client sends one GET.
RequestArrives(w, i) ==
    /\ \/ /\ ReadProgresses(w, i)
          /\ request[ops[w][i].conn] # "none"
       \/ /\ ReadCompletes(w, i)
          /\ parser'[w].ask # "other_method"
          /\ ops[w][i].conn \in parser'[w].from => request[ops[w][i].conn] = "whole"
          /\ buffer'[w] = {}
    /\ UNCHANGED clientVars

\* The network takes the response, or the connection breaks before it has it all.
ReplyLeaves(w, i) ==
    /\ WriteEnds(w, i)
    /\ \E amount \in Amount :
          /\ amount = "whole" <=> ops'[w][i].state = "ok"
          /\ reply' = [reply EXCEPT ![ops[w][i].conn] = amount]
    /\ UNCHANGED <<call, request>>

\* All else is as in HttpWorker.
ServerStarts(w) == Start(w) /\ UNCHANGED clientVars
ServerHandles(w) == (\E i \in 1..Len(ops[w]) : Handle(w, i)) /\ UNCHANGED clientVars
ServerTimer(w) == (\E i \in 1..Len(waits[w]) : OnTimer(w, i)) /\ UNCHANGED clientVars
ServerTimerFires(w) ==
    (\E i \in 1..Len(waits[w]) : TimerFires(w, i)) /\ UNCHANGED clientVars
ServerAccepts ==
    /\ \E w \in Workers : \E i \in 1..Len(ops[w]) : AcceptSucceeds(w, i)
    /\ UNCHANGED clientVars
ServerFails ==
    /\ \E w \in Workers : \E i \in 1..Len(ops[w]) : AcceptFails(w, i) \/ ReadFails(w, i)
    /\ UNCHANGED clientVars
Time == Tick /\ UNCHANGED clientVars

ExchangeInit ==
    /\ Init
    /\ call = [c \in Clients |-> "connect"]
    /\ request = [c \in Clients |-> "none"]
    /\ reply = [c \in Clients |-> "none"]

ExchangeNext ==
    \/ \E c \in Clients : Client(c) \/ ClientRestarts(c)
    \/ \E w \in Workers :
          ServerStarts(w) \/ ServerHandles(w) \/ ServerTimer(w) \/ ServerTimerFires(w)
    \/ ServerAccepts \/ ServerFails \/ Time
    \/ \E w \in Workers : \E i \in 1..Len(ops[w]) : RequestArrives(w, i) \/ ReplyLeaves(w, i)

ExchangeSpec == ExchangeInit /\ [][ExchangeNext]_allVars

\* The fairness of HttpWorker, and a client goes on when its call can end.  The
\* network may keep a request or a response from arriving.
ExchangeFairness ==
    /\ \A w \in Workers :
         /\ WF_allVars(ServerStarts(w)) /\ WF_allVars(ServerHandles(w))
         /\ WF_allVars(ServerTimer(w)) /\ WF_allVars(ServerTimerFires(w))
    /\ WF_allVars(Time) /\ SF_allVars(ServerAccepts)
    /\ \A c \in Clients : WF_allVars(Client(c))

FairExchange == ExchangeSpec /\ ExchangeFairness

-----------------------------------------------------------------------------
(* Properties.                                                             *)

\* Nobody is answered before his own request is whole, whatever an earlier
\* client has left behind (Http.cpp:27, 48-71), and a client that ends well has
\* had a whole answer (beastHTTPClient/src/main.cpp:124-148).
AnsweredAfterAsking ==
    \A c \in Clients :
        /\ reply[c] # "none" => request[c] = "whole"
        /\ call[c] = "success" => reply[c] = "whole"

\* Every client returns, although it has no time-out of its own: it gets an
\* answer, or the server's deadline closes its connection (Http.cpp:211-229),
\* also while it still waits in the backlog for a worker.
ClientReturns ==
    \A c \in Clients : call[c] \in {"write", "read"} ~> call[c] \in Ended
===============================================================================
