--------------------------- MODULE WebSocketClients ---------------------------
(***************************************************************************)
(* The asynchronous client and the blocking one against the same peer: one *)
(* of the two programs is run, on any configuration file, and both are     *)
(* held to the same promise, WebSocketExchange.                            *)
(***************************************************************************)
EXTENDS WebSocketSession

VARIABLES
    program,    \* the one that runs: "async" or "sync"
    pc          \* where main() of the blocking client is

Blocking == INSTANCE WebSocketClient

clientsVars == <<wire, peer, inbox, sent, said, file, stage, ops, alive, buffer,
                 printed, program, pc>>

ClientsTypeOK == TypeOK /\ Blocking!TypeOK /\ program \in {"async", "sync"}

ClientsInit == Init /\ pc = "configure" /\ program \in {"async", "sync"}

Runs(which) == program = which /\ UNCHANGED program

Async == Runs("async") /\ Next /\ UNCHANGED pc
Sync == Runs("sync") /\ Blocking!Next /\ UNCHANGED <<stage, ops, alive>>

ClientsNext == Async \/ Sync

ClientsSpec == ClientsInit /\ [][ClientsNext]_clientsVars

\* The steps each program takes on its own; nothing is assumed of the peer.
MainGoesOn == Runs("async") /\ (Launch \/ Refuse \/ Return) /\ UNCHANGED pc
HandlerRuns == Runs("async") /\ (\E i \in 1..Len(ops) : Handle(i)) /\ UNCHANGED pc
OperationEnds == Runs("async") /\ (\E i \in 1..Len(ops) : Complete(i)) /\ UNCHANGED pc
CallEnds == Runs("sync") /\ Blocking!Main /\ UNCHANGED <<stage, ops, alive>>

FairClients ==
    /\ ClientsSpec
    /\ WF_clientsVars(MainGoesOn) /\ WF_clientsVars(HandlerRuns)
    /\ WF_clientsVars(OperationEnds) /\ WF_clientsVars(CallEnds)

-----------------------------------------------------------------------------
(* Properties.                                                             *)

SyncEnded == {"success", "failure", "aborted"}

GoesOn ==
    \/ program = "async" /\ (stage = "configuring" \/ ops # <<>>)
    \/ program = "sync" /\ pc \notin SyncEnded

Outcome ==
    IF printed # 0 THEN "printed" ELSE IF GoesOn THEN "running" ELSE "failed"

Exchange == INSTANCE WebSocketExchange WITH answer <- buffer, outcome <- Outcome

\* Both programs implement the exchange: one message out, the peer's first one
\* in, printed only after that, or a failure that prints nothing; and the exit
\* status of the blocking one is EXIT_SUCCESS exactly when an answer was printed
\* (its main.cpp:189-198).
ImplementsExchange ==
    Exchange!Spec /\ [](program = "sync" => (pc = "success" <=> printed # 0))

\* "If we get here then the connection is closed gracefully" (main.cpp:180, and
\* 186 of the blocking client): an answer is printed only when the peer has
\* closed its side after it and nothing it said is still unread.
PrintedAfterClose == printed # 0 => peer = "closed" /\ inbox = <<>>

\* "The call will return when the socket is closed." (main.cpp:286): once the
\* peer has closed its side or cut the connection, even before it is asked, no
\* handler and no call waits for a frame that cannot come.
ReturnsWhenClosed == peer = "closed" ~> stage = "returned" \/ pc \in SyncEnded
===============================================================================
