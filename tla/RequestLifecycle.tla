--------------------------- MODULE RequestLifecycle ---------------------------
(***************************************************************************)
(* What a pool of HTTP workers promises, without sockets, handlers or      *)
(* timers: a worker takes a client that no other worker serves, receives   *)
(* its one request, answers it once and lets it go; and whatever the       *)
(* client does, it is let go early only when it has failed, and otherwise  *)
(* only when its time is over.  HttpWorker implements this module.         *)
(***************************************************************************)
EXTENDS Naturals

CONSTANTS Workers, Clients, None, Timeout

VARIABLES
    client,     \* the client a worker serves, or None
    phase,      \* how far it is with that client
    age         \* how long it has been served

vars == <<client, phase, age>>

Phases == {"idle", "receiving", "requested", "responding", "over"}

\* Types, and an idle worker is one that serves nobody.
TypeOK ==
    /\ client \in [Workers -> Clients \cup {None}]
    /\ phase \in [Workers -> Phases]
    /\ age \in [Workers -> 0..Timeout]
    /\ \A w \in Workers : phase[w] = "idle" <=> client[w] = None

Init ==
    /\ client = [w \in Workers |-> None]
    /\ phase = [w \in Workers |-> "idle"]
    /\ age = [w \in Workers |-> 0]

\* An idle worker begins to serve a client that nobody serves.
Take(w, c) ==
    /\ phase[w] = "idle"
    /\ c \notin {client[v] : v \in Workers}
    /\ client' = [client EXCEPT ![w] = c]
    /\ phase' = [phase EXCEPT ![w] = "receiving"]
    /\ UNCHANGED age

Advance(w, from, to) ==
    /\ phase[w] = from
    /\ phase' = [phase EXCEPT ![w] = to]
    /\ UNCHANGED <<client, age>>

Leave(w) ==
    /\ client' = [client EXCEPT ![w] = None]
    /\ phase' = [phase EXCEPT ![w] = "idle"]
    /\ age' = [age EXCEPT ![w] = 0]

\* The request has come, or it never will.
Receive(w) == Advance(w, "receiving", "requested") \/ Advance(w, "receiving", "over")

\* The response, the only one, is begun; it has been written or cannot be.
Answer(w) == Advance(w, "requested", "responding")
Finish(w) == Advance(w, "responding", "over")

\* A client is let go when it is done with, and in any phase when its time is up.
Release(w) == phase[w] = "over" /\ Leave(w)
Expire(w) == phase[w] # "idle" /\ age[w] = Timeout /\ Leave(w)

\* Time passes for every client alike.
Tick ==
    /\ age' = [w \in Workers |-> IF client[w] # None /\ age[w] < Timeout
                                   THEN age[w] + 1 ELSE age[w]]
    /\ UNCHANGED <<client, phase>>

Next ==
    \/ \E w \in Workers :
          \/ \E c \in Clients : Take(w, c)
          \/ Receive(w) \/ Answer(w) \/ Finish(w) \/ Release(w) \/ Expire(w)
    \/ Tick

Spec == Init /\ [][Next]_vars
===============================================================================
