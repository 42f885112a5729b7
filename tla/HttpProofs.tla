------------------------------ MODULE HttpProofs ------------------------------
(***************************************************************************)
(* Proofs about HttpWorker and HttpExchange, for any workers, any clients  *)
(* and any timeout.  The invariant IInv of HttpWorker is inductive; its    *)
(* parts give the safety properties, and with LInv that every connection   *)
(* goes through the states of RequestLifecycle.  EInv of HttpExchange adds *)
(* what the clients have sent: none is answered before it has asked.       *)
(***************************************************************************)
EXTENDS HttpExchange, TLAPS

-----------------------------------------------------------------------------
(* Facts about the data.                                                   *)

\* What the operators on outstanding operations do to a sequence of one
\* element, the only kind that a started worker has.
LEMMA OnlyOne ==
    /\ \A x : RemoveAt(<<x>>, 1) = <<>>
    /\ \A x : Append(<<>>, x) = <<x>>
    /\ \A x, y : [<<x>> EXCEPT ![1] = y] = <<y>>
    /\ \A x : CancelAll(<<x>>) = <<Cancelled(x)>>
    /\ CancelAll(<<>>) = <<>>
    /\ AbortWaits(<<>>) = <<>>
    /\ \A x : AbortWaits(<<x>>) = <<IF x = "armed" THEN "aborted" ELSE x>>
    /\ \A x : WaitAgain(<<>>) = <<"armed">>
  <1>1. \A x : RemoveAt(<<x>>, 1) = <<>>
    BY DEF RemoveAt
  <1>2. \A x, y : [<<x>> EXCEPT ![1] = y] = <<y>>
    OBVIOUS
  <1>3. \A x : CancelAll(<<x>>) = <<Cancelled(x)>>
    BY DEF CancelAll
  <1>4. \A x : AbortWaits(<<x>>) = <<IF x = "armed" THEN "aborted" ELSE x>>
    BY DEF AbortWaits
  <1>5. CancelAll(<<>>) = <<>> /\ AbortWaits(<<>>) = <<>>
    BY DEF CancelAll, AbortWaits
  <1> QED BY <1>1, <1>2, <1>3, <1>4, <1>5 DEF WaitAgain

\* The operations a handler can start, and what cancelling does to one.
LEMMA OperationTypes ==
    /\ PendingAccept \in Operation
    /\ \A c \in Clients \cup {None}, k \in {"read"} \cup Writes : OpOn(k, c) \in Operation
    /\ \A o \in Operation : Cancelled(o) \in Operation
    /\ \A o \in Operation, s \in {"pending", "ok", "error"} :
          WithState(o, s) \in Operation
  BY DEF PendingAccept, Operation, OpOn, Cancelled, WithState, Writes

\* A worker with an operation outstanding has been started and has just that
\* one, and one wait.
LEMMA TheOperation ==
    ASSUME TypeOK, NEW w \in Workers, WorkerInv(w)
    PROVE  /\ \A i \in 1..Len(ops[w]) :
                 /\ i = 1 /\ w \in started /\ ops[w][i] \in Operation
                 /\ ops[w] = <<ops[w][i]>>
                 /\ Fits(ops[w][i], sock[w], buffer[w], parser[w], message[w])
                 /\ \E t \in Wait : waits[w] = <<t>>
           /\ \A i \in 1..Len(waits[w]) :
                 /\ i = 1 /\ w \in started /\ waits[w][i] \in Wait
                 /\ waits[w] = <<waits[w][i]>>
                 /\ \E o \in Operation :
                      /\ ops[w] = <<o>>
                      /\ Fits(o, sock[w], buffer[w], parser[w], message[w])
  <1>1. CASE w \notin started
    BY <1>1 DEF WorkerInv
  <1>2. CASE w \in started
    <2>1. PICK o \in Operation, t \in Wait :
             /\ ops[w] = <<o>> /\ waits[w] = <<t>>
             /\ Fits(o, sock[w], buffer[w], parser[w], message[w])
      BY <1>2 DEF WorkerInv
    <2>2. \A i \in 1..Len(<<o>>) : i = 1 /\ <<o>>[i] = o
      OBVIOUS
    <2>3. \A i \in 1..Len(<<t>>) : i = 1 /\ <<t>>[i] = t
      OBVIOUS
    <2> QED BY <1>2, <2>1, <2>2, <2>3
  <1> QED BY <1>1, <1>2

-----------------------------------------------------------------------------
(* Every step but Connect and Tick changes one worker only, and leaves it  *)
(* with one operation and one wait.                                        *)

\* The step changes w only, and this is what it leaves there.
Becomes(w, o, t, s, b, p, m, e, a) ==
    /\ started' = started \cup {w}
    /\ ops' = [ops EXCEPT ![w] = <<o>>]
    /\ waits' = [waits EXCEPT ![w] = <<t>>]
    /\ sock' = [sock EXCEPT ![w] = s]
    /\ buffer' = [buffer EXCEPT ![w] = b]
    /\ parser' = [parser EXCEPT ![w] = p]
    /\ message' = [message EXCEPT ![w] = m]
    /\ expiry' = [expiry EXCEPT ![w] = e]
    /\ age' = [age EXCEPT ![w] = a]
    /\ backlog' \in Seq(Clients)

LEMMA OneWorkerStep ==
    ASSUME IInv, NEW w \in Workers,
           NEW o \in Operation, NEW t \in Wait, NEW s \in Clients \cup {None},
           NEW b \in SUBSET Clients, NEW p \in Request \cup {None},
           NEW m \in SUBSET UNION {Parts[k] : k \in Writes},
           NEW e \in 0..Never, NEW a \in 0..Timeout,
           Becomes(w, o, t, s, b, p, m, e, a),
           Fits(o, s, b, p, m),
           s # None => e = Timeout - a
    PROVE  IInv'
  <1> USE DEF Becomes
  <1>1. TypeOK'
    <2>1. <<o>> \in Seq(Operation) /\ <<t>> \in Seq(Wait)
      OBVIOUS
    <2> QED BY <2>1 DEF IInv, TypeOK
  <1>2. ASSUME NEW v \in Workers PROVE WorkerInv(v)'
    <2>1. CASE v = w
      <3>1. /\ ops'[v] = <<o>> /\ waits'[v] = <<t>>
            /\ sock'[v] = s /\ buffer'[v] = b /\ parser'[v] = p /\ message'[v] = m
            /\ v \in started'
        BY <2>1 DEF IInv, TypeOK
      <3> QED BY <3>1 DEF WorkerInv
    <2>2. CASE v # w
      <3>1. /\ ops'[v] = ops[v] /\ waits'[v] = waits[v]
            /\ sock'[v] = sock[v] /\ buffer'[v] = buffer[v]
            /\ parser'[v] = parser[v] /\ message'[v] = message[v]
            /\ v \in started' <=> v \in started
        BY <2>2 DEF IInv, TypeOK
      <3> QED BY <3>1 DEF IInv, WorkerInv
    <2> QED BY <2>1, <2>2
  <1>3. DeadlineIsItsOwn'
    BY DEF IInv, TypeOK, DeadlineIsItsOwn
  <1> QED BY <1>1, <1>2, <1>3 DEF IInv

-----------------------------------------------------------------------------
(* Every action keeps the invariant.                                       *)

\* The values a step of w may leave alone, in the form OneWorkerStep takes them.
LEMMA Unchanged ==
    ASSUME IInv, NEW w \in Workers
    PROVE  /\ ops = [ops EXCEPT ![w] = ops[w]]
           /\ waits = [waits EXCEPT ![w] = waits[w]]
           /\ sock = [sock EXCEPT ![w] = sock[w]] /\ sock[w] \in Clients \cup {None}
           /\ buffer = [buffer EXCEPT ![w] = buffer[w]] /\ buffer[w] \in SUBSET Clients
           /\ parser = [parser EXCEPT ![w] = parser[w]]
           /\ parser[w] \in Request \cup {None}
           /\ message = [message EXCEPT ![w] = message[w]]
           /\ message[w] \in SUBSET UNION {Parts[k] : k \in Writes}
           /\ expiry = [expiry EXCEPT ![w] = expiry[w]] /\ expiry[w] \in 0..Never
           /\ age = [age EXCEPT ![w] = age[w]] /\ age[w] \in 0..Timeout
           /\ backlog \in Seq(Clients)
           /\ sock[w] # None => expiry[w] = Timeout - age[w]
           /\ 0 \in 0..Timeout /\ 0 \in 0..Never /\ Timeout \in 0..Never /\ Never \in 0..Never
           /\ {} \in SUBSET UNION {Parts[k] : k \in Writes}
           /\ "armed" \in Wait /\ "aborted" \in Wait /\ "fired" \in Wait
           /\ PendingAccept \in Operation /\ Fits(PendingAccept, None, {}, parser[w], {})
  <1>1. Fits(PendingAccept, None, {}, parser[w], {})
    BY DEF Fits, PendingAccept, Writes
  <1>2. Timeout \in Nat
    BY WorkerAssumption
  <1> QED BY <1>1, <1>2, OperationTypes
          DEF IInv, TypeOK, DeadlineIsItsOwn, Never, Wait

\* What is known of the operation a handler, or the kernel, works on.
LEMMA AtOperation ==
    ASSUME IInv, NEW w \in Workers, NEW i \in 1..Len(ops[w])
    PROVE  /\ i = 1 /\ started = started \cup {w}
           /\ ops[w][1] \in Operation /\ ops[w] = <<ops[w][1]>>
           /\ RemoveAt(ops[w], 1) = <<>>
           /\ Fits(ops[w][1], sock[w], buffer[w], parser[w], message[w])
           /\ waits[w][1] \in Wait /\ waits[w] = <<waits[w][1]>>
  BY TheOperation, OnlyOne DEF IInv

\* What is known of the wait whose handler runs.
LEMMA AtWait ==
    ASSUME IInv, NEW w \in Workers, NEW i \in 1..Len(waits[w])
    PROVE  /\ i = 1 /\ started = started \cup {w}
           /\ ops[w][1] \in Operation /\ ops[w] = <<ops[w][1]>>
           /\ Fits(ops[w][1], sock[w], buffer[w], parser[w], message[w])
           /\ waits[w][1] \in Wait /\ waits[w] = <<waits[w][1]>>
           /\ RemoveAt(waits[w], 1) = <<>>
  BY TheOperation, OnlyOne DEF IInv

LEMMA StartStep ==
    ASSUME IInv, NEW w \in Workers, Start(w)
    PROVE  IInv'
  <1>1. ops[w] = <<>> /\ waits[w] = <<>> /\ message[w] = {}
    BY DEF IInv, WorkerInv, Start
  <1>2. /\ ops' = [ops EXCEPT ![w] = <<PendingAccept>>]
        /\ waits' = [waits EXCEPT ![w] = <<"armed">>]
    BY <1>1, OnlyOne DEF Start, Accept
  <1>3. Becomes(w, PendingAccept, "armed", None, {}, parser[w], {}, expiry[w], 0)
    BY <1>1, <1>2, Unchanged DEF Start, Accept, Becomes
  <1> QED BY <1>3, Unchanged, OneWorkerStep

\* accept() at the end of a handler.
LEMMA AcceptStep ==
    ASSUME IInv, NEW w \in Workers, NEW i \in 1..Len(ops[w]),
           Accept(w, RemoveAt(ops[w], i)),
           message' = [message EXCEPT ![w] = {}],
           UNCHANGED <<waits, parser, expiry, backlog, started>>
    PROVE  IInv'
  <1>1. RemoveAt(ops[w], i) = <<>>
    BY AtOperation
  <1>2. ops' = [ops EXCEPT ![w] = <<PendingAccept>>]
    BY <1>1, OnlyOne DEF Accept
  <1>3. Becomes(w, PendingAccept, waits[w][1], None, {}, parser[w], {}, expiry[w], 0)
    BY <1>2, Unchanged, AtOperation DEF Accept, Becomes
  <1> QED BY <1>3, Unchanged, AtOperation, OneWorkerStep

LEMMA OnAcceptErrorStep ==
    ASSUME IInv, NEW w \in Workers, NEW i \in 1..Len(ops[w]), OnAcceptError(w, i)
    PROVE  IInv'
  <1>1. message[w] = {}
    BY AtOperation DEF OnAcceptError, Handling, Fits
  <1> QED BY <1>1, Unchanged, AcceptStep DEF OnAcceptError

LEMMA OnReadErrorStep ==
    ASSUME IInv, NEW w \in Workers, NEW i \in 1..Len(ops[w]), OnReadError(w, i)
    PROVE  IInv'
  <1>1. message[w] = {}
    BY AtOperation DEF OnReadError, Handling, Fits
  <1> QED BY <1>1, Unchanged, AcceptStep DEF OnReadError

LEMMA OnWrittenStep ==
    ASSUME IInv, NEW w \in Workers, NEW i \in 1..Len(ops[w]), OnWritten(w, i)
    PROVE  IInv'
  <1>1. PICK kind \in Writes : ops[w][i].kind = kind /\ FreeMessage(w, kind)
    BY DEF OnWritten, Handling
  <1>2. message[w] = Parts[kind]
    BY <1>1, AtOperation DEF Fits
  <1>3. message' = [message EXCEPT ![w] = {}]
    BY <1>1, <1>2 DEF FreeMessage
  <1> QED BY <1>3, AcceptStep DEF OnWritten

LEMMA OnAcceptedStep ==
    ASSUME IInv, NEW w \in Workers, NEW i \in 1..Len(ops[w]), OnAccepted(w, i)
    PROVE  IInv'
  <1> DEFINE c == ops[w][1].conn
             o == OpOn("read", c)
             t == IF waits[w][1] = "armed" THEN "aborted" ELSE waits[w][1]
  <1>1. i = 1 /\ c \in Clients /\ buffer[w] = {} /\ message[w] = {}
    BY AtOperation DEF OnAccepted, Handling, Fits, Operation
  <1>2. o \in Operation /\ Fits(o, c, {}, None, {})
    BY <1>1, OperationTypes, WorkerAssumption DEF OpOn, Fits, Writes
  <1>3. t \in Wait /\ AbortWaits(waits[w]) = <<t>>
    BY AtOperation, OnlyOne, Unchanged
  <1>4. /\ ops' = [ops EXCEPT ![w] = <<o>>]
        /\ waits' = [waits EXCEPT ![w] = <<t>>]
        /\ sock' = [sock EXCEPT ![w] = c]
        /\ buffer' = [buffer EXCEPT ![w] = {}]
        /\ parser' = [parser EXCEPT ![w] = None]
        /\ message' = [message EXCEPT ![w] = {}]
    BY <1>1, <1>3, AtOperation, OnlyOne, Unchanged
       DEF OnAccepted, GiveDeadline, ReadRequest
  <1>5. started' = started \cup {w} /\ Timeout = Timeout - 0
    BY AtOperation, WorkerAssumption DEF OnAccepted
  <1> HIDE DEF c, o, t
  <1>6. Becomes(w, o, t, c, {}, None, {}, Timeout, 0)
    BY <1>4, <1>5, Unchanged DEF OnAccepted, GiveDeadline, Becomes
  <1> QED BY <1>1, <1>2, <1>3, <1>5, <1>6, Unchanged, OneWorkerStep

LEMMA OnRequestStep ==
    ASSUME IInv, NEW w \in Workers, NEW i \in 1..Len(ops[w]), OnRequest(w, i)
    PROVE  IInv'
  <1>1. /\ i = 1 /\ message[w] = {}
        /\ parser[w] \in Request /\ (sock[w] # None => parser[w].from = {sock[w]})
    BY AtOperation DEF OnRequest, Handling, Fits, Writes
  <1>2. PICK kind \in Writes : Respond(w, kind, <<>>)
    BY <1>1, AtOperation DEF OnRequest, ProcessRequest, Writes
  <1> DEFINE o == OpOn(kind, sock[w])
  <1>3. /\ ops' = [ops EXCEPT ![w] = <<o>>]
        /\ message' = [message EXCEPT ![w] = Parts[kind]]
    BY <1>1, <1>2, OnlyOne DEF Respond
  <1>4. o \in Operation /\ Fits(o, sock[w], buffer[w], parser[w], Parts[kind])
    BY <1>1, <1>2, OperationTypes, Unchanged DEF OpOn, Fits, Writes
  <1> HIDE DEF o
  <1>5. Becomes(w, o, waits[w][1], sock[w], buffer[w], parser[w], Parts[kind],
                expiry[w], age[w])
    BY <1>3, Unchanged, AtOperation DEF OnRequest, Becomes
  <1>6. Parts[kind] \in SUBSET UNION {Parts[k] : k \in Writes}
    OBVIOUS
  <1> QED BY <1>4, <1>5, <1>6, Unchanged, AtOperation, OneWorkerStep

LEMMA OnTimerStep ==
    ASSUME IInv, NEW w \in Workers, NEW i \in 1..Len(waits[w]), OnTimer(w, i)
    PROVE  IInv'
  <1>1. CheckDeadline(w, <<>>)
    BY AtWait DEF OnTimer
  <1>2. waits' = [waits EXCEPT ![w] = <<"armed">>]
    BY <1>1, OnlyOne DEF CheckDeadline
  <1>3. CASE DeadlinePassed(w)
    <2> DEFINE o == Cancelled(ops[w][1])
    <2>1. /\ ops' = [ops EXCEPT ![w] = <<o>>] /\ o \in Operation
      BY <1>1, <1>3, AtWait, OnlyOne, OperationTypes DEF CheckDeadline
    <2>2. Fits(o, None, buffer[w], parser[w], message[w])
      BY AtWait DEF Fits, Cancelled, WithState, Writes
    <2> HIDE DEF o
    <2>3. Becomes(w, o, "armed", None, buffer[w], parser[w], message[w], Never, 0)
      BY <1>1, <1>2, <1>3, <2>1, Unchanged, AtWait DEF CheckDeadline, OnTimer, Becomes
    <2> QED BY <2>1, <2>2, <2>3, Unchanged, OneWorkerStep
  <1>4. CASE ~DeadlinePassed(w)
    <2>1. Becomes(w, ops[w][1], "armed", sock[w], buffer[w], parser[w], message[w],
                  expiry[w], age[w])
      BY <1>1, <1>2, <1>4, Unchanged, AtWait DEF CheckDeadline, OnTimer, Becomes
    <2> QED BY <2>1, Unchanged, AtWait, OneWorkerStep
  <1> QED BY <1>3, <1>4
-----------------------------------------------------------------------------
(* The kernel, the clients and the clock keep it too.                      *)

\* An operation of w gets a new state, and maybe a connection.
LEMMA CompletionStep ==
    ASSUME IInv, NEW w \in Workers, NEW i \in 1..Len(ops[w]),
           NEW o \in Operation, NEW b \in SUBSET Clients,
           NEW p \in Request \cup {None},
           ops' = [ops EXCEPT ![w] = <<o>>],
           buffer' = [buffer EXCEPT ![w] = b],
           parser' = [parser EXCEPT ![w] = p],
           backlog' \in Seq(Clients),
           Fits(o, sock[w], b, p, message[w]),
           UNCHANGED <<waits, sock, message, expiry, started, age>>
    PROVE  IInv'
  <1>1. Becomes(w, o, waits[w][1], sock[w], b, p, message[w], expiry[w], age[w])
    BY Unchanged, AtOperation DEF Becomes
  <1> QED BY <1>1, Unchanged, AtOperation, OneWorkerStep

\* What Complete does to the only operation.
LEMMA CompleteOnly ==
    ASSUME IInv, NEW w \in Workers, NEW i \in 1..Len(ops[w]),
           NEW kinds, NEW state \in {"pending", "ok", "error"},
           Complete(w, i, kinds, state)
    PROVE  LET o == WithState(ops[w][1], state) IN
           /\ i = 1 /\ ops[w][1].kind \in kinds /\ ops[w][1].state = "pending"
           /\ ops' = [ops EXCEPT ![w] = <<o>>]
           /\ o \in Operation /\ o.kind = ops[w][1].kind /\ o.state = state
           /\ o.conn = ops[w][1].conn
  <1> DEFINE o == WithState(ops[w][1], state)
  <1>1. i = 1 /\ ops[w] = <<ops[w][1]>> /\ ops[w][1] \in Operation
    BY AtOperation
  <1>2. o \in Operation /\ o.kind = ops[w][1].kind /\ o.state = state
        /\ o.conn = ops[w][1].conn
    BY <1>1, OperationTypes DEF WithState
  <1>3. ops' = [ops EXCEPT ![w] = [ops[w] EXCEPT ![1] = o]]
    BY <1>1 DEF Complete
  <1>4. [ops[w] EXCEPT ![1] = o] = <<o>>
    BY <1>1, OnlyOne
  <1> QED BY <1>1, <1>2, <1>3, <1>4 DEF Complete

LEMMA AcceptSucceedsStep ==
    ASSUME IInv, NEW w \in Workers, NEW i \in 1..Len(ops[w]), AcceptSucceeds(w, i)
    PROVE  IInv'
  <1> DEFINE o == [kind |-> "accept", state |-> "ok", conn |-> Head(backlog)]
  <1>1. i = 1 /\ ops[w] = <<ops[w][1]>> /\ ops[w][1] = PendingAccept
    BY AtOperation DEF AcceptSucceeds
  <1>2. Head(backlog) \in Clients /\ backlog' \in Seq(Clients)
    BY Unchanged DEF AcceptSucceeds
  <1>3. /\ o \in Operation /\ o.kind = "accept" /\ o.conn \in Clients
    BY <1>2 DEF Operation
  <1>4. ops' = [ops EXCEPT ![w] = [ops[w] EXCEPT ![1] = o]]
    BY <1>1 DEF AcceptSucceeds
  <1>5. [ops[w] EXCEPT ![1] = o] = <<o>>
    BY <1>1, OnlyOne
  <1>6. Fits(o, sock[w], buffer[w], parser[w], message[w])
    BY <1>1, <1>3, AtOperation, WorkerAssumption DEF Fits, PendingAccept, Writes
  <1>7. /\ buffer' = [buffer EXCEPT ![w] = buffer[w]]
        /\ parser' = [parser EXCEPT ![w] = parser[w]]
        /\ UNCHANGED <<waits, sock, message, expiry, started, age>>
    BY Unchanged DEF AcceptSucceeds
  <1> HIDE DEF o
  <1> QED BY <1>2, <1>3, <1>4, <1>5, <1>6, <1>7, Unchanged, CompletionStep

LEMMA AcceptFailsStep ==
    ASSUME IInv, NEW w \in Workers, NEW i \in 1..Len(ops[w]), AcceptFails(w, i)
    PROVE  IInv'
  <1> DEFINE o == WithState(ops[w][1], "error")
  <1>1. Complete(w, i, {"accept"}, "error")
    BY DEF AcceptFails
  <1>2. /\ ops[w][1].kind = "accept" /\ ops' = [ops EXCEPT ![w] = <<o>>]
        /\ o \in Operation /\ o.kind = "accept" /\ o.state = "error"
    BY <1>1, CompleteOnly
  <1>3. Fits(o, sock[w], buffer[w], parser[w], message[w])
    BY <1>2, AtOperation DEF Fits, Writes
  <1>4. backlog # <<>> => Tail(backlog) \in Seq(Clients)
    BY Unchanged
  <1>5. backlog' \in Seq(Clients)
    BY <1>4, Unchanged DEF AcceptFails
  <1>6. /\ buffer' = [buffer EXCEPT ![w] = buffer[w]]
        /\ parser' = [parser EXCEPT ![w] = parser[w]]
        /\ UNCHANGED <<waits, sock, message, expiry, started, age>>
    BY Unchanged DEF AcceptFails
  <1> HIDE DEF o
  <1> QED BY <1>2, <1>3, <1>5, <1>6, Unchanged, CompletionStep

LEMMA ReadProgressesStep ==
    ASSUME IInv, NEW w \in Workers, NEW i \in 1..Len(ops[w]), ReadProgresses(w, i)
    PROVE  IInv'
  <1>1. /\ i = 1 /\ ops[w] = <<ops[w][1]>> /\ ops[w][1] \in Operation
        /\ ops[w][1].kind = "read" /\ ops[w][1].state = "pending"
        /\ ops[w][1].conn \in Clients
    BY AtOperation DEF ReadProgresses, Fits, Operation
  <1>2. Fits(ops[w][1], sock[w], buffer[w] \cup {ops[w][1].conn}, parser[w], message[w])
    BY <1>1, AtOperation DEF Fits, Writes
  <1>3. buffer[w] \cup {ops[w][1].conn} \in SUBSET Clients
    BY <1>1, Unchanged
  <1>4. /\ ops' = [ops EXCEPT ![w] = <<ops[w][1]>>]
        /\ parser' = [parser EXCEPT ![w] = parser[w]]
        /\ buffer' = [buffer EXCEPT ![w] = buffer[w] \cup {ops[w][1].conn}]
        /\ backlog' \in Seq(Clients)
    BY <1>1, Unchanged DEF ReadProgresses
  <1>5. UNCHANGED <<waits, sock, message, expiry, started, age>>
    BY DEF ReadProgresses
  <1> QED BY <1>1, <1>2, <1>3, <1>4, <1>5, Unchanged, CompletionStep

LEMMA ReadCompletesStep ==
    ASSUME IInv, NEW w \in Workers, NEW i \in 1..Len(ops[w]), ReadCompletes(w, i)
    PROVE  IInv'
  <1> DEFINE o == WithState(ops[w][1], "ok")
             c == ops[w][1].conn
  <1>1. Complete(w, i, {"read"}, "ok")
    BY DEF ReadCompletes
  <1>2. /\ i = 1 /\ ops[w][1].kind = "read" /\ ops' = [ops EXCEPT ![w] = <<o>>]
        /\ o \in Operation /\ o.kind = "read" /\ o.state = "ok" /\ o.conn = c
    BY <1>1, CompleteOnly
  <1>3. buffer[w] \subseteq {c} /\ c \in Clients
    BY <1>2, AtOperation DEF Fits, Operation
  <1>4. PICK ask \in {"get", "get_bad_target", "other_method"},
             from \in {buffer[w], buffer[w] \cup {c}} \ {{}},
             left \in SUBSET Clients :
          /\ parser' = [parser EXCEPT ![w] = [ask |-> ask, from |-> from]]
          /\ buffer' = [buffer EXCEPT ![w] = left] /\ left \in {{}, from}
    <2>1. {} \in SUBSET Clients /\ {c} \in SUBSET Clients
      BY <1>3
    <2>2. \A from \in {buffer[w], buffer[w] \cup {c}} : from \in SUBSET Clients
      BY <1>3, <2>1
    <2> QED BY <1>2, <2>1, <2>2 DEF ReadCompletes
  <1>5. from = {c}
    BY <1>3, <1>4
  <1> DEFINE p == [ask |-> ask, from |-> from]
  <1>6. p \in Request /\ p.from = {c}
    BY <1>3, <1>5 DEF Request
  <1>7. Fits(o, sock[w], left, p, message[w])
    BY <1>2, <1>3, <1>4, <1>5, <1>6, AtOperation DEF Fits, Writes
  <1>8. parser' = [parser EXCEPT ![w] = p] /\ buffer' = [buffer EXCEPT ![w] = left]
    BY <1>4
  <1>9. backlog' \in Seq(Clients) /\ UNCHANGED <<waits, sock, message, expiry, started, age>>
    BY Unchanged DEF ReadCompletes
  <1> HIDE DEF o, p, c
  <1>10. left \in SUBSET Clients /\ p \in Request \cup {None}
    BY <1>4, <1>6
  <1> QED BY <1>2, <1>7, <1>8, <1>9, <1>10, CompletionStep

LEMMA ReadFailsStep ==
    ASSUME IInv, NEW w \in Workers, NEW i \in 1..Len(ops[w]), ReadFails(w, i)
    PROVE  IInv'
  <1> DEFINE o == WithState(ops[w][1], "error")
  <1>1. Complete(w, i, {"read"}, "error")
    BY DEF ReadFails
  <1>2. /\ ops[w][1].kind = "read" /\ ops' = [ops EXCEPT ![w] = <<o>>]
        /\ o \in Operation /\ o.kind = "read" /\ o.state = "error"
        /\ o.conn = ops[w][1].conn
    BY <1>1, CompleteOnly
  <1>3. Fits(o, sock[w], buffer[w], parser[w], message[w])
    BY <1>2, AtOperation DEF Fits, Writes
  <1>4. /\ buffer' = [buffer EXCEPT ![w] = buffer[w]]
        /\ parser' = [parser EXCEPT ![w] = parser[w]]
        /\ backlog' \in Seq(Clients)
        /\ UNCHANGED <<waits, sock, message, expiry, started, age>>
    BY Unchanged DEF ReadFails
  <1> HIDE DEF o
  <1> QED BY <1>2, <1>3, <1>4, Unchanged, CompletionStep

LEMMA WriteEndsStep ==
    ASSUME IInv, NEW w \in Workers, NEW i \in 1..Len(ops[w]), WriteEnds(w, i)
    PROVE  IInv'
  <1>1. PICK state \in {"ok", "error"} : Complete(w, i, Writes, state)
    BY DEF WriteEnds
  <1> DEFINE o == WithState(ops[w][1], state)
  <1>2. /\ ops[w][1].kind \in Writes /\ ops' = [ops EXCEPT ![w] = <<o>>]
        /\ o \in Operation /\ o.kind = ops[w][1].kind /\ o.conn = ops[w][1].conn
    BY <1>1, CompleteOnly
  <1>3. Fits(o, sock[w], buffer[w], parser[w], message[w])
    BY <1>2, AtOperation DEF Fits, Writes
  <1>4. /\ buffer' = [buffer EXCEPT ![w] = buffer[w]]
        /\ parser' = [parser EXCEPT ![w] = parser[w]]
        /\ backlog' \in Seq(Clients)
        /\ UNCHANGED <<waits, sock, message, expiry, started, age>>
    BY Unchanged DEF WriteEnds
  <1> HIDE DEF o
  <1> QED BY <1>2, <1>3, <1>4, Unchanged, CompletionStep

LEMMA ConnectStep ==
    ASSUME IInv, NEW c \in Clients, Connect(c)
    PROVE  IInv'
  <1>1. TypeOK'
    BY DEF IInv, TypeOK, Connect
  <1>2. \A w \in Workers : WorkerInv(w)'
    BY DEF IInv, WorkerInv, Connect
  <1>3. DeadlineIsItsOwn'
    BY DEF IInv, DeadlineIsItsOwn, Connect
  <1> QED BY <1>1, <1>2, <1>3 DEF IInv

LEMMA TimerFiresStep ==
    ASSUME IInv, NEW w \in Workers, NEW i \in 1..Len(waits[w]), TimerFires(w, i)
    PROVE  IInv'
  <1>1. i = 1 /\ waits[w] = <<waits[w][1]>>
    BY AtWait
  <1>2. waits' = [waits EXCEPT ![w] = [waits[w] EXCEPT ![1] = "fired"]]
    BY <1>1 DEF TimerFires
  <1>3. [waits[w] EXCEPT ![1] = "fired"] = <<"fired">>
    BY <1>1, OnlyOne
  <1>4. Becomes(w, ops[w][1], "fired", sock[w], buffer[w], parser[w], message[w],
                expiry[w], age[w])
    BY <1>2, <1>3, Unchanged, AtWait DEF TimerFires, Becomes
  <1> QED BY <1>4, Unchanged, AtWait, OneWorkerStep

\* The deadline of an open connection and its age move together.
LEMMA TickStep ==
    ASSUME IInv, Tick
    PROVE  IInv'
  <1> USE WorkerAssumption
  <1>1. TypeOK'
    <2>1. \A w \in Workers : expiry[w] \in 1..Timeout => expiry[w] - 1 \in 0..Never
      BY DEF Never
    <2>2. expiry' \in [Workers -> 0..Never]
      BY <2>1 DEF IInv, TypeOK, Tick
    <2>3. age' \in [Workers -> 0..Timeout]
      BY DEF IInv, TypeOK, Tick
    <2> QED BY <2>2, <2>3 DEF IInv, TypeOK, Tick
  <1>2. \A w \in Workers : WorkerInv(w)'
    BY DEF IInv, WorkerInv, Tick
  <1>3. DeadlineIsItsOwn'
    BY DEF IInv, TypeOK, DeadlineIsItsOwn, Tick
  <1> QED BY <1>1, <1>2, <1>3 DEF IInv

-----------------------------------------------------------------------------
(* The invariant, and the properties that follow from it.                  *)

LEMMA InitIInv == Init => IInv
  <1> SUFFICES ASSUME Init PROVE IInv
    OBVIOUS
  <1>1. TypeOK
    BY WorkerAssumption DEF Init, TypeOK, Never
  <1>2. \A w \in Workers : WorkerInv(w)
    BY DEF Init, WorkerInv
  <1>3. DeadlineIsItsOwn
    BY DEF Init, DeadlineIsItsOwn
  <1> QED BY <1>1, <1>2, <1>3 DEF IInv

LEMMA NextIInv == IInv /\ [Next]_vars => IInv'
  <1> SUFFICES ASSUME IInv, [Next]_vars PROVE IInv'
    OBVIOUS
  <1>1. CASE UNCHANGED vars
    BY <1>1 DEF vars, IInv, TypeOK, WorkerInv, DeadlineIsItsOwn
  <1>2. ASSUME NEW w \in Workers, Start(w) PROVE IInv'
    BY <1>2, StartStep
  <1>3. ASSUME NEW w \in Workers, NEW i \in 1..Len(ops[w]), Handle(w, i) PROVE IInv'
    BY <1>3, OnAcceptErrorStep, OnAcceptedStep, OnReadErrorStep, OnRequestStep,
       OnWrittenStep DEF Handle
  <1>4. ASSUME NEW w \in Workers, NEW i \in 1..Len(ops[w]), Kernel(w, i) PROVE IInv'
    BY <1>4, AcceptSucceedsStep, AcceptFailsStep, ReadProgressesStep,
       ReadCompletesStep, ReadFailsStep, WriteEndsStep DEF Kernel
  <1>5. ASSUME NEW w \in Workers, NEW i \in 1..Len(waits[w]),
               OnTimer(w, i) \/ TimerFires(w, i)
        PROVE  IInv'
    BY <1>5, OnTimerStep, TimerFiresStep
  <1>6. ASSUME NEW c \in Clients, Connect(c) PROVE IInv'
    BY <1>6, ConnectStep
  <1>7. CASE Tick
    BY <1>7, TickStep
  <1> QED BY <1>1, <1>2, <1>3, <1>4, <1>5, <1>6, <1>7 DEF Next

\* The inductive invariant holds in every reachable state: every operation and
\* every wait of a worker fits the rest of its state (Http.cpp:17-229).
THEOREM Invariant == Spec => []IInv
  <1> QED BY InitIInv, NextIInv, PTL DEF Spec

\* Every variable of the workers keeps its type.
THEOREM TypeCorrect == Spec => []TypeOK
  <1>1. IInv => TypeOK
    BY DEF IInv
  <1> QED BY <1>1, Invariant, PTL

\* A started worker has one I/O operation and one timer wait outstanding, at
\* every moment: its two chains of handlers neither fork nor break off.
THEOREM ChainsNeverFork == Spec => []OneChain
  <1>1. IInv => OneChain
    <2> SUFFICES ASSUME IInv, NEW w \in started
                 PROVE  Len(ops[w]) = 1 /\ Len(waits[w]) = 1
      BY DEF OneChain
    <2>1. w \in Workers
      BY DEF IInv, TypeOK
    <2>2. PICK o \in Operation, t \in Wait : ops[w] = <<o>> /\ waits[w] = <<t>>
      BY <2>1 DEF IInv, WorkerInv
    <2> QED BY <2>2
  <1> QED BY <1>1, Invariant, PTL

\* A response goes to the connection whose bytes the request was parsed from.
THEOREM ResponsesReachTheirClient == Spec => []AnswersItsOwnClient
  <1>1. IInv => AnswersItsOwnClient
    <2> SUFFICES ASSUME IInv, NEW w \in Workers, NEW i \in 1..Len(ops[w]),
                        ops[w][i].kind \in Writes, ops[w][i].conn # None
                 PROVE  parser[w].from = {ops[w][i].conn}
      BY DEF AnswersItsOwnClient
    <2> QED BY AtOperation DEF Fits
  <1> QED BY <1>1, Invariant, PTL

\* A message and its serializer exist exactly while the message is written.
THEOREM MessagesLiveLongEnough == Spec => []MessageLivesWithItsWrite
  <1>1. IInv => MessageLivesWithItsWrite
    <2> SUFFICES ASSUME IInv, NEW w \in Workers
                 PROVE  message[w] =
                          UNION {Parts[ops[w][i].kind] :
                                   i \in {j \in 1..Len(ops[w]) : ops[w][j].kind \in Writes}}
      BY DEF MessageLivesWithItsWrite
    <2>1. CASE w \notin started
      <3>1. ops[w] = <<>> /\ message[w] = {}
        BY <2>1 DEF IInv, WorkerInv
      <3>2. {j \in 1..Len(ops[w]) : ops[w][j].kind \in Writes} = {}
        BY <3>1
      <3> QED BY <3>1, <3>2
    <2>2. CASE w \in started
      <3>1. PICK o \in Operation :
               ops[w] = <<o>> /\ Fits(o, sock[w], buffer[w], parser[w], message[w])
        BY <2>2 DEF IInv, WorkerInv
      <3>2. 1..Len(ops[w]) = {1} /\ ops[w][1] = o
        BY <3>1
      <3>3. CASE o.kind \in Writes
        <4>1. {j \in 1..Len(ops[w]) : ops[w][j].kind \in Writes} = {1}
          BY <3>2, <3>3
        <4>2. message[w] = Parts[o.kind]
          BY <3>1, <3>3 DEF Fits
        <4> QED BY <3>2, <4>1, <4>2
      <3>4. CASE o.kind \notin Writes
        <4>1. {j \in 1..Len(ops[w]) : ops[w][j].kind \in Writes} = {}
          BY <3>2, <3>4
        <4>2. message[w] = {}
          BY <3>1, <3>4 DEF Fits, Operation
        <4> QED BY <4>1, <4>2
      <3> QED BY <3>3, <3>4
    <2> QED BY <2>1, <2>2
  <1> QED BY <1>1, Invariant, PTL

\* An open connection always has its own deadline, Timeout ticks after it was
\* accepted.
THEOREM DeadlinesAreTheirOwn == Spec => []DeadlineIsItsOwn
  <1>1. IInv => DeadlineIsItsOwn
    BY DEF IInv
  <1> QED BY <1>1, Invariant, PTL

\* No step of check_deadline closes a connection that is younger than Timeout,
\* also when it runs in a handler left from an earlier deadline.
THEOREM DeadlineNeverEarly == Spec => NoEarlyClose
  <1>1. IInv /\ [Next]_vars =>
           [\A w \in Workers :
              (\E i \in 1..Len(waits[w]) : OnTimer(w, i)) /\ sock[w] # None
                 /\ sock'[w] = None => age[w] = Timeout]_vars
    <2> SUFFICES ASSUME IInv, NEW w \in Workers, NEW i \in 1..Len(waits[w]),
                        OnTimer(w, i), sock[w] # None, sock'[w] = None
                 PROVE  age[w] = Timeout
      OBVIOUS
    <2>1. expiry[w] = 0
      BY DEF OnTimer, CheckDeadline, DeadlinePassed
    <2>2. expiry[w] = Timeout - age[w] /\ age[w] \in 0..Timeout
      BY DEF IInv, TypeOK, DeadlineIsItsOwn
    <2> QED BY <2>1, <2>2, WorkerAssumption
  <1> QED BY <1>1, Invariant, PTL DEF Spec, NoEarlyClose

-----------------------------------------------------------------------------
(* HttpWorker implements RequestLifecycle.  To the invariant above this    *)
(* adds that a connection is in one place only: queued, held by one        *)
(* accept, or open on one socket.                                          *)

\* Worker w has the connection c: open, or by an accept not yet handled.
HeldBy(w, c) ==
    \/ sock[w] = c
    \/ \E i \in 1..Len(ops[w]) : ops[w][i].kind = "accept" /\ ops[w][i].conn = c

InOnePlace ==
    \A c \in Clients :
       /\ \A v, w \in Workers : HeldBy(v, c) /\ HeldBy(w, c) => v = w
       /\ \A w \in Workers : HeldBy(w, c) => \A k \in 1..Len(backlog) : backlog[k] # c
       /\ \A j, k \in 1..Len(backlog) : backlog[j] = c /\ backlog[k] = c => j = k

LInv ==
    /\ IInv
    /\ InOnePlace
    /\ \A w \in Workers : sock[w] = None => age[w] = 0

-----------------------------------------------------------------------------
(* The phases.                                                             *)

LEMMA PhaseFacts ==
    ASSUME NEW o \in Operation
    PROVE  /\ o.kind = "read" /\ o.state = "pending" => PhaseOf(o) = "receiving"
           /\ o.kind = "read" /\ o.state = "ok" => PhaseOf(o) = "requested"
           /\ o.kind = "read" /\ o.state = "error" => PhaseOf(o) = "over"
           /\ o.kind \in Writes /\ o.state = "pending" => PhaseOf(o) = "responding"
           /\ o.kind \in Writes /\ o.state # "pending" => PhaseOf(o) = "over"
  <1>1. "read" \notin Writes  BY DEF Writes
  <1>. QED  BY <1>1 DEF PhaseOf, Operation

\* A step that leaves w with the operation o and the socket s, and the other
\* workers alone, moves w to the phase of o, and the others not at all.
LEMMA PhaseStep ==
    ASSUME LInv, NEW w \in Workers, NEW o, NEW s,
           ops' = [ops EXCEPT ![w] = <<o>>], sock' = [sock EXCEPT ![w] = s]
    PROVE  phase' = [phase EXCEPT ![w] = IF s = None THEN "idle" ELSE PhaseOf(o)]
  <1>1. ops'[w] = <<o>> /\ sock'[w] = s /\ <<o>>[1] = o  BY DEF LInv, IInv, TypeOK
  <1>2. \A v \in Workers \ {w} : ops'[v] = ops[v] /\ sock'[v] = sock[v]
    BY DEF LInv, IInv, TypeOK
  <1>3. phase' = [v \in Workers |-> IF sock'[v] = None THEN "idle" ELSE PhaseOf(ops'[v][1])]
    BY DEF phase
  <1>4. \A v \in Workers :
          phase'[v] = IF v = w THEN (IF s = None THEN "idle" ELSE PhaseOf(o)) ELSE phase[v]
    BY <1>1, <1>2, <1>3 DEF phase
  <1>. QED  BY <1>3, <1>4 DEF phase

\* What an operation of w being handled or completed tells of w's phase.
LEMMA PhaseAt ==
    ASSUME LInv, NEW w \in Workers, NEW i \in 1..Len(ops[w])
    PROVE  phase[w] = IF sock[w] = None THEN "idle" ELSE PhaseOf(ops[w][i])
  BY AtOperation DEF LInv, phase

\* A worker with an operation outstanding holds the connections of that one.
LEMMA HeldFacts ==
    ASSUME LInv, NEW w \in Workers, NEW o, NEW s,
           ops' = [ops EXCEPT ![w] = <<o>>], sock' = [sock EXCEPT ![w] = s],
           NEW v \in Workers, NEW c \in Clients, HeldBy(v, c)'
    PROVE  \/ v # w /\ HeldBy(v, c)
           \/ v = w /\ (s = c \/ (o.kind = "accept" /\ o.conn = c))
  <1>1. CASE v # w
    <2>1. ops'[v] = ops[v] /\ sock'[v] = sock[v]  BY <1>1 DEF LInv, IInv, TypeOK
    <2>. QED  BY <1>1, <2>1 DEF HeldBy
  <1>2. CASE v = w
    <2>1. ops'[v] = <<o>> /\ sock'[v] = s  BY <1>2 DEF LInv, IInv, TypeOK
    <2>2. \A i \in 1..Len(<<o>>) : <<o>>[i] = o  OBVIOUS
    <2>. QED  BY <1>2, <2>1, <2>2 DEF HeldBy
  <1>. QED  BY <1>1, <1>2

\* The backlog loses its head, or nothing.
Shrinks == backlog' = backlog \/ (backlog # <<>> /\ backlog' = Tail(backlog))

LEMMA ShrinkFacts ==
    ASSUME backlog \in Seq(Clients), Shrinks
    PROVE  /\ \A k \in 1..Len(backlog') : \E j \in 1..Len(backlog) : backlog'[k] = backlog[j]
           /\ \A c \in Clients :
                (\A j, k \in 1..Len(backlog) : backlog[j] = c /\ backlog[k] = c => j = k)
                  => \A j, k \in 1..Len(backlog') : backlog'[j] = c /\ backlog'[k] = c => j = k
  <1>1. CASE backlog' = backlog  BY <1>1
  <1>2. CASE backlog # <<>> /\ backlog' = Tail(backlog)
    <2>1. /\ Len(backlog) \in Nat /\ Len(backlog') = Len(backlog) - 1
          /\ \A k \in 1..Len(backlog') : backlog'[k] = backlog[k + 1] /\ k + 1 \in 1..Len(backlog)
      BY <1>2
    <2>2. ASSUME NEW c \in Clients,
                 \A j, k \in 1..Len(backlog) : backlog[j] = c /\ backlog[k] = c => j = k,
                 NEW j \in 1..Len(backlog'), NEW k \in 1..Len(backlog'),
                 backlog'[j] = c, backlog'[k] = c
          PROVE  j = k
      <3>1. backlog[j + 1] = c /\ backlog[k + 1] = c  BY <2>1, <2>2
      <3>2. j + 1 = k + 1  BY <2>1, <2>2, <3>1
      <3>. QED  BY <3>2
    <2>. QED  BY <2>1, <2>2
  <1>. QED  BY <1>1, <1>2 DEF Shrinks

\* A step of w that takes no connection from the backlog into its hands.
LEMMA PlaceStep ==
    ASSUME LInv, NEW w \in Workers, NEW o, NEW s,
           ops' = [ops EXCEPT ![w] = <<o>>], sock' = [sock EXCEPT ![w] = s],
           \A c \in Clients : s = c \/ (o.kind = "accept" /\ o.conn = c) => HeldBy(w, c),
           Shrinks
    PROVE  InOnePlace'
  <1>1. \A v \in Workers, c \in Clients : HeldBy(v, c)' => HeldBy(v, c)
    <2>. SUFFICES ASSUME NEW v \in Workers, NEW c \in Clients, HeldBy(v, c)'
                  PROVE  HeldBy(v, c)
      OBVIOUS
    <2>1. \/ v # w /\ HeldBy(v, c)
          \/ v = w /\ (s = c \/ (o.kind = "accept" /\ o.conn = c))
      BY HeldFacts
    <2>. QED  BY <2>1
  <1>2. backlog \in Seq(Clients)  BY DEF LInv, IInv, TypeOK
  <1>. QED  BY <1>1, <1>2, ShrinkFacts DEF LInv, InOnePlace

\* What there is to show of a step of w: what it leaves there, that it takes no
\* connection, and that the lifecycle allows the change of phase.
LEMMA WorkerStep ==
    ASSUME LInv, IInv', NEW w \in Workers, NEW o, NEW s, NEW a,
           ops' = [ops EXCEPT ![w] = <<o>>], sock' = [sock EXCEPT ![w] = s],
           age' = [age EXCEPT ![w] = a], s = None => a = 0,
           \A c \in Clients : s = c \/ (o.kind = "accept" /\ o.conn = c) => HeldBy(w, c),
           Shrinks
    PROVE  LInv'
  <1>1. InOnePlace'  BY PlaceStep
  <1>2. ASSUME NEW v \in Workers, sock'[v] = None PROVE age'[v] = 0
    BY <1>2 DEF LInv, IInv, TypeOK
  <1>. QED  BY <1>1, <1>2 DEF LInv

-----------------------------------------------------------------------------
(* The handlers.                                                           *)

LEMMA NoClient == None \notin Clients  BY WorkerAssumption

\* The connections and the age of a worker whose socket is closed.
LEMMA Closed ==
    ASSUME LInv, NEW w \in Workers, sock[w] = None
    PROVE  /\ age[w] = 0 /\ phase[w] = "idle"
           /\ sock = [sock EXCEPT ![w] = None] /\ age = [age EXCEPT ![w] = 0]
           /\ phase = [phase EXCEPT ![w] = "idle"]
  <1>1. phase[w] = "idle"  BY DEF phase
  <1>2. age[w] = 0  BY DEF LInv
  <1>3. phase = [phase EXCEPT ![w] = "idle"]  BY <1>1 DEF phase
  <1>. QED  BY <1>1, <1>2, <1>3 DEF LInv, IInv, TypeOK

\* accept() lets the client go, if there is one.
LEMMA AcceptLeaves ==
    ASSUME LInv, IInv', NEW w \in Workers, RemoveAt(ops[w], 1) = <<>> \/ ops[w] = <<>>,
           Accept(w, <<>>), UNCHANGED backlog,
           sock[w] = None \/ phase[w] = "over"
    PROVE  LInv' /\ [Lifecycle!Next]_(Lifecycle!vars)
  <1>1. ops' = [ops EXCEPT ![w] = <<PendingAccept>>]  BY OnlyOne DEF Accept
  <1>2. sock' = [sock EXCEPT ![w] = None] /\ age' = [age EXCEPT ![w] = 0]  BY DEF Accept
  <1>3. PendingAccept.kind = "accept" /\ PendingAccept.conn = None  BY DEF PendingAccept
  <1>4. LInv'  BY <1>1, <1>2, <1>3, NoClient, WorkerStep DEF Shrinks
  <1>5. phase' = [phase EXCEPT ![w] = "idle"]  BY <1>1, <1>2, PhaseStep
  <1>6. CASE sock[w] = None
    <2>1. sock' = sock /\ age' = age /\ phase' = phase  BY <1>2, <1>5, <1>6, Closed
    <2>. QED  BY <1>4, <2>1 DEF Lifecycle!vars
  <1>7. CASE phase[w] = "over"
    <2>1. Lifecycle!Release(w)  BY <1>2, <1>5, <1>7 DEF Lifecycle!Release, Lifecycle!Leave
    <2>. QED  BY <1>4, <2>1 DEF Lifecycle!Next
  <1>. QED  BY <1>6, <1>7

LEMMA StartMaps ==
    ASSUME LInv, NEW w \in Workers, Start(w)
    PROVE  LInv' /\ [Lifecycle!Next]_(Lifecycle!vars)
  <1>1. ops[w] = <<>> /\ sock[w] = None  BY DEF LInv, IInv, WorkerInv, Start
  <1>2. IInv'  BY StartStep DEF LInv
  <1>. QED  BY <1>1, <1>2, AcceptLeaves DEF Start

LEMMA EndMaps ==
    ASSUME LInv, NEW w \in Workers, NEW i \in 1..Len(ops[w]),
           OnAcceptError(w, i) \/ OnReadError(w, i) \/ OnWritten(w, i)
    PROVE  LInv' /\ [Lifecycle!Next]_(Lifecycle!vars)
  <1>1. /\ i = 1 /\ ops[w][1] \in Operation /\ RemoveAt(ops[w], i) = <<>>
        /\ Fits(ops[w][1], sock[w], buffer[w], parser[w], message[w])
    BY AtOperation DEF LInv
  <1>2. IInv'  BY OnAcceptErrorStep, OnReadErrorStep, OnWrittenStep DEF LInv
  <1>3. Accept(w, <<>>) /\ UNCHANGED backlog
    BY <1>1 DEF OnAcceptError, OnReadError, OnWritten
  <1>4. sock[w] = None \/ phase[w] = "over"
    <2>1. CASE OnAcceptError(w, i)
      BY <1>1, <2>1 DEF OnAcceptError, Handling, Fits
    <2>2. CASE OnReadError(w, i)
      BY <1>1, <2>2, PhaseAt, PhaseFacts DEF OnReadError, Handling
    <2>3. CASE OnWritten(w, i)
      BY <1>1, <2>3, PhaseAt, PhaseFacts DEF OnWritten, Handling
    <2>. QED  BY <2>1, <2>2, <2>3
  <1>. QED  BY <1>1, <1>2, <1>3, <1>4, AcceptLeaves

\* The accepted connection is nobody else's.
LEMMA AcceptedMaps ==
    ASSUME LInv, NEW w \in Workers, NEW i \in 1..Len(ops[w]), OnAccepted(w, i)
    PROVE  LInv' /\ [Lifecycle!Next]_(Lifecycle!vars)
  <1>1. /\ i = 1 /\ ops[w][1] \in Operation /\ RemoveAt(ops[w], i) = <<>>
        /\ Fits(ops[w][1], sock[w], buffer[w], parser[w], message[w])
    BY AtOperation DEF LInv
  <1>2. PICK c \in Clients : c = ops[w][1].conn /\ sock[w] = None /\ ops[w][1].kind = "accept"
    BY <1>1 DEF OnAccepted, Handling, Fits, Operation
  <1>3. IInv'  BY OnAcceptedStep DEF LInv
  <1>4. PICK o \in Operation : o = OpOn("read", c)  BY OperationTypes
  <1>5. o.kind = "read" /\ o.state = "pending"  BY <1>2, <1>4, NoClient DEF OpOn
  <1>6. /\ ops' = [ops EXCEPT ![w] = <<o>>] /\ sock' = [sock EXCEPT ![w] = c]
        /\ age' = [age EXCEPT ![w] = 0] /\ UNCHANGED backlog
    BY <1>1, <1>2, <1>4, OnlyOne DEF OnAccepted, ReadRequest
  <1>7. HeldBy(w, c)  BY <1>1, <1>2 DEF HeldBy
  <1>8. LInv'
    <2>1. \A d \in Clients : c = d \/ (o.kind = "accept" /\ o.conn = d) => HeldBy(w, d)
      BY <1>5, <1>7
    <2>2. Shrinks  BY <1>6 DEF Shrinks
    <2>. QED  BY <1>3, <1>6, <2>1, <2>2, WorkerStep
  <1>9. c \notin {sock[v] : v \in Workers}
    <2>1. ASSUME NEW v \in Workers, sock[v] = c PROVE FALSE
      <3>1. HeldBy(v, c)  BY <2>1 DEF HeldBy
      <3>2. v = w  BY <1>7, <3>1 DEF LInv, InOnePlace
      <3>. QED  BY <1>2, <2>1, <3>2, NoClient
    <2>. QED  BY <2>1
  <1>10. phase' = [phase EXCEPT ![w] = "receiving"]
    <2>1. phase' = [phase EXCEPT ![w] = IF c = None THEN "idle" ELSE PhaseOf(o)]
      BY <1>6, PhaseStep
    <2>. QED  BY <1>2, <1>5, <2>1, PhaseFacts, NoClient
  <1>11. Lifecycle!Take(w, c)
    BY <1>2, <1>6, <1>9, <1>10, Closed DEF Lifecycle!Take
  <1>. QED  BY <1>8, <1>11 DEF Lifecycle!Next

\* A request is answered while its client is there.
LEMMA RequestMaps ==
    ASSUME LInv, NEW w \in Workers, NEW i \in 1..Len(ops[w]), OnRequest(w, i)
    PROVE  LInv' /\ [Lifecycle!Next]_(Lifecycle!vars)
  <1>1. /\ i = 1 /\ ops[w][1] \in Operation /\ RemoveAt(ops[w], i) = <<>>
        /\ sock[w] \in Clients \cup {None}
    BY AtOperation, Unchanged DEF LInv
  <1>2. PICK kind \in Writes : Respond(w, kind, <<>>)
    BY <1>1 DEF OnRequest, ProcessRequest, Writes
  <1>3. PICK o \in Operation : o = OpOn(kind, sock[w])  BY <1>1, OperationTypes
  <1>4. o.kind = kind /\ (sock[w] # None => o.state = "pending")  BY <1>3 DEF OpOn
  <1>5. /\ ops' = [ops EXCEPT ![w] = <<o>>] /\ UNCHANGED <<sock, age, backlog>>
    BY <1>2, <1>3, OnlyOne DEF OnRequest, Respond
  <1>6. sock' = [sock EXCEPT ![w] = sock[w]] /\ age' = [age EXCEPT ![w] = age[w]]
    BY <1>5, Unchanged DEF LInv
  <1>7. LInv'
    <2>1. \A c \in Clients : sock[w] = c \/ (o.kind = "accept" /\ o.conn = c) => HeldBy(w, c)
      BY <1>4 DEF Writes, HeldBy
    <2>2. Shrinks  BY <1>5 DEF Shrinks
    <2>3. sock[w] = None => age[w] = 0  BY DEF LInv
    <2>4. IInv'  BY OnRequestStep DEF LInv
    <2>5. ops' = [ops EXCEPT ![w] = <<o>>]  BY <1>5
    <2>. QED  BY <1>6, <2>1, <2>2, <2>3, <2>4, <2>5, WorkerStep
  <1>8. phase' = [phase EXCEPT ![w] = IF sock[w] = None THEN "idle" ELSE PhaseOf(o)]
    BY <1>5, <1>6, PhaseStep
  <1>9. CASE sock[w] = None
    <2>1. phase' = phase  BY <1>8, <1>9, Closed
    <2>. QED  BY <1>5, <1>7, <2>1 DEF Lifecycle!vars
  <1>10. CASE sock[w] # None
    <2>1. phase[w] = "requested"
      BY <1>1, <1>10, PhaseAt, PhaseFacts DEF OnRequest, Handling
    <2>2. phase' = [phase EXCEPT ![w] = "responding"]
      BY <1>4, <1>8, <1>10, PhaseFacts
    <2>3. Lifecycle!Answer(w)
      BY <1>5, <2>1, <2>2 DEF Lifecycle!Answer, Lifecycle!Advance
    <2>. QED  BY <1>7, <2>3 DEF Lifecycle!Next
  <1>. QED  BY <1>9, <1>10

\* check_deadline lets a client go when its time is over, and never else.
LEMMA TimerMaps ==
    ASSUME LInv, NEW w \in Workers, NEW i \in 1..Len(waits[w]), OnTimer(w, i)
    PROVE  LInv' /\ [Lifecycle!Next]_(Lifecycle!vars)
  <1>1. CheckDeadline(w, RemoveAt(waits[w], i)) /\ UNCHANGED backlog  BY DEF OnTimer
  <1>2. ops[w][1] \in Operation /\ ops[w] = <<ops[w][1]>>  BY AtWait DEF LInv
  <1>3. IInv'  BY OnTimerStep DEF LInv
  <1>4. CASE DeadlinePassed(w)
    <2>1. PICK o \in Operation : o = Cancelled(ops[w][1])  BY <1>2, OperationTypes
    <2>2. o.kind = ops[w][1].kind /\ o.conn = ops[w][1].conn
      BY <1>2, <2>1 DEF Cancelled, WithState
    <2>3. /\ ops' = [ops EXCEPT ![w] = <<o>>] /\ sock' = [sock EXCEPT ![w] = None]
          /\ age' = [age EXCEPT ![w] = 0]
      BY <1>1, <1>2, <1>4, <2>1, OnlyOne DEF CheckDeadline
    <2>4. \A c \in Clients : None = c \/ (o.kind = "accept" /\ o.conn = c) => HeldBy(w, c)
      BY <1>2, <2>2, NoClient DEF HeldBy
    <2>5. Shrinks  BY <1>1 DEF Shrinks
    <2>6. LInv'  BY <1>3, <2>3, <2>4, <2>5, WorkerStep
    <2>7. phase' = [phase EXCEPT ![w] = "idle"]  BY <2>3, PhaseStep
    <2>8. CASE sock[w] = None
      <3>1. sock' = sock /\ age' = age /\ phase' = phase  BY <2>3, <2>7, <2>8, Closed
      <3>. QED  BY <2>6, <3>1 DEF Lifecycle!vars
    <2>9. CASE sock[w] # None
      <3>1. age[w] = Timeout
        <4>1. expiry[w] = 0  BY <1>4 DEF DeadlinePassed
        <4>2. expiry[w] = Timeout - age[w] /\ age[w] \in 0..Timeout
          BY <2>9 DEF LInv, IInv, TypeOK, DeadlineIsItsOwn
        <4>. QED  BY <4>1, <4>2, WorkerAssumption
      <3>2. PhaseOf(ops[w][1]) # "idle"  BY <1>2 DEF PhaseOf
      <3>3. phase[w] # "idle"  BY <2>9, <3>2 DEF phase
      <3>4. Lifecycle!Expire(w)
        BY <2>3, <2>7, <3>1, <3>3 DEF Lifecycle!Expire, Lifecycle!Leave
      <3>. QED  BY <2>6, <3>4 DEF Lifecycle!Next
    <2>. QED  BY <2>8, <2>9
  <1>5. CASE ~DeadlinePassed(w)
    <2>1. UNCHANGED <<sock, ops, age, backlog>>  BY <1>1, <1>5 DEF CheckDeadline
    <2>2. LInv'  BY <1>3, <2>1 DEF LInv, InOnePlace, HeldBy
    <2>3. phase' = phase  BY <2>1 DEF phase
    <2>. QED  BY <2>1, <2>2, <2>3 DEF Lifecycle!vars
  <1>. QED  BY <1>4, <1>5

-----------------------------------------------------------------------------
(* The kernel, the clients and the clock.                                  *)

\* A connection moves from the head of the backlog to one accept.
LEMMA AcceptSucceedsMaps ==
    ASSUME LInv, NEW w \in Workers, NEW i \in 1..Len(ops[w]), AcceptSucceeds(w, i)
    PROVE  LInv' /\ [Lifecycle!Next]_(Lifecycle!vars)
  <1>1. /\ i = 1 /\ ops[w][1] = PendingAccept /\ ops[w] = <<ops[w][1]>>
        /\ Fits(ops[w][1], sock[w], buffer[w], parser[w], message[w])
    BY AtOperation DEF LInv, AcceptSucceeds
  <1>2. sock[w] = None  BY <1>1 DEF Fits, PendingAccept
  <1>3. PICK o : o = [kind |-> "accept", state |-> "ok", conn |-> Head(backlog)]  OBVIOUS
  <1>4. ops' = [ops EXCEPT ![w] = <<o>>]
    <2>1. ops' = [ops EXCEPT ![w] = [ops[w] EXCEPT ![1] = o]]
      BY <1>1, <1>3 DEF AcceptSucceeds
    <2>2. [ops[w] EXCEPT ![1] = o] = <<o>>  BY <1>1, OnlyOne
    <2>. QED  BY <2>1, <2>2
  <1>5. sock' = [sock EXCEPT ![w] = None] /\ UNCHANGED <<sock, age>>
    BY <1>2, Closed DEF AcceptSucceeds
  <1>6. /\ backlog \in Seq(Clients) /\ backlog # <<>> /\ backlog' = Tail(backlog)
        /\ Len(backlog) >= 1 /\ backlog[1] = Head(backlog) /\ Head(backlog) \in Clients
        /\ Len(backlog') = Len(backlog) - 1
        /\ \A k \in 1..Len(backlog') : backlog'[k] = backlog[k + 1] /\ k + 1 \in 1..Len(backlog)
    BY DEF LInv, IInv, TypeOK, AcceptSucceeds
  <1>7. \A v \in Workers, c \in Clients :
          HeldBy(v, c)' => (v # w /\ HeldBy(v, c)) \/ (v = w /\ c = Head(backlog))
    <2>. SUFFICES ASSUME NEW v \in Workers, NEW c \in Clients, HeldBy(v, c)'
                  PROVE  (v # w /\ HeldBy(v, c)) \/ (v = w /\ c = Head(backlog))
      OBVIOUS
    <2>1. \/ v # w /\ HeldBy(v, c)
          \/ v = w /\ (None = c \/ (o.kind = "accept" /\ o.conn = c))
      BY <1>4, <1>5, HeldFacts
    <2>. QED  BY <1>3, <2>1, NoClient
  <1>8. InOnePlace'
    <2>. SUFFICES ASSUME NEW c \in Clients
                  PROVE  /\ \A v, u \in Workers : HeldBy(v, c)' /\ HeldBy(u, c)' => v = u
                         /\ \A v \in Workers : HeldBy(v, c)' =>
                               \A k \in 1..Len(backlog') : backlog'[k] # c
                         /\ \A j, k \in 1..Len(backlog') :
                               backlog'[j] = c /\ backlog'[k] = c => j = k
      BY DEF InOnePlace
    <2>1. \A v \in Workers : v # w /\ HeldBy(v, c) => c # Head(backlog)
      BY <1>6 DEF LInv, InOnePlace
    <2>2. \A v, u \in Workers : HeldBy(v, c)' /\ HeldBy(u, c)' => v = u
      BY <1>7, <2>1 DEF LInv, InOnePlace
    <2>3. ASSUME NEW v \in Workers, HeldBy(v, c)', NEW k \in 1..Len(backlog')
          PROVE  backlog'[k] # c
      <3>1. CASE v # w  BY <1>6, <1>7, <2>3, <3>1 DEF LInv, InOnePlace
      <3>2. CASE c = Head(backlog)
        <4>1. 1 \in 1..Len(backlog) /\ k + 1 # 1  BY <1>6
        <4>. QED  BY <1>6, <3>2, <4>1 DEF LInv, InOnePlace
      <3>. QED  BY <1>7, <2>3, <3>1, <3>2
    <2>4. \A j, k \in 1..Len(backlog') : backlog'[j] = c /\ backlog'[k] = c => j = k
      <3>1. backlog \in Seq(Clients) /\ Shrinks  BY <1>6 DEF Shrinks
      <3>. QED  BY <3>1, ShrinkFacts DEF LInv, InOnePlace
    <2>. QED  BY <2>2, <2>3, <2>4
  <1>9. LInv'
    <2>1. IInv'  BY AcceptSucceedsStep DEF LInv
    <2>. QED  BY <1>5, <1>8, <2>1 DEF LInv
  <1>10. phase' = phase
    <2>1. phase' = [phase EXCEPT ![w] = IF None = None THEN "idle" ELSE PhaseOf(o)]
      BY <1>4, <1>5, PhaseStep
    <2>. QED  BY <1>2, <2>1, Closed
  <1>. QED  BY <1>5, <1>9, <1>10 DEF Lifecycle!vars

\* The state of w's operation changes; the connection and its place do not.
LEMMA CompleteMaps ==
    ASSUME LInv, IInv', NEW w \in Workers, NEW i \in 1..Len(ops[w]),
           NEW kinds, NEW state \in {"pending", "ok", "error"}, Complete(w, i, kinds, state),
           sock' = [sock EXCEPT ![w] = sock[w]], age' = [age EXCEPT ![w] = age[w]], Shrinks,
           sock[w] # None =>
              \/ "accept" \notin kinds /\ "read" \notin kinds /\ state # "pending"
              \/ kinds = {"read"} /\ state # "pending"
    PROVE  LInv' /\ [Lifecycle!Next]_(Lifecycle!vars)
  <1>1. PICK o : o = WithState(ops[w][1], state)  OBVIOUS
  <1>2. /\ i = 1 /\ ops[w][1].kind \in kinds /\ ops[w][1].state = "pending"
        /\ ops' = [ops EXCEPT ![w] = <<o>>]
        /\ o \in Operation /\ o.kind = ops[w][1].kind /\ o.state = state
        /\ o.conn = ops[w][1].conn
    BY <1>1, CompleteOnly DEF LInv
  <1>3. sock' = sock /\ age' = age  BY Unchanged DEF LInv
  <1>4. LInv'
    <2>1. \A c \in Clients : sock[w] = c \/ (o.kind = "accept" /\ o.conn = c) => HeldBy(w, c)
      BY <1>2 DEF HeldBy
    <2>2. sock[w] = None => age[w] = 0  BY DEF LInv
    <2>3. ops' = [ops EXCEPT ![w] = <<o>>]  BY <1>2
    <2>. QED  BY <2>1, <2>2, <2>3, WorkerStep
  <1>5. phase' = [phase EXCEPT ![w] = IF sock[w] = None THEN "idle" ELSE PhaseOf(o)]
    BY <1>2, PhaseStep
  <1>6. CASE sock[w] = None
    <2>1. phase' = phase  BY <1>5, <1>6, Closed
    <2>. QED  BY <1>3, <1>4, <2>1 DEF Lifecycle!vars
  <1>7. CASE sock[w] # None
    <2>0. phase[w] = PhaseOf(ops[w][1])  BY <1>2, <1>7, PhaseAt
    <2>1. ops[w][1] \in Operation  BY AtOperation DEF LInv
    <2>2. CASE ops[w][1].kind = "read"
      <3>1. phase[w] = "receiving"  BY <1>2, <2>0, <2>1, <2>2, PhaseFacts
      <3>2. PhaseOf(o) \in {"requested", "over"}
        BY <1>2, <1>7, <2>2, PhaseFacts
      <3>3. Lifecycle!Receive(w)
        BY <1>3, <1>5, <1>7, <3>1, <3>2 DEF Lifecycle!Receive, Lifecycle!Advance
      <3>. QED  BY <1>4, <3>3 DEF Lifecycle!Next
    <2>3. CASE ops[w][1].kind # "read"
      <3>1. ops[w][1].kind \in Writes /\ state # "pending"
        BY <1>2, <1>7, <2>1, <2>3 DEF Operation
      <3>2. phase[w] = "responding"  BY <1>2, <2>0, <2>1, <3>1, PhaseFacts
      <3>3. PhaseOf(o) = "over"  BY <1>2, <3>1, PhaseFacts
      <3>4. Lifecycle!Finish(w)
        BY <1>3, <1>5, <1>7, <3>2, <3>3 DEF Lifecycle!Finish, Lifecycle!Advance
      <3>. QED  BY <1>4, <3>4 DEF Lifecycle!Next
    <2>. QED  BY <2>2, <2>3
  <1>. QED  BY <1>6, <1>7

LEMMA KernelMaps ==
    ASSUME LInv, NEW w \in Workers, NEW i \in 1..Len(ops[w]), Kernel(w, i)
    PROVE  LInv' /\ [Lifecycle!Next]_(Lifecycle!vars)
  <1>0. sock = [sock EXCEPT ![w] = sock[w]] /\ age = [age EXCEPT ![w] = age[w]]
    BY Unchanged DEF LInv
  <1>1. IInv'
    BY AcceptSucceedsStep, AcceptFailsStep, ReadProgressesStep, ReadCompletesStep, ReadFailsStep,
       WriteEndsStep DEF LInv, Kernel
  <1>2. CASE AcceptSucceeds(w, i)  BY <1>2, AcceptSucceedsMaps
  <1>3. CASE AcceptFails(w, i)
    <2>1. Complete(w, i, {"accept"}, "error") /\ UNCHANGED <<sock, age>>  BY <1>3 DEF AcceptFails
    <2>2. Shrinks  BY <1>3 DEF AcceptFails, Shrinks
    <2>3. sock[w] = None
      BY <2>1, AtOperation DEF LInv, Complete, Fits
    <2>. QED  BY <1>0, <1>1, <2>1, <2>2, <2>3, CompleteMaps
  <1>4. CASE ReadProgresses(w, i)
    <2>1. UNCHANGED <<ops, sock, age, backlog>>  BY <1>4 DEF ReadProgresses
    <2>2. LInv'  BY <1>1, <2>1 DEF LInv, InOnePlace, HeldBy
    <2>3. phase' = phase  BY <2>1 DEF phase
    <2>. QED  BY <2>1, <2>2, <2>3 DEF Lifecycle!vars
  <1>5. CASE ReadCompletes(w, i)
    <2>1. Complete(w, i, {"read"}, "ok") /\ UNCHANGED <<sock, age>>  BY <1>5 DEF ReadCompletes
    <2>2. Shrinks  BY <1>5 DEF ReadCompletes, Shrinks
    <2>. QED  BY <1>0, <1>1, <2>1, <2>2, CompleteMaps
  <1>6. CASE ReadFails(w, i)
    <2>1. Complete(w, i, {"read"}, "error") /\ UNCHANGED <<sock, age>>  BY <1>6 DEF ReadFails
    <2>2. Shrinks  BY <1>6 DEF ReadFails, Shrinks
    <2>. QED  BY <1>0, <1>1, <2>1, <2>2, CompleteMaps
  <1>7. CASE WriteEnds(w, i)
    <2>1. PICK state \in {"ok", "error"} : Complete(w, i, Writes, state)
      BY <1>7 DEF WriteEnds
    <2>2. Shrinks /\ UNCHANGED <<sock, age>>  BY <1>7 DEF WriteEnds, Shrinks
    <2>3. "accept" \notin Writes /\ "read" \notin Writes  BY DEF Writes
    <2>. QED  BY <1>0, <1>1, <2>1, <2>2, <2>3, CompleteMaps
  <1>. QED  BY <1>2, <1>3, <1>4, <1>5, <1>6, <1>7 DEF Kernel

\* A connection enters the backlog from nowhere else.
LEMMA ConnectMaps ==
    ASSUME LInv, NEW c \in Clients, Connect(c)
    PROVE  LInv' /\ [Lifecycle!Next]_(Lifecycle!vars)
  <1>1. UNCHANGED <<ops, sock, age>> /\ backlog' = Append(backlog, c)  BY DEF Connect
  <1>2. /\ backlog \in Seq(Clients) /\ Len(backlog) \in Nat
        /\ Len(backlog') = Len(backlog) + 1 /\ backlog'[Len(backlog) + 1] = c
        /\ \A k \in 1..Len(backlog) : backlog'[k] = backlog[k]
    BY <1>1 DEF LInv, IInv, TypeOK
  <1>3. \A k \in 1..Len(backlog) : backlog[k] # c
    BY <1>2 DEF Connect, ToSet
  <1>4. \A w \in Workers : ~HeldBy(w, c)
    BY DEF Connect, Held, HeldBy
  <1>5. InOnePlace'
    <2>. SUFFICES ASSUME NEW d \in Clients
                  PROVE  /\ \A v, u \in Workers : HeldBy(v, d)' /\ HeldBy(u, d)' => v = u
                         /\ \A v \in Workers : HeldBy(v, d)' =>
                               \A k \in 1..Len(backlog') : backlog'[k] # d
                         /\ \A j, k \in 1..Len(backlog') :
                               backlog'[j] = d /\ backlog'[k] = d => j = k
      BY DEF InOnePlace
    <2>1. \A v \in Workers : HeldBy(v, d)' <=> HeldBy(v, d)  BY <1>1 DEF HeldBy
    <2>2. \A k \in 1..Len(backlog') : k \in 1..Len(backlog) \/ k = Len(backlog) + 1  BY <1>2
    <2>3. \A v, u \in Workers : HeldBy(v, d)' /\ HeldBy(u, d)' => v = u
      BY <2>1 DEF LInv, InOnePlace
    <2>4. ASSUME NEW v \in Workers, HeldBy(v, d)', NEW k \in 1..Len(backlog')
          PROVE  backlog'[k] # d
      BY <1>2, <1>4, <2>1, <2>2, <2>4 DEF LInv, InOnePlace
    <2>5. \A j, k \in 1..Len(backlog') : backlog'[j] = d /\ backlog'[k] = d => j = k
      BY <1>2, <1>3, <2>2 DEF LInv, InOnePlace
    <2>. QED  BY <2>3, <2>4, <2>5
  <1>6. IInv'  BY ConnectStep DEF LInv
  <1>7. LInv'  BY <1>1, <1>5, <1>6 DEF LInv
  <1>8. phase' = phase  BY <1>1 DEF phase
  <1>. QED  BY <1>1, <1>7, <1>8 DEF Lifecycle!vars

LEMMA ClockMaps ==
    ASSUME LInv, Tick \/ (\E w \in Workers : \E i \in 1..Len(waits[w]) : TimerFires(w, i))
    PROVE  LInv' /\ [Lifecycle!Next]_(Lifecycle!vars)
  <1>1. UNCHANGED <<ops, sock, backlog>>  BY DEF Tick, TimerFires
  <1>2. phase' = phase  BY <1>1 DEF phase
  <1>3. InOnePlace'  BY <1>1 DEF LInv, InOnePlace, HeldBy
  <1>4. IInv'  BY TickStep, TimerFiresStep DEF LInv
  <1>5. CASE Tick
    <2>1. \A w \in Workers : sock'[w] = None => age'[w] = 0  BY <1>5 DEF Tick, LInv
    <2>2. Lifecycle!Tick  BY <1>1, <1>2, <1>5 DEF Tick, Lifecycle!Tick
    <2>. QED  BY <1>3, <1>4, <2>1, <2>2 DEF LInv, Lifecycle!Next
  <1>6. CASE \E w \in Workers : \E i \in 1..Len(waits[w]) : TimerFires(w, i)
    <2>1. age' = age  BY <1>6 DEF TimerFires
    <2>. QED  BY <1>1, <1>2, <1>3, <1>4, <2>1 DEF LInv, Lifecycle!vars
  <1>. QED  BY <1>5, <1>6

-----------------------------------------------------------------------------
(* The theorem.                                                            *)

LEMMA InitLInv == Init => LInv /\ Lifecycle!Init
  <1>. SUFFICES ASSUME Init PROVE LInv /\ Lifecycle!Init  OBVIOUS
  <1>1. IInv  BY InitIInv
  <1>2. /\ \A w \in Workers : sock[w] = None /\ ops[w] = <<>> /\ age[w] = 0
        /\ backlog = <<>> /\ sock = [w \in Workers |-> None] /\ age = [w \in Workers |-> 0]
    BY DEF Init
  <1>3. InOnePlace  BY <1>2, NoClient DEF InOnePlace, HeldBy
  <1>4. phase = [w \in Workers |-> "idle"]  BY <1>2 DEF phase
  <1>. QED  BY <1>1, <1>2, <1>3, <1>4 DEF LInv, Lifecycle!Init

LEMMA StepMaps ==
    ASSUME LInv, [Next]_vars
    PROVE  LInv' /\ [Lifecycle!Next]_(Lifecycle!vars)
  <1>1. CASE UNCHANGED vars
    <2>1. IInv'  BY <1>1, NextIInv DEF LInv
    <2>2. UNCHANGED <<ops, sock, age, backlog>>  BY <1>1 DEF vars
    <2>3. LInv'  BY <2>1, <2>2 DEF LInv, InOnePlace, HeldBy
    <2>4. phase' = phase  BY <2>2 DEF phase
    <2>. QED  BY <2>2, <2>3, <2>4 DEF Lifecycle!vars
  <1>2. ASSUME NEW w \in Workers, Start(w)
        PROVE  LInv' /\ [Lifecycle!Next]_(Lifecycle!vars)
    BY <1>2, StartMaps
  <1>3. ASSUME NEW w \in Workers, NEW i \in 1..Len(ops[w]), Handle(w, i)
        PROVE  LInv' /\ [Lifecycle!Next]_(Lifecycle!vars)
    BY <1>3, EndMaps, AcceptedMaps, RequestMaps DEF Handle
  <1>4. ASSUME NEW w \in Workers, NEW i \in 1..Len(ops[w]), Kernel(w, i)
        PROVE  LInv' /\ [Lifecycle!Next]_(Lifecycle!vars)
    BY <1>4, KernelMaps
  <1>5. ASSUME NEW w \in Workers, NEW i \in 1..Len(waits[w]), OnTimer(w, i)
        PROVE  LInv' /\ [Lifecycle!Next]_(Lifecycle!vars)
    BY <1>5, TimerMaps
  <1>6. ASSUME NEW c \in Clients, Connect(c)
        PROVE  LInv' /\ [Lifecycle!Next]_(Lifecycle!vars)
    BY <1>6, ConnectMaps
  <1>7. CASE Tick \/ (\E w \in Workers : \E i \in 1..Len(waits[w]) : TimerFires(w, i))
    BY <1>7, ClockMaps
  <1>. QED  BY <1>1, <1>2, <1>3, <1>4, <1>5, <1>6, <1>7 DEF Next

\* No client is served by two workers, answered twice or before its request is
\* complete, or dropped but by its own failure or its own deadline, for any
\* number of workers and clients (Http.cpp:17-229).
THEOREM WorkersImplementLifecycle == Spec => ImplementsLifecycle
  <1>1. Init => LInv /\ Lifecycle!Init  BY InitLInv
  <1>2. LInv /\ [Next]_vars => LInv' /\ [Lifecycle!Next]_(Lifecycle!vars)
    BY StepMaps
  <1>. QED  BY <1>1, <1>2, PTL DEF Spec, ImplementsLifecycle, Lifecycle!Spec

-----------------------------------------------------------------------------
(* The workers with their clients.                                         *)

\* What the operation o of a worker whose socket is open on s, or closed, tells
\* of its client: nothing was answered before the write, and a request that has
\* been read was sent.
Serves(o, s) ==
    /\ o.kind # "accept" /\ o.state = "pending" => s = o.conn /\ s # None
    /\ o.kind = "accept" /\ o.conn # None => reply[o.conn] = "none"
    /\ o.kind = "read" /\ s # None =>
          reply[s] = "none" /\ (o.state = "ok" => request[s] = "whole")
    /\ o.kind \in Writes /\ o.state = "pending" =>
          reply[s] = "none" /\ request[s] = "whole"

ClientTypeOK ==
    /\ call \in [Clients -> {"connect", "write", "read", "shutdown"} \cup Ended]
    /\ request \in [Clients -> Amount]
    /\ reply \in [Clients -> Amount]

EInv ==
    /\ LInv
    /\ ClientTypeOK
    /\ \A w \in Workers : \A i \in 1..Len(ops[w]) : Serves(ops[w][i], sock[w])
    /\ \A k \in 1..Len(backlog) : reply[backlog[k]] = "none"
    /\ \A c \in Clients :
          /\ reply[c] # "none" => request[c] = "whole"
          /\ call[c] \in {"shutdown", "success"} => reply[c] = "whole"

-----------------------------------------------------------------------------
(* The server, while the clients do nothing.                               *)

\* A step that leaves w with the operation o and the socket s.
LEMMA ServesStep ==
    ASSUME EInv, LInv', NEW w \in Workers, NEW o, NEW s,
           ops' = [ops EXCEPT ![w] = <<o>>], sock' = [sock EXCEPT ![w] = s],
           Serves(o, s), Shrinks, UNCHANGED clientVars
    PROVE  EInv'
  <1>1. UNCHANGED <<call, request, reply>>  BY DEF clientVars
  <1>2. ASSUME NEW v \in Workers, NEW i \in 1..Len(ops'[v])
        PROVE  Serves(ops[v][i], sock[v])'
    <2>1. CASE v = w
      <3>1. ops'[w] = <<o>> /\ sock'[w] = s /\ i = 1  BY <1>2, <2>1 DEF EInv, LInv, IInv, TypeOK
      <3>. QED  BY <1>1, <2>1, <3>1 DEF Serves
    <2>2. CASE v # w
      <3>1. ops'[v] = ops[v] /\ sock'[v] = sock[v]  BY <2>2 DEF EInv, LInv, IInv, TypeOK
      <3>2. Serves(ops[v][i], sock[v])  BY <1>2, <3>1 DEF EInv
      <3>. QED  BY <1>1, <3>1, <3>2 DEF Serves
    <2>. QED  BY <2>1, <2>2
  <1>3. \A k \in 1..Len(backlog') : reply'[backlog'[k]] = "none"
    <2>1. backlog \in Seq(Clients)  BY DEF EInv, LInv, IInv, TypeOK
    <2>2. \A k \in 1..Len(backlog') : \E j \in 1..Len(backlog) : backlog'[k] = backlog[j]
      BY <2>1, ShrinkFacts
    <2>. QED  BY <1>1, <2>2 DEF EInv
  <1>4. ClientTypeOK'  BY <1>1 DEF EInv, ClientTypeOK
  <1>. QED  BY <1>1, <1>2, <1>3, <1>4 DEF EInv

\* What is known of the operation that is handled or completed.
LEMMA TheOneServed ==
    ASSUME EInv, NEW w \in Workers, NEW i \in 1..Len(ops[w])
    PROVE  /\ i = 1 /\ ops[w][1] \in Operation /\ RemoveAt(ops[w], i) = <<>>
           /\ ops[w] = <<ops[w][1]>>
           /\ Fits(ops[w][1], sock[w], buffer[w], parser[w], message[w])
           /\ Serves(ops[w][1], sock[w])
           /\ sock = [sock EXCEPT ![w] = sock[w]]
  BY AtOperation, Unchanged DEF EInv, LInv

LEMMA TypesServed ==
    ASSUME EInv, NEW v \in Workers, NEW j \in 1..Len(ops[v])
    PROVE  /\ Serves(ops[v][j], sock[v]) /\ ops[v][j] \in Operation
           /\ sock[v] \in Clients \cup {None}
  <1>1. Serves(ops[v][j], sock[v])  BY DEF EInv
  <1>2. TypeOK  BY DEF EInv, LInv, IInv
  <1>3. ops[v] \in Seq(Operation) /\ sock[v] \in Clients \cup {None}  BY <1>2 DEF TypeOK
  <1>4. ops[v][j] \in Operation  BY <1>3
  <1>. QED  BY <1>1, <1>3, <1>4

LEMMA AcceptServes ==
    ASSUME EInv, LInv', NEW w \in Workers, Accept(w, <<>>), UNCHANGED backlog, UNCHANGED clientVars
    PROVE  EInv'
  <1>1. ops' = [ops EXCEPT ![w] = <<PendingAccept>>] /\ sock' = [sock EXCEPT ![w] = None]
    BY OnlyOne DEF Accept
  <1>2. Serves(PendingAccept, None)  BY DEF Serves, PendingAccept, Writes
  <1>. QED  BY <1>1, <1>2, ServesStep DEF Shrinks

LEMMA StartServes ==
    ASSUME EInv, LInv', NEW w \in Workers, Start(w), UNCHANGED clientVars
    PROVE  EInv'
  <1>1. ops[w] = <<>>  BY DEF EInv, LInv, IInv, WorkerInv, Start
  <1>. QED  BY <1>1, AcceptServes DEF Start

LEMMA HandleServes ==
    ASSUME EInv, LInv', NEW w \in Workers, NEW i \in 1..Len(ops[w]), Handle(w, i),
           UNCHANGED clientVars
    PROVE  EInv'
  <1>1. CASE OnAcceptError(w, i) \/ OnReadError(w, i) \/ OnWritten(w, i)
    BY <1>1, TheOneServed, AcceptServes DEF OnAcceptError, OnReadError, OnWritten
  <1>2. CASE OnAccepted(w, i)
    <2>1. PICK c \in Clients : c = ops[w][1].conn /\ ops[w][1].kind = "accept"
      BY <1>2, TheOneServed DEF OnAccepted, Handling, Fits, Operation
    <2>2. PICK o \in Operation : o = OpOn("read", c)  BY OperationTypes
    <2>3. o.kind = "read" /\ o.state = "pending" /\ o.conn = c  BY <2>2, NoClient DEF OpOn
    <2>4. /\ ops' = [ops EXCEPT ![w] = <<o>>] /\ sock' = [sock EXCEPT ![w] = c]
          /\ UNCHANGED backlog
      BY <1>2, <2>1, <2>2, TheOneServed, OnlyOne DEF OnAccepted, ReadRequest
    <2>5. reply[c] = "none"  BY <2>1, TheOneServed, NoClient DEF Serves
    <2>6. Serves(o, c)  BY <2>3, <2>5, NoClient DEF Serves, Writes
    <2>. QED  BY <2>4, <2>6, ServesStep DEF Shrinks
  <1>3. CASE OnRequest(w, i)
    <2>1. PICK kind \in Writes : Respond(w, kind, <<>>)
      BY <1>3, TheOneServed DEF OnRequest, ProcessRequest, Writes
    <2>2. PICK s : s = sock[w]  OBVIOUS
    <2>3. PICK o : o = OpOn(kind, s)  OBVIOUS
    <2>4. o.kind = kind /\ o.conn = s /\ (o.state = "pending" => s # None)  BY <2>3 DEF OpOn
    <2>5. /\ ops' = [ops EXCEPT ![w] = <<o>>] /\ sock' = [sock EXCEPT ![w] = s]
          /\ UNCHANGED backlog
      BY <1>3, <2>1, <2>2, <2>3, TheOneServed, OnlyOne DEF OnRequest, Respond
    <2>6. s # None => reply[s] = "none" /\ request[s] = "whole"
      BY <1>3, <2>2, TheOneServed DEF Serves, OnRequest, Handling
    <2>7. Serves(o, s)  BY <2>4, <2>6 DEF Serves, Writes
    <2>. QED  BY <2>5, <2>7, ServesStep DEF Shrinks
  <1>. QED  BY <1>1, <1>2, <1>3 DEF Handle

\* The deadline closes the socket, which cancels the operation, or does nothing.
LEMMA TimerServes ==
    ASSUME EInv, LInv', NEW w \in Workers, NEW i \in 1..Len(waits[w]), OnTimer(w, i),
           UNCHANGED clientVars
    PROVE  EInv'
  <1>1. UNCHANGED backlog /\ CheckDeadline(w, RemoveAt(waits[w], i))  BY DEF OnTimer
  <1>2. CASE DeadlinePassed(w)
    <2>0. ops[w][1] \in Operation /\ ops[w] = <<ops[w][1]>>  BY AtWait DEF EInv, LInv
    <2>1. PICK o : o = Cancelled(ops[w][1])  OBVIOUS
    <2>2. ops' = [ops EXCEPT ![w] = <<o>>] /\ sock' = [sock EXCEPT ![w] = None]
      BY <1>1, <1>2, <2>0, <2>1, OnlyOne DEF CheckDeadline
    <2>3. 1 \in 1..Len(ops[w])
      <3>1. Len(<<ops[w][1]>>) = 1  OBVIOUS
      <3>. QED  BY <2>0, <3>1
    <2>4. Serves(ops[w][1], sock[w])  BY <2>3, TheOneServed
    <2>5. /\ o.kind = ops[w][1].kind /\ o.conn = ops[w][1].conn
          /\ o.kind # "accept" => o.state # "pending"
      BY <2>0, <2>1 DEF Cancelled, WithState
    <2>6. Serves(o, None)  BY <2>4, <2>5 DEF Serves, Writes
    <2>. QED  BY <1>1, <2>2, <2>6, ServesStep DEF Shrinks
  <1>3. CASE ~DeadlinePassed(w)
    <2>1. UNCHANGED <<sock, ops, backlog, call, request, reply>>
      BY <1>1, <1>3 DEF CheckDeadline, clientVars
    <2>. QED  BY <2>1 DEF EInv, ClientTypeOK, Serves
  <1>. QED  BY <1>2, <1>3

\* Steps that touch neither operations, sockets and backlog nor clients.
LEMMA ClockServes ==
    ASSUME EInv, LInv', UNCHANGED <<ops, sock, backlog>>, UNCHANGED clientVars
    PROVE  EInv'
  BY DEF EInv, ClientTypeOK, Serves, clientVars

\* w's operation ends without anything sent or received that counts.
LEMMA EndServes ==
    ASSUME EInv, LInv', NEW w \in Workers, NEW i \in 1..Len(ops[w]),
           NEW kinds, NEW state \in {"ok", "error"}, Complete(w, i, kinds, state),
           UNCHANGED <<sock, call, request, reply>>, Shrinks,
           state = "ok" => kinds = {"read"} /\ (sock[w] # None => request[sock[w]] = "whole")
    PROVE  EInv'
  <1>1. PICK o : o = WithState(ops[w][1], state)  OBVIOUS
  <1>2. /\ ops[w][1].kind \in kinds /\ ops' = [ops EXCEPT ![w] = <<o>>]
        /\ o.kind = ops[w][1].kind /\ o.state = state /\ o.conn = ops[w][1].conn
    BY <1>1, CompleteOnly DEF EInv, LInv
  <1>3. Serves(o, sock[w])  BY <1>2, TheOneServed DEF Serves
  <1>4. sock' = [sock EXCEPT ![w] = sock[w]]  BY TheOneServed
  <1>5. UNCHANGED clientVars  BY DEF clientVars
  <1>6. ops' = [ops EXCEPT ![w] = <<o>>]  BY <1>2
  <1>. QED  BY <1>3, <1>4, <1>5, <1>6, ServesStep

LEMMA AcceptSucceedsServes ==
    ASSUME EInv, LInv', NEW w \in Workers, NEW i \in 1..Len(ops[w]), AcceptSucceeds(w, i),
           UNCHANGED clientVars
    PROVE  EInv'
  <1>1. i = 1 /\ ops[w] = <<ops[w][1]>> /\ ops[w][1] = PendingAccept
    BY TheOneServed DEF AcceptSucceeds
  <1>2. PICK o : o = [kind |-> "accept", state |-> "ok", conn |-> Head(backlog)]  OBVIOUS
  <1>3. ops' = [ops EXCEPT ![w] = <<o>>]
    <2>1. ops' = [ops EXCEPT ![w] = [ops[w] EXCEPT ![1] = o]]
      BY <1>1, <1>2 DEF AcceptSucceeds
    <2>2. [ops[w] EXCEPT ![1] = o] = <<o>>  BY <1>1, OnlyOne
    <2>. QED  BY <2>1, <2>2
  <1>4. sock' = [sock EXCEPT ![w] = sock[w]] /\ Shrinks
    BY TheOneServed DEF AcceptSucceeds, Shrinks
  <1>5. reply[Head(backlog)] = "none"
    <2>1. backlog \in Seq(Clients) /\ backlog # <<>>
      BY DEF EInv, LInv, IInv, TypeOK, AcceptSucceeds
    <2>2. 1 \in 1..Len(backlog) /\ Head(backlog) = backlog[1]  BY <2>1
    <2>. QED  BY <2>2 DEF EInv
  <1>6. Serves(o, sock[w])  BY <1>2, <1>5 DEF Serves, Writes
  <1>. QED  BY <1>3, <1>4, <1>6, ServesStep

-----------------------------------------------------------------------------
(* What passes between the clients and the server.                         *)

LEMMA RequestServes ==
    ASSUME EInv, LInv', NEW w \in Workers, NEW i \in 1..Len(ops[w]), RequestArrives(w, i)
    PROVE  EInv'
  <1>1. UNCHANGED <<call, request, reply>> /\ UNCHANGED clientVars
    BY DEF RequestArrives, clientVars
  <1>2. CASE ReadProgresses(w, i)
    <2>1. UNCHANGED <<ops, sock, backlog>>  BY <1>2 DEF ReadProgresses
    <2>. QED  BY <1>1, <2>1, ClockServes
  <1>3. CASE /\ ReadCompletes(w, i)
             /\ ops[w][i].conn \in parser'[w].from => request[ops[w][i].conn] = "whole"
    <2> DEFINE c == ops[w][i].conn
    <2>1. Complete(w, i, {"read"}, "ok") /\ UNCHANGED sock /\ Shrinks
      BY <1>3 DEF ReadCompletes, Shrinks
    <2>2. ops[w][i].kind = "read" /\ ops[w][i].state = "pending"  BY <2>1 DEF Complete
    <2>3. sock[w] = c /\ buffer[w] \subseteq {c}
      BY <2>2, TheOneServed DEF Fits, Serves
    <2>4. PICK from \in {buffer[w], buffer[w] \cup {c}} \ {{}} :
             \E ask : parser' = [parser EXCEPT ![w] = [ask |-> ask, from |-> from]]
      BY <1>3 DEF ReadCompletes
    <2>5. c \in from  BY <2>3, <2>4
    <2>6. parser'[w].from = from  BY <2>4 DEF EInv, LInv, IInv, TypeOK
    <2>7. request[sock[w]] = "whole"  BY <1>3, <2>3, <2>5, <2>6
    <2>. QED  BY <1>1, <2>1, <2>7, EndServes
  <1>. QED  BY <1>2, <1>3 DEF RequestArrives

\* The reply of a connection is that of the worker it is open on, alone.
LEMMA ReplyServes ==
    ASSUME EInv, LInv', NEW w \in Workers, NEW i \in 1..Len(ops[w]), ReplyLeaves(w, i)
    PROVE  EInv'
  <1>1. PICK state \in {"ok", "error"} : Complete(w, i, Writes, state)
    BY DEF ReplyLeaves, WriteEnds
  <1>2. PICK o : o = WithState(ops[w][1], state)  OBVIOUS
  <1>3. /\ ops[w][1].kind \in Writes /\ ops[w][1].state = "pending"
        /\ ops' = [ops EXCEPT ![w] = <<o>>]
        /\ o.kind = ops[w][1].kind /\ o.state # "pending" /\ o.conn = ops[w][1].conn
    BY <1>1, <1>2, CompleteOnly DEF EInv, LInv
  <1>4. PICK c \in Clients : c = ops[w][i].conn /\ sock[w] = c
    BY <1>3, TheOneServed DEF Serves, Writes, Operation
  <1>5. request[c] = "whole" /\ reply[c] = "none"
    BY <1>3, <1>4, TheOneServed DEF Serves
  <1>6. PICK amount \in Amount : reply' = [reply EXCEPT ![c] = amount]
    BY <1>4 DEF ReplyLeaves
  <1>7. UNCHANGED <<sock, backlog, call, request>>  BY DEF ReplyLeaves, WriteEnds
  <1>8. HeldBy(w, c)  BY <1>4 DEF HeldBy
  <1>9. \A d \in Clients : d # c => reply'[d] = reply[d]
    BY <1>6 DEF EInv, ClientTypeOK
  <1>10. ASSUME NEW v \in Workers, NEW j \in 1..Len(ops'[v])
         PROVE  Serves(ops[v][j], sock[v])'
    <2>1. CASE v = w
      <3>1. ops'[w] = <<o>> /\ j = 1  BY <1>3, <1>10, <2>1 DEF EInv, LInv, IInv, TypeOK
      <3>. QED  BY <1>3, <2>1, <3>1 DEF Serves, Writes
    <2>2. CASE v # w
      <3>1. ops'[v] = ops[v] /\ sock'[v] = sock[v]  BY <1>3, <1>7, <2>2 DEF EInv, LInv, IInv, TypeOK
      <3>2. j \in 1..Len(ops[v])  BY <3>1
      <3>3. /\ Serves(ops[v][j], sock[v]) /\ ops[v][j] \in Operation
            /\ sock[v] \in Clients \cup {None}
        BY <3>2, TypesServed
      <3>4. ~HeldBy(v, c)  BY <1>8, <2>2 DEF EInv, LInv, InOnePlace
      <3>5. sock[v] # c /\ (ops[v][j].kind = "accept" => ops[v][j].conn # c)
        BY <3>2, <3>4 DEF HeldBy
      <3>. QED  BY <1>7, <1>9, <3>1, <3>3, <3>5 DEF Serves, Operation, Writes
    <2>. QED  BY <2>1, <2>2
  <1>11. \A k \in 1..Len(backlog') : reply'[backlog'[k]] = "none"
    <2>1. \A k \in 1..Len(backlog) : backlog[k] # c
      BY <1>8 DEF EInv, LInv, InOnePlace
    <2>2. backlog \in Seq(Clients)  BY DEF EInv, LInv, IInv, TypeOK
    <2>. QED  BY <1>7, <1>9, <2>1, <2>2 DEF EInv
  <1>12. ClientTypeOK'  BY <1>6, <1>7 DEF EInv, ClientTypeOK
  <1>13. ASSUME NEW d \in Clients
         PROVE  /\ reply'[d] # "none" => request'[d] = "whole"
                /\ call'[d] \in {"shutdown", "success"} => reply'[d] = "whole"
    BY <1>5, <1>7, <1>9 DEF EInv
  <1>. QED  BY <1>10, <1>11, <1>12, <1>13 DEF EInv

-----------------------------------------------------------------------------
(* The clients.                                                            *)

\* A new connection is queued and nowhere else, so that nobody answers it yet.
LEMMA ConnectServes ==
    ASSUME EInv, LInv', NEW c \in Clients, ClientConnects(c)
    PROVE  EInv'
  <1>1. /\ UNCHANGED <<ops, sock>> /\ backlog' = Append(backlog, c)
        /\ call' = [call EXCEPT ![c] = "write"]
        /\ request' = [request EXCEPT ![c] = "none"] /\ reply' = [reply EXCEPT ![c] = "none"]
        /\ \A w \in Workers : ~HeldBy(w, c)
    BY DEF ClientConnects, Connect, Goes, Held, HeldBy
  <1>2. \A d \in Clients :
          /\ d # c => call'[d] = call[d] /\ request'[d] = request[d] /\ reply'[d] = reply[d]
          /\ d = c => call'[d] = "write" /\ request'[d] = "none" /\ reply'[d] = "none"
    BY <1>1 DEF EInv, ClientTypeOK
  <1>3. ASSUME NEW v \in Workers, NEW j \in 1..Len(ops'[v])
        PROVE  Serves(ops[v][j], sock[v])'
    <2>1. ops' = ops /\ sock' = sock /\ j \in 1..Len(ops[v])  BY <1>1, <1>3
    <2>2. /\ Serves(ops[v][j], sock[v]) /\ ops[v][j] \in Operation
          /\ sock[v] \in Clients \cup {None}
      BY <2>1, TypesServed
    <2>3. sock[v] # c /\ (ops[v][j].kind = "accept" => ops[v][j].conn # c)
      BY <1>1, <2>1 DEF HeldBy
    <2>. QED  BY <1>2, <2>1, <2>2, <2>3 DEF Serves, Operation, Writes
  <1>4. \A k \in 1..Len(backlog') : reply'[backlog'[k]] = "none"
    <2>1. backlog \in Seq(Clients)  BY DEF EInv, LInv, IInv, TypeOK
    <2>2. /\ Len(backlog') = Len(backlog) + 1 /\ backlog'[Len(backlog) + 1] = c
          /\ \A k \in 1..Len(backlog) : backlog'[k] = backlog[k] /\ backlog[k] \in Clients
          /\ \A k \in 1..Len(backlog') : k \in 1..Len(backlog) \/ k = Len(backlog) + 1
      BY <1>1, <2>1
    <2>3. \A k \in 1..Len(backlog) : reply[backlog[k]] = "none"  BY DEF EInv
    <2>. QED  BY <1>2, <2>2, <2>3
  <1>5. ClientTypeOK'  BY <1>1 DEF EInv, ClientTypeOK, Amount
  <1>. QED  BY <1>2, <1>3, <1>4, <1>5 DEF EInv

\* The other calls leave the replies, and the requests that are whole.
LEMMA CallServes ==
    ASSUME EInv, LInv', NEW c \in Clients, NEW next, UNCHANGED <<ops, sock, backlog, reply>>,
           call' = call \/ Goes(c, next),
           next \in {"connect", "write", "read", "shutdown"} \cup Ended,
           next \in {"shutdown", "success"} => reply[c] = "whole",
           NEW amount \in Amount, request' = request \/ request' = [request EXCEPT ![c] = amount],
           request[c] = "whole" /\ request' # request => amount = "whole"
    PROVE  EInv'
  <1>1. \A d \in Clients : request[d] = "whole" => request'[d] = "whole"
    BY DEF EInv, ClientTypeOK
  <1>2. ClientTypeOK'  BY DEF EInv, ClientTypeOK, Goes
  <1>3. ASSUME NEW d \in Clients, call'[d] \in {"shutdown", "success"} PROVE reply'[d] = "whole"
    BY <1>3 DEF EInv, ClientTypeOK, Goes
  <1>4. ASSUME NEW v \in Workers, NEW j \in 1..Len(ops'[v])
        PROVE  Serves(ops[v][j], sock[v])'
    <2>1. ops' = ops /\ sock' = sock /\ reply' = reply /\ j \in 1..Len(ops[v])  BY <1>4
    <2>2. /\ Serves(ops[v][j], sock[v]) /\ ops[v][j] \in Operation
          /\ sock[v] \in Clients \cup {None}
      BY <2>1, TypesServed
    <2>. QED  BY <1>1, <2>1, <2>2 DEF Serves, Operation, Writes
  <1>. QED  BY <1>1, <1>2, <1>3, <1>4 DEF EInv

LEMMA ClientServes ==
    ASSUME EInv, LInv', NEW c \in Clients, Client(c) \/ ClientRestarts(c)
    PROVE  EInv'
  <1>1. CASE ClientConnects(c)  BY <1>1, ConnectServes
  <1>2. CASE ClientConnectFails(c)
    BY <1>2, CallServes DEF ClientConnectFails, vars, Amount, Ended
  <1>3. CASE ClientWrites(c)
    <2>1. UNCHANGED <<ops, sock, backlog, reply>>  BY <1>3 DEF ClientWrites, vars
    <2>. QED  BY <1>3, <2>1, CallServes DEF ClientWrites, Amount, Ended
  <1>4. CASE ClientReads(c)
    <2>1. UNCHANGED <<ops, sock, backlog, reply>> /\ UNCHANGED request
      BY <1>4 DEF ClientReads, vars
    <2>. QED  BY <1>4, <2>1, CallServes DEF ClientReads, Amount, Ended
  <1>5. CASE ClientShutsDown(c)
    <2>1. UNCHANGED <<ops, sock, backlog, reply>> /\ UNCHANGED request /\ call[c] = "shutdown"
      BY <1>5 DEF ClientShutsDown, vars
    <2>2. reply[c] = "whole"  BY <2>1 DEF EInv
    <2>3. Goes(c, "failure") \/ Goes(c, "success")  BY <1>5 DEF ClientShutsDown
    <2>. QED  BY <2>1, <2>2, <2>3, CallServes DEF Amount, Ended
  <1>6. CASE ClientRestarts(c)
    BY <1>6, CallServes DEF ClientRestarts, vars, Amount
  <1>. QED  BY <1>1, <1>2, <1>3, <1>4, <1>5, <1>6 DEF Client

-----------------------------------------------------------------------------
(* The theorems.                                                           *)

\* What the server does with real clients, HttpWorker does with any.
LEMMA StepIsWorkers ==
    ASSUME EInv, [ExchangeNext]_allVars
    PROVE  LInv'
  <1>1. [Next]_vars
    <2>1. CASE UNCHANGED allVars  BY <2>1 DEF allVars, vars
    <2>2. ASSUME NEW c \in Clients, Client(c) \/ ClientRestarts(c) PROVE [Next]_vars
      BY <2>2 DEF Client, ClientConnects, ClientConnectFails, ClientWrites, ClientReads,
                  ClientShutsDown, ClientRestarts, Next
    <2>3. ASSUME NEW w \in Workers,
                 ServerStarts(w) \/ ServerHandles(w) \/ ServerTimer(w) \/ ServerTimerFires(w)
          PROVE  Next
      BY <2>3 DEF ServerStarts, ServerHandles, ServerTimer, ServerTimerFires, Next
    <2>4. CASE ServerAccepts \/ ServerFails \/ Time
      BY <2>4 DEF ServerAccepts, ServerFails, Time, Next, Kernel
    <2>5. ASSUME NEW w \in Workers, NEW i \in 1..Len(ops[w]),
                 RequestArrives(w, i) \/ ReplyLeaves(w, i)
          PROVE  Next
      BY <2>5 DEF RequestArrives, ReplyLeaves, Next, Kernel
    <2>. QED  BY <2>1, <2>2, <2>3, <2>4, <2>5 DEF ExchangeNext
  <1>. QED  BY <1>1, StepMaps DEF EInv

LEMMA FailsServe ==
    ASSUME EInv, LInv', NEW w \in Workers, NEW i \in 1..Len(ops[w]),
           AcceptFails(w, i) \/ ReadFails(w, i), UNCHANGED clientVars
    PROVE  EInv'
  <1>1. Complete(w, i, {"accept"}, "error") \/ Complete(w, i, {"read"}, "error")
    BY DEF AcceptFails, ReadFails
  <1>2. UNCHANGED <<sock, call, request, reply>> /\ Shrinks
    BY DEF AcceptFails, ReadFails, clientVars, Shrinks
  <1>. QED  BY <1>1, <1>2, EndServes

LEMMA ExchangeStep ==
    ASSUME EInv, [ExchangeNext]_allVars
    PROVE  EInv'
  <1>0. LInv'  BY StepIsWorkers
  <1>1. CASE UNCHANGED allVars
    BY <1>0, <1>1, ClockServes DEF allVars, clientVars
  <1>2. ASSUME NEW c \in Clients, Client(c) \/ ClientRestarts(c) PROVE EInv'
    BY <1>0, <1>2, ClientServes
  <1>3. ASSUME NEW w \in Workers,
               ServerStarts(w) \/ ServerHandles(w) \/ ServerTimer(w) \/ ServerTimerFires(w)
        PROVE  EInv'
    <2>1. CASE ServerStarts(w)  BY <1>0, <2>1, StartServes DEF ServerStarts
    <2>2. CASE ServerHandles(w)  BY <1>0, <2>2, HandleServes DEF ServerHandles
    <2>3. CASE ServerTimer(w)  BY <1>0, <2>3, TimerServes DEF ServerTimer
    <2>4. CASE ServerTimerFires(w)  BY <1>0, <2>4, ClockServes DEF ServerTimerFires, TimerFires
    <2>. QED  BY <1>3, <2>1, <2>2, <2>3, <2>4
  <1>4. CASE ServerAccepts  BY <1>0, <1>4, AcceptSucceedsServes DEF ServerAccepts
  <1>5. CASE ServerFails  BY <1>0, <1>5, FailsServe DEF ServerFails
  <1>6. CASE Time  BY <1>0, <1>6, ClockServes DEF Time, Tick
  <1>7. ASSUME NEW w \in Workers, NEW i \in 1..Len(ops[w]),
               RequestArrives(w, i) \/ ReplyLeaves(w, i)
        PROVE  EInv'
    BY <1>0, <1>7, RequestServes, ReplyServes
  <1>. QED  BY <1>1, <1>2, <1>3, <1>4, <1>5, <1>6, <1>7 DEF ExchangeNext

LEMMA ExchangeBegins == ExchangeInit => EInv
  <1>. SUFFICES ASSUME ExchangeInit PROVE EInv  OBVIOUS
  <1>1. LInv  BY InitLInv DEF ExchangeInit
  <1>2. (\A w \in Workers : ops[w] = <<>>) /\ backlog = <<>>  BY DEF ExchangeInit, Init
  <1>3. ClientTypeOK  BY DEF ExchangeInit, ClientTypeOK, Amount
  <1>. QED  BY <1>1, <1>2, <1>3 DEF ExchangeInit, EInv

\* The invariant of the workers and their clients (Http.cpp:17-229,
\* beastHTTPClient/src/main.cpp:95-148).
THEOREM ExchangeInvariant == ExchangeSpec => []EInv
  <1>. QED  BY ExchangeBegins, ExchangeStep, PTL DEF ExchangeSpec

\* Every variable of the workers and of the clients keeps its type.
THEOREM ExchangeTypeCorrect == ExchangeSpec => []ExchangeTypeOK
  <1>1. EInv => ExchangeTypeOK  BY DEF EInv, LInv, IInv, ClientTypeOK, ExchangeTypeOK
  <1>. QED  BY <1>1, ExchangeInvariant, PTL

\* No client is answered before its own request is whole, and one that ends
\* well has had a whole answer, for any number of workers and clients
\* (Http.cpp:27, 48-71; beastHTTPClient/src/main.cpp:124-148).
THEOREM NobodyAnsweredEarly == ExchangeSpec => []AnsweredAfterAsking
  <1>1. EInv => AnsweredAfterAsking  BY DEF EInv, AnsweredAfterAsking
  <1>. QED  BY <1>1, ExchangeInvariant, PTL
===============================================================================
