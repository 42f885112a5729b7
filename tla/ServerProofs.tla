----------------------------- MODULE ServerProofs -----------------------------
(***************************************************************************)
(* Proofs about Server, for any ports, addresses, numbers of workers,      *)
(* document roots and callbacks: however the setters and the starts that   *)
(* fail or return are mixed, the server runs with what was asked for last. *)
(***************************************************************************)
EXTENDS Server, TLAPS

\* The options that were asked for hold what was; the others nothing, or the
\* default of a start that has failed or returned.
OptionsAsAsked ==
    /\ asked.port = Unset => options.port \in {Unset, 80}
    /\ asked.port \in UShort => options.port = asked.port
    /\ asked.address \in Numerals => options.address = asked.address
    /\ asked.workerNum = Unset => options.workerNum \in {Unset, 4}
    /\ asked.workerNum \in UInt => options.workerNum = asked.workerNum
    /\ asked.documentRoot = Unset => options.documentRoot \in {Unset, "/"}
    /\ asked.documentRoot # Unset => options.documentRoot = asked.documentRoot

\* What every worker is given.
Given == [documentRoot |-> IF options.staticServe THEN options.documentRoot ELSE Unset,
          onClientError |-> options.onClientError,
          onClose |-> options.onClose]

Down == running = "no" /\ endpoint = Unset /\ workers = <<>>

\* A server that has been started uses complete options, which stay as they are.
Up ==
    /\ running # "no"
    /\ options.port \in UShort /\ options.workerNum \in UInt /\ options.documentRoot # Unset
    /\ options.address # Unset
    /\ endpoint = [port |-> options.port, address |-> options.address]
    /\ Len(workers) <= options.workerNum
    /\ running # "making" => Len(workers) = options.workerNum
    /\ \A i \in 1..Len(workers) : workers[i] = Given

IInv == TypeOK /\ OptionsAsAsked /\ (Down \/ Up)

LEMMA RemainderFacts ==
    ASSUME NEW n \in Int, NEW m \in Nat, m > 0
    PROVE  n % m \in 0 .. m - 1 /\ (n \in 0 .. m - 1 => n % m = n)
  OBVIOUS

LEMMA UShortFacts ==
    ASSUME NEW n \in Int
    PROVE  ToUShort(n) \in UShort /\ (n \in UShort => ToUShort(n) = n)
  <1>1. PICK m \in Nat : m = 65536  OBVIOUS
  <1>2. m > 0  BY <1>1
  <1>3. n % m \in 0 .. m - 1 /\ (n \in 0 .. m - 1 => n % m = n)  BY <1>2, RemainderFacts
  <1>4. ToUShort(n) = n % m  BY <1>1 DEF ToUShort
  <1>5. UShort = 0 .. m - 1  BY <1>1 DEF UShort
  <1>. QED  BY <1>3, <1>4, <1>5, Zenon

LEMMA UIntFacts ==
    ASSUME NEW n \in Int
    PROVE  ToUInt(n) \in UInt /\ (n \in UInt => ToUInt(n) = n)
  <1>1. UIntValues \in Nat /\ UIntValues > 0  BY ServerAssumption
  <1>. QED  BY <1>1, RemainderFacts DEF ToUInt, UInt

\* Unset is none of the values that options may have.
LEMMA UnsetFacts ==
    /\ Unset \notin UShort /\ Unset \notin UInt /\ Unset \notin Numerals /\ Unset \notin Roots
    /\ Unset # Any /\ Ports \subseteq Int /\ WorkerNums \subseteq Int
    /\ "localhost" \notin Numerals /\ Unset # "/"
    /\ 80 \in UShort /\ 4 \in UInt
  <1>1. UShort \subseteq Int /\ 80 \in UShort  BY DEF UShort
  <1>2. UInt \subseteq Int /\ 4 \in UInt  BY ServerAssumption DEF UInt
  <1>3. Unset \notin Int /\ Ports \subseteq Int /\ WorkerNums \subseteq Int
    BY ServerAssumption
  <1>4. /\ Unset \notin Numerals /\ Unset \notin Roots /\ Unset # Any /\ Unset # "/"
        /\ "localhost" \notin Numerals
    BY ServerAssumption
  <1>. QED  BY <1>1, <1>2, <1>3, <1>4

LEMMA InitInvariant == Init => IInv
  <1>. SUFFICES ASSUME Init PROVE IInv  OBVIOUS
  <1>1. workers = <<>> /\ <<>> \in Seq(WorkerOptions)  BY DEF Init
  <1>2. options \in Options  BY DEF Init, Options
  <1>3. TypeOK  BY <1>1, <1>2 DEF Init, TypeOK
  <1>4. OptionsAsAsked  BY UnsetFacts DEF Init, OptionsAsAsked
  <1>. QED  BY <1>3, <1>4 DEF Init, IInv, Down

-----------------------------------------------------------------------------
(* The setters.                                                            *)

\* A setter is called when the server is down, and leaves it down.
LEMMA SetFacts ==
    ASSUME IInv, NEW name, NEW value, Set(name, value)
    PROVE  /\ options' = [options EXCEPT ![name] = value]
           /\ Down /\ Down' /\ UNCHANGED <<running, endpoint, workers, startCalls>>
  BY DEF IInv, Set, Down, Up

\* What remains to be shown of a setter.
LEMMA SetterInvariant ==
    ASSUME IInv, Down', UNCHANGED <<running, endpoint, workers, startCalls>>,
           options' \in Options, OptionsAsAsked',
           asked' \in [port : Ports \cup {Unset}, address : Addresses \cup {Unset},
                       workerNum : WorkerNums \cup {Unset}, documentRoot : Roots \cup {Unset}]
    PROVE  IInv'
  BY DEF IInv, TypeOK, WorkerOptions

LEMMA PortInvariant == ASSUME IInv, NEW n \in Ports, SetPort(n) PROVE IInv'
  <1>. DEFINE v == ToUShort(n)
  <1>1. Set("port", v) /\ asked' = [asked EXCEPT !.port = n]  BY DEF SetPort, Ask
  <1>2. v \in UShort /\ (n \in UShort => v = n) /\ n # Unset
    BY UShortFacts, UnsetFacts, ServerAssumption
  <1>. HIDE DEF v
  <1>3. options' \in Options /\ options' = [options EXCEPT !.port = v]
    BY <1>1, <1>2, SetFacts DEF IInv, TypeOK, Options
  <1>4. OptionsAsAsked'
    BY <1>1, <1>2, <1>3 DEF IInv, TypeOK, Options, OptionsAsAsked
  <1>. QED  BY <1>1, <1>3, <1>4, SetFacts, SetterInvariant DEF IInv, TypeOK

LEMMA AddressInvariant == ASSUME IInv, NEW text \in Addresses, SetAddress(text) PROVE IInv'
  <1>. DEFINE v == MakeAddress(text)
  <1>1. Set("address", v) /\ asked' = [asked EXCEPT !.address = text]  BY DEF SetAddress, Ask
  <1>2. v \in Numerals \cup {Any} /\ (text \in Numerals => v = text)  BY DEF MakeAddress
  <1>. HIDE DEF v
  <1>3. options' \in Options /\ options' = [options EXCEPT !.address = v]
    BY <1>1, <1>2, SetFacts DEF IInv, TypeOK, Options
  <1>4. OptionsAsAsked'
    BY <1>1, <1>2, <1>3 DEF IInv, TypeOK, Options, OptionsAsAsked
  <1>. QED  BY <1>1, <1>3, <1>4, SetFacts, SetterInvariant DEF IInv, TypeOK

LEMMA WorkerNumInvariant == ASSUME IInv, NEW n \in WorkerNums, SetWorkerNum(n) PROVE IInv'
  <1>. DEFINE v == ToUInt(n)
  <1>1. Set("workerNum", v) /\ asked' = [asked EXCEPT !.workerNum = n]  BY DEF SetWorkerNum, Ask
  <1>2. v \in UInt /\ (n \in UInt => v = n) /\ n # Unset
    BY UIntFacts, UnsetFacts, ServerAssumption
  <1>. HIDE DEF v
  <1>3. options' \in Options /\ options' = [options EXCEPT !.workerNum = v]
    BY <1>1, <1>2, SetFacts DEF IInv, TypeOK, Options
  <1>4. OptionsAsAsked'
    BY <1>1, <1>2, <1>3 DEF IInv, TypeOK, Options, OptionsAsAsked
  <1>. QED  BY <1>1, <1>3, <1>4, SetFacts, SetterInvariant DEF IInv, TypeOK

LEMMA RootInvariant == ASSUME IInv, NEW path \in Roots, SetDocumentRoot(path) PROVE IInv'
  <1>1. Set("documentRoot", path) /\ asked' = [asked EXCEPT !.documentRoot = path]
    BY DEF SetDocumentRoot, Ask
  <1>2. path # Unset  BY UnsetFacts
  <1>3. options' \in Options /\ options' = [options EXCEPT !.documentRoot = path]
    BY <1>1, SetFacts DEF IInv, TypeOK, Options
  <1>4. OptionsAsAsked'
    BY <1>1, <1>2, <1>3 DEF IInv, TypeOK, Options, OptionsAsAsked
  <1>. QED  BY <1>1, <1>3, <1>4, SetFacts, SetterInvariant DEF IInv, TypeOK

\* The options that nothing is asked of.
LEMMA OtherInvariant ==
    ASSUME IInv, UNCHANGED asked, NEW name \in {"poll", "staticServe", "onClientError", "onClose"},
           NEW value, Set(name, value), [options EXCEPT ![name] = value] \in Options
    PROVE  IInv'
  <1>1. options' = [options EXCEPT ![name] = value] /\ options' \in Options  BY SetFacts
  <1>2. /\ options'.port = options.port /\ options'.address = options.address
        /\ options'.workerNum = options.workerNum
        /\ options'.documentRoot = options.documentRoot
    BY <1>1 DEF IInv, TypeOK, Options
  <1>3. OptionsAsAsked'  BY <1>2 DEF IInv, OptionsAsAsked
  <1>. QED  BY <1>1, <1>3, SetFacts, SetterInvariant DEF IInv, TypeOK

LEMMA FlagsInvariant == ASSUME IInv, NEW b \in BOOLEAN, SetPoll(b) \/ SetStaticServe(b) PROVE IInv'
  <1>1. CASE SetPoll(b)
    <2>1. [options EXCEPT !.poll = b] \in Options  BY DEF IInv, TypeOK, Options
    <2>. QED  BY <1>1, <2>1, OtherInvariant DEF SetPoll
  <1>2. CASE SetStaticServe(b)
    <2>1. [options EXCEPT !.staticServe = b] \in Options  BY DEF IInv, TypeOK, Options
    <2>. QED  BY <1>2, <2>1, OtherInvariant DEF SetStaticServe
  <1>. QED  BY <1>1, <1>2

LEMMA CallbacksInvariant ==
    ASSUME IInv, NEW h \in Handlers, OnClientError(h) \/ OnClose(h) PROVE IInv'
  <1>1. CASE OnClientError(h)
    <2>1. [options EXCEPT !.onClientError = h] \in Options  BY DEF IInv, TypeOK, Options
    <2>. QED  BY <1>1, <2>1, OtherInvariant DEF OnClientError
  <1>2. CASE OnClose(h)
    <2>1. [options EXCEPT !.onClose = h] \in Options  BY DEF IInv, TypeOK, Options
    <2>. QED  BY <1>2, <2>1, OtherInvariant DEF OnClose
  <1>. QED  BY <1>1, <1>2

-----------------------------------------------------------------------------
(* start().                                                                *)

LEMMA StartInvariant == ASSUME IInv, NEW cb \in Handlers \cup {Empty}, Start(cb) PROVE IInv'
  <1>0. /\ TypeOK /\ OptionsAsAsked /\ Down /\ UNCHANGED <<workers, asked, startCalls>>
    BY DEF IInv, Start, Up
  <1>1. ToUShort(80) = 80 /\ ToUInt(4) = 4 /\ MakeAddress("localhost") = Any
    BY UShortFacts, UIntFacts, UnsetFacts DEF MakeAddress
  <1>2. options' = [options EXCEPT
                     !.onClientError = cb,
                     !.port = Default(options.port, 80),
                     !.address = Default(options.address, Any),
                     !.poll = Default(options.poll, FALSE),
                     !.workerNum = Default(options.workerNum, 4),
                     !.documentRoot = Default(options.documentRoot, "/")]
    BY <1>0, <1>1 DEF Start, TypeOK, Options
  <1>3. /\ Default(options.port, 80) \in UShort
        /\ Default(options.address, Any) \in Numerals \cup {Any}
        /\ Default(options.poll, FALSE) \in BOOLEAN \cup {Unset}
        /\ Default(options.workerNum, 4) \in UInt
        /\ Default(options.documentRoot, "/") \in Roots \cup {"/", Unset}
    BY <1>0, UnsetFacts DEF TypeOK, Options, Default
  <1>. DEFINE port == Default(options.port, 80)
              address == Default(options.address, Any)
              poll == Default(options.poll, FALSE)
              workerNum == Default(options.workerNum, 4)
              documentRoot == Default(options.documentRoot, "/")
  <1>4. /\ options'.port = port /\ options'.address = address
        /\ options'.workerNum = workerNum /\ options'.documentRoot = documentRoot
        /\ options' \in Options
    <2>1. /\ port \in UShort /\ address \in Numerals \cup {Any}
          /\ poll \in BOOLEAN \cup {Unset} /\ workerNum \in UInt
          /\ documentRoot \in Roots \cup {"/", Unset}
      BY <1>3
    <2>2. options' = [options EXCEPT
                        !.onClientError = cb, !.port = port, !.address = address,
                        !.poll = poll, !.workerNum = workerNum,
                        !.documentRoot = documentRoot]
      BY <1>2
    <2>. HIDE DEF port, address, poll, workerNum, documentRoot
    <2>3. options \in Options  BY <1>0 DEF TypeOK
    <2>4. options' = [port |-> port, address |-> address, poll |-> poll,
                      workerNum |-> workerNum, documentRoot |-> documentRoot,
                      staticServe |-> options.staticServe, onClientError |-> cb,
                      onClose |-> options.onClose]
      BY <2>2, <2>3 DEF Options
    <2>. QED  BY <2>1, <2>3, <2>4 DEF Options
  <1>5. OptionsAsAsked'
    BY <1>0, <1>4, UnsetFacts DEF OptionsAsAsked, Default
  <1>6. CASE UNCHANGED <<endpoint, running>>
    BY <1>0, <1>4, <1>5, <1>6 DEF IInv, TypeOK, Down, WorkerOptions
  <1>7. CASE /\ endpoint' = [port |-> options'.port, address |-> options'.address]
             /\ running' = "making"
    <2>1. TypeOK'
      BY <1>0, <1>3, <1>4, <1>7 DEF TypeOK, WorkerOptions
    <2>2. workers' = <<>> /\ Len(workers') = 0  BY <1>0 DEF Down
    <2>3. options'.workerNum >= 0  BY <1>3, <1>4, ServerAssumption DEF UInt
    <2>4. options'.address # Unset  BY <1>3, <1>4, UnsetFacts
    <2>5. options'.documentRoot # Unset  BY <1>4, UnsetFacts DEF Default
    <2>6. \A i \in 1..Len(workers') : workers'[i] = Given'  BY <2>2
    <2>7. options'.workerNum \in UInt /\ options'.port \in UShort  BY <1>3, <1>4
    <2>8. running' = "making" /\ endpoint' = [port |-> options'.port, address |-> options'.address]
      BY <1>7
    <2>9. Len(workers') <= options'.workerNum  BY <2>2, <2>3
    <2>10. Up'
      BY <2>4, <2>5, <2>6, <2>7, <2>8, <2>9 DEF Up
    <2>. QED  BY <1>5, <2>1, <2>10 DEF IInv
  <1>. QED  BY <1>6, <1>7 DEF Start

LEMMA MakeWorkerInvariant == ASSUME IInv, MakeWorker PROVE IInv'
  <1>1. /\ TypeOK /\ OptionsAsAsked /\ Up /\ running = "making"
        /\ UNCHANGED <<options, running, endpoint, asked, startCalls>>
    BY DEF IInv, MakeWorker, Down
  <1>2. workers' = Append(workers, Given) /\ Len(workers) < options.workerNum
    BY DEF MakeWorker, MoreWorkers, Given
  <1>3. Given \in WorkerOptions
    BY <1>1 DEF TypeOK, Options, WorkerOptions, Given
  <1>4. workers \in Seq(WorkerOptions)  BY <1>1 DEF TypeOK
  <1>. HIDE DEF Given
  <1>5. /\ workers' \in Seq(WorkerOptions) /\ Len(workers') = Len(workers) + 1
        /\ \A i \in 1..Len(workers) : workers'[i] = workers[i]
        /\ workers'[Len(workers) + 1] = Given
    BY <1>2, <1>3, <1>4
  <1>6. Given' = Given  BY <1>1 DEF Given
  <1>7. \A i \in 1..Len(workers') : workers'[i] = Given'
    BY <1>1, <1>4, <1>5, <1>6 DEF Up
  <1>8. options.workerNum \in Nat /\ Len(workers) \in Nat  BY <1>1, <1>4, ServerAssumption DEF Up, UInt
  <1>9. Up'  BY <1>1, <1>2, <1>5, <1>7, <1>8 DEF Up
  <1>10. TypeOK'  BY <1>1, <1>5 DEF TypeOK
  <1>11. OptionsAsAsked'  BY <1>1 DEF OptionsAsAsked
  <1>. QED  BY <1>9, <1>10, <1>11 DEF IInv

LEMMA RunInvariant == ASSUME IInv, Run PROVE IInv'
  <1>1. /\ TypeOK /\ OptionsAsAsked /\ Up /\ running = "making" /\ running' \in {"poll", "run"}
        /\ UNCHANGED <<options, endpoint, workers, asked, startCalls>>
    BY DEF IInv, Run, Down
  <1>2. options.workerNum \in Nat /\ Len(workers) \in Nat
    BY <1>1, ServerAssumption DEF Up, UInt, TypeOK
  <1>3. Len(workers) = options.workerNum  BY <1>1, <1>2 DEF Run, MoreWorkers, Up
  <1>4. Up'  BY <1>1, <1>3 DEF Up, Given
  <1>5. TypeOK'  BY <1>1 DEF TypeOK
  <1>6. OptionsAsAsked'  BY <1>1 DEF OptionsAsAsked
  <1>. QED  BY <1>4, <1>5, <1>6 DEF IInv

LEMMA LeaveInvariant == ASSUME IInv, Leave PROVE IInv'
  <1>1. /\ TypeOK /\ OptionsAsAsked /\ Down' /\ UNCHANGED <<options, asked, startCalls>>
    BY DEF IInv, Leave, Down
  <1>2. <<>> \in Seq(WorkerOptions)  OBVIOUS
  <1>3. TypeOK'  BY <1>1, <1>2 DEF TypeOK, Down
  <1>4. OptionsAsAsked'  BY <1>1 DEF OptionsAsAsked
  <1>. QED  BY <1>1, <1>3, <1>4 DEF IInv

-----------------------------------------------------------------------------
(* The theorems.                                                           *)

\* The inductive invariant: options agree with what was asked for, and a server
\* that is up has used them.
THEOREM Invariant == Spec => []IInv
  <1>1. Init => IInv  BY InitInvariant
  <1>2. IInv /\ [Next]_vars => IInv'
    <2>. SUFFICES ASSUME IInv, [Next]_vars PROVE IInv'  OBVIOUS
    <2>1. ASSUME NEW n \in Ports, SetPort(n) PROVE IInv'  BY <2>1, PortInvariant
    <2>2. ASSUME NEW text \in Addresses, SetAddress(text) PROVE IInv'  BY <2>2, AddressInvariant
    <2>3. ASSUME NEW b \in BOOLEAN, SetPoll(b) \/ SetStaticServe(b) PROVE IInv'
      BY <2>3, FlagsInvariant
    <2>4. ASSUME NEW n \in WorkerNums, SetWorkerNum(n) PROVE IInv'  BY <2>4, WorkerNumInvariant
    <2>5. ASSUME NEW path \in Roots, SetDocumentRoot(path) PROVE IInv'  BY <2>5, RootInvariant
    <2>6. ASSUME NEW h \in Handlers, OnClientError(h) \/ OnClose(h) PROVE IInv'
      BY <2>6, CallbacksInvariant
    <2>7. ASSUME NEW cb \in Handlers \cup {Empty}, Start(cb) PROVE IInv'  BY <2>7, StartInvariant
    <2>8. CASE MakeWorker  BY <2>8, MakeWorkerInvariant
    <2>9. CASE Run  BY <2>9, RunInvariant
    <2>10. CASE Leave  BY <2>10, LeaveInvariant
    <2>11. CASE UNCHANGED vars
      BY <2>11 DEF vars, IInv, TypeOK, OptionsAsAsked, Down, Up, Given
    <2>. QED
      BY <2>1, <2>2, <2>3, <2>4, <2>5, <2>6, <2>7, <2>8, <2>9, <2>10, <2>11 DEF Next
  <1>. QED  BY <1>1, <1>2, PTL DEF Spec

\* Types: a port has 16 bits and a number of workers is unsigned, whatever was
\* passed (Server.cpp:10-15, 51-56).
THEOREM TypeCorrect == Spec => []TypeOK
  <1>1. IInv => TypeOK  BY DEF IInv
  <1>. QED  BY <1>1, Invariant, PTL

\* The acceptor listens where was asked for last (Server.cpp:5-37, 101-120).
THEOREM ListensAsAsked == Spec => []ListensWhereAsked
  <1>1. IInv => ListensWhereAsked
    <2>. SUFFICES ASSUME IInv, endpoint # Unset
                  PROVE  /\ asked.port = Unset => endpoint.port = 80
                         /\ asked.port \in UShort => endpoint.port = asked.port
                         /\ asked.address \in Numerals => endpoint.address = asked.address
      BY DEF ListensWhereAsked
    <2>1. Up /\ OptionsAsAsked  BY DEF IInv, Down
    <2>2. endpoint.port = options.port /\ endpoint.address = options.address
      BY <2>1 DEF Up
    <2>. QED  BY <2>1, <2>2, UnsetFacts DEF Up, OptionsAsAsked
  <1>. QED  BY <1>1, Invariant, PTL

\* The workers are as many as asked for last, and all alike (Server.cpp:51-82,
\* 111-144).
THEOREM WorkersRunAsAsked == Spec => []WorkersAsAsked
  <1>1. IInv => WorkersAsAsked
    <2>. SUFFICES ASSUME IInv, running \in {"run", "poll"} PROVE WorkersAsAsked
      BY DEF WorkersAsAsked
    <2>1. Up /\ OptionsAsAsked  BY DEF IInv, Down
    <2>2. Len(workers) = options.workerNum /\ options.workerNum # Unset
      BY <2>1, UnsetFacts DEF Up
    <2>3. asked.workerNum = Unset => Len(workers) = 4
      BY <2>1, <2>2 DEF OptionsAsAsked
    <2>4. asked.workerNum \in UInt => Len(workers) = asked.workerNum
      BY <2>1, <2>2 DEF OptionsAsAsked
    <2>5. \A i \in 1..Len(workers) : workers[i] = Given  BY <2>1 DEF Up
    <2>6. \A i, j \in 1..Len(workers) : workers[i] = workers[j]  BY <2>5
    <2>7. /\ ~options.staticServe => Given.documentRoot = Unset
          /\ options.staticServe =>
                Given.documentRoot =
                  IF asked.documentRoot = Unset THEN "/" ELSE asked.documentRoot
      BY <2>1 DEF Up, OptionsAsAsked, Given
    <2>. QED  BY <2>3, <2>4, <2>5, <2>6, <2>7 DEF WorkersAsAsked
  <1>. QED  BY <1>1, Invariant, PTL
===============================================================================
