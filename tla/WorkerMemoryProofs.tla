-------------------------- MODULE WorkerMemoryProofs --------------------------
(***************************************************************************)
(* Proofs about WorkerMemory, for any pool, any sizes and numbers of       *)
(* fields, and any sequence of requests: the books of the pool balance,    *)
(* nothing is carried over from one request to the next, and memory runs   *)
(* out for a request's own fields alone.                                   *)
(***************************************************************************)
EXTENDS WorkerMemory, Induction, FiniteSetTheorems

Memory == [pool : Pool, engaged : SUBSET Messages, fields : [Messages -> Seq(Nat)]]

\* How many fields there are, and what they take.
Count(fields) ==
    Len(fields["request"]) + Len(fields["string_response"]) + Len(fields["file_response"])
Taken(fields) ==
    Total(fields["request"]) + Total(fields["string_response"]) + Total(fields["file_response"])

\* A message that is not engaged has no fields; the pool counts the fields and the
\* messages, and when it is empty begins at its start.
Balanced(m) ==
    /\ m \in Memory
    /\ \A msg \in Messages : msg \notin m.engaged => m.fields[msg] = <<>>
    /\ m.pool.count = Count(m.fields)
    /\ m.pool.refs = 1 + Cardinality(m.engaged)
    /\ m.pool.count = 0 => m.pool.p = 0

\* The pool holds the fields there are and nothing else.
Exact(m) == m.pool.p = Taken(m.fields)

-----------------------------------------------------------------------------
(* What the operators on the pool and its messages do.                     *)

\* A pool after its last block was given back begins at its start again.
Emptied(pool, k) ==
    [p |-> IF k > 0 /\ k = pool.count THEN 0 ELSE pool.p, count |-> pool.count - k,
     refs |-> pool.refs, freed |-> pool.freed]

LEMMA EmptiedStep ==
    ASSUME NEW pool \in Pool, NEW k \in Nat, k < pool.count
    PROVE  Dealloc(Emptied(pool, k)) = Emptied(pool, k + 1)
  <1>1. pool.count \in Nat  BY DEF Pool
  <1>2. pool.count - k = 1 <=> k + 1 = pool.count  BY <1>1
  <1>3. (pool.count - k) - 1 = pool.count - (k + 1)  BY <1>1
  <1>4. k # pool.count /\ k + 1 > 0  BY <1>1
  <1>. QED  BY <1>2, <1>3, <1>4 DEF Dealloc, Emptied

\* Fields given back one after the other.
LEMMA DeallocAllIs ==
    ASSUME NEW pool \in Pool, NEW n \in Nat, n <= pool.count
    PROVE  DeallocAll(pool, n) = Emptied(pool, n)
  <1>. DEFINE Step(t) == [i \in 0..n |-> IF i = 0 THEN pool ELSE Dealloc(t[i - 1])]
              left == CHOOSE t : t = Step(t)
  <1>0. pool.count \in Nat  BY DEF Pool
  <1>1. Emptied(pool, 0) = pool
    <2>1. pool.count - 0 = pool.count  BY <1>0
    <2>. QED  BY <2>1 DEF Emptied, Pool
  <1>2. \A i \in 1..n : Dealloc(Emptied(pool, i - 1)) = Emptied(pool, i)
    <2>. SUFFICES ASSUME NEW i \in 1..n PROVE Dealloc(Emptied(pool, i - 1)) = Emptied(pool, i)
      OBVIOUS
    <2>1. i - 1 \in Nat /\ i - 1 < pool.count /\ (i - 1) + 1 = i  BY <1>0
    <2>2. Dealloc(Emptied(pool, i - 1)) = Emptied(pool, (i - 1) + 1)  BY <2>1, EmptiedStep
    <2>. QED  BY <2>1, <2>2
  <1>3. PICK f : f = [i \in 0..n |-> Emptied(pool, i)]  OBVIOUS
  <1>4. f = Step(f)
    <2>1. ASSUME NEW i \in 0..n
          PROVE  Emptied(pool, i) = IF i = 0 THEN pool ELSE Dealloc(f[i - 1])
      <3>1. CASE i = 0  BY <1>1, <3>1
      <3>2. CASE i # 0
        <4>1. i \in 1..n /\ i - 1 \in 0..n  BY <3>2
        <4>2. f[i - 1] = Emptied(pool, i - 1)  BY <1>3, <4>1
        <4>. QED  BY <1>2, <3>2, <4>1, <4>2
      <3>. QED  BY <3>1, <3>2
    <2>. QED  BY <1>3, <2>1
  <1>5. left = Step(left)  BY <1>4
  <1>6. DeallocAll(pool, n) = left[n]  BY DEF DeallocAll
  <1>. HIDE DEF left
  <1>7. \A i \in 0..n : left[i] = IF i = 0 THEN pool ELSE Dealloc(left[i - 1])  BY <1>5
  <1>8. PICK S : S = {i \in 0..n : left[i] = Emptied(pool, i)}  OBVIOUS
  <1>9. 0 \in S  BY <1>1, <1>7, <1>8
  <1>10. ASSUME NEW i \in 0 .. n - 1, i \in S PROVE i + 1 \in S
    <2>1. i + 1 \in 1..n /\ i + 1 \in 0..n /\ (i + 1) - 1 = i /\ i + 1 # 0  OBVIOUS
    <2>2. left[i + 1] = Dealloc(left[i])  BY <1>7, <2>1
    <2>3. left[i] = Emptied(pool, i)  BY <1>8, <1>10
    <2>4. Dealloc(Emptied(pool, i)) = Emptied(pool, i + 1)  BY <1>2, <2>1
    <2>. QED  BY <1>8, <2>1, <2>2, <2>3, <2>4
  <1>11. \A i \in 0..n : i \in S  BY <1>9, <1>10, IntervalInduction
  <1>12. n \in 0..n  OBVIOUS
  <1>. QED  BY <1>6, <1>8, <1>11, <1>12

LEMMA CountType ==
    ASSUME NEW fields \in [Messages -> Seq(Nat)]
    PROVE  Count(fields) \in Nat /\ Taken(fields) \in Nat
  <1>1. \A x \in Messages : Len(fields[x]) \in Nat /\ Total(fields[x]) \in Nat  BY TotalType
  <1>. QED  BY <1>1 DEF Messages, Count, Taken

\* The fields of one message are exchanged for others.
Exchange(fields, msg, s, new) ==
    /\ fields \in [Messages -> Seq(Nat)] /\ msg \in Messages /\ s \in Seq(Nat)
    /\ new = [fields EXCEPT ![msg] = s]

LEMMA Exchanged ==
    ASSUME NEW fields, NEW msg, NEW s, NEW new, Exchange(fields, msg, s, new)
    PROVE  /\ new \in [Messages -> Seq(Nat)]
           /\ Count(new) + Len(fields[msg]) = Count(fields) + Len(s)
           /\ Taken(new) + Total(fields[msg]) = Taken(fields) + Total(s)
           /\ Count(fields) \in Nat /\ Taken(fields) \in Nat
           /\ Len(fields[msg]) <= Count(fields)
  <1>0. /\ fields \in [Messages -> Seq(Nat)] /\ msg \in Messages /\ s \in Seq(Nat)
        /\ new = [fields EXCEPT ![msg] = s]
    BY DEF Exchange
  <1>1. /\ new \in [Messages -> Seq(Nat)]
        /\ \A x \in Messages : new[x] = IF x = msg THEN s ELSE fields[x]
    BY <1>0
  <1>2. \A x \in Messages : /\ Len(fields[x]) \in Nat /\ Total(fields[x]) \in Nat
                            /\ Len(new[x]) \in Nat /\ Total(new[x]) \in Nat
    BY <1>0, <1>1, TotalType
  <1>3. Len(s) \in Nat /\ Total(s) \in Nat  BY <1>0, TotalType
  <1>a. /\ "request" \in Messages /\ "string_response" \in Messages
        /\ "file_response" \in Messages
    BY DEF Messages
  <1>b. PICK a, b, c, d, e, f :
          /\ a = Len(fields["request"]) /\ b = Len(fields["string_response"])
          /\ c = Len(fields["file_response"])
          /\ d = Total(fields["request"]) /\ e = Total(fields["string_response"])
          /\ f = Total(fields["file_response"])
    OBVIOUS
  <1>c. /\ a \in Nat /\ b \in Nat /\ c \in Nat /\ d \in Nat /\ e \in Nat /\ f \in Nat
        /\ Count(fields) = a + b + c /\ Taken(fields) = d + e + f
    BY <1>2, <1>a, <1>b DEF Count, Taken
  <1>4. CASE msg = "request"
    <2>1. /\ new["request"] = s /\ new["string_response"] = fields["string_response"]
          /\ new["file_response"] = fields["file_response"]
      BY <1>1, <1>a, <1>4
    <2>2. Count(new) = Len(s) + b + c /\ Taken(new) = Total(s) + e + f
      BY <1>b, <2>1 DEF Count, Taken
    <2>3. Len(fields[msg]) = a /\ Total(fields[msg]) = d  BY <1>b, <1>4
    <2>4. /\ (Len(s) + b + c) + a = (a + b + c) + Len(s) /\ (Total(s) + e + f) + d = (d + e + f) + Total(s)
          /\ a + b + c \in Nat /\ d + e + f \in Nat /\ a <= a + b + c
      BY <1>c, <1>3
    <2>. QED  BY <1>1, <1>c, <2>2, <2>3, <2>4
  <1>5. CASE msg = "string_response"
    <2>1. /\ new["request"] = fields["request"] /\ new["string_response"] = s
          /\ new["file_response"] = fields["file_response"]
      BY <1>1, <1>a, <1>5
    <2>2. Count(new) = a + Len(s) + c /\ Taken(new) = d + Total(s) + f
      BY <1>b, <2>1 DEF Count, Taken
    <2>3. Len(fields[msg]) = b /\ Total(fields[msg]) = e  BY <1>b, <1>5
    <2>4. /\ (a + Len(s) + c) + b = (a + b + c) + Len(s) /\ (d + Total(s) + f) + e = (d + e + f) + Total(s)
          /\ a + b + c \in Nat /\ d + e + f \in Nat /\ b <= a + b + c
      BY <1>c, <1>3
    <2>. QED  BY <1>1, <1>c, <2>2, <2>3, <2>4
  <1>6. CASE msg = "file_response"
    <2>1. /\ new["request"] = fields["request"] /\ new["string_response"] = fields["string_response"]
          /\ new["file_response"] = s
      BY <1>1, <1>a, <1>6
    <2>2. Count(new) = a + b + Len(s) /\ Taken(new) = d + e + Total(s)
      BY <1>b, <2>1 DEF Count, Taken
    <2>3. Len(fields[msg]) = c /\ Total(fields[msg]) = f  BY <1>b, <1>6
    <2>4. /\ (a + b + Len(s)) + c = (a + b + c) + Len(s) /\ (d + e + Total(s)) + f = (d + e + f) + Total(s)
          /\ a + b + c \in Nat /\ d + e + f \in Nat /\ c <= a + b + c
      BY <1>c, <1>3
    <2>. QED  BY <1>1, <1>c, <2>2, <2>3, <2>4
  <1>. QED  BY <1>0, <1>4, <1>5, <1>6 DEF Messages

LEMMA MemoryParts ==
    ASSUME NEW m \in Memory
    PROVE  /\ m.pool \in Pool /\ m.engaged \in SUBSET Messages
           /\ m.fields \in [Messages -> Seq(Nat)]
           /\ m.pool.p \in 0..Size /\ m.pool.count \in Nat /\ m.pool.refs \in Nat
           /\ m.pool.freed \in BOOLEAN
           /\ IsFiniteSet(m.engaged)
  <1>1. IsFiniteSet(Messages)
    <2>1. Messages = {"request"} \cup {"string_response"} \cup {"file_response"}  BY DEF Messages
    <2>2. IsFiniteSet({"request"}) /\ IsFiniteSet({"string_response"}) /\ IsFiniteSet({"file_response"})
      BY FS_Singleton
    <2>. QED  BY <2>1, <2>2, FS_Union
  <1>2. m.pool \in Pool /\ m.engaged \in SUBSET Messages /\ m.fields \in [Messages -> Seq(Nat)]
    BY DEF Memory
  <1>3. IsFiniteSet(m.engaged)  BY <1>1, <1>2, FS_Subset
  <1>. QED  BY <1>2, <1>3 DEF Pool

\* reset() takes a message and its fields away; what is left is balanced, and
\* exact when only that message had fields.
LEMMA ResetBalanced ==
    ASSUME NEW m, Balanced(m), NEW msg \in Messages
    PROVE  /\ Balanced(Reset(m, msg))
           /\ Reset(m, msg).engaged = m.engaged \ {msg}
           /\ Reset(m, msg).fields = [m.fields EXCEPT ![msg] = <<>>]
           /\ msg \notin m.engaged => Reset(m, msg) = m
           /\ Reset(m, msg).pool.p = 0 \/ Reset(m, msg).pool.p = m.pool.p
  <1>0. m \in Memory  BY DEF Balanced
  <1>1. CASE msg \notin m.engaged
    <2>1. Reset(m, msg) = m  BY <1>1 DEF Reset
    <2>2. m.fields[msg] = <<>>  BY <1>1 DEF Balanced
    <2>3. m.fields = [m.fields EXCEPT ![msg] = <<>>]  BY <1>0, <2>2, MemoryParts
    <2>. QED  BY <1>1, <2>1, <2>3
  <1>2. CASE msg \in m.engaged
    <2>. DEFINE fields == [m.fields EXCEPT ![msg] = <<>>]
                k == Len(m.fields[msg])
                left == Emptied(m.pool, k)
                r == [pool |-> Destroy(left), engaged |-> m.engaged \ {msg}, fields |-> fields]
    <2>1. /\ fields \in [Messages -> Seq(Nat)]
          /\ Count(fields) + k = m.pool.count /\ k <= m.pool.count
      <3>1. <<>> \in Seq(Nat) /\ Len(<<>>) = 0  OBVIOUS
      <3>. HIDE DEF k
      <3>4. m.fields \in [Messages -> Seq(Nat)]  BY <1>0, MemoryParts
      <3>5. PICK new : new = [m.fields EXCEPT ![msg] = <<>>]  OBVIOUS
      <3>6. /\ new \in [Messages -> Seq(Nat)]
            /\ Count(new) + Len(m.fields[msg]) = Count(m.fields) + Len(<<>>)
            /\ Len(m.fields[msg]) <= Count(m.fields) /\ Count(m.fields) \in Nat
        <4>1. Exchange(m.fields, msg, <<>>, new)  BY <3>1, <3>4, <3>5 DEF Exchange
        <4>. QED  BY <4>1, Exchanged
      <3>2. /\ fields \in [Messages -> Seq(Nat)]
            /\ Count(fields) + k = Count(m.fields) + 0 /\ k <= Count(m.fields)
            /\ Count(m.fields) \in Nat
        BY <3>1, <3>5, <3>6 DEF k
      <3>3. m.pool.count = Count(m.fields)  BY DEF Balanced
      <3>. QED  BY <3>2, <3>3
    <2>2. k \in Nat  BY <1>0, MemoryParts
    <2>3. DeallocAll(m.pool, k) = left  BY <1>0, <2>1, <2>2, MemoryParts, DeallocAllIs
    <2>4. Reset(m, msg) = r  BY <1>2, <2>3 DEF Reset
    <2>5. Cardinality(m.engaged \ {msg}) = Cardinality(m.engaged) - 1
          /\ Cardinality(m.engaged) \in Nat /\ Cardinality(m.engaged \ {msg}) \in Nat
      BY <1>0, <1>2, MemoryParts, FS_RemoveElement, FS_CardinalityType
    <2>6. m.pool.refs = 1 + Cardinality(m.engaged)  BY DEF Balanced
    <2>7. /\ r.pool.refs = 1 + Cardinality(r.engaged)
          /\ r.pool.freed = m.pool.freed
          /\ r.pool.count = m.pool.count - k
          /\ r.pool.p = IF k > 0 /\ k = m.pool.count THEN 0 ELSE m.pool.p
          /\ r.pool \in Pool
      <3>1. /\ left.refs = m.pool.refs /\ left.freed = m.pool.freed
            /\ left.count = m.pool.count - k
            /\ left.p = IF k > 0 /\ k = m.pool.count THEN 0 ELSE m.pool.p
        BY DEF Emptied
      <3>2. left.p \in 0..Size /\ left.count \in Nat
        BY <1>0, <2>1, <2>2, <3>1, MemoryParts, PoolAssumption
      <3>. HIDE DEF left
      <3>3. Destroy(left) = [p |-> left.p, count |-> left.count, refs |-> m.pool.refs - 1,
                             freed |-> m.pool.freed]
        BY <1>0, <2>5, <2>6, <3>1, MemoryParts DEF Destroy
      <3>4. m.pool.refs - 1 \in Nat  BY <2>5, <2>6
      <3>. QED  BY <1>0, <2>5, <2>6, <3>1, <3>2, <3>3, <3>4, MemoryParts DEF Pool
    <2>8. r \in Memory
      BY <1>0, <2>1, <2>7, MemoryParts DEF Memory
    <2>9. \A x \in Messages : x \notin r.engaged => r.fields[x] = <<>>
      BY <1>0, MemoryParts DEF Balanced
    <2>10. r.pool.count = Count(r.fields)
      <3>1. Count(fields) = m.pool.count - k /\ r.fields = fields
        <4>. HIDE DEF fields, k
        <4>1. Count(fields) \in Nat  BY <2>1, TotalType, CountType
        <4>. QED  BY <1>0, <2>1, <2>2, <4>1, MemoryParts
      <3>. QED  BY <2>7, <3>1
    <2>11. r.pool.count = 0 => r.pool.p = 0
      <3>1. m.pool.count = 0 => m.pool.p = 0  BY DEF Balanced
      <3>. QED  BY <1>0, <2>1, <2>2, <2>7, <3>1, MemoryParts
    <2>12. Balanced(r)  BY <2>7, <2>8, <2>9, <2>10, <2>11 DEF Balanced
    <2>. QED  BY <1>2, <2>4, <2>7, <2>12
  <1>. QED  BY <1>1, <1>2

\* emplace() leaves the message engaged, without fields.
LEMMA EmplaceBalanced ==
    ASSUME NEW m, Balanced(m), NEW msg \in Messages
    PROVE  /\ Balanced(Emplace(m, msg))
           /\ Emplace(m, msg).engaged = m.engaged \cup {msg}
           /\ Emplace(m, msg).fields = [m.fields EXCEPT ![msg] = <<>>]
           /\ msg \notin m.engaged => Emplace(m, msg).pool.p = m.pool.p
                                      /\ Emplace(m, msg).fields = m.fields
  <1>1. PICK r : r = Reset(m, msg)  OBVIOUS
  <1>2. /\ Balanced(r) /\ r.engaged = m.engaged \ {msg}
        /\ r.fields = [m.fields EXCEPT ![msg] = <<>>]
        /\ msg \notin m.engaged => r = m
    BY <1>1, ResetBalanced
  <1>3. r \in Memory  BY <1>2 DEF Balanced
  <1>4. PICK e : e = [pool |-> Share(r.pool), engaged |-> r.engaged \cup {msg}, fields |-> r.fields]
    OBVIOUS
  <1>5. Emplace(m, msg) = e
    <2>1. PICK a, b, c : r = [pool |-> a, engaged |-> b, fields |-> c]  BY <1>3 DEF Memory
    <2>2. Emplace(m, msg) = [r EXCEPT !.pool = Share(@), !.engaged = @ \cup {msg}]
      BY <1>1 DEF Emplace
    <2>. QED  BY <1>4, <2>1, <2>2
  <1>6. /\ e.engaged = m.engaged \cup {msg} /\ e.fields = r.fields
        /\ e.pool.p = r.pool.p /\ e.pool.count = r.pool.count
        /\ e.pool.refs = r.pool.refs + 1 /\ e.pool.freed = r.pool.freed
    BY <1>2, <1>4 DEF Share
  <1>7. e \in Memory
    <2>1. Share(r.pool) \in Pool  BY <1>3, MemoryParts DEF Share, Pool
    <2>. QED  BY <1>3, <1>4, <2>1, MemoryParts DEF Memory
  <1>8. e.pool.refs = 1 + Cardinality(e.engaged)
    <2>1. e.engaged = r.engaged \cup {msg} /\ msg \notin r.engaged  BY <1>2, <1>4
    <2>2. Cardinality(e.engaged) = Cardinality(r.engaged) + 1 /\ Cardinality(r.engaged) \in Nat
      BY <1>3, <2>1, MemoryParts, FS_AddElement, FS_CardinalityType
    <2>3. r.pool.refs = 1 + Cardinality(r.engaged)  BY <1>2 DEF Balanced
    <2>. QED  BY <1>6, <2>2, <2>3
  <1>9. \A x \in Messages : x \notin e.engaged => e.fields[x] = <<>>
    BY <1>2, <1>4 DEF Balanced
  <1>10. Balanced(e)
    BY <1>2, <1>6, <1>7, <1>8, <1>9 DEF Balanced
  <1>. QED  BY <1>2, <1>5, <1>6, <1>10

\* One more field of an engaged message, when there is room for it.
LEMMA InsertBalanced ==
    ASSUME NEW m, Balanced(m), NEW msg \in m.engaged, NEW n \in Nat, HasRoom(m.pool, n)
    PROVE  /\ Balanced(Insert(m, msg, n))
           /\ Insert(m, msg, n).engaged = m.engaged
           /\ Insert(m, msg, n).fields = [m.fields EXCEPT ![msg] = Append(m.fields[msg], n)]
           /\ Exact(m) => Exact(Insert(m, msg, n))
  <1>0. m \in Memory /\ msg \in Messages  BY DEF Balanced, Memory
  <1>1. PICK s, new : s = Append(m.fields[msg], n) /\ new = [m.fields EXCEPT ![msg] = s]
    OBVIOUS
  <1>2. PICK r : r = [pool |-> Alloc(m.pool, n), engaged |-> m.engaged, fields |-> new]  OBVIOUS
  <1>3. Insert(m, msg, n) = r
    BY <1>1, <1>2 DEF Insert
  <1>4. /\ m.fields[msg] \in Seq(Nat) /\ s \in Seq(Nat)
        /\ Len(s) = Len(m.fields[msg]) + 1 /\ Len(m.fields[msg]) \in Nat
    BY <1>0, <1>1, MemoryParts
  <1>5. Total(s) = Total(m.fields[msg]) + n /\ Total(m.fields[msg]) \in Nat
    BY <1>1, <1>4, TotalAppend, TotalType
  <1>6. Exchange(m.fields, msg, s, new)  BY <1>0, <1>1, <1>4, MemoryParts DEF Exchange
  <1>7. /\ new \in [Messages -> Seq(Nat)]
        /\ Count(new) + Len(m.fields[msg]) = Count(m.fields) + Len(s)
        /\ Taken(new) + Total(m.fields[msg]) = Taken(m.fields) + Total(s)
        /\ Count(m.fields) \in Nat /\ Taken(m.fields) \in Nat
    BY <1>6, Exchanged
  <1>8. Count(new) \in Nat /\ Taken(new) \in Nat  BY <1>7, CountType
  <1>9. Count(new) = Count(m.fields) + 1 /\ Taken(new) = Taken(m.fields) + n
    <2>. DEFINE k == Len(m.fields[msg])
                t == Total(m.fields[msg])
                a == Count(new)
                b == Count(m.fields)
                c == Taken(new)
                d == Taken(m.fields)
    <2>1. /\ k \in Nat /\ t \in Nat /\ a \in Nat /\ b \in Nat /\ c \in Nat /\ d \in Nat
          /\ a + k = b + (k + 1) /\ c + t = d + (t + n)
      BY <1>4, <1>5, <1>7, <1>8
    <2>2. a = b + 1 /\ c = d + n
      <3>. HIDE DEF k, t, a, b, c, d
      <3>. QED  BY <2>1
    <2>. QED  BY <2>2
  <1>10. /\ r.pool.p = m.pool.p + n /\ r.pool.count = m.pool.count + 1
         /\ r.pool.refs = m.pool.refs /\ r.pool.freed = m.pool.freed
         /\ r.engaged = m.engaged /\ r.fields = new
    BY <1>2 DEF Alloc
  <1>11. r \in Memory
    <2>1. m.pool.p + n \in 0..Size /\ m.pool.count + 1 \in Nat
      BY <1>0, MemoryParts, PoolAssumption DEF HasRoom
    <2>2. Alloc(m.pool, n) \in Pool  BY <1>0, <2>1, MemoryParts DEF Alloc, Pool
    <2>. QED  BY <1>0, <1>2, <1>7, <2>2, MemoryParts DEF Memory
  <1>12. m.pool.count = Count(m.fields)  BY DEF Balanced
  <1>13. \A x \in Messages : x \notin r.engaged => r.fields[x] = <<>>
    <2>1. \A x \in Messages : x # msg => new[x] = m.fields[x]  BY <1>0, <1>1, MemoryParts
    <2>. QED  BY <1>10, <2>1 DEF Balanced
  <1>14. Balanced(r)
    <2>1. r.pool.count # 0  BY <1>7, <1>10, <1>12
    <2>. QED  BY <1>9, <1>10, <1>11, <1>12, <1>13, <2>1 DEF Balanced
  <1>15. Exact(m) => Exact(r)  BY <1>9, <1>10 DEF Exact
  <1>. QED  BY <1>1, <1>3, <1>10, <1>14, <1>15

\* A message without fields after the first k fields of a response were put in.
Filled(m, msg, k) ==
    LET first == SubSeq(ResponseFields, 1, k)
    IN  [pool |-> [p |-> m.pool.p + Total(first), count |-> m.pool.count + k,
                   refs |-> m.pool.refs, freed |-> m.pool.freed],
         engaged |-> m.engaged,
         fields |-> [m.fields EXCEPT ![msg] = first]]

LEMMA ResponseSizes ==
    /\ ResponseFields \in Seq(Nat) /\ Len(ResponseFields) \in Nat
    /\ SubSeq(ResponseFields, 1, 0) = <<>> /\ SubSeq(ResponseFields, 1, Len(ResponseFields)) = ResponseFields
    /\ \A k \in 0..Len(ResponseFields) :
         SubSeq(ResponseFields, 1, k) \in Seq(Nat) /\ Len(SubSeq(ResponseFields, 1, k)) = k
  BY FieldsAssumption

LEMMA FilledStep ==
    ASSUME NEW m \in Memory, NEW msg \in Messages, NEW k \in 1..Len(ResponseFields)
    PROVE  Insert(Filled(m, msg, k - 1), msg, ResponseFields[k]) = Filled(m, msg, k)
  <1>. DEFINE before == SubSeq(ResponseFields, 1, k - 1)
              now == SubSeq(ResponseFields, 1, k)
              n == ResponseFields[k]
              q == [p |-> m.pool.p + Total(before), count |-> m.pool.count + (k - 1),
                    refs |-> m.pool.refs, freed |-> m.pool.freed]
              f == [m.fields EXCEPT ![msg] = before]
  <1>1. /\ before \in Seq(Nat) /\ now \in Seq(Nat) /\ n \in Nat /\ now = Append(before, n)
    BY ResponseSizes
  <1>2. Total(now) = Total(before) + n /\ Total(before) \in Nat
    BY <1>1, TotalAppend, TotalType
  <1>3. Alloc(q, n) = [p |-> (m.pool.p + Total(before)) + n,
                       count |-> (m.pool.count + (k - 1)) + 1,
                       refs |-> m.pool.refs, freed |-> m.pool.freed]
    BY DEF Alloc
  <1>4. (m.pool.p + Total(before)) + n = m.pool.p + Total(now)
    <2>. HIDE DEF before, now, n
    <2>. QED  BY <1>1, <1>2, MemoryParts, PoolAssumption
  <1>5. (m.pool.count + (k - 1)) + 1 = m.pool.count + k  BY MemoryParts
  <1>6. [f EXCEPT ![msg] = Append(f[msg], n)] = [m.fields EXCEPT ![msg] = now]
    <2>1. m.fields \in [Messages -> Seq(Nat)]  BY MemoryParts
    <2>2. f[msg] = before  BY <2>1
    <2>3. Append(f[msg], n) = now  BY <1>1, <2>2
    <2>. HIDE DEF before, now, n
    <2>. QED  BY <2>1, <2>3
  <1>7. Filled(m, msg, k - 1) = [pool |-> q, engaged |-> m.engaged, fields |-> f]
    BY DEF Filled
  <1>8. Filled(m, msg, k) =
          [pool |-> [p |-> m.pool.p + Total(now), count |-> m.pool.count + k,
                     refs |-> m.pool.refs, freed |-> m.pool.freed],
           engaged |-> m.engaged, fields |-> [m.fields EXCEPT ![msg] = now]]
    BY DEF Filled
  <1>9. Insert(Filled(m, msg, k - 1), msg, n) =
          [pool |-> Alloc(q, n), engaged |-> m.engaged,
           fields |-> [f EXCEPT ![msg] = Append(f[msg], n)]]
    <2>. HIDE DEF q, f, n
    <2>1. PICK r : r = Filled(m, msg, k - 1)  OBVIOUS
    <2>2. r.pool = q /\ r.engaged = m.engaged /\ r.fields = f  BY <1>7, <2>1
    <2>3. Insert(r, msg, n) = [pool |-> Alloc(r.pool, n), engaged |-> r.engaged,
                               fields |-> [r.fields EXCEPT ![msg] = Append(r.fields[msg], n)]]
      BY Zenon DEF Insert
    <2>. QED  BY <2>1, <2>2, <2>3, Zenon
  <1>10. Insert(Filled(m, msg, k - 1), msg, n) = Filled(m, msg, k)
    <2>. HIDE DEF before, now, n, q, f
    <2>1. Alloc(q, n) = [p |-> m.pool.p + Total(now), count |-> m.pool.count + k,
                         refs |-> m.pool.refs, freed |-> m.pool.freed]
      BY <1>3, <1>4, <1>5, Zenon
    <2>. QED  BY <1>6, <1>8, <1>9, <2>1, Zenon
  <1>. QED  BY <1>10

\* A response that was begun has the first k of its fields.
LEMMA BeginIs ==
    ASSUME NEW m, NEW msg \in Messages, NEW n \in 0..Len(ResponseFields), Balanced(m)
    PROVE  Begin(m, msg, n) = Filled(Emplace(m, msg), msg, n)
  <1>. DEFINE Step(t, e, l) ==
                [k \in 0..l |-> IF k = 0 THEN e ELSE Insert(t[k - 1], msg, ResponseFields[k])]
              filled == CHOOSE t : t = Step(t, Emplace(m, msg), n)
  <1>1. PICK e : e = Emplace(m, msg)  OBVIOUS
  <1>2. n \in Nat /\ e \in Memory /\ e.fields[msg] = <<>>
    <2>1. Balanced(e) /\ e.fields = [m.fields EXCEPT ![msg] = <<>>]
      BY <1>1, EmplaceBalanced
    <2>2. m \in Memory  BY DEF Balanced
    <2>. QED  BY <1>1, <2>1, <2>2, MemoryParts, ResponseSizes DEF Balanced
  <1>3. Begin(m, msg, n) = filled[n] /\ filled = CHOOSE t : t = Step(t, e, n)
    BY <1>1 DEF Begin
  <1>4. Filled(e, msg, 0) = e
    <2>1. PICK a, b, c : e = [pool |-> a, engaged |-> b, fields |-> c]  BY <1>2 DEF Memory
    <2>2. PICK p, q, r, s : a = [p |-> p, count |-> q, refs |-> r, freed |-> s]
      BY <1>2, <2>1 DEF Memory, Pool
    <2>3. p + 0 = p /\ q + 0 = q  BY <1>2, <2>1, <2>2, MemoryParts
    <2>4. [c EXCEPT ![msg] = <<>>] = c
      <3>1. c \in [Messages -> Seq(Nat)] /\ c[msg] = <<>>  BY <1>2, <2>1, MemoryParts
      <3>. QED  BY <3>1
    <2>. QED  BY <2>1, <2>2, <2>3, <2>4, TotalEmpty, ResponseSizes DEF Filled
  <1>5. \A k \in 1..n : Insert(Filled(e, msg, k - 1), msg, ResponseFields[k]) = Filled(e, msg, k)
    <2>1. 1..n \subseteq 1..Len(ResponseFields)  BY ResponseSizes
    <2>. QED  BY <1>2, <2>1, FilledStep
  <1>6. PICK f : f = [k \in 0..n |-> Filled(e, msg, k)]  OBVIOUS
  <1>7. f = Step(f, e, n)
    <2>1. ASSUME NEW k \in 0..n
          PROVE  Filled(e, msg, k) = IF k = 0 THEN e ELSE Insert(f[k - 1], msg, ResponseFields[k])
      <3>1. CASE k = 0  BY <1>4, <3>1
      <3>2. CASE k # 0
        <4>1. k \in 1..n /\ k - 1 \in 0..n  BY <1>2, <3>2
        <4>2. f[k - 1] = Filled(e, msg, k - 1)  BY <1>6, <4>1
        <4>. QED  BY <1>5, <3>2, <4>1, <4>2
      <3>. QED  BY <3>1, <3>2
    <2>. QED  BY <1>6, <2>1
  <1>8. filled = Step(filled, e, n)
    <2>. DEFINE P(t) == t = Step(t, e, n)
    <2>1. P(f)  BY <1>7
    <2>. HIDE DEF Step
    <2>2. P(CHOOSE t : P(t))
      <3>. HIDE DEF P
      <3>. QED  BY <2>1
    <2>. QED  BY <1>3, <2>2
  <1>. HIDE DEF filled
  <1>9. \A k \in 0..n :
          filled[k] = IF k = 0 THEN e ELSE Insert(filled[k - 1], msg, ResponseFields[k])
    BY <1>8
  <1>10. PICK S : S = {k \in 0..n : filled[k] = Filled(e, msg, k)}  OBVIOUS
  <1>11. 0 \in S  BY <1>2, <1>4, <1>9, <1>10
  <1>12. ASSUME NEW k \in 0 .. n - 1, k \in S PROVE k + 1 \in S
    <2>1. k + 1 \in 1..n /\ k + 1 \in 0..n /\ (k + 1) - 1 = k /\ k + 1 # 0  BY <1>2
    <2>2. filled[k + 1] = Insert(filled[k], msg, ResponseFields[k + 1])  BY <1>9, <2>1
    <2>3. filled[k] = Filled(e, msg, k)  BY <1>10, <1>12
    <2>4. Insert(Filled(e, msg, k), msg, ResponseFields[k + 1]) = Filled(e, msg, k + 1)
      BY <1>5, <2>1
    <2>. QED  BY <1>10, <2>1, <2>2, <2>3, <2>4
  <1>13. \A k \in 0..n : k \in S  BY <1>2, <1>11, <1>12, IntervalInduction
  <1>14. n \in 0..n  BY <1>2
  <1>. QED  BY <1>1, <1>3, <1>10, <1>13, <1>14

\* A response begun that there is room for; it is exact when emplacing it was.
LEMMA BeginBalanced ==
    ASSUME NEW m, Balanced(m), NEW msg \in Messages, NEW n \in 0..Len(ResponseFields),
           CanBegin(m, msg, n)
    PROVE  /\ Balanced(Begin(m, msg, n))
           /\ Begin(m, msg, n).engaged = m.engaged \cup {msg}
           /\ Begin(m, msg, n).fields[msg] = SubSeq(ResponseFields, 1, n)
           /\ Exact(Emplace(m, msg)) => Exact(Begin(m, msg, n))
  <1>. DEFINE given == SubSeq(ResponseFields, 1, n)
              t == Total(given)
  <1>a. given \in Seq(Nat) /\ Len(given) = n  BY ResponseSizes
  <1>b. n \in Nat /\ t \in Nat
    <2>1. t \in Nat  BY <1>a, TotalType
    <2>. QED  BY <2>1, ResponseSizes
  <1>1. PICK e, r, new : /\ e = Emplace(m, msg) /\ r = Begin(m, msg, n)
                         /\ new = [e.fields EXCEPT ![msg] = given]
    OBVIOUS
  <1>2. /\ Balanced(e) /\ e \in Memory /\ e.engaged = m.engaged \cup {msg}
        /\ e.fields[msg] = <<>>
    <2>1. /\ Balanced(e) /\ e.engaged = m.engaged \cup {msg}
          /\ e.fields = [m.fields EXCEPT ![msg] = <<>>]
      BY <1>1, EmplaceBalanced
    <2>2. m \in Memory  BY DEF Balanced
    <2>. QED  BY <2>1, <2>2, MemoryParts DEF Balanced
  <1>4. /\ r.pool = [p |-> e.pool.p + t, count |-> e.pool.count + n,
                     refs |-> e.pool.refs, freed |-> e.pool.freed]
        /\ r.engaged = e.engaged /\ r.fields = new
        /\ r = [pool |-> r.pool, engaged |-> r.engaged, fields |-> r.fields]
    <2>1. r = Filled(e, msg, n)  BY <1>1, BeginIs
    <2>2. Filled(e, msg, n) =
            [pool |-> [p |-> e.pool.p + t, count |-> e.pool.count + n,
                       refs |-> e.pool.refs, freed |-> e.pool.freed],
             engaged |-> e.engaged,
             fields |-> [e.fields EXCEPT ![msg] = given]]
      BY DEF Filled
    <2>. QED  BY <1>1, <2>1, <2>2
  <1>5. Exchange(e.fields, msg, given, new)
    BY <1>1, <1>2, <1>a, MemoryParts DEF Exchange
  <1>6. /\ new \in [Messages -> Seq(Nat)]
        /\ Count(new) = Count(e.fields) + n /\ Taken(new) = Taken(e.fields) + t
    <2>1. /\ new \in [Messages -> Seq(Nat)]
          /\ Count(new) + Len(e.fields[msg]) = Count(e.fields) + n
          /\ Taken(new) + Total(e.fields[msg]) = Taken(e.fields) + t
          /\ Count(e.fields) \in Nat /\ Taken(e.fields) \in Nat
      <3>1. PICK g : g = given  OBVIOUS
      <3>2. Exchange(e.fields, msg, g, new)  BY <1>5, <3>1
      <3>3. /\ new \in [Messages -> Seq(Nat)]
            /\ Count(new) + Len(e.fields[msg]) = Count(e.fields) + Len(g)
            /\ Taken(new) + Total(e.fields[msg]) = Taken(e.fields) + Total(g)
            /\ Count(e.fields) \in Nat /\ Taken(e.fields) \in Nat
        BY <3>2, Exchanged
      <3>4. Len(g) = n /\ Total(g) = t  BY <1>a, <3>1
      <3>. QED  BY <3>3, <3>4
    <2>2. Len(e.fields[msg]) = 0 /\ Total(e.fields[msg]) = 0  BY <1>2, TotalEmpty
    <2>3. Count(new) \in Nat /\ Taken(new) \in Nat  BY <2>1, CountType
    <2>4. Count(new) + 0 = Count(e.fields) + n /\ Taken(new) + 0 = Taken(e.fields) + t
      BY <2>1, <2>2
    <2>. DEFINE a == Count(new)
                b == Count(e.fields)
                c == Taken(new)
                d == Taken(e.fields)
    <2>5. a + 0 = b + n /\ c + 0 = d + t /\ a \in Nat /\ b \in Nat /\ c \in Nat /\ d \in Nat
      BY <2>1, <2>3, <2>4
    <2>6. a = b + n /\ c = d + t
      <3>. HIDE DEF a, b, c, d, t
      <3>. QED  BY <1>b, <2>5
    <2>. QED  BY <2>1, <2>6
  <1>7. e.pool.p + t < Size  BY <1>1 DEF CanBegin, HasRoom
  <1>8. r.pool \in Pool
    <2>1. e.pool.p + t \in 0..Size /\ e.pool.count + n \in Nat
      <3>. HIDE DEF t
      <3>. QED  BY <1>2, <1>b, <1>7, MemoryParts, PoolAssumption
    <2>. QED  BY <1>2, <1>4, <2>1, MemoryParts DEF Pool
  <1>9. r \in Memory
    <2>1. r.engaged \in SUBSET Messages /\ r.fields \in [Messages -> Seq(Nat)]
      BY <1>2, <1>4, <1>6, MemoryParts
    <2>. QED  BY <1>4, <1>8, <2>1 DEF Memory
  <1>10. \A x \in Messages : x \notin r.engaged => r.fields[x] = <<>>
    <2>1. \A x \in Messages : x # msg => new[x] = e.fields[x]  BY <1>1, <1>2, MemoryParts
    <2>2. \A x \in Messages : x \notin e.engaged => e.fields[x] = <<>>  BY <1>2 DEF Balanced
    <2>. QED  BY <1>2, <1>4, <2>1, <2>2
  <1>11. r.pool.p = e.pool.p + t /\ r.pool.count = e.pool.count + n /\ r.pool.refs = e.pool.refs
    BY <1>4
  <1>12. Balanced(r)
    <2>1. e.pool.count = Count(e.fields) /\ e.pool.refs = 1 + Cardinality(e.engaged)
          /\ (e.pool.count = 0 => e.pool.p = 0)
      BY <1>2 DEF Balanced
    <2>2. r.pool.count = Count(r.fields)  BY <1>4, <1>6, <1>11, <2>1
    <2>3. r.pool.refs = 1 + Cardinality(r.engaged)  BY <1>4, <1>11, <2>1
    <2>4. r.pool.count = 0 => r.pool.p = 0
      <3>1. n = 0 => t = 0
        <4>1. n = 0 => given = <<>>  BY ResponseSizes
        <4>. QED  BY <4>1, TotalEmpty
      <3>2. e.pool.count \in Nat /\ e.pool.p \in Nat  BY <1>2, MemoryParts, PoolAssumption
      <3>. DEFINE a == e.pool.count
                  b == e.pool.p
                  c == r.pool.count
                  d == r.pool.p
      <3>3. /\ a \in Nat /\ b \in Nat /\ c = a + n /\ d = b + t /\ (a = 0 => b = 0)
            /\ n \in Nat /\ t \in Nat /\ (n = 0 => t = 0)
        BY <1>b, <1>11, <2>1, <3>1, <3>2
      <3>4. c = 0 => d = 0
        <4>. HIDE DEF a, b, c, d, t
        <4>. QED  BY <3>3
      <3>. QED  BY <3>4
    <2>. QED  BY <1>9, <1>10, <2>2, <2>3, <2>4 DEF Balanced
  <1>13. Exact(e) => Exact(r)  BY <1>4, <1>6, <1>11 DEF Exact
  <1>14. r.fields[msg] = given
    <2>1. e.fields \in [Messages -> Seq(Nat)]  BY <1>2, MemoryParts
    <2>. QED  BY <1>1, <1>4, <2>1
  <1>. QED  BY <1>1, <1>2, <1>4, <1>12, <1>13, <1>14

\* A whole response.
LEMMA RespondBalanced ==
    ASSUME NEW m, Balanced(m), NEW msg \in Messages, CanRespond(m, msg)
    PROVE  /\ Balanced(Respond(m, msg))
           /\ Respond(m, msg).engaged = m.engaged \cup {msg}
           /\ Respond(m, msg).fields[msg] = ResponseFields
           /\ Exact(Emplace(m, msg)) => Exact(Respond(m, msg))
  <1>1. PICK n : n = Len(ResponseFields)  OBVIOUS
  <1>2. n \in 0..Len(ResponseFields) /\ SubSeq(ResponseFields, 1, n) = ResponseFields
    BY <1>1, ResponseSizes
  <1>3. CanBegin(m, msg, n) /\ Respond(m, msg) = Begin(m, msg, n)
    BY <1>1 DEF CanRespond, Respond
  <1>. QED  BY <1>2, <1>3, BeginBalanced

-----------------------------------------------------------------------------
(* The steps of the worker.                                                *)

\* The memory when a request is answered: with a socket or a callback alone, no
\* response of an earlier one is left but the callback's, which goes first.
Ready(m) ==
    /\ Balanced(m)
    /\ ~mode.socket => m.engaged \subseteq {"string_response"}
    /\ OneSided /\ mode.socket => m.engaged \subseteq {"request"} /\ Exact(m)

\* The memory in each phase.
Fits(m, ph) ==
    /\ Balanced(m)
    /\ ph = "reading" => mode.socket /\ "request" \in m.engaged
    /\ ~mode.socket => ph \in {"ready", "crashed", "thrown"} /\ m.engaged \subseteq {"string_response"}
    /\ OneSided /\ (ph # "ready" \/ ~mode.socket) => Exact(m)
    /\ OneSided /\ mode.socket =>
         /\ ph \in {"ready", "reading"} => m.engaged \subseteq {"request"}
         /\ ph = "writing_string" => "file_response" \notin m.engaged
         /\ ph = "writing_file" => "string_response" \notin m.engaged

IInv ==
    /\ mode \in Modes /\ phase \in Phases /\ delivered \in Nat
    /\ Fits(mem, phase)

\* Without fields nothing is taken.
LEMMA NothingTaken ==
    ASSUME NEW fields, NEW msg \in {"string_response", "file_response"},
           \A x \in Messages \ {"request"} : fields[x] = <<>>,
           Total(fields["request"]) \in Nat
    PROVE  Taken(fields) = Total(fields["request"])
  <1>1. fields["string_response"] = <<>> /\ fields["file_response"] = <<>>  BY DEF Messages
  <1>. QED  BY <1>1, TotalEmpty DEF Taken

\* A message that was engaged alone finds the pool empty when it is emplaced.
LEMMA EmplaceAlone ==
    ASSUME NEW m, Balanced(m), NEW msg \in Messages, m.engaged \subseteq {msg}
    PROVE  Exact(Emplace(m, msg)) /\ Emplace(m, msg).pool.p = 0
  <1>1. PICK e : e = Emplace(m, msg)  OBVIOUS
  <1>2. Balanced(e) /\ e.fields = [m.fields EXCEPT ![msg] = <<>>]  BY <1>1, EmplaceBalanced
  <1>3. \A x \in Messages : e.fields[x] = <<>>
    <2>1. m \in Memory /\ \A x \in Messages : x \notin m.engaged => m.fields[x] = <<>>
      BY DEF Balanced
    <2>2. m.fields \in [Messages -> Seq(Nat)]  BY <2>1, MemoryParts
    <2>. QED  BY <1>2, <2>1, <2>2
  <1>4. Count(e.fields) = 0 /\ Taken(e.fields) = 0
    <2>1. /\ e.fields["request"] = <<>> /\ e.fields["string_response"] = <<>>
          /\ e.fields["file_response"] = <<>>
      BY <1>3 DEF Messages
    <2>2. Len(<<>>) = 0  OBVIOUS
    <2>3. Count(e.fields) = 0 + 0 + 0  BY <2>1, <2>2 DEF Count
    <2>4. Taken(e.fields) = 0 + 0 + 0  BY <2>1, TotalEmpty DEF Taken
    <2>. QED  BY <2>3, <2>4
  <1>5. e.pool.p = 0  BY <1>2, <1>4 DEF Balanced
  <1>. QED  BY <1>1, <1>4, <1>5 DEF Exact

\* With a socket or a callback alone, a response begins behind the fields of its
\* own request.
LEMMA ReadyEmplace ==
    ASSUME mode \in Modes, NEW m, Ready(m), NEW msg \in {"string_response", "file_response"},
           msg = "file_response" => mode.socket
    PROVE  /\ Balanced(Emplace(m, msg))
           /\ Emplace(m, msg).engaged = m.engaged \cup {msg}
           /\ OneSided => /\ Exact(Emplace(m, msg))
                          /\ Emplace(m, msg).pool.p = Total(m.fields["request"])
  <1>a. msg \in Messages /\ Balanced(m)  BY DEF Messages, Ready
  <1>0. "request" \in Messages /\ msg \in Messages /\ Balanced(m) /\ m \in Memory
    BY <1>a DEF Messages, Balanced
  <1>1. Balanced(Emplace(m, msg)) /\ Emplace(m, msg).engaged = m.engaged \cup {msg}
    BY <1>a, EmplaceBalanced
  <1>2. \A x \in Messages : x \notin m.engaged => m.fields[x] = <<>>  BY <1>0 DEF Balanced
  <1>3. ASSUME OneSided, mode.socket
        PROVE  Exact(Emplace(m, msg)) /\ Emplace(m, msg).pool.p = Total(m.fields["request"])
    <2>1. m.engaged \subseteq {"request"} /\ Exact(m)  BY <1>3 DEF Ready
    <2>2. msg \notin m.engaged  BY <2>1
    <2>3. Emplace(m, msg).pool.p = m.pool.p /\ Emplace(m, msg).fields = m.fields
      BY <1>0, <2>2, EmplaceBalanced
    <2>4. \A x \in Messages \ {"request"} : m.fields[x] = <<>>  BY <1>2, <2>1
    <2>5. Total(m.fields["request"]) \in Nat  BY <1>0, MemoryParts, TotalType
    <2>6. Taken(m.fields) = Total(m.fields["request"])  BY <2>4, <2>5, NothingTaken
    <2>. QED  BY <2>1, <2>3, <2>6 DEF Exact
  <1>4. ASSUME OneSided, ~mode.socket
        PROVE  Exact(Emplace(m, msg)) /\ Emplace(m, msg).pool.p = Total(m.fields["request"])
    <2>1. m.engaged \subseteq {"string_response"} /\ msg = "string_response"  BY <1>4 DEF Ready
    <2>2. m.fields["request"] = <<>>  BY <1>0, <1>2, <2>1
    <2>. QED  BY <1>0, <2>1, <2>2, EmplaceAlone, TotalEmpty
  <1>. QED  BY <1>1, <1>3, <1>4

\* A response that was begun fits an exception, as it does its phase when it is whole.
LEMMA ReadyBegin ==
    ASSUME mode \in Modes, Ready(mem), CanBegin(mem, "string_response", BeforeBody)
    PROVE  Fits(Begin(mem, "string_response", BeforeBody), "thrown")
  <1>1. PICK msg : msg = "string_response"  OBVIOUS
  <1>2. /\ msg \in Messages /\ msg \in {"string_response", "file_response"}
        /\ msg # "file_response" /\ Balanced(mem)
    BY <1>1 DEF Messages, Ready
  <1>3. OneSided => Exact(Emplace(mem, msg))  BY <1>2, ReadyEmplace
  <1>4. PICK r : r = Begin(mem, msg, BeforeBody)  OBVIOUS
  <1>5. /\ Balanced(r) /\ r.engaged = mem.engaged \cup {msg}
        /\ Exact(Emplace(mem, msg)) => Exact(r)
    BY <1>1, <1>2, <1>4, BodyAssumption, BeginBalanced
  <1>6. ~mode.socket => r.engaged \subseteq {"string_response"}  BY <1>1, <1>5 DEF Ready
  <1>7. Fits(r, "thrown")  BY <1>3, <1>5, <1>6 DEF Fits
  <1>. QED  BY <1>1, <1>4, <1>7

\* A response fits its phase, and so does what a crash leaves before it.
LEMMA ReadyRespond ==
    ASSUME mode \in Modes, NEW m, Ready(m), NEW msg \in {"string_response", "file_response"},
           msg = "file_response" => mode.socket
    PROVE  /\ Fits(Emplace(m, msg), "crashed")
           /\ CanRespond(m, msg) =>
                /\ Balanced(Respond(m, msg))
                /\ Respond(m, msg).engaged = m.engaged \cup {msg}
                /\ OneSided => Exact(Respond(m, msg))
  <1>1. /\ Balanced(Emplace(m, msg))
        /\ Emplace(m, msg).engaged = m.engaged \cup {msg}
        /\ OneSided => Exact(Emplace(m, msg))
    BY ReadyEmplace
  <1>2. ~mode.socket => Emplace(m, msg).engaged \subseteq {"string_response"}
    BY <1>1 DEF Ready
  <1>3. Fits(Emplace(m, msg), "crashed")  BY <1>1, <1>2 DEF Fits
  <1>4. msg \in Messages /\ Balanced(m)  BY DEF Messages, Ready
  <1>. QED  BY <1>1, <1>3, <1>4, RespondBalanced

\* What SendBadResponse leaves.
LEMMA SendBadResponseFits ==
    ASSUME mode \in Modes, NEW m, Ready(m), NEW calls \in Nat, SendBadResponse(m, calls)
    PROVE  Fits(mem', phase') /\ phase' \in Phases /\ delivered' \in Nat
  <1>. DEFINE msg == "string_response"
  <1>1. /\ Fits(Emplace(m, msg), "crashed")
        /\ CanRespond(m, msg) =>
                /\ Balanced(Respond(m, msg))
                /\ Respond(m, msg).engaged = m.engaged \cup {msg}
                /\ OneSided => Exact(Respond(m, msg))
    <2>1. msg \in {"string_response", "file_response"} /\ msg # "file_response"  OBVIOUS
    <2>. HIDE DEF msg
    <2>. QED  BY <2>1, ReadyRespond
  <1>2. CASE CanRespond(m, msg)
    <2>1. /\ mem' = Respond(m, msg)
          /\ phase' = IF mode.socket THEN "writing_string" ELSE "ready"
          /\ delivered' = calls + (IF mode.callback THEN 1 ELSE 0)
      BY <1>2 DEF SendBadResponse
    <2>2. Fits(mem', phase')  BY <1>1, <1>2, <2>1 DEF Fits, Ready
    <2>. QED  BY <2>1, <2>2 DEF Phases
  <1>3. CASE ~CanRespond(m, msg)
    <2>1. mem' = Emplace(m, msg) /\ phase' = "crashed" /\ delivered' = calls
      BY <1>3 DEF SendBadResponse, Crash
    <2>. QED  BY <1>1, <2>1 DEF Phases
  <1>. QED  BY <1>2, <1>3

LEMMA SendFileToSocketFits ==
    ASSUME mode \in Modes, mode.socket, NEW m, Ready(m), NEW calls \in Nat, SendFileToSocket(m, calls)
    PROVE  Fits(mem', phase') /\ phase' \in Phases /\ delivered' \in Nat
  <1>. DEFINE msg == "file_response"
  <1>1. /\ Fits(Emplace(m, msg), "crashed")
        /\ CanRespond(m, msg) =>
                /\ Balanced(Respond(m, msg))
                /\ Respond(m, msg).engaged = m.engaged \cup {msg}
                /\ OneSided => Exact(Respond(m, msg))
    <2>1. msg \in {"string_response", "file_response"}  OBVIOUS
    <2>. HIDE DEF msg
    <2>. QED  BY <2>1, ReadyRespond
  <1>2. CASE SendBadResponse(m, calls)  BY <1>2, SendBadResponseFits
  <1>3. CASE /\ CanRespond(m, msg)
             /\ mem' = Respond(m, msg) /\ phase' = "writing_file" /\ delivered' = calls
    <2>1. Fits(mem', phase')  BY <1>1, <1>3 DEF Fits, Ready
    <2>. QED  BY <1>3, <2>1 DEF Phases
  <1>4. CASE ~CanRespond(m, msg) /\ Crash(Emplace(m, msg)) /\ delivered' = calls
    BY <1>1, <1>4 DEF Crash, Phases
  <1>. QED  BY <1>2, <1>3, <1>4 DEF SendFileToSocket

\* The callback's response may stay when the socket has one too.
LEMMA SendFileToCallbackFits ==
    ASSUME mode \in Modes, mode.callback, Ready(mem), SendFileToCallback(mem)
    PROVE  Fits(mem', phase') /\ phase' \in Phases /\ delivered' \in Nat
  <1>. DEFINE msg == "string_response"
              r == Respond(mem, msg)
  <1>0. mode \in [socket : BOOLEAN, callback : BOOLEAN]  BY ModesAssumption
  <1>1. /\ Fits(Emplace(mem, msg), "crashed")
        /\ CanRespond(mem, msg) =>
                /\ Balanced(r) /\ r.engaged = mem.engaged \cup {msg}
                /\ OneSided => Exact(r)
    <2>1. msg \in {"string_response", "file_response"} /\ msg # "file_response"  OBVIOUS
    <2>. HIDE DEF msg
    <2>. QED  BY <2>1, ReadyRespond
  <1>2. CASE SendBadResponse(mem, 0)  BY <1>2, SendBadResponseFits
  <1>3. CASE CanRespond(mem, msg) /\ mode.socket /\ SendFileToSocket(r, 1)
    <2>1. ~OneSided  BY <1>0, <1>3 DEF OneSided
    <2>2. Ready(r)  BY <1>1, <1>3, <2>1 DEF Ready
    <2>. HIDE DEF r
    <2>. QED  BY <1>3, <2>2, SendFileToSocketFits
  <1>4. CASE /\ CanRespond(mem, msg) /\ ~mode.socket
             /\ mem' = r /\ delivered' = 1 /\ phase' = "ready"
    <2>1. Fits(mem', phase')  BY <1>1, <1>4 DEF Fits, Ready
    <2>. QED  BY <1>4, <2>1 DEF Phases
  <1>5. CASE ~CanRespond(mem, msg) /\ Crash(Emplace(mem, msg)) /\ delivered' = 0
    BY <1>1, <1>5 DEF Crash, Phases
  <1>6. CASE BodyThrows(mem)
    <2>1. /\ CanBegin(mem, "string_response", BeforeBody)
          /\ mem' = Begin(mem, "string_response", BeforeBody)
          /\ phase' = "thrown" /\ delivered' = 0
      BY <1>6 DEF BodyThrows
    <2>2. Fits(mem', phase')  BY <2>1, ReadyBegin
    <2>. QED  BY <2>1, <2>2 DEF Phases
  <1>. QED  BY <1>2, <1>3, <1>4, <1>5, <1>6 DEF SendFileToCallback

\* The memory when process_request is called.
LEMMA ProcessRequestReady ==
    ASSUME IInv, ProcessRequest
    PROVE  Ready(mem)
  <1>0. mode \in [socket : BOOLEAN, callback : BOOLEAN]  BY ModesAssumption DEF IInv
  <1>1. Fits(mem, phase) /\ (IF mode.socket THEN phase = "reading" ELSE phase \in {"ready", "thrown"})
    BY DEF IInv, ProcessRequest
  <1>. QED  BY <1>0, <1>1 DEF Fits, Ready

LEMMA ProcessRequestStep == IInv /\ ProcessRequest => IInv'
  <1>. SUFFICES ASSUME IInv, ProcessRequest PROVE IInv'  OBVIOUS
  <1>1. mode \in Modes /\ Ready(mem) /\ mode' = mode
    BY ProcessRequestReady DEF IInv, ProcessRequest
  <1>2. Fits(mem', phase') /\ phase' \in Phases /\ delivered' \in Nat
    <2>1. CASE SendBadResponse(mem, 0)  BY <1>1, <2>1, SendBadResponseFits
    <2>2. CASE mode.callback /\ SendFileToCallback(mem)
      BY <1>1, <2>2, SendFileToCallbackFits
    <2>3. CASE mode.socket /\ SendFileToSocket(mem, 0)
      BY <1>1, <2>3, SendFileToSocketFits
    <2>. QED  BY <2>1, <2>2, <2>3 DEF ProcessRequest
  <1>3. Fits(mem, phase)'
    BY <1>1, <1>2 DEF Fits, OneSided
  <1>. QED  BY <1>1, <1>2, <1>3 DEF IInv

LEMMA InitInvariant == Init => IInv
  <1>. SUFFICES ASSUME Init PROVE IInv  OBVIOUS
  <1>1. /\ mode \in Modes /\ phase = "ready" /\ delivered = 0
        /\ mem.pool = NewPool /\ mem.engaged = {} /\ mem.fields = [msg \in Messages |-> <<>>]
        /\ mem = [pool |-> mem.pool, engaged |-> mem.engaged, fields |-> mem.fields]
    BY DEF Init
  <1>2. NewPool \in Pool /\ NewPool.count = 0 /\ NewPool.p = 0 /\ NewPool.refs = 1
    BY PoolAssumption DEF NewPool, Pool
  <1>3. mem \in Memory
    <2>1. <<>> \in Seq(Nat)  OBVIOUS
    <2>2. mem.fields \in [Messages -> Seq(Nat)]  BY <1>1, <2>1
    <2>. QED  BY <1>1, <1>2, <2>2 DEF Memory
  <1>4. \A x \in Messages : mem.fields[x] = <<>>  BY <1>1
  <1>5. Count(mem.fields) = 0 /\ Taken(mem.fields) = 0
    <2>1. /\ mem.fields["request"] = <<>> /\ mem.fields["string_response"] = <<>>
          /\ mem.fields["file_response"] = <<>>
      BY <1>4 DEF Messages
    <2>2. Len(<<>>) = 0  OBVIOUS
    <2>3. Count(mem.fields) = 0 + 0 + 0  BY <2>1, <2>2 DEF Count
    <2>4. Taken(mem.fields) = 0 + 0 + 0  BY <2>1, TotalEmpty DEF Taken
    <2>. QED  BY <2>3, <2>4
  <1>6. Cardinality(mem.engaged) = 0  BY <1>1, FS_EmptySet
  <1>7. Balanced(mem)  BY <1>1, <1>2, <1>3, <1>4, <1>5, <1>6 DEF Balanced
  <1>8. Exact(mem)  BY <1>1, <1>2, <1>5 DEF Exact
  <1>9. Fits(mem, phase)  BY <1>1, <1>7, <1>8 DEF Fits
  <1>. QED  BY <1>1, <1>9 DEF IInv, Phases

\* The parser of the request before is emplaced anew: the pool is empty then.
LEMMA ReadRequestStep == IInv /\ ReadRequest => IInv'
  <1>. SUFFICES ASSUME IInv, ReadRequest PROVE IInv'  OBVIOUS
  <1>1. /\ mode \in Modes /\ Fits(mem, "ready") /\ mode.socket
        /\ mem' = Emplace(mem, "request") /\ phase' = "reading" /\ delivered' = 0 /\ mode' = mode
    BY DEF IInv, ReadRequest
  <1>2. "request" \in Messages /\ Balanced(mem)  BY <1>1 DEF Messages, Fits
  <1>3. Balanced(mem') /\ mem'.engaged = mem.engaged \cup {"request"}
    BY <1>1, <1>2, EmplaceBalanced
  <1>4. OneSided => mem.engaged \subseteq {"request"}  BY <1>1 DEF Fits
  <1>5. OneSided => Exact(mem')  BY <1>1, <1>2, <1>4, EmplaceAlone
  <1>6. Fits(mem', phase')  BY <1>1, <1>3, <1>4, <1>5 DEF Fits
  <1>7. Fits(mem, phase)'  BY <1>1, <1>6 DEF Fits, OneSided
  <1>. QED  BY <1>1, <1>7 DEF IInv, Phases

LEMMA ParseFieldStep ==
    ASSUME IInv, NEW n \in FieldSizes, ParseField(n)
    PROVE  IInv'
  <1>1. /\ mode \in Modes /\ Fits(mem, "reading") /\ phase = "reading"
        /\ delivered' = delivered /\ mode' = mode /\ delivered \in Nat /\ n \in Nat
    BY FieldsAssumption DEF IInv, ParseField
  <1>2. CASE HasRoom(mem.pool, n) /\ mem' = Insert(mem, "request", n) /\ phase' = phase
    <2>1. Balanced(mem) /\ "request" \in mem.engaged  BY <1>1 DEF Fits
    <2>2. /\ Balanced(mem') /\ mem'.engaged = mem.engaged
          /\ Exact(mem) => Exact(mem')
      BY <1>1, <1>2, <2>1, InsertBalanced
    <2>3. Fits(mem', phase')  BY <1>1, <1>2, <2>2 DEF Fits
    <2>4. Fits(mem, phase)'  BY <1>1, <2>3 DEF Fits, OneSided
    <2>. QED  BY <1>1, <1>2, <2>4 DEF IInv, Phases
  <1>3. CASE mem' = mem /\ phase' = "crashed"
    <2>1. Fits(mem', phase')  BY <1>1, <1>3 DEF Fits
    <2>2. Fits(mem, phase)'  BY <1>1, <2>1 DEF Fits, OneSided
    <2>. QED  BY <1>1, <1>3, <2>2 DEF IInv, Phases
  <1>. QED  BY <1>2, <1>3 DEF ParseField, Crash

LEMMA ReadFailsStep == IInv /\ ReadFails => IInv'
  <1>. SUFFICES ASSUME IInv, ReadFails PROVE IInv'  OBVIOUS
  <1>1. /\ mode \in Modes /\ Fits(mem, "reading") /\ delivered \in Nat
        /\ mem' = mem /\ phase' = "ready" /\ delivered' = delivered /\ mode' = mode
    BY DEF IInv, ReadFails
  <1>2. Fits(mem', phase')  BY <1>1 DEF Fits
  <1>3. Fits(mem, phase)'  BY <1>1, <1>2 DEF Fits, OneSided
  <1>. QED  BY <1>1, <1>3 DEF IInv, Phases

\* With a socket alone the response that was written was the only one.
LEMMA WriteEndsStep == IInv /\ WriteEnds => IInv'
  <1>. SUFFICES ASSUME IInv, WriteEnds PROVE IInv'  OBVIOUS
  <1>1. /\ mode \in Modes /\ Fits(mem, phase) /\ delivered \in Nat
        /\ phase' = "ready" /\ delivered' = delivered /\ mode' = mode
    BY DEF IInv, WriteEnds
  <1>2. PICK msg \in Messages :
          /\ mem' = Reset(mem, msg)
          /\ \/ phase = "writing_string" /\ msg = "string_response"
             \/ phase = "writing_file" /\ msg = "file_response"
    BY DEF WriteEnds, Messages
  <1>3. Balanced(mem') /\ mem'.engaged = mem.engaged \ {msg}
    <2>1. Balanced(mem)  BY <1>1 DEF Fits
    <2>. QED  BY <1>2, <2>1, ResetBalanced
  <1>4. mode.socket  BY <1>1, <1>2 DEF Fits
  <1>5. OneSided => mem'.engaged \subseteq {"request"}
    <2>1. mem.engaged \subseteq Messages  BY <1>1 DEF Fits, Balanced, Memory
    <2>. QED  BY <1>1, <1>2, <1>3, <1>4, <2>1 DEF Fits, Messages
  <1>6. Fits(mem', phase')  BY <1>1, <1>3, <1>4, <1>5 DEF Fits
  <1>7. Fits(mem, phase)'  BY <1>1, <1>6 DEF Fits, OneSided
  <1>. QED  BY <1>1, <1>7 DEF IInv, Phases

\* The inductive invariant holds in every state, for any pool and any fields.
THEOREM Invariant == Spec => []IInv
  <1>1. Init => IInv  BY InitInvariant
  <1>2. IInv /\ [Next]_vars => IInv'
    <2>. SUFFICES ASSUME IInv, [Next]_vars PROVE IInv'  OBVIOUS
    <2>1. CASE ReadRequest  BY <2>1, ReadRequestStep
    <2>2. CASE \E n \in FieldSizes : ParseField(n)  BY <2>2, ParseFieldStep
    <2>3. CASE ReadFails  BY <2>3, ReadFailsStep
    <2>4. CASE ProcessRequest  BY <2>4, ProcessRequestStep
    <2>5. CASE WriteEnds  BY <2>5, WriteEndsStep
    <2>6. CASE UNCHANGED vars
      <3>1. mode' = mode /\ mem' = mem /\ phase' = phase /\ delivered' = delivered
        BY <2>6 DEF vars
      <3>2. Fits(mem, phase)'  BY <3>1 DEF IInv, Fits, OneSided
      <3>. QED  BY <3>1, <3>2 DEF IInv
    <2>. QED  BY <2>1, <2>2, <2>3, <2>4, <2>5, <2>6 DEF Next
  <1>. QED  BY <1>1, <1>2, PTL DEF Spec

\* Types, the pool's pointer never behind its end (fields_alloc.h:53-63).
THEOREM TypeCorrect == Spec => []TypeOK
  <1>1. IInv => TypeOK
    BY DEF IInv, Fits, Balanced, Memory, TypeOK
  <1>. QED  BY <1>1, Invariant, PTL

\* The pool counts every field of an engaged message, and every message and
\* alloc_ itself holds one reference, whatever requests came before
\* (fields_alloc.h:40-68).
THEOREM BooksAlwaysBalance == Spec => []BooksBalance
  <1>1. IInv => BooksBalance
    BY DEF IInv, Fits, Balanced, Count, BooksBalance
  <1>. QED  BY <1>1, Invariant, PTL

\* A worker with a socket or a callback alone has the whole pool for each request
\* (Http.cpp:91-102, 145-209, fields_alloc.h:65-68).
THEOREM NothingIsCarriedOver == Spec => []NoCarryOver
  <1>1. IInv => NoCarryOver
    BY DEF IInv, Fits, Exact, Taken, NoCarryOver
  <1>. QED  BY <1>1, Invariant, PTL

\* A response that went to the callback alone is whole, and none goes there when
\* the request ends in an exception.
LEMMA DeliveryStep ==
    ASSUME IInv, ProcessRequest, mode.callback, OneSided
    PROVE  IF phase' \in {"crashed", "thrown"} THEN delivered' = 0
           ELSE delivered' = 1 /\ mem'.fields["string_response"] = ResponseFields
  <1>1. mode \in Modes /\ ~mode.socket /\ Ready(mem)
    BY ModesAssumption, ProcessRequestReady DEF IInv, OneSided
  <1>2. ASSUME CanRespond(mem, "string_response")
        PROVE  Respond(mem, "string_response").fields["string_response"] = ResponseFields
    <2>1. "string_response" \in Messages /\ Balanced(mem)  BY <1>1 DEF Messages, Ready
    <2>. QED  BY <1>2, <2>1, RespondBalanced
  <1>3. CASE SendBadResponse(mem, 0)
    <2>1. CASE CanRespond(mem, "string_response")
      BY <1>1, <1>2, <1>3, <2>1 DEF SendBadResponse
    <2>2. CASE ~CanRespond(mem, "string_response")
      BY <1>3, <2>2 DEF SendBadResponse, Crash
    <2>. QED  BY <2>1, <2>2
  <1>4. CASE BodyThrows(mem)  BY <1>4 DEF BodyThrows
  <1>5. CASE /\ CanRespond(mem, "string_response") /\ mem' = Respond(mem, "string_response")
             /\ delivered' = 1 /\ phase' = "ready"
    BY <1>2, <1>5
  <1>6. CASE Crash(Emplace(mem, "string_response")) /\ delivered' = 0  BY <1>6 DEF Crash
  <1>. QED  BY <1>1, <1>3, <1>4, <1>5, <1>6 DEF ProcessRequest, SendFileToCallback

\* A worker with a callback alone calls it once for every request it gets through,
\* with a whole response, and not at all for one that ends in an exception
\* (Http.cpp:105-119, 145-177).
THEOREM DeliversOnce == Spec => OneDelivery
  <1>1. IInv /\ [Next]_vars =>
          [ProcessRequest /\ mode.callback /\ OneSided =>
             IF phase' \in {"crashed", "thrown"} THEN delivered' = 0
             ELSE delivered' = 1 /\ mem'.fields["string_response"] = ResponseFields]_vars
    <2>. SUFFICES ASSUME IInv, ProcessRequest, mode.callback, OneSided
                  PROVE  IF phase' \in {"crashed", "thrown"} THEN delivered' = 0
                         ELSE delivered' = 1 /\ mem'.fields["string_response"] = ResponseFields
      OBVIOUS
    <2>. QED  BY DeliveryStep
  <1>. QED  BY <1>1, Invariant, PTL DEF Spec, OneDelivery

\* When there is no room for a response, the request's own fields are in the way.
LEMMA NoRoomForResponse ==
    ASSUME mode \in Modes, OneSided, Ready(mem), NEW msg \in {"string_response", "file_response"},
           msg = "file_response" => mode.socket, ~CanRespond(mem, msg)
    PROVE  Total(mem.fields["request"]) + Total(ResponseFields) >= Size
  <1>1. Emplace(mem, msg).pool.p = Total(mem.fields["request"])
    <2>1. OneSided => Emplace(mem, msg).pool.p = Total(mem.fields["request"])  BY ReadyEmplace
    <2>. QED  BY <2>1
  <1>2. "request" \in Messages /\ mem \in Memory  BY DEF Messages, Ready, Balanced
  <1>3. Total(mem.fields["request"]) \in Nat /\ Total(ResponseFields) \in Nat
    BY <1>2, MemoryParts, ResponseSizes, TotalType
  <1>4. ~HasRoom(Emplace(mem, msg).pool, Total(ResponseFields))
    BY ResponseSizes DEF CanRespond, CanBegin
  <1>. QED  BY <1>1, <1>3, <1>4, PoolAssumption DEF HasRoom

\* A step of one worker that runs out of memory.
LEMMA CrashStep ==
    ASSUME IInv, Next, OneSided, phase' = "crashed"
    PROVE  LET own == Total(mem.fields["request"])
           IN  \/ phase = "reading" /\ \E n \in FieldSizes : own + n >= Size
               \/ own + Total(ResponseFields) >= Size
  <1>0. mode \in Modes /\ mode \in [socket : BOOLEAN, callback : BOOLEAN] /\ Fits(mem, phase)
    BY ModesAssumption DEF IInv
  <1>1. CASE \E n \in FieldSizes : ParseField(n)
    <2>1. PICK n \in FieldSizes : ParseField(n)  BY <1>1
    <2>2. phase = "reading" /\ ~HasRoom(mem.pool, n) /\ n \in Nat
      BY <2>1, FieldsAssumption DEF ParseField
    <2>3. /\ mem.engaged \subseteq {"request"} /\ Exact(mem) /\ Balanced(mem)
      BY <1>0, <2>2 DEF Fits, OneSided
    <2>4. /\ \A x \in Messages \ {"request"} : mem.fields[x] = <<>>
          /\ Total(mem.fields["request"]) \in Nat
      <3>1. "request" \in Messages /\ mem \in Memory  BY <2>3 DEF Messages, Balanced
      <3>2. Total(mem.fields["request"]) \in Nat  BY <3>1, MemoryParts, TotalType
      <3>. QED  BY <2>3, <3>2 DEF Balanced
    <2>5. Taken(mem.fields) = Total(mem.fields["request"])
      <3>1. "string_response" \in {"string_response", "file_response"}  OBVIOUS
      <3>. QED  BY <2>4, <3>1, NothingTaken
    <2>6. mem.pool.p = Total(mem.fields["request"])  BY <2>3, <2>5 DEF Exact
    <2>7. Total(mem.fields["request"]) + n >= Size
      BY <2>2, <2>4, <2>6, PoolAssumption DEF HasRoom
    <2>. QED  BY <2>2, <2>7
  <1>2. CASE ProcessRequest
    <2>1. Ready(mem)  BY <1>2, ProcessRequestReady
    <2>2. PICK msg \in {"string_response", "file_response"} :
            (msg = "file_response" => mode.socket) /\ ~CanRespond(mem, msg)
      <3>1. CASE SendBadResponse(mem, 0)
        <4>1. ~CanRespond(mem, "string_response")  BY <3>1 DEF SendBadResponse, Crash
        <4>. QED  BY <4>1
      <3>2. CASE mode.callback /\ SendFileToCallback(mem)
        <4>1. ~mode.socket  BY <1>0, <3>2 DEF OneSided
        <4>2. ~CanRespond(mem, "string_response")
          BY <3>2, <4>1 DEF SendFileToCallback, SendBadResponse, BodyThrows, Crash
        <4>. QED  BY <4>2
      <3>3. CASE mode.socket /\ SendFileToSocket(mem, 0)
        <4>1. ~CanRespond(mem, "string_response") \/ ~CanRespond(mem, "file_response")
          BY <3>3 DEF SendFileToSocket, SendBadResponse, Crash
        <4>. QED  BY <3>3, <4>1
      <3>. QED  BY <1>2, <3>1, <3>2, <3>3 DEF ProcessRequest
    <2>. QED  BY <1>0, <2>1, <2>2, NoRoomForResponse
  <1>3. CASE ReadRequest \/ ReadFails \/ WriteEnds
    BY <1>3 DEF ReadRequest, ReadFails, WriteEnds
  <1>. QED  BY <1>1, <1>2, <1>3 DEF Next

\* bad_alloc, which ends all workers, means that one request's own fields and its
\* response's do not fit the pool (fields_alloc.h:55-57, 80-82).
THEOREM RunsOutOfItsOwn == Spec => OwnFieldsAlone
  <1>1. IInv /\ [Next]_vars =>
          [OneSided /\ phase' = "crashed" =>
             LET own == Total(mem.fields["request"])
             IN  \/ phase = "reading" /\ \E n \in FieldSizes : own + n >= Size
                 \/ own + Total(ResponseFields) >= Size]_vars
    <2>. SUFFICES ASSUME IInv, Next, OneSided, phase' = "crashed"
                  PROVE  LET own == Total(mem.fields["request"])
                         IN  \/ phase = "reading" /\ \E n \in FieldSizes : own + n >= Size
                             \/ own + Total(ResponseFields) >= Size
      OBVIOUS
    <2>. QED  BY CrashStep
  <1>. QED  BY <1>1, Invariant, PTL DEF Spec, OwnFieldsAlone
=============================================================================
