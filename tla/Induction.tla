------------------------------ MODULE Induction ------------------------------
(***************************************************************************)
(* Induction over the natural numbers for sets instead of operators, from  *)
(* the fact that every set of naturals has a least element; and functions  *)
(* that are defined by recursion over 0..n; with it, sums of sequences.    *)
(***************************************************************************)
EXTENDS Sums, Integers, TLAPS, WellFoundedInduction

\* A set of naturals that is not empty has a least element.
LEMMA Least ==
    ASSUME NEW M, M \subseteq Nat, M # {}
    PROVE  \E x \in M : \A y \in M : x <= y
  <1>1. PICK R : R = OpToRel(<, Nat)  OBVIOUS
  <1>2. IsWellFoundedOn(R, Nat)  BY <1>1, NatLessThanWellFounded
  <1>3. PICK x \in M : \A y \in M : <<y, x>> \notin R  BY <1>2, WFMin
  <1>4. \A y, z \in Nat : y < z => <<y, z>> \in R  BY <1>1 DEF OpToRel
  <1>5. \A y \in M : ~(y < x)  BY <1>3, <1>4
  <1>. QED  BY <1>3, <1>5

\* And one below a bound a greatest.
LEMMA Greatest ==
    ASSUME NEW n \in Nat, NEW M, M \subseteq 1..n, M # {}
    PROVE  \E x \in M : \A y \in M : y <= x
  <1>1. PICK D : D = {n - y : y \in M}  OBVIOUS
  <1>2. D \subseteq Nat /\ D # {}
    <2>1. \A y \in M : n - y \in Nat  OBVIOUS
    <2>2. PICK y \in M : n - y \in D  BY <1>1
    <2>. QED  BY <1>1, <2>1, <2>2
  <1>3. PICK d \in D : \A e \in D : d <= e  BY <1>2, Least
  <1>4. PICK x \in M : d = n - x  BY <1>1
  <1>5. \A y \in M : n - x <= n - y  BY <1>1, <1>3, <1>4
  <1>. QED  BY <1>4, <1>5

\* A set that has 0, and with every number the next one, has all of them.
LEMMA Induction ==
    ASSUME NEW S, 0 \in S, \A n \in Nat : n \in S => n + 1 \in S
    PROVE  \A n \in Nat : n \in S
  <1>. SUFFICES ASSUME NEW k \in Nat, k \notin S PROVE FALSE  OBVIOUS
  <1>1. PICK M : M = {n \in Nat : n \notin S}  OBVIOUS
  <1>2. M \subseteq Nat /\ M # {}  BY <1>1
  <1>3. PICK x \in M : \A y \in M : x <= y  BY <1>2, Least
  <1>4. x \in Nat /\ x # 0 /\ x - 1 \in Nat /\ ~(x <= x - 1)  BY <1>1, <1>3
  <1>5. x - 1 \in S  BY <1>1, <1>3, <1>4
  <1>. QED  BY <1>1, <1>3, <1>4, <1>5

\* The same over 0..n.
LEMMA IntervalInduction ==
    ASSUME NEW n \in Nat, NEW S, 0 \in S, \A k \in 0 .. n - 1 : k \in S => k + 1 \in S
    PROVE  \A k \in 0..n : k \in S
  <1>1. PICK T : T = {k \in Nat : k <= n => k \in S}  OBVIOUS
  <1>2. 0 \in T  BY <1>1
  <1>3. \A k \in Nat : k \in T => k + 1 \in T  BY <1>1
  <1>4. \A k \in Nat : k \in T  BY <1>2, <1>3, Induction
  <1>. QED  BY <1>1, <1>4

\* A function into V that begins with c and goes on by the rule G.
Recurses(f, V, n, c, G) ==
    f \in [0..n -> V] /\ f[0] = c /\ \A k \in 1..n : f[k] = G[k][f[k - 1]]

\* For every beginning and every rule there is such a function.
LEMMA Recursion ==
    ASSUME NEW V, NEW n \in Nat, NEW c \in V, NEW G \in [1..n -> [V -> V]]
    PROVE  \E f : Recurses(f, V, n, c, G)
  <1>1. PICK S : S = {m \in 0..n : \E f : Recurses(f, V, m, c, G)}  OBVIOUS
  <1>2. 0 \in S
    <2>1. PICK f : f = [k \in 0..0 |-> c]  OBVIOUS
    <2>2. f \in [0..0 -> V] /\ f[0] = c  BY <2>1
    <2>3. Recurses(f, V, 0, c, G)  BY <2>2 DEF Recurses
    <2>. QED  BY <1>1, <2>3
  <1>3. ASSUME NEW m \in 0 .. n - 1, m \in S PROVE m + 1 \in S
    <2>1. PICK f : Recurses(f, V, m, c, G)  BY <1>1, <1>3
    <2>2. /\ f \in [0..m -> V] /\ f[0] = c
          /\ \A k \in 1..m : f[k] = G[k][f[k - 1]]
      BY <2>1 DEF Recurses
    <2>3. PICK x : x = G[m + 1][f[m]]  OBVIOUS
    <2>4. x \in V
      <3>1. f[m] \in V /\ m + 1 \in 1..n  BY <2>2
      <3>. QED  BY <2>3, <3>1
    <2>5. PICK g : g = [k \in 0 .. m + 1 |-> IF k = m + 1 THEN x ELSE f[k]]  OBVIOUS
    <2>6. \A k \in 0 .. m + 1 : g[k] = IF k = m + 1 THEN x ELSE f[k]  BY <2>5
    <2>7. \A k \in 0..m : g[k] = f[k] /\ g[k] \in V  BY <2>2, <2>6
    <2>8. g[m + 1] = x  BY <2>6
    <2>9. g \in [0 .. m + 1 -> V]
      <3>1. \A k \in 0 .. m + 1 : k \in 0..m \/ k = m + 1  OBVIOUS
      <3>. QED  BY <2>4, <2>5, <2>7, <2>8, <3>1
    <2>10. g[0] = c  BY <2>2, <2>7
    <2>11. ASSUME NEW k \in 1 .. m + 1 PROVE g[k] = G[k][g[k - 1]]
      <3>1. CASE k = m + 1
        <4>1. k - 1 = m  BY <3>1
        <4>. QED  BY <2>3, <2>7, <2>8, <3>1, <4>1
      <3>2. CASE k \in 1..m
        <4>1. k \in 0..m /\ k - 1 \in 0..m  BY <3>2
        <4>. QED  BY <2>2, <2>7, <3>2, <4>1
      <3>. QED  BY <3>1, <3>2
    <2>12. Recurses(g, V, m + 1, c, G)  BY <2>9, <2>10, <2>11 DEF Recurses
    <2>13. m + 1 \in 0..n  OBVIOUS
    <2>. QED  BY <1>1, <2>12, <2>13
  <1>4. \A m \in 0..n : m \in S  BY <1>2, <1>3, IntervalInduction
  <1>5. n \in 0..n  OBVIOUS
  <1>. QED  BY <1>1, <1>4, <1>5

\* Induction from n down to 1: what holds at every later place holds here.
LEMMA DownwardInduction ==
    ASSUME NEW n \in Nat, NEW S,
           \A k \in 1..n : (\A j \in (k + 1)..n : j \in S) => k \in S
    PROVE  \A k \in 1..n : k \in S
  <1>. SUFFICES ASSUME NEW k \in 1..n, k \notin S PROVE FALSE  OBVIOUS
  <1>1. PICK M : M = {j \in 1..n : j \notin S}  OBVIOUS
  <1>2. M \subseteq 1..n /\ M # {}  BY <1>1
  <1>3. PICK x \in M : \A y \in M : y <= x  BY <1>2, Greatest
  <1>4. x \in 1..n /\ x \notin S  BY <1>1, <1>3
  <1>5. ASSUME NEW j \in (x + 1)..n, j \notin S PROVE FALSE
    <2>1. j \in M  BY <1>1, <1>4, <1>5
    <2>. QED  BY <1>3, <1>4, <2>1
  <1>. QED  BY <1>4, <1>5

\* A function into V over the places 1..(n + 1) that ends with c and has at place k
\* what the rule A makes of its value at a later place J[k].
Jumps(f, V, n, c, J, A) ==
    f \in [1 .. n + 1 -> V] /\ f[n + 1] = c /\ \A k \in 1..n : f[k] = A[k][f[J[k]]]

\* J leads on from every place.
LeadsOn(J, n) == J \in [1..n -> 1 .. n + 1] /\ \A k \in 1..n : J[k] > k

LEMMA JumpRecursion ==
    ASSUME NEW V, NEW n \in Nat, NEW c \in V, NEW J, LeadsOn(J, n), NEW A \in [1..n -> [V -> V]]
    PROVE  \E f : Jumps(f, V, n, c, J, A)
  <1>. DEFINE Solves(f, m) == /\ f \in [1 .. n + 1 -> V] /\ f[n + 1] = c
                            /\ \A k \in 1..n : k > n - m => f[k] = A[k][f[J[k]]]
  <1>1. PICK S : S = {m \in 0..n : \E f : Solves(f, m)}  OBVIOUS
  <1>2. 0 \in S
    <2>1. PICK f : f = [k \in 1 .. n + 1 |-> c]  OBVIOUS
    <2>2. f \in [1 .. n + 1 -> V] /\ f[n + 1] = c  BY <2>1
    <2>3. Solves(f, 0)  BY <2>2
    <2>. QED  BY <1>1, <2>3
  <1>3. ASSUME NEW m \in 0 .. n - 1, m \in S PROVE m + 1 \in S
    <2>1. PICK f : Solves(f, m)  BY <1>1, <1>3
    <2>2. PICK p \in 1..n : p = n - m  OBVIOUS
    <2>3. J[p] \in 1 .. n + 1 /\ J[p] > p  BY <2>2 DEF LeadsOn
    <2>4. PICK x : x = A[p][f[J[p]]]  OBVIOUS
    <2>5. x \in V  BY <2>1, <2>3, <2>4
    <2>6. PICK g : g = [k \in 1 .. n + 1 |-> IF k = p THEN x ELSE f[k]]  OBVIOUS
    <2>7. \A k \in 1 .. n + 1 : g[k] = (IF k = p THEN x ELSE f[k]) /\ f[k] \in V  BY <2>1, <2>6
    <2>8. g \in [1 .. n + 1 -> V]
      <3>1. \A k \in 1 .. n + 1 : (IF k = p THEN x ELSE f[k]) \in V  BY <2>5, <2>7
      <3>. QED  BY <2>6, <3>1
    <2>9. g[n + 1] = c
      <3>1. n + 1 \in 1 .. n + 1 /\ n + 1 # p  BY <2>2
      <3>. QED  BY <2>1, <2>7, <3>1
    <2>10. ASSUME NEW k \in 1..n, k > n - (m + 1) PROVE g[k] = A[k][g[J[k]]]
      <3>1. J[k] \in 1 .. n + 1 /\ J[k] > k  BY DEF LeadsOn
      <3>2. k >= p /\ J[k] # p /\ k \in 1 .. n + 1  BY <2>2, <2>10, <3>1
      <3>3. g[J[k]] = f[J[k]]  BY <2>7, <3>1, <3>2
      <3>4. CASE k = p  BY <2>4, <2>7, <3>2, <3>3, <3>4
      <3>5. CASE k # p
        <4>1. k > n - m  BY <2>2, <3>2, <3>5
        <4>. QED  BY <2>1, <2>7, <3>2, <3>3, <3>5, <4>1
      <3>. QED  BY <3>4, <3>5
    <2>11. Solves(g, m + 1)  BY <2>8, <2>9, <2>10
    <2>12. m + 1 \in 0..n  OBVIOUS
    <2>. QED  BY <1>1, <2>11, <2>12
  <1>4. \A m \in 0..n : m \in S  BY <1>2, <1>3, IntervalInduction
  <1>5. n \in 0..n  OBVIOUS
  <1>6. PICK f : Solves(f, n)  BY <1>1, <1>4, <1>5
  <1>7. \A k \in 1..n : k > n - n  OBVIOUS
  <1>8. Jumps(f, V, n, c, J, A)  BY <1>6, <1>7 DEF Jumps
  <1>. QED  BY <1>8

-----------------------------------------------------------------------------
\* The sum is the last of the partial sums.
LEMMA PartialSums ==
    ASSUME NEW s \in Seq(Nat)
    PROVE  \E f \in [0..Len(s) -> Nat] :
              f[0] = 0 /\ Total(s) = f[Len(s)] /\ \A k \in 1..Len(s) : f[k] = f[k - 1] + s[k]
  <1>. DEFINE Sum(t) == [k \in 0..Len(s) |-> IF k = 0 THEN 0 ELSE t[k - 1] + s[k]]
              total == CHOOSE t : t = Sum(t)
  <1>n. PICK n \in Nat : n = Len(s)  OBVIOUS
  <1>0. 0 \in Nat /\ n \in Nat /\ n = Len(s) /\ \A k \in 1..n : s[k] \in Nat  BY <1>n
  <1>1. PICK G : G = [k \in 1..n |-> [m \in Nat |-> m + s[k]]]  OBVIOUS
  <1>2. /\ G \in [1..n -> [Nat -> Nat]]
        /\ \A k \in 1..n : \A m \in Nat : G[k][m] = m + s[k]
    <2>. HIDE DEF Sum, total
    <2>1. \A k \in 1..n : G[k] = [m \in Nat |-> m + s[k]]  BY <1>1
    <2>2. ASSUME NEW k \in 1..n
          PROVE  G[k] \in [Nat -> Nat] /\ \A m \in Nat : G[k][m] = m + s[k]
      <3>1. PICK x : x = s[k]  OBVIOUS
      <3>2. x \in Nat  BY <1>0, <3>1
      <3>3. [m \in Nat |-> m + x] \in [Nat -> Nat]  BY <3>2
      <3>. QED  BY <2>1, <3>1, <3>3
    <2>. QED  BY <1>1, <2>2
  <1>3. PICK f : /\ f \in [0..n -> Nat] /\ f[0] = 0
                 /\ \A k \in 1..n : f[k] = G[k][f[k - 1]]
    <2>1. PICK f : Recurses(f, Nat, n, 0, G)
      <3>. HIDE DEF Sum, total
      <3>. QED  BY <1>0, <1>2, Recursion
    <2>. QED  BY <2>1 DEF Recurses
  <1>4. ASSUME NEW k \in 1..n PROVE f[k] = f[k - 1] + s[k]
    <2>1. k - 1 \in 0..n  BY <1>0
    <2>2. f[k - 1] \in Nat  BY <1>3, <2>1
    <2>3. G[k][f[k - 1]] = f[k - 1] + s[k]  BY <1>2, <2>2
    <2>. QED  BY <1>3, <2>3
  <1>5. f = Sum(f)
    <2>1. \A k \in 0..n : f[k] = IF k = 0 THEN 0 ELSE f[k - 1] + s[k]
      <3>1. \A k \in 0..n : k = 0 \/ k \in 1..n  BY <1>0
      <3>. QED  BY <1>3, <1>4, <3>1
    <2>. QED  BY <1>0, <1>3, <2>1
  <1>6. total = Sum(total)  BY <1>5
  <1>7. Total(s) = total[n]  BY <1>0 DEF Total
  <1>. HIDE DEF total
  <1>8. \A k \in 0..n : total[k] = IF k = 0 THEN 0 ELSE total[k - 1] + s[k]
    BY <1>0, <1>6
  <1>9. \A k \in 0..n : total[k] = f[k]
    <2>1. PICK S : S = {k \in 0..n : total[k] = f[k]}  OBVIOUS
    <2>2. 0 \in S  BY <1>0, <1>3, <1>8, <2>1
    <2>3. ASSUME NEW k \in 0 .. n - 1, k \in S PROVE k + 1 \in S
      <3>1. k + 1 \in 1..n /\ k + 1 \in 0..n /\ (k + 1) - 1 = k /\ k + 1 # 0  BY <1>0
      <3>2. total[k] = f[k]  BY <2>1, <2>3
      <3>3. total[k + 1] = total[k] + s[k + 1]  BY <1>8, <3>1
      <3>4. f[k + 1] = f[k] + s[k + 1]  BY <1>4, <3>1
      <3>. QED  BY <2>1, <3>1, <3>2, <3>3, <3>4
    <2>4. \A k \in 0..n : k \in S  BY <1>0, <2>2, <2>3, IntervalInduction
    <2>. QED  BY <2>1, <2>4
  <1>10. f \in [0..Len(s) -> Nat] /\ f[0] = 0 /\ Total(s) = f[Len(s)]
    <2>1. n \in 0..n  BY <1>0
    <2>. QED  BY <1>0, <1>3, <1>7, <1>9, <2>1
  <1>11. \A k \in 1..Len(s) : f[k] = f[k - 1] + s[k]  BY <1>0, <1>4
  <1>. QED  BY <1>10, <1>11

\* f is a function of the partial sums of the first n numbers.
SumsUp(f, s, n) == f[0] = 0 /\ \A k \in 1..n : f[k] = f[k - 1] + s[k]

\* Any two of them are equal.
LEMMA SumsUnique ==
    ASSUME NEW s, NEW n \in Nat, NEW f, NEW g, SumsUp(f, s, n), SumsUp(g, s, n)
    PROVE  f[n] = g[n]
  <1>0. /\ f[0] = 0 /\ \A k \in 1..n : f[k] = f[k - 1] + s[k]
        /\ g[0] = 0 /\ \A k \in 1..n : g[k] = g[k - 1] + s[k]
    BY DEF SumsUp
  <1>1. PICK S : S = {k \in 0..n : f[k] = g[k]}  OBVIOUS
  <1>2. 0 \in S  BY <1>0, <1>1
  <1>3. ASSUME NEW k \in 0 .. n - 1, k \in S PROVE k + 1 \in S
    <2>1. k + 1 \in 1..n /\ (k + 1) - 1 = k  OBVIOUS
    <2>. QED  BY <1>0, <1>1, <1>3, <2>1
  <1>4. n \in 0..n /\ \A k \in 0..n : k \in S  BY <1>2, <1>3, IntervalInduction
  <1>. QED  BY <1>1, <1>4

\* The sum is what any of them ends with.
LEMMA TotalIs ==
    ASSUME NEW s \in Seq(Nat), NEW f, SumsUp(f, s, Len(s))
    PROVE  Total(s) = f[Len(s)]
  <1>1. PICK g : g[0] = 0 /\ Total(s) = g[Len(s)] /\ \A k \in 1..Len(s) : g[k] = g[k - 1] + s[k]
    BY PartialSums
  <1>2. SumsUp(g, s, Len(s)) /\ Len(s) \in Nat  BY <1>1 DEF SumsUp
  <1>. QED  BY <1>1, <1>2, SumsUnique

LEMMA TotalType ==
    ASSUME NEW s \in Seq(Nat)
    PROVE  Total(s) \in Nat
  BY PartialSums

LEMMA TotalEmpty == Total(<<>>) = 0
  <1>1. <<>> \in Seq(Nat) /\ Len(<<>>) = 0  OBVIOUS
  <1>2. PICK f : f[0] = 0 /\ Total(<<>>) = f[Len(<<>>)]  BY <1>1, PartialSums
  <1>. QED  BY <1>1, <1>2

LEMMA TotalAppend ==
    ASSUME NEW s \in Seq(Nat), NEW m \in Nat
    PROVE  Total(Append(s, m)) = Total(s) + m
  <1>1. PICK t : t = Append(s, m)  OBVIOUS
  <1>2. /\ t \in Seq(Nat) /\ Len(t) = Len(s) + 1
        /\ t[Len(s) + 1] = m /\ \A k \in 1..Len(s) : t[k] = s[k]
    BY <1>1
  <1>3. PICK g : g[0] = 0 /\ Total(t) = g[Len(t)] /\ \A k \in 1..Len(t) : g[k] = g[k - 1] + t[k]
    BY <1>2, PartialSums
  <1>4. SumsUp(g, s, Len(s))
    <2>1. \A k \in 1..Len(s) : k \in 1..Len(t)  BY <1>2
    <2>. QED  BY <1>2, <1>3, <2>1 DEF SumsUp
  <1>5. Total(s) = g[Len(s)]  BY <1>4, TotalIs
  <1>6. Len(s) + 1 \in 1..Len(t) /\ (Len(s) + 1) - 1 = Len(s)  BY <1>2
  <1>. QED  BY <1>1, <1>2, <1>3, <1>5, <1>6

\* The sum of the first numbers, one more each time, and never more than that of
\* all.
LEMMA TotalPrefix ==
    ASSUME NEW s \in Seq(Nat), NEW n \in 0..Len(s)
    PROVE  /\ Total(SubSeq(s, 1, n)) <= Total(s)
           /\ n > 0 => Total(SubSeq(s, 1, n)) = Total(SubSeq(s, 1, n - 1)) + s[n]
  <1>0. Len(s) \in Nat /\ n \in Nat /\ n <= Len(s)  OBVIOUS
  <1>1. PICK f \in [0..Len(s) -> Nat] :
          f[0] = 0 /\ Total(s) = f[Len(s)] /\ \A k \in 1..Len(s) : f[k] = f[k - 1] + s[k]
    BY PartialSums
  <1>2. ASSUME NEW m \in 0..Len(s) PROVE Total(SubSeq(s, 1, m)) = f[m]
    <2>1. PICK t : t = SubSeq(s, 1, m)  OBVIOUS
    <2>2. t \in Seq(Nat) /\ Len(t) = m /\ \A k \in 1..m : t[k] = s[k]  BY <2>1
    <2>3. \A k \in 1..m : k \in 1..Len(s)  BY <1>0
    <2>4. SumsUp(f, t, Len(t))  BY <1>1, <2>2, <2>3 DEF SumsUp
    <2>5. Total(t) = f[Len(t)]  BY <2>2, <2>4, TotalIs
    <2>. QED  BY <2>1, <2>2, <2>5
  <1>3. f[n] <= f[Len(s)]
    <2>1. PICK S : S = {k \in 0..Len(s) : n <= k => f[n] <= f[k]}  OBVIOUS
    <2>2. 0 \in S  BY <1>0, <1>1, <2>1
    <2>3. ASSUME NEW k \in 0 .. Len(s) - 1, k \in S PROVE k + 1 \in S
      <3>1. k + 1 \in 1..Len(s) /\ (k + 1) - 1 = k /\ k \in 0..Len(s) /\ k + 1 \in 0..Len(s)
        BY <1>0
      <3>2. f[k + 1] = f[k] + s[k + 1]  BY <1>1, <3>1
      <3>3. f[k] \in Nat /\ f[k + 1] \in Nat /\ s[k + 1] \in Nat /\ f[n] \in Nat
        <4>1. k \in 0..Len(s) /\ k + 1 \in 0..Len(s) /\ n \in 0..Len(s)  BY <1>0, <3>1
        <4>2. f[k] \in Nat /\ f[k + 1] \in Nat /\ f[n] \in Nat  BY <1>1, <4>1
        <4>. QED  BY <3>1, <4>2
      <3>4. n <= k => f[n] <= f[k]  BY <2>1, <2>3
      <3>5. n <= k + 1 => n <= k \/ n = k + 1  BY <1>0, <3>1
      <3>. QED  BY <2>1, <3>1, <3>2, <3>3, <3>4, <3>5
    <2>4. \A k \in 0..Len(s) : k \in S  BY <1>0, <2>2, <2>3, IntervalInduction
    <2>. QED  BY <1>0, <2>1, <2>4
  <1>4. n \in 0..Len(s) /\ (n > 0 => n - 1 \in 0..Len(s) /\ n \in 1..Len(s))  BY <1>0
  <1>. QED  BY <1>1, <1>2, <1>3, <1>4
=============================================================================
