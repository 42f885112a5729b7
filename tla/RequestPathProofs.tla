--------------------------- MODULE RequestPathProofs ---------------------------
(***************************************************************************)
(* Proofs about RequestPath, for texts, requests and pools of any size.    *)
(* First Algorithm alone: the index and the answer stay where TypeOK has   *)
(* them, the only text that makes either function touch memory of others   *)
(* is the empty one in stripslashesC, and stripslashes keeps what the      *)
(* parity of the backslashes says.  Then the path of a request: what is    *)
(* stripped is stripped as Algorithm says, a complete request is answered  *)
(* once, the file sent lies below the document root and its type is its    *)
(* own.                                                                    *)
(***************************************************************************)
EXTENDS RequestPath, Induction, SequenceTheorems

-----------------------------------------------------------------------------
(* The loops of stripslashes and stripslashesC.                            *)

\* What keeps stripslashesC within its allocation: a round writes at most one
\* character and reads at least one, and the last round begins before the last
\* character.
AnswerFits ==
    /\ function = "stripslashesC" /\ str # <<>> => Len(answer) < Len(str)
    /\ function = "stripslashesC" /\ str = <<>> => i = 0 /\ answer = <<>>

IInv == TypeOK /\ AnswerFits /\ InBounds

\* A text is a sequence of characters, shorter than the largest number.
LEMMA TextFacts ==
    ASSUME TypeOK
    PROVE  /\ str \in Seq(Character) /\ Len(str) \in Nat /\ Len(str) < MaxSize
           /\ (Len(str) = 0 <=> str = <<>>)
           /\ i \in Nat /\ Len(answer) \in Nat /\ answer \in Seq(Character)
           /\ MaxSize \in Nat
  BY TextsAssumption, SizeAssumption DEF TypeOK

\* What a character is taken for is a text of at most one character.
LEMMA UnescapedFacts ==
    ASSUME NEW c
    PROVE  Unescaped(c) \in Seq(Character) /\ Len(Unescaped(c)) <= 1
  <1>1. CASE c \in Escapable
    <2>1. c \in Character  BY <1>1 DEF Character
    <2>2. <<c>> \in Seq(Character) /\ Len(<<c>>) = 1  BY <2>1
    <2>3. Unescaped(c) = <<c>>  BY <1>1 DEF Unescaped
    <2>. QED  BY <2>2, <2>3
  <1>2. CASE c \notin Escapable
    <2>1. Unescaped(c) = <<>>  BY <1>2 DEF Unescaped
    <2>2. <<>> \in Seq(Character) /\ Len(<<>>) = 0  OBVIOUS
    <2>. QED  BY <2>1, <2>2
  <1>. QED  BY <1>1, <1>2

\* str[j], the NUL at the end included, is a character.
LEMMA AtFacts ==
    ASSUME TypeOK, NEW j \in Nat
    PROVE  At(j) \in Character
  <1>1. CASE j < Len(str)
    BY <1>1, TextFacts DEF At
  <1>2. CASE ~(j < Len(str))
    BY <1>2 DEF At, Character, Escapable, Nul
  <1>. QED  BY <1>1, <1>2

\* A round that finds memory where it reads and writes moves the index by one or
\* two and the answer by at most one character.
LEMMA RoundMoves ==
    ASSUME TypeOK, Ordinary \/ Escape
    PROVE  /\ answer' \in Seq(Character) /\ Len(answer') <= Len(answer) + 1
           /\ Len(answer') \in Nat
           /\ i' \in {i + 1, i + 2}
           /\ i' = i + 2 => At(i) = Backslash
  <1>. USE TextFacts
  <1>1. CASE Ordinary
    <2>1. answer' = Append(answer, At(i)) /\ i' = i + 1  BY <1>1 DEF Ordinary
    <2>2. At(i) \in Character  BY AtFacts
    <2>. QED  BY <2>1, <2>2
  <1>2. CASE Escape
    <2>. DEFINE u == Unescaped(At(i + 1))
    <2>1. answer' = answer \o u /\ i' = i + 2 /\ At(i) = Backslash
      BY <1>2 DEF Escape, PastEscape
    <2>2. u \in Seq(Character) /\ Len(u) <= 1 /\ Len(u) \in Nat  BY UnescapedFacts
    <2>3. answer \o u \in Seq(Character) /\ Len(answer \o u) = Len(answer) + Len(u)
      BY <2>2
    <2>. QED  BY <2>1, <2>2, <2>3
  <1>. QED  BY <1>1, <1>2

LEMMA StripInitInvariant == Init => IInv
  <1>. SUFFICES ASSUME Init PROVE IInv  OBVIOUS
  <1>1. str \in Texts /\ str \in Seq(Character) /\ Len(str) \in Nat
    BY TextsAssumption DEF Init
  <1>2. str # <<>> => Len(str) > 0  BY <1>1
  <1>. QED  BY <1>1, <1>2 DEF Init, IInv, TypeOK, AnswerFits, InBounds

LEMMA RoundInvariant == IInv /\ Round => IInv'
  <1>. SUFFICES ASSUME IInv, Round PROVE IInv'  OBVIOUS
  <1>. USE TextFacts
  <1>0. TypeOK /\ AnswerFits /\ state = "looping" /\ i < Limit
           /\ function' = function /\ str' = str
    BY DEF IInv, Round
  <1>1. CASE i <= Len(str) /\ Len(answer) < Room
    <2>1. (Ordinary \/ Escape) /\ state' = "looping"  BY <1>0, <1>1 DEF Round
    <2>2. /\ answer' \in Seq(Character) /\ Len(answer') <= Len(answer) + 1
          /\ Len(answer') \in Nat /\ i' \in {i + 1, i + 2}
      BY <1>0, <2>1, RoundMoves
    <2>3. function \in {"stripslashes", "stripslashesC"} /\ Len(answer) <= i
      BY <1>0 DEF TypeOK
    <2>4. CASE function = "stripslashes"
      <3>1. i < Len(str)  BY <1>0, <2>4 DEF Limit
      <3>2. i' \in 0..(Len(str) + 1) /\ Len(answer') <= i'
        BY <1>0, <2>2, <2>3, <3>1
      <3>. QED
        BY <1>0, <2>1, <2>2, <2>4, <3>2 DEF IInv, TypeOK, AnswerFits, InBounds
    <2>5. CASE function = "stripslashesC"
      <3>1. Len(answer) < Len(str)  BY <1>1, <2>5 DEF Room
      <3>2. str # <<>> /\ Len(str) > 0  BY <1>0, <3>1
      <3>3. i < Len(str) - 1  BY <1>0, <2>5, <3>2 DEF Limit, LengthMinusOne
      <3>4. i' \in 0..Len(str) /\ Len(answer') <= i' /\ Len(answer') < Len(str)
        BY <1>0, <2>2, <2>3, <3>3
      <3>. QED
        BY <1>0, <2>1, <2>2, <2>5, <3>2, <3>4 DEF IInv, TypeOK, AnswerFits, InBounds
    <2>. QED  BY <2>3, <2>4, <2>5
  <1>2. CASE ~(i <= Len(str) /\ Len(answer) < Room)
    <2>1. state' = "overrun" /\ i' = i /\ answer' = answer  BY <1>2 DEF Round
    <2>2. function = "stripslashesC" /\ str = <<>>
      <3>1. function \in {"stripslashes", "stripslashesC"} /\ Len(answer) <= i
        BY <1>0 DEF TypeOK
      <3>2. CASE function = "stripslashes"
        <4>1. i < Len(str) /\ Room = MaxSize  BY <1>0, <3>2 DEF Limit, Room
        <4>. QED  BY <1>0, <1>2, <3>1, <4>1
      <3>3. CASE function = "stripslashesC" /\ str # <<>>
        <4>1. i < Len(str) - 1 /\ Room = Len(str)
          BY <1>0, <3>3 DEF Limit, LengthMinusOne, Room
        <4>. QED  BY <1>0, <1>2, <3>1, <4>1
      <3>. QED  BY <3>1, <3>2, <3>3
    <2>. QED  BY <1>0, <2>1, <2>2 DEF IInv, TypeOK, AnswerFits, InBounds
  <1>. QED  BY <1>1, <1>2

LEMMA ReturnInvariant == IInv /\ Return => IInv'
  <1>. SUFFICES ASSUME IInv, Return PROVE IInv'  OBVIOUS
  <1>. USE TextFacts
  <1>0. TypeOK /\ AnswerFits /\ i >= Limit /\ UNCHANGED <<function, str, i, answer>>
    BY DEF IInv, Return
  <1>1. state' = "overrun" => function = "stripslashesC" /\ str = <<>>
    <2>. SUFFICES ASSUME state' = "overrun" PROVE function = "stripslashesC" /\ str = <<>>
      OBVIOUS
    <2>1. function = "stripslashesC" /\ ~(Len(answer) < Room)
      BY <1>0 DEF Return, TypeOK
    <2>2. ~(Len(answer) < Len(str))  BY <2>1 DEF Room
    <2>. QED  BY <1>0, <2>1, <2>2 DEF AnswerFits
  <1>2. state' \in {"looping", "returned", "overrun"}  BY DEF Return
  <1>. QED  BY <1>0, <1>1, <1>2 DEF IInv, TypeOK, AnswerFits, InBounds

\* The inductive invariant holds in every state, for any texts.
THEOREM StripInvariant == Spec => []IInv
  <1>1. Init => IInv  BY StripInitInvariant
  <1>2. IInv /\ [Next]_vars => IInv'
    <2>. SUFFICES ASSUME IInv, [Next]_vars PROVE IInv'  OBVIOUS
    <2>1. CASE Round   BY <2>1, RoundInvariant
    <2>2. CASE Return  BY <2>2, ReturnInvariant
    <2>3. CASE UNCHANGED vars
      BY <2>3 DEF vars, IInv, TypeOK, AnswerFits, InBounds
    <2>. QED  BY <2>1, <2>2, <2>3 DEF Next
  <1>. QED  BY <1>1, <1>2, PTL DEF Spec

\* Types, and the index never runs further behind the end of a text than TypeOK
\* says (Algorithm.cpp:9, 40).
THEOREM StripTypeCorrect == Spec => []TypeOK
  <1>1. IInv => TypeOK  BY DEF IInv
  <1>. QED  BY <1>1, StripInvariant, PTL

\* Neither function touches memory of others, on any text but the empty one in
\* stripslashesC (Algorithm.cpp:6-34).
THEOREM StaysInBounds == Spec => []InBounds
  <1>1. IInv => InBounds  BY DEF IInv
  <1>. QED  BY <1>1, StripInvariant, PTL

-----------------------------------------------------------------------------
(* What stripslashes keeps.                                                *)

\* The n characters before j are backslashes, and not the one before them.
Run(s, j, n) ==
    /\ n \in 0..(j - 1)
    /\ \A k \in (j - n)..(j - 1) : s[k] = Backslash
    /\ j - n > 1 => s[j - n - 1] # Backslash

LEMMA EscapedByRun ==
    ASSUME NEW s, NEW j
    PROVE  IsEscaped(s, j) <=> \E n \in 0..(j - 1) : n % 2 = 1 /\ Run(s, j, n)
  BY DEF IsEscaped, Run

\* The run is one more than that before a backslash, and empty after anything else.
LEMMA RunStep ==
    ASSUME NEW s, NEW j \in Nat \ {0}
    PROVE  /\ s[j] # Backslash => \A n : Run(s, j + 1, n) <=> n = 0
           /\ s[j] = Backslash => /\ ~Run(s, j + 1, 0)
                                  /\ \A n \in Nat : Run(s, j, n) <=> Run(s, j + 1, n + 1)
  <1>1. ASSUME s[j] # Backslash, NEW n
        PROVE  Run(s, j + 1, n) <=> n = 0
    <2>1. ASSUME Run(s, j + 1, n) PROVE n = 0
      <3>1. n \in 0..j /\ \A k \in (j + 1 - n)..j : s[k] = Backslash
        BY <2>1 DEF Run
      <3>2. n > 0 => j \in (j + 1 - n)..j  BY <3>1
      <3>. QED  BY <1>1, <3>1, <3>2
    <2>2. ASSUME n = 0 PROVE Run(s, j + 1, n)
      <3>1. n \in 0..((j + 1) - 1) /\ (j + 1) - n - 1 = j  BY <2>2
      <3>2. \A k : k \notin ((j + 1) - n)..((j + 1) - 1)  BY <2>2
      <3>. QED  BY <1>1, <3>1, <3>2 DEF Run
    <2>. QED  BY <2>1, <2>2
  <1>2. ASSUME s[j] = Backslash PROVE ~Run(s, j + 1, 0)
    <2>1. (j + 1) - 0 > 1 /\ (j + 1) - 0 - 1 = j  OBVIOUS
    <2>. QED  BY <1>2, <2>1 DEF Run
  <1>3. ASSUME s[j] = Backslash, NEW n \in Nat
        PROVE  Run(s, j, n) <=> Run(s, j + 1, n + 1)
    <2>1. (j + 1) - (n + 1) = j - n /\ (j + 1) - 1 = j  OBVIOUS
    <2>2. n \in 0..(j - 1) <=> n + 1 \in 0..j  OBVIOUS
    <2>3. ASSUME n \in 0..(j - 1)
          PROVE  (\A k \in (j - n)..(j - 1) : s[k] = Backslash)
                    <=> (\A k \in (j - n)..j : s[k] = Backslash)
      <3>1. \A k \in (j - n)..j : k = j \/ k \in (j - n)..(j - 1)  BY <2>3
      <3>2. \A k \in (j - n)..(j - 1) : k \in (j - n)..j  BY <2>3
      <3>. QED  BY <1>3, <3>1, <3>2
    <2>. QED  BY <2>1, <2>2, <2>3 DEF Run
  <1>. QED  BY <1>1, <1>2, <1>3

\* Before every place there is one run.
LEMMA OneRun ==
    ASSUME NEW s, NEW j \in Nat \ {0}
    PROVE  \E n \in Nat : \A m : Run(s, j, m) <=> m = n
  <1>1. PICK S : S = {k \in Nat : \E n \in Nat : \A m : Run(s, k + 1, m) <=> m = n}  OBVIOUS
  <1>2. 0 \in S
    <2>1. ASSUME NEW m PROVE Run(s, 0 + 1, m) <=> m = 0
      <3>1. Run(s, 1, m) => m = 0  BY DEF Run
      <3>2. Run(s, 1, 0)  BY DEF Run
      <3>3. 0 + 1 = 1  OBVIOUS
      <3>. QED  BY <3>1, <3>2, <3>3
    <2>. QED  BY <1>1, <2>1
  <1>3. ASSUME NEW k \in Nat, k \in S PROVE k + 1 \in S
    <2>1. PICK n \in Nat : \A m : Run(s, k + 1, m) <=> m = n  BY <1>1, <1>3
    <2>2. k + 1 \in Nat \ {0} /\ k + 1 \in Nat  OBVIOUS
    <2>3. CASE s[k + 1] # Backslash
      <3>1. \A m : Run(s, (k + 1) + 1, m) <=> m = 0  BY <2>2, <2>3, RunStep
      <3>. QED  BY <1>1, <2>2, <3>1
    <2>4. CASE s[k + 1] = Backslash
      <3>1. /\ ~Run(s, (k + 1) + 1, 0)
            /\ \A m \in Nat : Run(s, k + 1, m) <=> Run(s, (k + 1) + 1, m + 1)
        BY <2>2, <2>4, RunStep
      <3>2. ASSUME NEW m PROVE Run(s, (k + 1) + 1, m) <=> m = n + 1
        <4>1. Run(s, (k + 1) + 1, m) => m \in Nat  BY DEF Run
        <4>2. CASE m \in Nat \ {0}
          <5>1. m - 1 \in Nat /\ (m - 1) + 1 = m  BY <4>2
          <5>2. Run(s, k + 1, m - 1) <=> Run(s, (k + 1) + 1, m)  BY <3>1, <5>1
          <5>. QED  BY <2>1, <4>2, <5>1, <5>2
        <4>3. CASE m = 0  BY <2>1, <3>1, <4>3
        <4>. QED  BY <2>1, <4>1, <4>2, <4>3
      <3>3. n + 1 \in Nat  BY <2>1
      <3>. QED  BY <1>1, <2>2, <3>2, <3>3
    <2>. QED  BY <2>3, <2>4
  <1>4. \A k \in Nat : k \in S  BY <1>2, <1>3, Induction
  <1>5. j - 1 \in Nat /\ (j - 1) + 1 = j  OBVIOUS
  <1>. QED  BY <1>1, <1>4, <1>5

\* A character is escaped by a backslash that is not escaped itself.
LEMMA EscapedStep ==
    ASSUME NEW s, NEW j \in Nat \ {0}
    PROVE  IsEscaped(s, j + 1) <=> s[j] = Backslash /\ ~IsEscaped(s, j)
  <1>1. PICK n \in Nat : \A m : Run(s, j, m) <=> m = n  BY OneRun
  <1>2. IsEscaped(s, j) <=> n % 2 = 1
    <2>1. Run(s, j, n)  BY <1>1
    <2>2. n \in 0..(j - 1)  BY <2>1 DEF Run
    <2>. QED  BY <1>1, <2>2, EscapedByRun
  <1>3. CASE s[j] # Backslash
    <2>1. \A m : Run(s, j + 1, m) <=> m = 0  BY <1>3, RunStep
    <2>2. 0 % 2 # 1  OBVIOUS
    <2>. QED  BY <1>3, <2>1, <2>2, EscapedByRun
  <1>4. CASE s[j] = Backslash
    <2>1. /\ ~Run(s, j + 1, 0)
          /\ \A m \in Nat : Run(s, j, m) <=> Run(s, j + 1, m + 1)
      BY <1>4, RunStep
    <2>2. Run(s, j + 1, n + 1) /\ n + 1 \in 0..((j + 1) - 1)
      <3>1. Run(s, j + 1, n + 1)  BY <1>1, <2>1
      <3>. QED  BY <3>1 DEF Run
    <2>3. \A m \in Nat : Run(s, j + 1, m) => m = n + 1
      <3>. SUFFICES ASSUME NEW m \in Nat, Run(s, j + 1, m) PROVE m = n + 1  OBVIOUS
      <3>1. m # 0  BY <2>1
      <3>2. m - 1 \in Nat /\ (m - 1) + 1 = m  BY <3>1
      <3>3. Run(s, j, m - 1)  BY <2>1, <3>2
      <3>. QED  BY <1>1, <3>2, <3>3
    <2>4. IsEscaped(s, j + 1) <=> (n + 1) % 2 = 1
      <3>1. \A m \in 0..((j + 1) - 1) : m \in Nat  OBVIOUS
      <3>. QED  BY <2>2, <2>3, <3>1, EscapedByRun
    <2>5. (n + 1) % 2 = 1 <=> ~(n % 2 = 1)  OBVIOUS
    <2>. QED  BY <1>2, <1>4, <2>4, <2>5
  <1>. QED  BY <1>3, <1>4

\* One more character of a text is kept, or not.
LEMMA KeptStep ==
    ASSUME NEW s \in Seq(Character)
    PROVE  /\ KeptUpTo(s, 0) = <<>>
           /\ \A k \in 1..Len(s) :
                KeptUpTo(s, k) = IF IsKept(s, k) THEN Append(KeptUpTo(s, k - 1), s[k])
                                                 ELSE KeptUpTo(s, k - 1)
           /\ \A k \in 0..Len(s) : KeptUpTo(s, k) \in Seq(Character)
  <1>. DEFINE Step(t) == [j \in 0..Len(s) |->
                            IF j = 0 THEN <<>>
                            ELSE IF IsKept(s, j) THEN Append(t[j - 1], s[j]) ELSE t[j - 1]]
              kept == CHOOSE t : t = Step(t)
  <1>1. PICK V, n : V = Seq(Character) /\ n = Len(s)  OBVIOUS
  <1>2. n \in Nat /\ <<>> \in V /\ \A k \in 1..n : s[k] \in Character  BY <1>1
  <1>3. PICK G : G = [k \in 1..n |-> [x \in V |-> IF IsKept(s, k) THEN Append(x, s[k]) ELSE x]]
    OBVIOUS
  <1>4. ASSUME NEW k \in 1..n
        PROVE  /\ G[k] \in [V -> V]
               /\ \A x \in V : G[k][x] = IF IsKept(s, k) THEN Append(x, s[k]) ELSE x
    <2>1. G[k] = [x \in V |-> IF IsKept(s, k) THEN Append(x, s[k]) ELSE x]  BY <1>3
    <2>2. ASSUME NEW x \in V PROVE (IF IsKept(s, k) THEN Append(x, s[k]) ELSE x) \in V
      <3>1. x \in Seq(Character) /\ s[k] \in Character  BY <1>1, <1>2
      <3>2. Append(x, s[k]) \in Seq(Character)  BY <3>1
      <3>. QED  BY <1>1, <3>1, <3>2
    <2>. QED  BY <2>1, <2>2
  <1>5. G \in [1..n -> [V -> V]]  BY <1>3, <1>4
  <1>6. PICK f : Recurses(f, V, n, <<>>, G)
    <2>1. PICK c : c = <<>>  OBVIOUS
    <2>2. c \in V  BY <1>2, <2>1
    <2>3. \E f : Recurses(f, V, n, c, G)
      <3>. HIDE DEF Step, kept
      <3>. QED  BY <1>2, <1>5, <2>2, Recursion
    <2>. QED  BY <2>1, <2>3
  <1>7. /\ f \in [0..n -> V] /\ f[0] = <<>>
        /\ \A k \in 1..n : f[k] = IF IsKept(s, k) THEN Append(f[k - 1], s[k]) ELSE f[k - 1]
    <2>1. f \in [0..n -> V] /\ f[0] = <<>> /\ \A k \in 1..n : f[k] = G[k][f[k - 1]]
      BY <1>6 DEF Recurses
    <2>2. ASSUME NEW k \in 1..n
          PROVE  f[k] = IF IsKept(s, k) THEN Append(f[k - 1], s[k]) ELSE f[k - 1]
      <3>1. k - 1 \in 0..n  BY <1>2
      <3>2. f[k - 1] \in V  BY <2>1, <3>1
      <3>. QED  BY <1>4, <2>1, <3>2
    <2>. QED  BY <2>1, <2>2
  <1>8. f = Step(f)
    <2>1. ASSUME NEW j \in 0..Len(s)
          PROVE  f[j] = IF j = 0 THEN <<>>
                        ELSE IF IsKept(s, j) THEN Append(f[j - 1], s[j]) ELSE f[j - 1]
      <3>1. j = 0 \/ j \in 1..n  BY <1>1, <1>2
      <3>. QED  BY <1>7, <3>1
    <2>. QED  BY <1>1, <1>7, <2>1
  <1>9. kept = Step(kept)
    <2>. DEFINE P(t) == t = Step(t)
    <2>1. P(f)  BY <1>8
    <2>2. P(CHOOSE t : P(t))
      <3>. HIDE DEF P
      <3>. QED  BY <2>1
    <2>. QED  BY <2>2
  <1>10. \A k : KeptUpTo(s, k) = kept[k]  BY DEF KeptUpTo
  <1>. HIDE DEF kept
  <1>11. /\ kept[0] = <<>>
         /\ \A k \in 1..Len(s) :
              kept[k] = IF IsKept(s, k) THEN Append(kept[k - 1], s[k]) ELSE kept[k - 1]
    <2>1. \A k \in 0..Len(s) :
            kept[k] = IF k = 0 THEN <<>>
                      ELSE IF IsKept(s, k) THEN Append(kept[k - 1], s[k]) ELSE kept[k - 1]
      BY <1>9
    <2>2. 0 \in 0..Len(s) /\ \A k \in 1..Len(s) : k \in 0..Len(s) /\ k # 0
      BY <1>1, <1>2
    <2>. QED  BY <2>1, <2>2
  <1>12. \A k \in 0..Len(s) : kept[k] \in Seq(Character)
    <2>1. PICK S : S = {k \in 0..n : kept[k] \in V}  OBVIOUS
    <2>2. 0 \in S  BY <1>2, <1>11, <2>1
    <2>3. ASSUME NEW k \in 0 .. n - 1, k \in S PROVE k + 1 \in S
      <3>1. k + 1 \in 1..n /\ k + 1 \in 0..n /\ (k + 1) - 1 = k  BY <1>2
      <3>2. kept[k + 1] = IF IsKept(s, k + 1) THEN Append(kept[k], s[k + 1]) ELSE kept[k]
        BY <1>1, <1>11, <3>1
      <3>3. kept[k] \in Seq(Character) /\ s[k + 1] \in Character  BY <1>1, <1>2, <2>1, <2>3, <3>1
      <3>4. Append(kept[k], s[k + 1]) \in Seq(Character)  BY <3>3
      <3>. QED  BY <1>1, <2>1, <3>1, <3>2, <3>3, <3>4
    <2>4. \A k \in 0..n : k \in S  BY <1>2, <2>2, <2>3, IntervalInduction
    <2>. QED  BY <1>1, <2>1, <2>4
  <1>. QED  BY <1>10, <1>11, <1>12

\* What stripslashes has written: what is kept of the text so far, of which the
\* next character is not escaped; or the NUL too, after a lone backslash.
Stripping ==
    function = "stripslashes" =>
        /\ i <= Len(str) => answer = KeptUpTo(str, i) /\ ~IsEscaped(str, i + 1)
        /\ i > Len(str)  => answer = Kept(str) \o <<Nul>> /\ LoneAtEnd(str)
        /\ state = "returned" => i >= Len(str)

LEMMA RoundStripping == IInv /\ Stripping /\ Round => Stripping'
  <1>. SUFFICES ASSUME IInv, Stripping, Round, function = "stripslashes" PROVE Stripping'
    BY DEF Stripping, Round
  <1>. USE TextFacts
  <1>1. TypeOK /\ str \in Seq(Character) /\ i \in Nat /\ Len(str) \in Nat  BY DEF IInv
  <1>2. /\ i < Len(str) /\ state = "looping" /\ function' = function /\ str' = str
        /\ answer = KeptUpTo(str, i) /\ ~IsEscaped(str, i + 1)
    BY <1>1 DEF Round, Limit, Stripping
  <1>3. /\ i + 1 \in 1..Len(str) /\ (i + 1) - 1 = i /\ i + 1 \in Nat \ {0}
        /\ At(i) = str[i + 1]
    BY <1>1, <1>2 DEF At
  <1>4. KeptUpTo(str, i + 1) = IF IsKept(str, i + 1) THEN Append(answer, At(i)) ELSE answer
    BY <1>1, <1>2, <1>3, KeptStep
  <1>5. IsKept(str, i + 1) <=> At(i) # Backslash  BY <1>2, <1>3 DEF IsKept
  <1>6. IsEscaped(str, (i + 1) + 1) <=> At(i) = Backslash
    BY <1>2, <1>3, EscapedStep
  <1>7. (Ordinary \/ Escape) /\ state' = state
    <2>1. Len(answer) < Room /\ i <= Len(str)
      <3>1. Len(answer) <= i /\ Room = MaxSize  BY <1>1 DEF TypeOK, Room
      <3>. QED  BY <1>1, <1>2, <3>1
    <2>. QED  BY <2>1 DEF Round
  <1>8. CASE Ordinary
    <2>1. At(i) # Backslash /\ answer' = Append(answer, At(i)) /\ i' = i + 1
      BY <1>8 DEF Ordinary
    <2>2. KeptUpTo(str, i + 1) = Append(answer, At(i))  BY <1>4, <1>5, <2>1
    <2>3. KeptUpTo(str, i') = KeptUpTo(str, i + 1) /\ answer' = KeptUpTo(str, i')
      BY <2>1, <2>2
    <2>4. ~IsEscaped(str, (i + 1) + 1)  BY <1>6, <2>1
    <2>5. ~IsEscaped(str, i' + 1)
      <3>1. i' + 1 = (i + 1) + 1  BY <2>1
      <3>. QED  BY <2>4, <3>1
    <2>6. i' <= Len(str)  BY <1>1, <1>2, <2>1
    <2>. QED  BY <1>1, <1>2, <1>7, <2>1, <2>3, <2>5, <2>6 DEF Stripping
  <1>9. CASE Escape
    <2>1. At(i) = Backslash /\ answer' = answer \o Unescaped(At(i + 1)) /\ i' = i + 2
      BY <1>9 DEF Escape, PastEscape
    <2>2. KeptUpTo(str, i + 1) = answer /\ IsEscaped(str, i + 2)
      <3>1. (i + 1) + 1 = i + 2  BY <1>1
      <3>. QED  BY <1>4, <1>5, <1>6, <2>1, <3>1
    <2>3. CASE i + 2 <= Len(str)
      <3>1. /\ i + 2 \in 1..Len(str) /\ (i + 2) - 1 = i + 1 /\ i + 2 \in Nat \ {0}
            /\ At(i + 1) = str[i + 2]
        BY <1>1, <2>3 DEF At
      <3>2. KeptUpTo(str, i + 2) = IF IsKept(str, i + 2) THEN Append(answer, At(i + 1)) ELSE answer
        BY <1>1, <2>2, <3>1, KeptStep
      <3>3. IsKept(str, i + 2) <=> At(i + 1) \in Escapable  BY <2>2, <3>1 DEF IsKept
      <3>4. answer \o Unescaped(At(i + 1)) =
              IF At(i + 1) \in Escapable THEN Append(answer, At(i + 1)) ELSE answer
        <4>1. answer \in Seq(Character)  BY <1>1
        <4>2. answer \o <<>> = answer /\ answer \o <<At(i + 1)>> = Append(answer, At(i + 1))
          BY <4>1
        <4>. QED  BY <4>2 DEF Unescaped
      <3>5. ~IsEscaped(str, (i + 2) + 1)  BY <2>2, <3>1, EscapedStep
      <3>6. answer' = KeptUpTo(str, i') /\ ~IsEscaped(str, i' + 1) /\ i' <= Len(str)
        BY <2>1, <2>3, <3>2, <3>3, <3>4, <3>5
      <3>7. ~(i' > Len(str)) /\ state' # "returned"  BY <1>1, <1>2, <1>7, <2>1, <3>6
      <3>. HIDE TextFacts
      <3>. QED  BY <1>2, <3>6, <3>7 DEF Stripping
    <2>4. CASE i + 1 = Len(str)
      <3>1. At(i + 1) = Nul  BY <1>1, <2>4 DEF At
      <3>2. Unescaped(At(i + 1)) = <<Nul>>  BY <3>1 DEF Unescaped, Escapable
      <3>3. answer = Kept(str)  BY <2>2, <2>4 DEF Kept
      <3>4. LoneAtEnd(str)
        <4>1. str # <<>>  BY <1>1, <2>4
        <4>. QED  BY <1>2, <1>3, <2>1, <2>4, <4>1 DEF LoneAtEnd
      <3>5. i' > Len(str) /\ ~(i' <= Len(str))  BY <1>1, <2>1, <2>4
      <3>. QED  BY <1>2, <1>7, <2>1, <3>2, <3>3, <3>4, <3>5 DEF Stripping
    <2>. QED  BY <1>1, <1>2, <2>3, <2>4
  <1>. QED  BY <1>7, <1>8, <1>9

\* stripslashes keeps what the parity of the backslashes says, in every text
\* (Algorithm.cpp:37-65).
THEOREM KeepsByParity == Spec => []StripsByParity
  <1>1. Init => Stripping
    <2>. SUFFICES ASSUME Init PROVE Stripping  OBVIOUS
    <2>1. str \in Seq(Character) /\ i = 0 /\ answer = <<>> /\ state = "looping"
      BY TextsAssumption DEF Init
    <2>2. ~IsEscaped(str, 0 + 1)  BY DEF IsEscaped
    <2>. QED  BY <2>1, <2>2, KeptStep DEF Stripping
  <1>2. IInv /\ Stripping /\ [Next]_vars => Stripping'
    <2>. SUFFICES ASSUME IInv, Stripping, [Next]_vars PROVE Stripping'  OBVIOUS
    <2>1. CASE Round  BY <2>1, RoundStripping
    <2>2. CASE Return
      BY <2>2 DEF Return, Stripping, Limit
    <2>3. CASE UNCHANGED vars  BY <2>3 DEF vars, Stripping
    <2>. QED  BY <2>1, <2>2, <2>3 DEF Next
  <1>3. IInv /\ Stripping => StripsByParity
    <2>. SUFFICES ASSUME IInv, Stripping, state = "returned", function = "stripslashes"
                  PROVE  answer = Kept(str) \o (IF LoneAtEnd(str) THEN <<Nul>> ELSE <<>>)
      BY DEF StripsByParity
    <2>1. /\ str \in Seq(Character) /\ answer \in Seq(Character) /\ i \in Nat /\ Len(str) \in Nat
          /\ (Len(str) = 0 <=> str = <<>>)
      BY TextFacts DEF IInv
    <2>2. CASE i > Len(str)  BY <2>2 DEF Stripping
    <2>3. CASE i = Len(str)
      <3>1. answer = Kept(str) /\ ~IsEscaped(str, Len(str) + 1)
        BY <2>1, <2>3 DEF Stripping, Kept
      <3>2. ~LoneAtEnd(str)
        <4>1. str # <<>> => Len(str) \in Nat \ {0}  BY <2>1
        <4>. QED  BY <3>1, <4>1, EscapedStep DEF LoneAtEnd
      <3>3. answer \o <<>> = answer  BY <2>1
      <3>. QED  BY <3>1, <3>2, <3>3
    <2>. QED  BY <2>1, <2>2, <2>3 DEF Stripping
  <1>. QED  BY <1>1, <1>2, <1>3, StripInvariant, PTL DEF Spec

-----------------------------------------------------------------------------
(* The text is stripped as Algorithm says, whoever does it.                *)

LEMMA PathBegins == PathInit => Init
  <1>1. InitForward => Init
    <2>. SUFFICES ASSUME InitForward PROVE Init  OBVIOUS
    <2>1. argument.uri \in Texts
      BY ArgumentsAssumption DEF InitForward, F!Argument
    <2>. QED  BY <2>1 DEF InitForward, Init
  <1>2. InitWorker => Init
    BY EmptyTextAssumption DEF InitWorker, Init
  <1>. QED  BY <1>1, <1>2 DEF PathInit, InitLibrary

LEMMA PathStep == [PathNext]_allVars => [Next]_vars
  BY DEF PathNext, allVars, vars, Strips, TargetIsSet, MainGoesOn, ProcessRequest, ServesSocket

\* A request's text goes through the loop of stripslashes and nothing else
\* touches it (forwarding main.cpp:667-669).
THEOREM StripsAsAlgorithm == PathSpec => Spec
  BY PathBegins, PathStep, PTL DEF PathSpec, Spec

\* InBounds and StripsByParity hold where the functions are called.
THEOREM PathStripsByParity == PathSpec => [](InBounds /\ StripsByParity)
  BY StripsAsAlgorithm, StaysInBounds, KeepsByParity, PTL

-----------------------------------------------------------------------------
(* main() of the forwarding program.                                       *)

UriSize == IF F!HasString("REQUEST_URI") THEN F!Value("REQUEST_URI").size ELSE 0

\* What the pool has taken when the members before next have been set.
UsedSoFar == UriSize + Total(SubSeq(F!FieldSizes, 1, next - 1))

SetSoFar == {F!Members[j].name : j \in {k \in 1..(next - 1) : F!IsField(F!Members[k])}}

\* Where main() is, of a program with a request of its own.
MainState ==
    /\ pc = "parse" => F!Init
    /\ pc = "target" => argument.form = "object" /\ next = 1 /\ fields = {} /\ used = 0
    /\ pc \in {"fields", "root", "process"} =>
         argument.form = "object" /\ used = UsedSoFar /\ fields = SetSoFar
    /\ pc \in {"root", "process"} => next = Len(F!Members) + 1
    /\ pc = "process" => "DOCUMENT_ROOT" \in fields
    /\ pc # "end" => responses = 0 /\ exit = "none"

\* Nothing is served before the end, or to a program that serves nothing.
ServedLast ==
    /\ caller = "forward" => argument \in Arguments /\ MainState
    /\ caller # "forward" => argument = NoArgument /\ F!Init
    /\ status # "asked" => caller = "worker" \/ (caller = "forward" /\ pc = "end")

\* What is served is the target's, which does not change after.
ServesTarget ==
    /\ status = "ok" => /\ ~T!IsBad(target)
                        /\ path = T!Opened(T!Base(target))
                        /\ type = T!MimeType(T!Base(target))
    /\ status # "ok" => path = <<>> /\ type = T!Default

Types ==
    /\ F!TypeOK
    /\ caller \in {"forward", "worker", "library"}
    /\ hasRoot \in BOOLEAN /\ status \in {"asked", "ok", "not_found"}
    /\ target \in Seq(Character)

PInv == IInv /\ Types /\ ServedLast /\ ServesTarget /\ AnsweredOnceIfComplete

LEMMA ArgumentFacts ==
    ASSUME ServedLast
    PROVE  /\ F!Members \in Seq(F!Member) /\ Len(F!Members) \in Nat
           /\ F!FieldSizes \in Seq(Nat) /\ Len(F!FieldSizes) = Len(F!Members)
           /\ \A j \in 1..Len(F!Members) :
                /\ F!FieldSizes[j] = IF F!IsField(F!Members[j]) THEN F!Members[j].size ELSE 0
                /\ F!Members[j].size \in Nat /\ F!Members[j].name \in F!Names
           /\ UriSize \in Nat
           /\ PoolSize \in Nat \ {0}
  <1>1. F!Members \in Seq(F!Member)
    <2>1. argument \in F!Argument(Texts) \/ argument = NoArgument
      BY ArgumentsAssumption DEF ServedLast
    <2>2. CASE argument \in F!Argument(Texts)  BY <2>2 DEF F!Argument, F!Members
    <2>3. CASE argument = NoArgument
      <3>1. F!Members = <<>>  BY <2>3 DEF F!Members, NoArgument
      <3>. QED  BY <3>1
    <2>. QED  BY <2>1, <2>2, <2>3
  <1>2. Len(F!Members) \in Nat  BY <1>1
  <1>3. \A j \in 1..Len(F!Members) : F!Members[j] \in F!Member  BY <1>1
  <1>4. \A j \in 1..Len(F!Members) : F!Members[j].size \in Nat /\ F!Members[j].name \in F!Names
    BY <1>3 DEF F!Member
  <1>5. /\ F!FieldSizes \in Seq(Nat) /\ Len(F!FieldSizes) = Len(F!Members)
        /\ \A j \in 1..Len(F!Members) :
              F!FieldSizes[j] = IF F!IsField(F!Members[j]) THEN F!Members[j].size ELSE 0
    BY <1>2, <1>4 DEF F!FieldSizes
  <1>6. UriSize \in Nat
    <2>1. ASSUME F!HasString("REQUEST_URI") PROVE F!Value("REQUEST_URI").size \in Nat
      <3>1. \E j \in 1..Len(F!Members) : F!IsFirst(j, "REQUEST_URI")
        BY <2>1 DEF F!HasString
      <3>. QED  BY <1>4, <3>1 DEF F!Value
    <2>. QED  BY <2>1 DEF UriSize
  <1>. QED  BY <1>1, <1>2, <1>4, <1>5, <1>6, ArgumentsAssumption

LEMMA TotalIsTotal == \A s : F!Total(s) = Total(s)
  BY DEF F!Total, Total

LEMMA RequestKept ==
    ASSUME argument' = argument
    PROVE  /\ F!Members' = F!Members /\ F!FieldSizes' = F!FieldSizes
           /\ UriSize' = UriSize /\ (F!Complete' <=> F!Complete)
           /\ (caller' = caller /\ pc' = pc /\ responses' = responses /\ exit' = exit
               /\ method' = method /\ target' = target /\ status' = status
                 => (AnsweredOnceIfComplete' <=> AnsweredOnceIfComplete))
  <1>1. /\ F!Members' = F!Members /\ F!FieldSizes' = F!FieldSizes
        /\ UriSize' = UriSize /\ (F!Complete' <=> F!Complete)
    BY DEF F!Members, F!FieldSizes, UriSize, F!HasString, F!Value, F!IsFirst, F!IsField,
           F!Complete, F!Needed
  <1>. QED  BY <1>1 DEF AnsweredOnceIfComplete, T!IsBad, T!HasPart, T!From

\* What a complete request needs, in terms of what is used.
LEMMA CompleteFacts ==
    ASSUME ServedLast
    PROVE  /\ F!Needed = UriSize + Total(F!FieldSizes)
           /\ F!Needed \in Nat /\ UriSize <= F!Needed
           /\ \A n \in 0..Len(F!Members) :
                /\ Total(SubSeq(F!FieldSizes, 1, n)) \in Nat
                /\ UriSize + Total(SubSeq(F!FieldSizes, 1, n)) <= F!Needed
                /\ n > 0 => Total(SubSeq(F!FieldSizes, 1, n))
                              = Total(SubSeq(F!FieldSizes, 1, n - 1)) + F!FieldSizes[n]
           /\ Total(SubSeq(F!FieldSizes, 1, 0)) = 0
           /\ SubSeq(F!FieldSizes, 1, Len(F!Members)) = F!FieldSizes
  <1>1. PICK s \in Seq(Nat) : s = F!FieldSizes /\ Len(s) = Len(F!Members) /\ Len(s) \in Nat
    BY ArgumentFacts
  <1>2. UriSize \in Nat  BY ArgumentFacts
  <1>3. Total(s) \in Nat  BY TotalType
  <1>4. F!Needed = UriSize + Total(s)  BY <1>1, TotalIsTotal DEF F!Needed, UriSize
  <1>5. ASSUME NEW n \in 0..Len(s)
        PROVE  /\ Total(SubSeq(s, 1, n)) \in Nat /\ Total(SubSeq(s, 1, n)) <= Total(s)
               /\ n > 0 => Total(SubSeq(s, 1, n)) = Total(SubSeq(s, 1, n - 1)) + s[n]
    <2>1. SubSeq(s, 1, n) \in Seq(Nat)  BY <1>1
    <2>. QED  BY <2>1, TotalType, TotalPrefix
  <1>6. SubSeq(s, 1, 0) = <<>> /\ SubSeq(s, 1, Len(s)) = s  BY <1>1
  <1>7. F!Needed \in Nat /\ UriSize <= F!Needed  BY <1>2, <1>3, <1>4
  <1>8. ASSUME NEW n \in 0..Len(s) PROVE UriSize + Total(SubSeq(s, 1, n)) <= F!Needed
    BY <1>2, <1>3, <1>4, <1>5
  <1>9. Total(SubSeq(s, 1, 0)) = 0  BY <1>6, TotalEmpty
  <1>10. /\ F!Needed = UriSize + Total(s)
         /\ \A n \in 0..Len(F!Members) :
                /\ Total(SubSeq(s, 1, n)) \in Nat
                /\ UriSize + Total(SubSeq(s, 1, n)) <= F!Needed
                /\ n > 0 => Total(SubSeq(s, 1, n)) = Total(SubSeq(s, 1, n - 1)) + s[n]
         /\ Total(SubSeq(s, 1, 0)) = 0
         /\ SubSeq(s, 1, Len(F!Members)) = s
    <2>1. Len(F!Members) = Len(s)  BY <1>1
    <2>. QED  BY <1>4, <1>5, <1>6, <1>8, <1>9, <2>1
  <1>11. s = F!FieldSizes  BY <1>1
  <1>. QED  BY <1>7, <1>10, <1>11

LEMMA AlgorithmKept ==
    ASSUME IInv, UNCHANGED vars
    PROVE  IInv'
  BY DEF IInv, TypeOK, AnswerFits, InBounds, vars

LEMMA BeginsPInv == PathInit => PInv
  <1>. SUFFICES ASSUME PathInit PROVE PInv  OBVIOUS
  <1>1. IInv  BY PathBegins, StripInitInvariant
  <1>2. /\ F!Init /\ T!Init
        /\ caller \in {"forward", "worker", "library"} /\ hasRoot \in BOOLEAN
        /\ caller = "forward" => argument \in Arguments
        /\ caller # "forward" => argument = NoArgument
    BY DEF PathInit, InitLibrary, InitForward, InitWorker
  <1>3. target \in Seq(Character)
    <2>1. target = <<>> \/ target \in Targets
      BY DEF PathInit, InitLibrary, InitForward, InitWorker
    <2>2. <<>> \in Seq(Character)  OBVIOUS
    <2>. QED  BY <2>1, <2>2, TargetsAssumption
  <1>4. ServedLast  BY <1>2 DEF ServedLast, MainState, F!Init, T!Init
  <1>5. Types
    <2>1. F!TypeOK
      <3>1. next \in 1..(Len(F!Members) + 1) /\ used \in 0..(PoolSize - 1)
        BY <1>2, <1>4, ArgumentFacts DEF F!Init
      <3>2. /\ pc = "parse" /\ method \in BOOLEAN /\ fields = {} /\ responses = 0
            /\ exit = "none"
        BY <1>2 DEF F!Init
      <3>. QED  BY <3>1, <3>2 DEF F!TypeOK, F!Members
    <2>. QED  BY <1>2, <1>3, <2>1 DEF Types, T!Init
  <1>6. ServesTarget  BY <1>2 DEF ServesTarget, T!Init
  <1>7. AnsweredOnceIfComplete  BY <1>2 DEF AnsweredOnceIfComplete, F!Init
  <1>. QED  BY <1>1, <1>4, <1>5, <1>6, <1>7 DEF PInv

LEMMA StripsPInv == PInv /\ Strips => PInv'
  <1>. SUFFICES ASSUME PInv, Strips PROVE PInv'  OBVIOUS
  <1>1. IInv'  BY RoundInvariant, ReturnInvariant DEF PInv, Strips, Next
  <1>2. UNCHANGED <<caller, target, servedVars, mainVars>>  BY DEF Strips
  <1>3. Types'  BY <1>2 DEF PInv, Types, F!TypeOK, servedVars, mainVars
  <1>4. ServedLast'
    BY <1>2 DEF PInv, ServedLast, MainState, servedVars, mainVars, F!Init, UsedSoFar, SetSoFar,
                UriSize, F!HasString, F!Value, F!IsFirst, F!IsField, F!FieldSizes, F!Members
  <1>5. ServesTarget'
    BY <1>2 DEF PInv, ServesTarget, servedVars
  <1>6. AnsweredOnceIfComplete'
    BY <1>2, RequestKept DEF PInv, servedVars, mainVars
  <1>. QED  BY <1>1, <1>3, <1>4, <1>5, <1>6 DEF PInv

\* main() does not touch what is served.
LEMMA MainServes ==
    ASSUME PInv, UNCHANGED <<vars, caller, servedVars>>, caller = "forward", pc # "end"
    PROVE  IInv' /\ ServesTarget' /\ status = "asked" /\ status' = "asked"
  <1>1. IInv'  BY AlgorithmKept DEF PInv
  <1>2. status = "asked" /\ status' = "asked"  BY DEF PInv, ServedLast, servedVars
  <1>3. path' = <<>> /\ type' = T!Default  BY <1>2 DEF PInv, ServesTarget, servedVars
  <1>. QED  BY <1>1, <1>2, <1>3 DEF ServesTarget

\* A step within main() that does not end it.
LEMMA GoesOnPInv ==
    ASSUME PInv, UNCHANGED <<vars, caller, servedVars, argument>>, caller = "forward",
           pc # "end", pc' # "end", F!TypeOK', target' \in Seq(Character), MainState'
    PROVE  PInv'
  <1>1. IInv' /\ ServesTarget' /\ status' = "asked"  BY MainServes
  <1>2. Types'  BY DEF PInv, Types, servedVars
  <1>3. ServedLast'  BY <1>1 DEF PInv, ServedLast
  <1>4. AnsweredOnceIfComplete'  BY DEF AnsweredOnceIfComplete
  <1>. QED  BY <1>1, <1>2, <1>3, <1>4 DEF PInv

\* A step within main() that ends it without an answer.
LEMMA FailsPInv ==
    ASSUME PInv, UNCHANGED <<vars, caller, servedVars>>,
           UNCHANGED <<argument, method, target, next, fields, used, responses>>,
           caller = "forward", pc # "end", pc' = "end", exit' \in {"failure", "crashed"},
           ~F!Complete \/ (method /\ ~T!IsBad(target))
    PROVE  PInv'
  <1>1. IInv' /\ ServesTarget' /\ status' = "asked"  BY MainServes
  <1>2. /\ next' = next /\ used' = used /\ fields' = fields /\ responses' = responses
        /\ method' = method /\ argument' = argument /\ target' = target /\ caller' = caller
        /\ hasRoot' = hasRoot
    BY DEF servedVars
  <1>3. Types'
    <2>1. F!TypeOK'  BY <1>2 DEF PInv, Types, F!TypeOK
    <2>. QED  BY <1>1, <1>2, <2>1 DEF PInv, Types
  <1>4. ServedLast'
    <2>1. MainState'  BY DEF MainState, F!Init
    <2>. QED  BY <1>1, <1>2, <2>1 DEF PInv, ServedLast
  <1>5. AnsweredOnceIfComplete'
    <2>1. responses = 0  BY DEF PInv, ServedLast, MainState
    <2>2. F!Complete' <=> F!Complete  BY <1>2, RequestKept
    <2>3. T!IsBad(target)' <=> T!IsBad(target)  BY <1>2
    <2>. QED  BY <1>1, <1>2, <2>1, <2>2, <2>3 DEF AnsweredOnceIfComplete
  <1>. QED  BY <1>1, <1>3, <1>4, <1>5 DEF PInv

LEMMA TargetPInv == PInv /\ TargetIsSet => PInv'
  <1>. SUFFICES ASSUME PInv, TargetIsSet PROVE PInv'  OBVIOUS
  <1>1. /\ UNCHANGED <<vars, caller, servedVars>> /\ argument' = argument /\ caller = "forward"
        /\ pc = "target" /\ F!SetTarget(answer)
        /\ method' = method /\ next' = next /\ fields' = fields /\ responses' = responses
    BY DEF TargetIsSet, F!SetTarget
  <1>2. /\ argument.form = "object" /\ next = 1 /\ fields = {} /\ used = 0
        /\ responses = 0 /\ exit = "none"
    BY <1>1 DEF PInv, ServedLast, MainState
  <1>3. /\ answer \in Seq(Character) /\ target \in Seq(Character) /\ F!TypeOK /\ ServedLast
    BY DEF PInv, IInv, TypeOK, Types
  <1>4. CASE pc' # "end"
    <2>1. used' = UriSize /\ used' \in Nat /\ used' < PoolSize /\ pc' = "fields" /\ exit' = exit
          /\ target' \in Seq(Character)
      <3>1. CASE ~F!HasString("REQUEST_URI")
        BY <1>1, <1>2, <1>3, <3>1, ArgumentFacts DEF F!SetTarget, UriSize
      <3>2. CASE F!HasString("REQUEST_URI")
        BY <1>1, <1>2, <1>3, <1>4, <3>2, ArgumentFacts DEF F!SetTarget, UriSize, F!Fits, F!Throw
      <3>. QED  BY <3>1, <3>2
    <2>2. F!TypeOK'
      BY <1>1, <1>3, <2>1, ArgumentFacts DEF F!TypeOK
    <2>3. MainState'
      <3>1. UsedSoFar' = UriSize
        <4>1. UsedSoFar' = UriSize + Total(SubSeq(F!FieldSizes, 1, 1 - 1))
          BY <1>1, <1>2, RequestKept DEF UsedSoFar
        <4>. QED  BY <1>3, <4>1, CompleteFacts, ArgumentFacts
      <3>2. SetSoFar' = {}
        <4>1. next' = 1  BY <1>1, <1>2
        <4>. QED  BY <4>1 DEF SetSoFar
      <3>. QED  BY <1>1, <1>2, <2>1, <3>1, <3>2 DEF MainState
    <2>. QED  BY <1>1, <1>4, <2>1, <2>2, <2>3, GoesOnPInv
  <1>5. CASE pc' = "end"
    <2>1. /\ UNCHANGED <<target, used>> /\ exit' = "failure"
          /\ F!HasString("REQUEST_URI") /\ ~F!Fits(F!Value("REQUEST_URI").size)
      BY <1>1, <1>5 DEF F!SetTarget, F!Throw
    <2>2. ~(UriSize < PoolSize)
      BY <1>2, <1>3, <2>1, ArgumentFacts DEF UriSize, F!Fits
    <2>3. ~F!Complete
      BY <1>3, <2>2, ArgumentFacts, CompleteFacts DEF F!Complete
    <2>. QED  BY <1>1, <1>5, <2>1, <2>3, FailsPInv
  <1>. QED  BY <1>4, <1>5

LEMMA ParsePInv == PInv /\ MainGoesOn /\ F!Parse => PInv'
  <1>. SUFFICES ASSUME PInv, MainGoesOn, F!Parse PROVE PInv'  OBVIOUS
  <1>1. /\ UNCHANGED <<vars, caller, servedVars>> /\ argument' = argument /\ caller = "forward"
        /\ pc = "parse" /\ target' = target /\ next' = next /\ fields' = fields
        /\ used' = used /\ responses' = responses
    BY DEF MainGoesOn, F!Parse
  <1>2. F!Init /\ F!TypeOK /\ ServedLast /\ target \in Seq(Character)
    BY <1>1 DEF PInv, ServedLast, MainState, Types
  <1>3. argument.form \in {"missing", "broken", "no_object", "object"}
    BY <1>1, <1>2, ArgumentsAssumption DEF ServedLast, F!Argument
  <1>4. method' \in BOOLEAN
    <2>1. F!HasString("REQUEST_METHOD") => F!Value("REQUEST_METHOD").get \in BOOLEAN
      <3>. SUFFICES ASSUME F!HasString("REQUEST_METHOD")
                    PROVE  F!Value("REQUEST_METHOD").get \in BOOLEAN
        OBVIOUS
      <3>1. \E j \in 1..Len(F!Members) : F!IsFirst(j, "REQUEST_METHOD")  BY DEF F!HasString
      <3>2. \A j \in 1..Len(F!Members) : F!Members[j] \in F!Member  BY <1>2, ArgumentFacts
      <3>3. F!Value("REQUEST_METHOD") \in F!Member  BY <3>1, <3>2 DEF F!Value
      <3>. QED  BY <3>3 DEF F!Member
    <2>. QED  BY <2>1 DEF F!Parse
  <1>5. CASE argument.form = "object"
    <2>1. pc' = "target" /\ exit' = exit  BY <1>5 DEF F!Parse
    <2>2. F!TypeOK'  BY <1>1, <1>2, <1>4, <2>1 DEF F!TypeOK
    <2>3. MainState'  BY <1>1, <1>2, <1>5, <2>1 DEF MainState, F!Init
    <2>. QED  BY <1>1, <1>2, <2>1, <2>2, <2>3, GoesOnPInv
  <1>6. CASE argument.form # "object"
    <2>1. pc' = "end" /\ exit' \in {"failure", "crashed"} /\ method' = FALSE
      BY <1>3, <1>6 DEF F!Parse, F!Throw
    <2>2. ~F!Complete  BY <1>6 DEF F!Complete
    <2>3. method' = method  BY <1>2, <2>1 DEF F!Init
    <2>. QED  BY <1>1, <2>1, <2>2, <2>3, FailsPInv
  <1>. QED  BY <1>5, <1>6

\* One more member has been looked at.
LEMMA OneMoreMember ==
    ASSUME ServedLast, next \in 1..Len(F!Members), next' = next + 1, argument' = argument
    PROVE  /\ UsedSoFar' = UsedSoFar + F!FieldSizes[next]
           /\ SetSoFar' = IF F!IsField(F!Members[next]) THEN SetSoFar \cup {F!Members[next].name}
                                                       ELSE SetSoFar
  <1>1. Len(F!Members) \in Nat  BY ArgumentFacts
  <1>2. next' - 1 = next /\ next \in 0..Len(F!Members) /\ next > 0 /\ next - 1 \in 0..Len(F!Members)
    BY <1>1
  <1>3. UsedSoFar' = UsedSoFar + F!FieldSizes[next]
    <2>1. UsedSoFar' = UriSize + Total(SubSeq(F!FieldSizes, 1, next))
      BY <1>2, RequestKept DEF UsedSoFar
    <2>2. /\ Total(SubSeq(F!FieldSizes, 1, next))
                = Total(SubSeq(F!FieldSizes, 1, next - 1)) + F!FieldSizes[next]
          /\ Total(SubSeq(F!FieldSizes, 1, next - 1)) \in Nat
      BY <1>2, CompleteFacts
    <2>3. UriSize \in Nat /\ F!FieldSizes[next] \in Nat  BY ArgumentFacts
    <2>. QED  BY <2>1, <2>2, <2>3 DEF UsedSoFar
  <1>4. SetSoFar' = {F!Members[j].name : j \in {k \in 1..next : F!IsField(F!Members[k])}}
    BY <1>2, RequestKept DEF SetSoFar, F!IsField
  <1>5. \A k : k \in 1..next <=> k \in 1..(next - 1) \/ k = next  BY <1>2
  <1>. QED  BY <1>3, <1>4, <1>5 DEF SetSoFar

LEMMA FieldPInv == PInv /\ MainGoesOn /\ F!SetField => PInv'
  <1>. SUFFICES ASSUME PInv, MainGoesOn, F!SetField PROVE PInv'  OBVIOUS
  <1>1. /\ UNCHANGED <<vars, caller, servedVars>> /\ argument' = argument /\ caller = "forward"
        /\ pc = "fields" /\ target' = target /\ method' = method /\ responses' = responses
        /\ next <= Len(F!Members)
    BY DEF MainGoesOn, F!SetField
  <1>2. /\ argument.form = "object" /\ responses = 0 /\ exit = "none"
        /\ used = UsedSoFar /\ fields = SetSoFar
        /\ F!TypeOK /\ ServedLast /\ target \in Seq(Character)
    BY <1>1 DEF PInv, ServedLast, MainState, Types
  <1>3. /\ next \in 1..Len(F!Members) /\ Len(F!Members) \in Nat
        /\ used \in 0..(PoolSize - 1) /\ PoolSize \in Nat
    BY <1>1, <1>2, ArgumentFacts DEF F!TypeOK, F!Members
  <1>4. /\ F!FieldSizes[next] = IF F!IsField(F!Members[next]) THEN F!Members[next].size ELSE 0
        /\ F!Members[next].size \in Nat /\ F!Members[next].name \in F!Names
    BY <1>2, <1>3, ArgumentFacts
  <1>5. CASE next' = next + 1
    <2>1. pc' = "fields" /\ exit' = exit
          /\ used' = used + F!FieldSizes[next] /\ used' \in 0..(PoolSize - 1)
          /\ fields' = IF F!IsField(F!Members[next]) THEN fields \cup {F!Members[next].name}
                                                    ELSE fields
      <3>1. CASE ~F!IsField(F!Members[next])
        BY <1>1, <1>3, <1>4, <3>1 DEF F!SetField
      <3>2. CASE F!IsField(F!Members[next])
        <4>1. F!Fits(F!Members[next].size)
          BY <1>3, <1>5, <3>2 DEF F!SetField
        <4>. QED  BY <1>1, <1>3, <1>4, <3>2, <4>1 DEF F!SetField, F!Fits
      <3>. QED  BY <3>1, <3>2
    <2>2. used' = UsedSoFar' /\ fields' = SetSoFar'
      BY <1>1, <1>2, <1>3, <1>5, <2>1, OneMoreMember
    <2>3. F!TypeOK'
      <3>1. next' \in 1..(Len(F!Members) + 1) /\ fields' \subseteq F!Names
        BY <1>2, <1>3, <1>4, <1>5, <2>1 DEF F!TypeOK
      <3>2. next' \in 1..(Len(argument'.members) + 1)  BY <1>1, <3>1 DEF F!Members
      <3>. QED  BY <1>1, <1>2, <2>1, <3>1, <3>2 DEF F!TypeOK
    <2>4. MainState'  BY <1>1, <1>2, <2>1, <2>2 DEF MainState
    <2>. QED  BY <1>1, <1>2, <2>1, <2>3, <2>4, GoesOnPInv
  <1>6. CASE next' # next + 1
    <2>1. /\ F!IsField(F!Members[next]) /\ ~F!Fits(F!Members[next].size)
          /\ F!Throw /\ UNCHANGED <<next, fields, used>>
      BY <1>6 DEF F!SetField
    <2>2. ~F!Complete
      <3>1. used + F!FieldSizes[next] >= PoolSize
        BY <1>3, <1>4, <2>1 DEF F!Fits
      <3>2. used + F!FieldSizes[next] <= F!Needed
        <4>1. next \in 0..Len(F!Members) /\ next > 0 /\ next - 1 \in 0..Len(F!Members)  BY <1>3
        <4>2. /\ UriSize + Total(SubSeq(F!FieldSizes, 1, next)) <= F!Needed
              /\ Total(SubSeq(F!FieldSizes, 1, next))
                    = Total(SubSeq(F!FieldSizes, 1, next - 1)) + F!FieldSizes[next]
              /\ Total(SubSeq(F!FieldSizes, 1, next - 1)) \in Nat
          BY <1>2, <4>1, CompleteFacts
        <4>3. UriSize \in Nat /\ F!FieldSizes[next] \in Nat  BY <1>2, <1>4, ArgumentFacts
        <4>. QED  BY <1>2, <4>2, <4>3 DEF UsedSoFar
      <3>3. F!Needed \in Nat  BY <1>2, CompleteFacts
      <3>4. F!FieldSizes[next] \in Nat  BY <1>4
      <3>. QED  BY <1>3, <3>1, <3>2, <3>3, <3>4 DEF F!Complete
    <2>3. pc' = "end" /\ exit' = "failure"  BY <2>1 DEF F!Throw
    <2>. QED  BY <1>1, <2>1, <2>2, <2>3, FailsPInv
  <1>. QED  BY <1>5, <1>6

LEMMA DonePInv == PInv /\ MainGoesOn /\ F!FieldsDone => PInv'
  <1>. SUFFICES ASSUME PInv, MainGoesOn, F!FieldsDone PROVE PInv'  OBVIOUS
  <1>1. /\ UNCHANGED <<vars, caller, servedVars>> /\ argument' = argument /\ caller = "forward"
        /\ pc = "fields" /\ pc' = "root" /\ next > Len(F!Members)
        /\ UNCHANGED <<method, target, next, fields, used, responses, exit>>
    BY DEF MainGoesOn, F!FieldsDone
  <1>2. F!TypeOK /\ ServedLast /\ MainState /\ target \in Seq(Character)
    BY <1>1 DEF PInv, Types, ServedLast
  <1>3. next = Len(F!Members) + 1
    <2>1. next \in 1..(Len(F!Members) + 1)  BY <1>2 DEF F!TypeOK, F!Members
    <2>. QED  BY <1>1, <1>2, <2>1, ArgumentFacts
  <1>4. MainState'
    <2>1. UsedSoFar' = UsedSoFar /\ SetSoFar' = SetSoFar
      BY <1>1, RequestKept DEF UsedSoFar, SetSoFar, F!IsField
    <2>. QED  BY <1>1, <1>2, <1>3, <2>1, RequestKept DEF MainState
  <1>5. F!TypeOK'  BY <1>1, <1>2 DEF F!TypeOK
  <1>. QED  BY <1>1, <1>2, <1>4, <1>5, GoesOnPInv

\* The request that has been set is complete if it names a document root.
LEMMA CompleteWhenSet ==
    ASSUME ServedLast, F!TypeOK, argument.form = "object", used = UsedSoFar, fields = SetSoFar,
           next = Len(F!Members) + 1
    PROVE  F!Complete <=> "DOCUMENT_ROOT" \in fields
  <1>1. Len(F!Members) \in Nat /\ next - 1 = Len(F!Members)  BY ArgumentFacts
  <1>2. used = F!Needed  BY <1>1, CompleteFacts DEF UsedSoFar
  <1>3. used < PoolSize  BY ArgumentsAssumption DEF F!TypeOK
  <1>4. "DOCUMENT_ROOT" \in fields <=>
          \E j \in 1..Len(F!Members) : F!Members[j].name = "DOCUMENT_ROOT" /\ F!IsField(F!Members[j])
    BY <1>1 DEF SetSoFar
  <1>. QED  BY <1>2, <1>3, <1>4 DEF F!Complete

LEMMA RootPInv == PInv /\ MainGoesOn /\ F!TakeRoot => PInv'
  <1>. SUFFICES ASSUME PInv, MainGoesOn, F!TakeRoot PROVE PInv'  OBVIOUS
  <1>1. /\ UNCHANGED <<vars, caller, servedVars>> /\ argument' = argument /\ caller = "forward"
        /\ pc = "root" /\ UNCHANGED <<method, target, next, fields, used, responses>>
    BY DEF MainGoesOn, F!TakeRoot
  <1>2. F!TypeOK /\ ServedLast /\ MainState /\ target \in Seq(Character)
    BY <1>1 DEF PInv, Types, ServedLast
  <1>3. CASE "DOCUMENT_ROOT" \in fields
    <2>1. pc' = "process" /\ exit' = exit  BY <1>3 DEF F!TakeRoot
    <2>2. MainState'
      <3>1. UsedSoFar' = UsedSoFar /\ SetSoFar' = SetSoFar
        BY <1>1, RequestKept DEF UsedSoFar, SetSoFar, F!IsField
      <3>. QED  BY <1>1, <1>2, <1>3, <2>1, <3>1, RequestKept DEF MainState
    <2>3. F!TypeOK'  BY <1>1, <1>2, <2>1 DEF F!TypeOK
    <2>. QED  BY <1>1, <1>2, <2>1, <2>2, <2>3, GoesOnPInv
  <1>4. CASE "DOCUMENT_ROOT" \notin fields
    <2>1. pc' = "end" /\ exit' = "failure"  BY <1>4 DEF F!TakeRoot, F!NoRoot, F!Throw
    <2>2. ~F!Complete  BY <1>1, <1>2, <1>4, CompleteWhenSet DEF MainState
    <2>. QED  BY <1>1, <2>1, <2>2, FailsPInv
  <1>. QED  BY <1>3, <1>4

\* main() ends with an answer.
LEMMA AnswersPInv ==
    ASSUME PInv, UNCHANGED <<vars, caller>>, caller = "forward", F!Answered, hasRoot' = hasRoot,
           status' \in {"asked", "ok", "not_found"}, status' # "asked" <=> method, ServesTarget'
    PROVE  PInv'
  <1>1. /\ pc = "process" /\ pc' = "end" /\ responses' = responses + 1 /\ exit' = "success"
        /\ UNCHANGED <<argument, method, target, next, fields, used>>
        /\ caller' = caller
    BY DEF F!Answered
  <1>2. F!TypeOK /\ ServedLast /\ MainState /\ target \in Seq(Character)
    BY DEF PInv, Types, ServedLast
  <1>3. responses' = 1  BY <1>1, <1>2 DEF MainState
  <1>4. IInv'  BY AlgorithmKept DEF PInv
  <1>5. Types'
    <2>1. F!TypeOK'  BY <1>1, <1>2, <1>3 DEF F!TypeOK
    <2>. QED  BY <1>1, <2>1 DEF PInv, Types
  <1>6. ServedLast'
    <2>1. MainState'  BY <1>1 DEF MainState, F!Init
    <2>. QED  BY <1>1, <1>2, <2>1 DEF ServedLast
  <1>7. AnsweredOnceIfComplete'
    <2>1. F!Complete  BY <1>1, <1>2, CompleteWhenSet DEF MainState
    <2>2. F!Complete' <=> F!Complete  BY <1>1, RequestKept
    <2>. QED  BY <1>1, <1>3, <2>1, <2>2 DEF AnsweredOnceIfComplete
  <1>. QED  BY <1>4, <1>5, <1>6, <1>7 DEF PInv

\* What send_file finds is the target's.
LEMMA FileServes ==
    ASSUME PInv, T!SendFile
    PROVE  /\ ServesTarget' /\ status' \in {"ok", "not_found"}
           /\ hasRoot' = hasRoot /\ target' = target
  <1>1. CASE T!Found  BY <1>1 DEF T!Found, ServesTarget
  <1>2. CASE T!NotFound
    <2>1. status = "asked" /\ status' = "not_found" /\ UNCHANGED <<target, hasRoot, path, type>>
      BY <1>2 DEF T!SendFile, T!NotFound
    <2>. QED  BY <2>1 DEF PInv, ServesTarget
  <1>. QED  BY <1>1, <1>2 DEF T!SendFile

LEMMA ProcessPInv == PInv /\ ProcessRequest => PInv'
  <1>. SUFFICES ASSUME PInv, ProcessRequest PROVE PInv'  OBVIOUS
  <1>1. caller = "forward" /\ UNCHANGED <<vars, caller>>  BY DEF ProcessRequest
  <1>2. CASE BadMethod
    <2>1. /\ ~method /\ F!Answered /\ UNCHANGED servedVars
          /\ UNCHANGED <<vars, caller, servedVars>> /\ pc # "end"
      BY <1>1, <1>2 DEF BadMethod, F!Answered
    <2>2. ServesTarget' /\ status' = "asked"  BY <1>1, <2>1, MainServes
    <2>. QED  BY <1>1, <2>1, <2>2, AnswersPInv DEF servedVars
  <1>3. CASE SendsFile
    <2>1. method /\ T!SendFile /\ F!Answered  BY <1>3 DEF SendsFile
    <2>. QED  BY <1>1, <2>1, FileServes, AnswersPInv
  <1>4. CASE SendsDirectory
    <2>1. /\ method /\ ~T!IsBad(target) /\ UNCHANGED servedVars
          /\ pc = "process" /\ pc' = "end" /\ exit' = "failure"
          /\ UNCHANGED <<argument, method, target, next, fields, used, responses>>
      BY <1>4 DEF SendsDirectory, F!NotMeasured, F!Throw
    <2>. QED  BY <1>1, <2>1, FailsPInv
  <1>. QED  BY <1>2, <1>3, <1>4 DEF ProcessRequest

LEMMA SocketPInv == PInv /\ ServesSocket => PInv'
  <1>. SUFFICES ASSUME PInv, ServesSocket PROVE PInv'  OBVIOUS
  <1>1. caller = "worker" /\ T!SendFile /\ UNCHANGED <<vars, caller, mainVars>>
    BY DEF ServesSocket
  <1>2. IInv'  BY <1>1, AlgorithmKept DEF PInv
  <1>3. ServesTarget' /\ status' \in {"ok", "not_found"} /\ hasRoot' = hasRoot /\ target' = target
    BY <1>1, FileServes
  <1>4. Types'  BY <1>1, <1>3 DEF PInv, Types, F!TypeOK, mainVars
  <1>5. ServedLast'  BY <1>1 DEF PInv, ServedLast, F!Init, mainVars
  <1>6. AnsweredOnceIfComplete'  BY <1>1 DEF AnsweredOnceIfComplete
  <1>. QED  BY <1>2, <1>3, <1>4, <1>5, <1>6 DEF PInv

LEMMA StutterPInv == PInv /\ UNCHANGED allVars => PInv'
  <1>. SUFFICES ASSUME PInv, UNCHANGED allVars PROVE PInv'  OBVIOUS
  <1>1. UNCHANGED <<vars, caller, servedVars, argument, mainVars, target>>  BY DEF allVars, mainVars
  <1>2. IInv'  BY <1>1, AlgorithmKept DEF PInv
  <1>3. Types'  BY <1>1 DEF PInv, Types, F!TypeOK, servedVars, mainVars
  <1>4. ServedLast'
    <2>1. UsedSoFar' = UsedSoFar /\ SetSoFar' = SetSoFar
      BY <1>1, RequestKept DEF UsedSoFar, SetSoFar, F!IsField, mainVars
    <2>2. MainState' <=> MainState
      BY <1>1, <2>1, RequestKept DEF MainState, mainVars, F!Init
    <2>. QED  BY <1>1, <2>2 DEF PInv, ServedLast, servedVars, mainVars, F!Init
  <1>5. ServesTarget'  BY <1>1 DEF PInv, ServesTarget, servedVars
  <1>6. AnsweredOnceIfComplete'  BY <1>1, RequestKept DEF PInv, servedVars, mainVars
  <1>. QED  BY <1>2, <1>3, <1>4, <1>5, <1>6 DEF PInv

\* The inductive invariant holds in every state.
THEOREM PathInvariant == PathSpec => []PInv
  <1>1. PInv /\ [PathNext]_allVars => PInv'
    <2>. SUFFICES ASSUME PInv, [PathNext]_allVars PROVE PInv'  OBVIOUS
    <2>1. CASE MainGoesOn
      BY <2>1, ParsePInv, FieldPInv, DonePInv, RootPInv DEF MainGoesOn
    <2>. QED  BY <2>1, StripsPInv, TargetPInv, ProcessPInv, SocketPInv, StutterPInv DEF PathNext
  <1>. QED  BY <1>1, BeginsPInv, PTL DEF PathSpec

\* A complete request is answered once and any other is not served, whatever its
\* members are and however large the pool is (main.cpp:618-704).
THEOREM AnswersOnceIfComplete == PathSpec => []AnsweredOnceIfComplete
  <1>1. PInv => AnsweredOnceIfComplete  BY DEF PInv
  <1>. QED  BY <1>1, PathInvariant, PTL

-----------------------------------------------------------------------------
(* The path of a file.                                                     *)

\* The text before the first c has none, and ends where the text or at a c.
LEMMA BeforeFacts ==
    ASSUME NEW S, NEW s \in Seq(S), NEW c
    PROVE  \E n \in 0..Len(s) : /\ T!Before(s, c) = SubSeq(s, 1, n)
                                /\ \A k \in 1..n : s[k] # c
                                /\ n < Len(s) => s[n + 1] = c
  <1>1. Len(s) \in Nat  OBVIOUS
  <1>2. PICK M : M = {k \in 1..Len(s) : s[k] = c}  OBVIOUS
  <1>3. CASE M = {}
    <2>1. T!Before(s, c) = s  BY <1>2, <1>3 DEF T!Before
    <2>2. PICK n : n = Len(s)  OBVIOUS
    <2>3. n \in 0..Len(s) /\ ~(n < Len(s)) /\ s = SubSeq(s, 1, n)  BY <1>1, <2>2
    <2>4. \A k \in 1..n : s[k] # c  BY <1>2, <1>3, <2>2
    <2>. QED  BY <2>1, <2>3, <2>4
  <1>4. CASE M # {}
    <2>1. PICK m : m = CHOOSE k \in M : \A j \in M : k <= j  OBVIOUS
    <2>2. \E k \in M : \A j \in M : k <= j
      <3>1. M \subseteq Nat  BY <1>1, <1>2
      <3>. QED  BY <1>4, <3>1, Least
    <2>3. m \in M /\ \A j \in M : m <= j  BY <2>1, <2>2
    <2>4. T!Before(s, c) = SubSeq(s, 1, m - 1)  BY <1>2, <1>4, <2>1 DEF T!Before
    <2>5. m - 1 \in 0..Len(s) /\ m \in 1..Len(s) /\ s[m] = c /\ (m - 1) + 1 = m
      BY <1>1, <1>2, <2>3
    <2>6. \A k \in 1..(m - 1) : k \in 1..Len(s) /\ ~(m <= k)  BY <1>1, <2>5
    <2>7. \A k \in 1..(m - 1) : s[k] # c  BY <1>2, <2>3, <2>6
    <2>. QED  BY <2>4, <2>5, <2>7
  <1>. QED  BY <1>3, <1>4

\* Prefixes and suffixes, character by character.
LEMMA PrefixByElement ==
    ASSUME NEW S, NEW s \in Seq(S), NEW u \in Seq(S)
    PROVE  IsPrefix(s, u) <=> Len(s) <= Len(u) /\ \A j \in 1..Len(s) : s[j] = u[j]
  <1>1. PICK n \in Nat : n = Len(s)  OBVIOUS
  <1>2. Len(u) \in Nat  OBVIOUS
  <1>3. SubSeq(s, 1, n) = s  BY <1>1
  <1>4. ASSUME n <= Len(u)
        PROVE  s = SubSeq(u, 1, n) <=> \A j \in 1..n : s[j] = u[j]
    <2>1. PICK v : v = SubSeq(u, 1, n)  OBVIOUS
    <2>2. v \in Seq(S) /\ Len(v) = n /\ \A j \in 1..n : v[j] = u[j]
      BY <1>1, <1>2, <1>4, <2>1
    <2>3. (\A j \in 1..n : s[j] = v[j]) => s = v
      BY <1>1, <2>2, SeqEqual
    <2>. QED  BY <2>1, <2>2, <2>3
  <1>. QED  BY <1>1, <1>2, <1>3, <1>4 DEF IsPrefix

\* Two dots, one behind the other.
DotDot(s) == \E k \in 1..(Len(s) - 1) : s[k] = "." /\ s[k + 1] = "."

LEMMA DotDotIsPart ==
    ASSUME NEW S, NEW s \in Seq(S)
    PROVE  T!HasPart(s, <<".", ".">>) <=> DotDot(s)
  <1>1. Len(s) \in Nat  OBVIOUS
  <1>2. PICK dots : dots = <<".", ".">>  OBVIOUS
  <1>3. Len(dots) = 2 /\ dots[1] = "." /\ dots[2] = "." /\ dots \in Seq({"."})  BY <1>2
  <1>4. ASSUME NEW k \in 1..Len(s)
        PROVE  IsPrefix(dots, T!From(s, k)) <=> k + 1 <= Len(s) /\ s[k] = "." /\ s[k + 1] = "."
    <2>1. PICK u : u = T!From(s, k)  OBVIOUS
    <2>2. u \in Seq(S) /\ Len(u) = Len(s) - k + 1 /\ \A j \in 1..Len(u) : u[j] = s[k + j - 1]
      BY <1>1, <2>1 DEF T!From
    <2>3. IsPrefix(dots, u) <=> Len(dots) <= Len(u) /\ \A j \in 1..Len(dots) : dots[j] = u[j]
      <3>1. PICK W : W = S \cup {"."}  OBVIOUS
      <3>2. dots \in Seq(W) /\ u \in Seq(W)  BY <1>3, <2>2, <3>1, SeqMonotonic
      <3>. QED  BY <3>2, PrefixByElement
    <2>4. IsPrefix(dots, u) <=> 2 <= Len(u) /\ u[1] = "." /\ u[2] = "."
      BY <1>3, <2>3
    <2>5. 2 <= Len(u) <=> k + 1 <= Len(s)  BY <1>1, <2>2
    <2>6. 2 <= Len(u) => u[1] = s[k] /\ u[2] = s[k + 1]  BY <1>1, <2>2
    <2>. QED  BY <2>1, <2>4, <2>5, <2>6
  <1>5. T!HasPart(s, dots) <=> \E k \in 1..Len(s) : IsPrefix(dots, T!From(s, k))
    BY DEF T!HasPart, IsPrefix, T!IsPrefix
  <1>. QED  BY <1>1, <1>2, <1>4, <1>5 DEF DotDot

\* A path from its root on that has no ".." in it.
IsPath(p) == p \in Seq(Character) /\ Len(p) \in Nat \ {0} /\ p[1] = "/" /\ ~DotDot(p)

\* What begins a path is a path.
LEMMA PathPrefix ==
    ASSUME NEW p, IsPath(p), NEW n \in 1..Len(p)
    PROVE  /\ IsPath(SubSeq(p, 1, n)) /\ Len(SubSeq(p, 1, n)) = n
           /\ \A k \in 1..n : SubSeq(p, 1, n)[k] = p[k]
  <1>1. p \in Seq(Character) /\ Len(p) \in Nat \ {0} /\ p[1] = "/" /\ ~DotDot(p)  BY DEF IsPath
  <1>2. PICK u : u = SubSeq(p, 1, n)  OBVIOUS
  <1>3. u \in Seq(Character) /\ Len(u) = n /\ \A k \in 1..n : u[k] = p[k]  BY <1>1, <1>2
  <1>4. ~DotDot(u)
    <2>1. \A k \in 1..(Len(u) - 1) : k \in 1..(Len(p) - 1) /\ u[k] = p[k] /\ u[k + 1] = p[k + 1]
      BY <1>1, <1>3
    <2>. QED  BY <1>1, <2>1 DEF DotDot
  <1>5. IsPath(u)  BY <1>1, <1>3, <1>4 DEF IsPath
  <1>. QED  BY <1>2, <1>3, <1>5

\* The index file of a path is on a path.
LEMMA PathOfIndex ==
    ASSUME NEW p, IsPath(p), p[Len(p)] = "/"
    PROVE  /\ IsPath(p \o IndexName) /\ Len(p \o IndexName) = Len(p) + Len(IndexName)
           /\ Len(IndexName) \in Nat \ {0}
           /\ \A k \in 1..(Len(p) + Len(IndexName)) :
                (p \o IndexName)[k] = IF k <= Len(p) THEN p[k] ELSE IndexName[k - Len(p)]
  <1>1. p \in Seq(Character) /\ Len(p) \in Nat \ {0} /\ p[1] = "/" /\ ~DotDot(p)  BY DEF IsPath
  <1>2. IndexName \in Seq(Character) /\ Len(IndexName) \in Nat \ {0}
    BY IndexAssumption
  <1>3. ~DotDot(IndexName)  BY <1>2, DotDotIsPart, IndexAssumption
  <1>4. PICK u : u = p \o IndexName  OBVIOUS
  <1>5. /\ u \in Seq(Character) /\ Len(u) = Len(p) + Len(IndexName)
        /\ \A k \in 1..(Len(p) + Len(IndexName)) :
              u[k] = IF k <= Len(p) THEN p[k] ELSE IndexName[k - Len(p)]
    BY <1>1, <1>2, <1>4
  <1>6. ~DotDot(u)
    <2>. SUFFICES ASSUME NEW k \in 1..(Len(u) - 1), u[k] = ".", u[k + 1] = "." PROVE FALSE
      BY DEF DotDot
    <2>1. CASE k < Len(p)
      <3>1. k \in 1..(Len(p) - 1) /\ u[k] = p[k] /\ u[k + 1] = p[k + 1]  BY <1>1, <1>2, <1>5, <2>1
      <3>. QED  BY <1>1, <3>1 DEF DotDot
    <2>2. CASE k = Len(p)
      <3>1. u[k] = "/"  BY <1>1, <1>2, <1>5, <2>2
      <3>. QED  BY <3>1
    <2>3. CASE k > Len(p)
      <3>1. PICK j : j = k - Len(p)  OBVIOUS
      <3>2. /\ j \in 1..(Len(IndexName) - 1)
            /\ u[k] = IndexName[j] /\ u[k + 1] = IndexName[j + 1]
        <4>1. j \in 1..(Len(IndexName) - 1) /\ (k + 1) - Len(p) = j + 1
              /\ k \in 1..(Len(p) + Len(IndexName)) /\ k + 1 \in 1..(Len(p) + Len(IndexName))
              /\ ~(k <= Len(p)) /\ ~(k + 1 <= Len(p))
          BY <1>1, <1>2, <1>5, <2>3, <3>1
        <4>2. u[k] = IndexName[k - Len(p)] /\ u[k + 1] = IndexName[(k + 1) - Len(p)]
          BY <1>5, <4>1
        <4>. QED  BY <3>1, <4>1, <4>2
      <3>. QED  BY <1>3, <3>2 DEF DotDot
    <2>. QED  BY <1>1, <1>5, <2>1, <2>2, <2>3
  <1>7. u[1] = "/"  BY <1>1, <1>2, <1>5
  <1>8. IsPath(u)  BY <1>1, <1>2, <1>5, <1>6, <1>7 DEF IsPath
  <1>. QED  BY <1>2, <1>4, <1>5, <1>8

\* A target that is not refused is a path; so is its base, which is a file's.
LEMMA BaseIsPath ==
    ASSUME NEW t \in Seq(Character), ~T!IsBad(t)
    PROVE  /\ IsPath(T!Base(t)) /\ T!Base(t)[Len(T!Base(t))] # "/"
           /\ Contains(T!Base(t), Nul) => Contains(t, Nul)
  <1>1. IsPath(t)
    <2>1. t # <<>> /\ t[1] = "/" /\ ~DotDot(t)  BY DotDotIsPart DEF T!IsBad
    <2>. QED  BY <2>1 DEF IsPath
  <1>2. PICK n \in 0..Len(t) : /\ T!Before(t, "?") = SubSeq(t, 1, n)
                               /\ n < Len(t) => t[n + 1] = "?"
    BY BeforeFacts
  <1>3. n \in 1..Len(t)
    <2>1. t[1] = "/" /\ Len(t) \in Nat \ {0}  BY <1>1 DEF IsPath
    <2>2. n # 0
      <3>1. n = 0 => t[1] = "?"  BY <1>2, <2>1
      <3>. QED  BY <2>1, <3>1
    <2>. QED  BY <2>1, <2>2
  <1>4. PICK b : b = SubSeq(t, 1, n)  OBVIOUS
  <1>5. IsPath(b) /\ Len(b) = n /\ \A k \in 1..n : b[k] = t[k]
    BY <1>1, <1>3, <1>4, PathPrefix
  <1>6. Contains(b, Nul) => Contains(t, Nul)
    <2>1. \A k \in 1..n : k \in 1..Len(t)  BY <1>3
    <2>. QED  BY <1>5, <2>1 DEF Contains
  <1>7. T!Base(t) = IF b[n] = "/" THEN b \o IndexName ELSE b
    BY <1>2, <1>4, <1>5 DEF T!Base, T!Last
  <1>8. CASE b[n] # "/"  BY <1>5, <1>6, <1>7, <1>8
  <1>9. CASE b[n] = "/"
    <2>1. PICK u : u = b \o IndexName  OBVIOUS
    <2>2. /\ IsPath(u) /\ Len(u) = n + Len(IndexName) /\ Len(IndexName) \in Nat \ {0}
          /\ \A k \in 1..(n + Len(IndexName)) :
                u[k] = IF k <= n THEN b[k] ELSE IndexName[k - n]
      BY <1>5, <1>9, <2>1, PathOfIndex
    <2>3. \A k \in 1..Len(u) : IF k <= n THEN k \in 1..n /\ u[k] = b[k]
                                        ELSE k - n \in 1..Len(IndexName) /\ u[k] = IndexName[k - n]
      BY <1>3, <2>2
    <2>4. u[Len(u)] # "/"
      <3>1. Len(u) \in 1..Len(u) /\ ~(Len(u) <= n)  BY <1>3, <2>2
      <3>. QED  BY <2>3, <3>1, IndexAssumption DEF Contains
    <2>5. Contains(u, Nul) => Contains(b, Nul)
      <3>. SUFFICES ASSUME NEW k \in 1..Len(u), u[k] = Nul PROVE Contains(b, Nul)  BY DEF Contains
      <3>1. k <= n  BY <2>3, IndexAssumption DEF Contains
      <3>. QED  BY <1>5, <2>3, <3>1 DEF Contains
    <2>. QED  BY <1>6, <1>7, <1>9, <2>1, <2>2, <2>4, <2>5
  <1>. QED  BY <1>8, <1>9

\* The name that is opened is a path, and the whole one if there is no NUL.
LEMMA OpenedIsPath ==
    ASSUME NEW t \in Seq(Character), ~T!IsBad(t)
    PROVE  /\ IsPath(T!Opened(T!Base(t)))
           /\ ~Contains(t, Nul) => T!Opened(T!Base(t)) = T!Base(t)
  <1>1. PICK b : b = T!Base(t)  OBVIOUS
  <1>2. IsPath(b) /\ (Contains(b, Nul) => Contains(t, Nul))  BY <1>1, BaseIsPath
  <1>3. b \in Seq(Character) /\ Len(b) \in Nat \ {0} /\ b[1] = "/"  BY <1>2 DEF IsPath
  <1>4. PICK n \in 0..Len(b) : /\ T!Before(b, T!Nul) = SubSeq(b, 1, n)
                               /\ n < Len(b) => b[n + 1] = T!Nul
    BY <1>3, BeforeFacts
  <1>5. T!Nul = Nul /\ Nul # "/"  BY DEF T!Nul, Nul
  <1>6. n \in 1..Len(b)
    <2>1. n = 0 => b[1] = Nul  BY <1>3, <1>4, <1>5
    <2>. QED  BY <1>3, <1>5, <2>1
  <1>7. ~Contains(t, Nul) => n = Len(b)
    <2>1. n < Len(b) => n + 1 \in 1..Len(b)  BY <1>3, <1>6
    <2>2. n < Len(b) => Contains(b, Nul)  BY <1>4, <1>5, <2>1 DEF Contains
    <2>. QED  BY <1>2, <1>3, <1>6, <2>2
  <1>8. n = Len(b) => SubSeq(b, 1, n) = b  BY <1>3
  <1>. QED  BY <1>1, <1>2, <1>4, <1>6, <1>7, <1>8, PathPrefix DEF T!Opened

-----------------------------------------------------------------------------
(* Below the document root.                                                *)

\* No segment of a path is "..".
LEMMA NoSegmentUp ==
    ASSUME NEW p, IsPath(p), NEW k \in DOMAIN T!Segments(p)
    PROVE  T!Segments(p)[k] # <<".", ".">>
  <1>1. p \in Seq(Character) /\ Len(p) \in Nat \ {0} /\ ~DotDot(p)  BY DEF IsPath
  <1>2. k \in 1..Len(p) /\ T!Segments(p)[k] = T!Before(T!From(p, k + 1), "/")
    BY DEF T!Segments
  <1>3. PICK u : u = T!From(p, k + 1)  OBVIOUS
  <1>4. u \in Seq(Character) /\ Len(u) = Len(p) - k /\ \A j \in 1..Len(u) : u[j] = p[k + j]
    BY <1>1, <1>2, <1>3 DEF T!From
  <1>5. PICK n \in 0..Len(u) : T!Before(u, "/") = SubSeq(u, 1, n)  BY <1>4, BeforeFacts
  <1>6. PICK v : v = SubSeq(u, 1, n)  OBVIOUS
  <1>7. Len(v) = n /\ \A j \in 1..n : v[j] = u[j]  BY <1>4, <1>5, <1>6
  <1>8. ASSUME v = <<".", ".">> PROVE FALSE
    <2>1. n = 2 /\ v[1] = "." /\ v[2] = "."  BY <1>7, <1>8
    <2>2. k + 1 \in 1..(Len(p) - 1) /\ (k + 1) + 1 = k + 2 /\ 1 \in 1..Len(u) /\ 2 \in 1..Len(u)
      BY <1>1, <1>2, <1>4, <1>5, <2>1
    <2>3. p[k + 1] = "." /\ p[(k + 1) + 1] = "."  BY <1>4, <1>7, <2>1, <2>2
    <2>. QED  BY <1>1, <2>2, <2>3 DEF DotDot
  <1>. QED  BY <1>2, <1>3, <1>5, <1>6, <1>8

\* The walk along a path never goes up.
LEMMA NeverUp ==
    ASSUME NEW p, IsPath(p)
    PROVE  \A k \in 0..Len(p) : T!Depth(p)[k] \in Nat
  <1>. DEFINE Moved(k, m) ==
                CASE T!Segments(p)[k] \in {<<>>, <<".">>} -> m
                  [] T!Segments(p)[k] = <<".", ".">> -> m - 1
                  [] OTHER -> m + 1
              Step(t) == [k \in 0..Len(p) |->
                            IF k = 0 THEN 0
                            ELSE IF k \notin DOMAIN T!Segments(p) THEN t[k - 1]
                            ELSE Moved(k, t[k - 1])]
              depth == CHOOSE t : t = Step(t)
  <1>1. PICK n \in Nat : n = Len(p)  BY DEF IsPath
  <1>2. T!Depth(p) = depth  BY DEF T!Depth
  <1>3. ASSUME NEW k \in DOMAIN T!Segments(p), NEW m
        PROVE  Moved(k, m) = IF T!Segments(p)[k] \in {<<>>, <<".">>} THEN m ELSE m + 1
    <2>1. T!Segments(p)[k] # <<".", ".">>  BY NoSegmentUp
    <2>. QED  BY <2>1
  <1>. HIDE DEF Moved
  <1>4. PICK G : G = [k \in 1..n |-> [m \in Nat |->
                        IF k \notin DOMAIN T!Segments(p) THEN m ELSE Moved(k, m)]]
    OBVIOUS
  <1>5. ASSUME NEW k \in 1..n
        PROVE  /\ G[k] \in [Nat -> Nat]
               /\ \A m \in Nat : G[k][m] = IF k \notin DOMAIN T!Segments(p) THEN m ELSE Moved(k, m)
    <2>1. G[k] = [m \in Nat |-> IF k \notin DOMAIN T!Segments(p) THEN m ELSE Moved(k, m)]
      BY <1>4
    <2>2. ASSUME NEW m \in Nat, k \in DOMAIN T!Segments(p) PROVE Moved(k, m) \in Nat
      <3>1. Moved(k, m) = m \/ Moved(k, m) = m + 1  BY <1>3, <2>2
      <3>. QED  BY <3>1
    <2>. QED  BY <2>1, <2>2
  <1>6. G \in [1..n -> [Nat -> Nat]]
    <2>1. DOMAIN G = 1..n /\ G = [k \in 1..n |-> G[k]]  BY <1>4
    <2>. QED  BY <1>5, <2>1
  <1>7. PICK f : Recurses(f, Nat, n, 0, G)  BY <1>6, Recursion
  <1>8. f \in [0..n -> Nat] /\ f[0] = 0 /\ \A k \in 1..n : f[k] = G[k][f[k - 1]]
    BY <1>7 DEF Recurses
  <1>9. f = Step(f)
    <2>1. ASSUME NEW k \in 0..n
          PROVE  f[k] = IF k = 0 THEN 0
                        ELSE IF k \notin DOMAIN T!Segments(p) THEN f[k - 1]
                        ELSE Moved(k, f[k - 1])
      <3>1. CASE k = 0  BY <1>8, <3>1
      <3>2. CASE k # 0
        <4>1. k \in 1..n /\ k - 1 \in 0..n  BY <3>2
        <4>2. f[k - 1] \in Nat  BY <1>8, <4>1
        <4>. QED  BY <1>5, <1>8, <3>2, <4>1, <4>2
      <3>. QED  BY <3>1, <3>2
    <2>. QED  BY <1>1, <1>8, <2>1
  <1>10. depth = Step(depth)
    <2>. DEFINE P(t) == t = Step(t)
    <2>1. P(f)  BY <1>9
    <2>2. P(CHOOSE t : P(t))
      <3>. HIDE DEF P
      <3>. QED  BY <2>1
    <2>. QED  BY <2>2
  <1>. HIDE DEF depth
  <1>11. /\ depth[0] = 0
         /\ \A k \in 1..n : depth[k] = IF k \notin DOMAIN T!Segments(p) THEN depth[k - 1]
                                       ELSE Moved(k, depth[k - 1])
    <2>1. \A k \in 0..n : depth[k] = IF k = 0 THEN 0
                                     ELSE IF k \notin DOMAIN T!Segments(p) THEN depth[k - 1]
                                     ELSE Moved(k, depth[k - 1])
      BY <1>1, <1>10
    <2>2. 0 \in 0..n /\ \A k \in 1..n : k \in 0..n /\ k # 0  BY <1>1
    <2>. QED  BY <2>1, <2>2
  <1>12. PICK M : M = {k \in 0..n : depth[k] \in Nat}  OBVIOUS
  <1>13. 0 \in M  BY <1>1, <1>11, <1>12
  <1>14. ASSUME NEW k \in 0 .. n - 1, k \in M PROVE k + 1 \in M
    <2>1. k + 1 \in 1..n /\ k + 1 \in 0..n /\ (k + 1) - 1 = k /\ depth[k] \in Nat
      BY <1>1, <1>12, <1>14
    <2>2. depth[k + 1] = IF k + 1 \notin DOMAIN T!Segments(p) THEN depth[k]
                         ELSE Moved(k + 1, depth[k])
      BY <1>11, <2>1
    <2>3. CASE k + 1 \in DOMAIN T!Segments(p)
      <3>1. Moved(k + 1, depth[k]) = depth[k] \/ Moved(k + 1, depth[k]) = depth[k] + 1
        BY <1>3, <2>3
      <3>. QED  BY <1>12, <2>1, <2>2, <2>3, <3>1
    <2>. QED  BY <1>12, <2>1, <2>2, <2>3
  <1>15. \A k \in 0..n : k \in M  BY <1>13, <1>14, IntervalInduction
  <1>. QED  BY <1>1, <1>2, <1>12, <1>15

\* The last segment is what follows the last slash, all that is left.
LEMMA LastSegment ==
    ASSUME NEW p, IsPath(p)
    PROVE  \E k \in 1..Len(p) : /\ p[k] = "/" /\ \A j \in 1..Len(p) : j > k => p[j] # "/"
                                /\ T!FileName(p) = SubSeq(p, k + 1, Len(p))
  <1>1. p \in Seq(Character) /\ Len(p) \in Nat \ {0} /\ p[1] = "/"  BY DEF IsPath
  <1>2. PICK M : M = {k \in 1..Len(p) : p[k] = "/"}  OBVIOUS
  <1>3. M # {} /\ M \subseteq 1..Len(p)  BY <1>1, <1>2
  <1>4. PICK k : k = CHOOSE j \in M : \A l \in M : l <= j  OBVIOUS
  <1>5. \E j \in M : \A l \in M : l <= j  BY <1>1, <1>3, Greatest
  <1>6. k \in M /\ \A l \in M : l <= k  BY <1>4, <1>5
  <1>7. DOMAIN T!Segments(p) = M /\ \A j \in M : T!Segments(p)[j] = T!Before(T!From(p, j + 1), "/")
    BY <1>2 DEF T!Segments
  <1>8. T!FileName(p) = T!Before(T!From(p, k + 1), "/")  BY <1>4, <1>6, <1>7 DEF T!FileName
  <1>9. PICK u : u = SubSeq(p, k + 1, Len(p))  OBVIOUS
  <1>10. \A j \in 1..Len(p) : j > k => p[j] # "/"
    <2>. SUFFICES ASSUME NEW j \in 1..Len(p), j > k, p[j] = "/" PROVE FALSE  OBVIOUS
    <2>1. j \in M  BY <1>2
    <2>. QED  BY <1>2, <1>6, <2>1
  <1>11. u \in Seq(Character) /\ Len(u) = Len(p) - k /\ \A j \in 1..Len(u) : u[j] = p[k + j]
    BY <1>1, <1>2, <1>6, <1>9
  <1>12. \A j \in 1..Len(u) : u[j] # "/"
    <2>1. \A j \in 1..Len(u) : k + j \in 1..Len(p) /\ k + j > k  BY <1>1, <1>2, <1>6, <1>11
    <2>. QED  BY <1>10, <1>11, <2>1
  <1>13. T!Before(u, "/") = u
    <2>1. PICK n \in 0..Len(u) : /\ T!Before(u, "/") = SubSeq(u, 1, n)
                                 /\ n < Len(u) => u[n + 1] = "/"
      BY <1>11, BeforeFacts
    <2>2. Len(u) \in Nat  BY <1>11
    <2>3. n < Len(u) => n + 1 \in 1..Len(u)  BY <2>2
    <2>4. n = Len(u)  BY <1>12, <2>1, <2>2, <2>3
    <2>5. SubSeq(u, 1, Len(u)) = u  BY <1>11
    <2>. QED  BY <2>1, <2>4, <2>5
  <1>. QED  BY <1>2, <1>6, <1>8, <1>9, <1>10, <1>13 DEF T!From

\* What is served lies below the root.
LEMMA ServedBelow ==
    ASSUME NEW t \in Seq(Character), ~T!IsBad(t), NEW p, p = T!Opened(T!Base(t))
    PROVE  /\ IsPath(p)
           /\ \A k \in 1..Len(p) : T!Depth(p)[k] >= 0
           /\ Contains(t, Nul) \/ T!FileName(p) # <<>>
  <1>1. IsPath(p) /\ (~Contains(t, Nul) => p = T!Base(t))  BY OpenedIsPath
  <1>2. Len(p) \in Nat \ {0} /\ p \in Seq(Character)  BY <1>1 DEF IsPath
  <1>3. ASSUME NEW k \in 1..Len(p) PROVE T!Depth(p)[k] >= 0
    <2>1. k \in 0..Len(p)  BY <1>2
    <2>2. T!Depth(p)[k] \in Nat  BY <1>1, <2>1, NeverUp
    <2>. QED  BY <2>2
  <1>4. ASSUME ~Contains(t, Nul) PROVE T!FileName(p) # <<>>
    <2>1. p[Len(p)] # "/"  BY <1>1, <1>4, BaseIsPath
    <2>2. PICK k \in 1..Len(p) : p[k] = "/" /\ T!FileName(p) = SubSeq(p, k + 1, Len(p))
      BY <1>1, LastSegment
    <2>3. k < Len(p)  BY <1>2, <2>1, <2>2
    <2>4. PICK u : u = SubSeq(p, k + 1, Len(p))  OBVIOUS
    <2>5. Len(u) = Len(p) - k  BY <1>2, <2>3, <2>4
    <2>6. u # <<>>  BY <1>2, <2>3, <2>5
    <2>. QED  BY <2>2, <2>4, <2>6
  <1>. QED  BY <1>1, <1>3, <1>4

\* A file that is sent lies below the document root, whatever its target was
\* and whatever was stripped from it (Http.cpp:121-143).
THEOREM NothingAboveTheRoot == PathSpec => []StaysBelowRoot
  <1>1. PInv => StaysBelowRoot
    <2>. SUFFICES ASSUME PInv, status = "ok" PROVE T!IsBelowRoot  BY DEF StaysBelowRoot
    <2>1. target \in Seq(Character) /\ ~T!IsBad(target) /\ path = T!Opened(T!Base(target))
      BY DEF PInv, Types, ServesTarget
    <2>2. /\ IsPath(path) /\ \A k \in 1..Len(path) : T!Depth(path)[k] >= 0
          /\ Contains(target, Nul) \/ T!FileName(path) # <<>>
      BY <2>1, ServedBelow
    <2>3. path[1] = "/"  BY <2>2 DEF IsPath
    <2>4. T!Nul = Nul  BY DEF T!Nul, Nul
    <2>. QED  BY <2>2, <2>3, <2>4 DEF T!IsBelowRoot, T!Contains, Contains
  <1>. QED  BY <1>1, PathInvariant, PTL

-----------------------------------------------------------------------------
(* The type.                                                               *)

LowerOf(c) == IF c \in DOMAIN Lower THEN Lower[c] ELSE c

Lowered(S) == {LowerOf(c) : c \in S}

\* Lower case keeps dots and slashes and makes none.
LEMMA LowerFacts ==
    ASSUME NEW S, NEW s \in Seq(S)
    PROVE  /\ Len(T!LowerCase(s)) = Len(s) /\ Len(s) \in Nat
           /\ T!LowerCase(s) \in Seq(Lowered(S))
           /\ \A k \in 1..Len(s) :
                /\ T!LowerCase(s)[k] = LowerOf(s[k])
                /\ T!LowerCase(s)[k] = "." <=> s[k] = "."
                /\ T!LowerCase(s)[k] = "/" <=> s[k] = "/"
  <1>1. Len(s) \in Nat  OBVIOUS
  <1>2. PICK u : u = T!LowerCase(s)  OBVIOUS
  <1>3. u = [k \in 1..Len(s) |-> LowerOf(s[k])]  BY <1>2 DEF T!LowerCase, LowerOf
  <1>4. /\ Len(u) = Len(s) /\ u \in Seq(Lowered(S))
        /\ \A k \in 1..Len(s) : u[k] = LowerOf(s[k])
    BY <1>1, <1>3 DEF Lowered
  <1>5. \A c \in DOMAIN Lower : c # "." /\ c # "/" /\ Lower[c] # "." /\ Lower[c] # "/"
    BY LowerAssumption
  <1>6. ASSUME NEW k \in 1..Len(s)
        PROVE  (u[k] = "." <=> s[k] = ".") /\ (u[k] = "/" <=> s[k] = "/")
    BY <1>4, <1>5 DEF LowerOf
  <1>. QED  BY <1>1, <1>2, <1>4, <1>6

\* What follows place k of s, in lower case.
Rest(s, k) == T!LowerCase(T!From(s, k + 1))

LEMMA RestFacts ==
    ASSUME NEW S, NEW s \in Seq(S), NEW k \in 1..Len(s)
    PROVE  /\ Len(Rest(s, k)) = Len(s) - k /\ Rest(s, k) \in Seq(Lowered(S))
           /\ \A j \in 1..(Len(s) - k) :
                /\ Rest(s, k)[j] = LowerOf(s[k + j])
                /\ Rest(s, k)[j] = "." <=> s[k + j] = "."
                /\ Rest(s, k)[j] = "/" <=> s[k + j] = "/"
  <1>1. PICK u : u = T!From(s, k + 1)  OBVIOUS
  <1>2. Len(s) \in Nat  OBVIOUS
  <1>3. u \in Seq(S) /\ Len(u) = Len(s) - k /\ \A j \in 1..Len(u) : u[j] = s[k + j]
    BY <1>1, <1>2 DEF T!From
  <1>4. Rest(s, k) = T!LowerCase(u)  BY <1>1 DEF Rest
  <1>5. PICK v : v = T!LowerCase(u)  OBVIOUS
  <1>6. /\ Len(v) = Len(u) /\ v \in Seq(Lowered(S))
        /\ \A j \in 1..Len(u) : /\ v[j] = LowerOf(u[j])
                                /\ v[j] = "." <=> u[j] = "."
                                /\ v[j] = "/" <=> u[j] = "/"
    <2>1. u \in Seq(S)  BY <1>3
    <2>. QED  BY <1>5, <2>1, LowerFacts
  <1>7. 1..Len(u) = 1..(Len(s) - k)  BY <1>3
  <1>. QED  BY <1>3, <1>4, <1>5, <1>6, <1>7

\* What follows the last dot, if there is one.
LEMMA ExtensionFacts ==
    ASSUME NEW S, NEW s \in Seq(S)
    PROVE  \/ T!ExtensionOf(s) = <<>> /\ \A k \in 1..Len(s) : s[k] # "."
           \/ \E k \in 1..Len(s) : /\ s[k] = "." /\ \A j \in 1..Len(s) : j > k => s[j] # "."
                                   /\ T!ExtensionOf(s) = Rest(s, k)
  <1>1. Len(s) \in Nat  OBVIOUS
  <1>2. PICK M : M = {k \in 1..Len(s) : s[k] = "."}  OBVIOUS
  <1>3. CASE M = {}  BY <1>2, <1>3 DEF T!ExtensionOf
  <1>4. CASE M # {}
    <2>1. PICK k : k = CHOOSE j \in M : \A l \in M : l <= j  OBVIOUS
    <2>2. \E j \in M : \A l \in M : l <= j
      <3>1. M \subseteq 1..Len(s)  BY <1>2
      <3>. QED  BY <1>1, <1>4, <3>1, Greatest
    <2>3. k \in M /\ \A l \in M : l <= k  BY <2>1, <2>2
    <2>4. T!ExtensionOf(s) = Rest(s, k)  BY <1>2, <1>4, <2>1 DEF T!ExtensionOf, Rest
    <2>5. ASSUME NEW j \in 1..Len(s), j > k, s[j] = "." PROVE FALSE
      <3>1. j \in M  BY <1>2, <2>5
      <3>. QED  BY <1>2, <2>3, <2>5, <3>1
    <2>. QED  BY <1>2, <2>3, <2>4, <2>5
  <1>. QED  BY <1>3, <1>4

LEMMA SuffixByElement ==
    ASSUME NEW S, NEW s \in Seq(S), NEW u \in Seq(S)
    PROVE  IsSuffix(s, u) <=> /\ Len(s) <= Len(u)
                              /\ \A j \in 1..Len(s) : s[j] = u[Len(u) - Len(s) + j]
  <1>1. PICK n \in Nat, m \in Nat : n = Len(s) /\ m = Len(u)  OBVIOUS
  <1>2. PICK r, v : r = Reverse(s) /\ v = Reverse(u)  OBVIOUS
  <1>3. r \in Seq(S) /\ Len(r) = n /\ \A j \in 1..n : r[j] = s[n - j + 1]
    BY <1>1, <1>2 DEF Reverse
  <1>4. v \in Seq(S) /\ Len(v) = m /\ \A j \in 1..m : v[j] = u[m - j + 1]
    BY <1>1, <1>2 DEF Reverse
  <1>5. IsSuffix(s, u) <=> n <= m /\ \A j \in 1..n : r[j] = v[j]
    <2>0. r \in Seq(S) /\ v \in Seq(S)  BY <1>3, <1>4
    <2>1. IsPrefix(r, v) <=> Len(r) <= Len(v) /\ \A j \in 1..Len(r) : r[j] = v[j]
      BY <2>0, PrefixByElement
    <2>. QED  BY <1>2, <1>3, <1>4, <2>1 DEF IsSuffix
  <1>6. ASSUME n <= m
        PROVE  (\A j \in 1..n : r[j] = v[j]) <=> \A j \in 1..n : s[j] = u[m - n + j]
    <2>1. \A j \in 1..n : n - j + 1 \in 1..n /\ j \in 1..m /\ n - (n - j + 1) + 1 = j
      BY <1>6
    <2>2. ASSUME NEW j \in 1..n PROVE r[n - j + 1] = s[j] /\ v[n - j + 1] = u[m - n + j]
      <3>1. n - j + 1 \in 1..n /\ n - j + 1 \in 1..m  BY <1>6
      <3>2. n - (n - j + 1) + 1 = j /\ m - (n - j + 1) + 1 = m - n + j  OBVIOUS
      <3>. QED  BY <1>3, <1>4, <3>1, <3>2
    <2>3. ASSUME \A j \in 1..n : r[j] = v[j], NEW j \in 1..n PROVE s[j] = u[m - n + j]
      <3>1. n - j + 1 \in 1..n  BY <2>1
      <3>2. r[n - j + 1] = v[n - j + 1]  BY <2>3, <3>1
      <3>. QED  BY <2>2, <3>2
    <2>4. ASSUME \A j \in 1..n : s[j] = u[m - n + j], NEW j \in 1..n PROVE r[j] = v[j]
      <3>1. PICK l \in 1..n : l = n - j + 1 /\ n - l + 1 = j  OBVIOUS
      <3>2. s[l] = u[m - n + l] /\ r[n - l + 1] = s[l] /\ v[n - l + 1] = u[m - n + l]
        BY <2>2, <2>4, <3>1
      <3>. QED  BY <3>1, <3>2
    <2>. QED  BY <2>3, <2>4
  <1>. QED  BY <1>1, <1>5, <1>6

\* What the table has and the file's name ends in, behind a dot, is the extension.
LEMMA KnownSuffix ==
    ASSUME NEW p, IsPath(p), NEW e \in T!Extensions
    PROVE  IsSuffix(<<".">> \o e, T!LowerCase(T!FileName(p))) <=> e = T!ExtensionOf(p)
  <1>1. PICK n \in Nat \ {0} : n = Len(p) /\ p \in Seq(Character)  BY DEF IsPath
  <1>2. PICK W : W = Lowered(Character) \cup Character \cup {"."}  OBVIOUS
  <1>3. PICK k \in 1..n : /\ p[k] = "/" /\ \A j \in 1..n : j > k => p[j] # "/"
                          /\ T!FileName(p) = T!From(p, k + 1)
    BY <1>1, LastSegment DEF T!From
  <1>4. PICK u : u = Rest(p, k)  OBVIOUS
  <1>5. T!LowerCase(T!FileName(p)) = u  BY <1>3, <1>4 DEF Rest
  <1>6. /\ Len(u) = n - k /\ u \in Seq(W)
        /\ \A j \in 1..(n - k) : u[j] = LowerOf(p[k + j]) /\ (u[j] = "." <=> p[k + j] = ".")
    <2>1. /\ Len(u) = n - k /\ u \in Seq(Lowered(Character))
          /\ \A j \in 1..(n - k) : u[j] = LowerOf(p[k + j]) /\ (u[j] = "." <=> p[k + j] = ".")
      <3>1. /\ Len(Rest(p, k)) = Len(p) - k /\ Rest(p, k) \in Seq(Lowered(Character))
            /\ \A j \in 1..(Len(p) - k) :
                 Rest(p, k)[j] = LowerOf(p[k + j]) /\ (Rest(p, k)[j] = "." <=> p[k + j] = ".")
        <4>1. p \in Seq(Character) /\ k \in 1..Len(p)  BY <1>1
        <4>. QED  BY <4>1, RestFacts
      <3>. QED  BY <1>1, <1>4, <3>1
    <2>2. Lowered(Character) \subseteq W  BY <1>2
    <2>. QED  BY <2>1, <2>2, SeqMonotonic
  <1>7. PICK m \in Nat \ {0} : m = Len(e) /\ e \in Seq(Character) /\ e \in Seq(W)
    <2>1. e \in Seq(Character) /\ e # <<>>  BY TableAssumption
    <2>2. e \in Seq(W)  BY <1>2, <2>1, SeqMonotonic
    <2>. QED  BY <2>1, <2>2
  <1>8. \A j \in 1..m : e[j] # "." /\ e[j] # "/"  BY <1>7, TableAssumption DEF Contains
  <1>9. PICK a : a = <<".">> \o e  OBVIOUS
  <1>10. a \in Seq(W) /\ Len(a) = m + 1 /\ a[1] = "." /\ \A j \in 1..m : a[j + 1] = e[j]
    <2>1. <<".">> \in Seq(W)  BY <1>2
    <2>. QED  BY <1>7, <1>9, <2>1
  <1>11. IsSuffix(a, u) <=> /\ m + 1 <= n - k
                            /\ \A j \in 1..(m + 1) : a[j] = u[(n - k) - (m + 1) + j]
    <2>1. IsSuffix(a, u) <=> /\ Len(a) <= Len(u)
                             /\ \A j \in 1..Len(a) : a[j] = u[Len(u) - Len(a) + j]
      <3>1. a \in Seq(W) /\ u \in Seq(W)  BY <1>6, <1>10
      <3>. QED  BY <3>1, SuffixByElement
    <2>. QED  BY <1>6, <1>10, <2>1
  <1>12. ASSUME m + 1 <= n - k
         PROVE  (\A j \in 1..(m + 1) : a[j] = u[(n - k) - (m + 1) + j])
                   <=> p[n - m] = "." /\ \A j \in 1..m : e[j] = LowerOf(p[(n - m) + j])
    <2>1. u[(n - k) - (m + 1) + 1] = "." <=> p[n - m] = "."
      <3>1. (n - k) - (m + 1) + 1 \in 1..(n - k) /\ k + ((n - k) - (m + 1) + 1) = n - m
        BY <1>12
      <3>. QED  BY <1>6, <3>1
    <2>2. ASSUME NEW j \in 1..m
          PROVE  u[(n - k) - (m + 1) + (j + 1)] = LowerOf(p[(n - m) + j])
      <3>1. /\ (n - k) - (m + 1) + (j + 1) \in 1..(n - k)
            /\ k + ((n - k) - (m + 1) + (j + 1)) = (n - m) + j
        BY <1>12
      <3>. QED  BY <1>6, <3>1
    <2>3. 1 \in 1..(m + 1) /\ \A j \in 1..m : j + 1 \in 1..(m + 1)  OBVIOUS
    <2>4. \A j \in 1..(m + 1) : j = 1 \/ (j - 1 \in 1..m /\ (j - 1) + 1 = j)  OBVIOUS
    <2>5. ASSUME \A j \in 1..(m + 1) : a[j] = u[(n - k) - (m + 1) + j]
          PROVE  p[n - m] = "." /\ \A j \in 1..m : e[j] = LowerOf(p[(n - m) + j])
      BY <1>10, <2>1, <2>2, <2>3, <2>5
    <2>6. ASSUME p[n - m] = ".", \A j \in 1..m : e[j] = LowerOf(p[(n - m) + j]),
                 NEW j \in 1..(m + 1)
          PROVE  a[j] = u[(n - k) - (m + 1) + j]
      <3>1. CASE j = 1  BY <1>10, <2>1, <2>6, <3>1
      <3>2. CASE j # 1
        <4>1. PICK l \in 1..m : l = j - 1 /\ j = l + 1  BY <2>4, <3>2
        <4>2. a[l + 1] = e[l] /\ u[(n - k) - (m + 1) + (l + 1)] = LowerOf(p[(n - m) + l])
          BY <1>10, <2>2, <4>1
        <4>. QED  BY <2>6, <4>1, <4>2
      <3>. QED  BY <3>1, <3>2
    <2>. QED  BY <2>5, <2>6
  <1>13. ASSUME m + 1 <= n - k, p[n - m] = ".", \A j \in 1..m : e[j] = LowerOf(p[(n - m) + j])
         PROVE  e = T!ExtensionOf(p)
    <2>1. PICK d \in 1..n : d = n - m /\ n - d = m  BY <1>13
    <2>2. \A j \in 1..m : p[d + j] # "."
      BY <1>8, <1>13, <2>1, LowerAssumption DEF LowerOf
    <2>3. \A j \in 1..n : j > d => j - d \in 1..m /\ d + (j - d) = j  BY <2>1
    <2>4. \A j \in 1..n : j > d => p[j] # "."  BY <2>2, <2>3
    <2>5. T!ExtensionOf(p) = Rest(p, d)
      <3>1. ~(\A j \in 1..n : p[j] # ".")  BY <1>13, <2>1
      <3>2. PICK j \in 1..n : /\ p[j] = "." /\ \A l \in 1..n : l > j => p[l] # "."
                              /\ T!ExtensionOf(p) = Rest(p, j)
        BY <1>1, <3>1, ExtensionFacts
      <3>3. ~(j > d) /\ ~(d > j)  BY <1>13, <2>1, <2>4, <3>2
      <3>4. j = d  BY <3>3
      <3>. QED  BY <3>2, <3>4
    <2>6. PICK r : r = Rest(p, d)  OBVIOUS
    <2>7. /\ Len(r) = m /\ r \in Seq(Lowered(Character))
          /\ \A j \in 1..m : r[j] = LowerOf(p[d + j])
      <3>1. /\ Len(Rest(p, d)) = Len(p) - d /\ Rest(p, d) \in Seq(Lowered(Character))
            /\ \A j \in 1..(Len(p) - d) : Rest(p, d)[j] = LowerOf(p[d + j])
        BY <1>1, RestFacts
      <3>. QED  BY <1>1, <2>1, <2>6, <3>1
    <2>8. r \in Seq(W)
      <3>1. Lowered(Character) \subseteq W  BY <1>2
      <3>. QED  BY <2>7, <3>1, SeqMonotonic
    <2>9. \A j \in 1..m : e[j] = r[j]  BY <1>13, <2>1, <2>7
    <2>10. e = r  BY <1>7, <2>7, <2>8, <2>9, SeqEqual
    <2>. QED  BY <2>5, <2>6, <2>10
  <1>14. ASSUME e = T!ExtensionOf(p)
         PROVE  /\ m + 1 <= n - k /\ p[n - m] = "."
                /\ \A j \in 1..m : e[j] = LowerOf(p[(n - m) + j])
    <2>1. e # <<>>  BY TableAssumption
    <2>2. PICK d \in 1..n : p[d] = "." /\ T!ExtensionOf(p) = Rest(p, d)
      BY <1>1, <1>14, <2>1, ExtensionFacts
    <2>3. /\ Len(e) = n - d
          /\ \A j \in 1..(n - d) : e[j] = LowerOf(p[d + j]) /\ (e[j] = "/" <=> p[d + j] = "/")
      <3>1. /\ Len(Rest(p, d)) = Len(p) - d
            /\ \A j \in 1..(Len(p) - d) :
                 Rest(p, d)[j] = LowerOf(p[d + j]) /\ (Rest(p, d)[j] = "/" <=> p[d + j] = "/")
        BY <1>1, RestFacts
      <3>. QED  BY <1>1, <1>14, <2>2, <3>1
    <2>4. m = n - d /\ n - m = d  BY <1>7, <2>3
    <2>5. \A j \in 1..m : p[d + j] # "/"  BY <1>8, <2>3, <2>4
    <2>6. ~(k > d)
      <3>1. k > d => k - d \in 1..m /\ d + (k - d) = k  BY <2>4
      <3>. QED  BY <1>3, <2>5, <3>1
    <2>7. k # d  BY <1>3, <2>2
    <2>8. m + 1 <= n - k  BY <2>4, <2>6, <2>7
    <2>. QED  BY <2>2, <2>3, <2>4, <2>8
  <1>. QED  BY <1>5, <1>9, <1>11, <1>12, <1>13, <1>14

\* The type of a file is that of its own extension (Util.cpp:10-61,
\* Http.cpp:129-138).
THEOREM TypesByExtension == PathSpec => []TypeIsTheFiles
  <1>1. PInv => TypeIsTheFiles
    <2>. SUFFICES ASSUME PInv, status = "ok", ~Contains(target, Nul) PROVE T!IsTypeOfFile
      BY DEF TypeIsTheFiles, T!IsTypeOfFile, T!Nul, Nul, T!Contains, Contains
    <2>1. /\ target \in Seq(Character) /\ ~T!IsBad(target) /\ path = T!Opened(T!Base(target))
          /\ type = T!MimeType(T!Base(target))
      BY DEF PInv, Types, ServesTarget
    <2>2. IsPath(path) /\ type = T!MimeType(path)  BY <2>1, OpenedIsPath
    <2>3. PICK known :
            known = {e \in T!Extensions : IsSuffix(<<".">> \o e, T!LowerCase(T!FileName(path)))}
      OBVIOUS
    <2>4. \A e : e \in known <=> e \in T!Extensions /\ e = T!ExtensionOf(path)
      BY <2>2, <2>3, KnownSuffix
    <2>5. type \in (IF known = {} THEN {T!Default} ELSE {TypeOf[e] : e \in known})
      <3>1. CASE T!ExtensionOf(path) \in T!Extensions
        <4>1. known = {T!ExtensionOf(path)}  BY <2>4, <3>1
        <4>. QED  BY <2>2, <3>1, <4>1 DEF T!MimeType
      <3>2. CASE T!ExtensionOf(path) \notin T!Extensions
        <4>1. known = {}  BY <2>4, <3>2
        <4>. QED  BY <2>2, <3>2, <4>1 DEF T!MimeType
      <3>. QED  BY <3>1, <3>2
    <2>. QED  BY <2>3, <2>5 
           DEF T!IsTypeOfFile, T!IsSuffix, IsSuffix, T!IsPrefix, IsPrefix, T!Reverse, Reverse
  <1>. QED  BY <1>1, PathInvariant, PTL

\* Types; a file is sent exactly when it has been found.
THEOREM PathTypeCorrect == PathSpec => []PathTypeOK
  <1>1. PInv => PathTypeOK
    <2>. SUFFICES ASSUME PInv PROVE PathTypeOK  OBVIOUS
    <2>1. T!TypeOK
      <3>1. T!MimeType(T!Base(target)) \in {TypeOf[e] : e \in T!Extensions} \cup {T!Default}
        BY DEF T!MimeType
      <3>2. type \in {TypeOf[e] : e \in T!Extensions} \cup {T!Default}
        BY <3>1 DEF PInv, ServesTarget
      <3>3. status = "ok" => path # <<>>
        <4>1. status = "ok" => IsPath(path)  BY OpenedIsPath DEF PInv, Types, ServesTarget
        <4>. QED  BY <4>1 DEF IsPath
      <3>. QED  BY <3>2, <3>3 DEF PInv, Types, ServesTarget, T!TypeOK
    <2>. QED  BY <2>1 DEF PInv, IInv, Types, PathTypeOK
  <1>. QED  BY <1>1, PathInvariant, PTL
================================================================================
