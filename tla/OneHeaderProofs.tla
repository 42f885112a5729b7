---------------------------- MODULE OneHeaderProofs ----------------------------
(***************************************************************************)
(* Proofs about OneHeader, for texts of any length, any number of files,   *)
(* and chunks of any size: what the scans of the buffer find is what a     *)
(* scan of the whole text finds.                                           *)
(***************************************************************************)
EXTENDS OneHeader, Induction, SequenceTheorems

Text == Seq(Characters)

-----------------------------------------------------------------------------
(* Pieces of texts.                                                        *)

LEMMA TokenFacts ==
    /\ Len(Token) \in Nat \ {0} /\ Token[Len(Token)] = Quote
    /\ \A j \in 1..Len(Token) : Token[j] \in Characters
    /\ Quote \in Characters
    /\ Keep \in Nat /\ Keep >= Len(Token) - 1
  BY TokenAssumption, KeepAssumption

LEMMA PieceFacts ==
    ASSUME NEW S, NEW s \in Seq(S), NEW i \in 1..(Len(s) + 1), NEW j \in (i - 1)..Len(s)
    PROVE  /\ SubSeq(s, i, j) \in Seq(S) /\ Len(SubSeq(s, i, j)) = (j + 1) - i
           /\ \A k \in 1..((j + 1) - i) : SubSeq(s, i, j)[k] = s[i + k - 1]
  <1>1. Len(s) \in Nat /\ \A k \in i..j : s[k] \in S  OBVIOUS
  <1>2. i \in Int /\ j \in Int  BY <1>1
  <1>3. /\ SubSeq(s, i, j) \in Seq(S)
        /\ Len(SubSeq(s, i, j)) = (IF i <= j THEN j - i + 1 ELSE 0)
        /\ \A k \in 1 .. j - i + 1 : SubSeq(s, i, j)[k] = s[i + k - 1]
    BY <1>1, <1>2, SubSeqProperties
  <1>4. j - i + 1 = (j + 1) - i /\ (~(i <= j) => (j + 1) - i = 0)  BY <1>1, <1>2
  <1>. QED  BY <1>3, <1>4

LEMMA FromFacts ==
    ASSUME NEW s \in Text, NEW i \in 1..(Len(s) + 1)
    PROVE  /\ From(s, i) \in Text /\ Len(From(s, i)) = (Len(s) + 1) - i
           /\ \A k \in 1..((Len(s) + 1) - i) : From(s, i)[k] = s[i + k - 1]
  <1>1. Len(s) \in Nat /\ Len(s) \in (i - 1)..Len(s)  BY DEF Text
  <1>. QED  BY <1>1, PieceFacts DEF From, Text

LEMMA Regroup ==
    ASSUME NEW S, NEW a \in Seq(S), NEW b \in Seq(S), NEW c \in Seq(S)
    PROVE  a \o (b \o c) = (a \o b) \o c
  BY ConcatAssociative

LEMMA TextRegroup ==
    ASSUME NEW a \in Text, NEW b \in Text, NEW c \in Text
    PROVE  a \o (b \o c) = (a \o b) \o c
  BY Regroup DEF Text

\* From is what is left when the characters before are taken away.
LEMMA FromStart ==
    ASSUME NEW s \in Text
    PROVE  From(s, 1) = s /\ From(s, Len(s) + 1) = <<>>
  <1>1. Len(s) \in Nat  BY DEF Text
  <1>2. From(s, 1) = s  BY SubSeqFull DEF From, Text
  <1>3. From(s, Len(s) + 1) = <<>>
    <2>1. Len(s) + 1 \in Int /\ Len(s) \in Int /\ Len(s) < Len(s) + 1  BY <1>1
    <2>. QED  BY <2>1, SubSeqEmpty DEF From
  <1>. QED  BY <1>2, <1>3

LEMMA FromConcat ==
    ASSUME NEW s \in Text, NEW r \in Text, NEW i \in 1..(Len(s) + 1)
    PROVE  From(s, i) \o r = From(s \o r, i)
  <1>. DEFINE u == From(s, i) \o r
              v == From(s \o r, i)
  <1>1. Len(s) \in Nat /\ Len(r) \in Nat  BY DEF Text
  <1>2. /\ s \o r \in Text /\ Len(s \o r) = Len(s) + Len(r)
        /\ \A k \in 1..(Len(s) + Len(r)) : (s \o r)[k] = IF k <= Len(s) THEN s[k] ELSE r[k - Len(s)]
    BY ConcatProperties DEF Text
  <1>3. /\ From(s, i) \in Text /\ Len(From(s, i)) = (Len(s) + 1) - i
        /\ \A k \in 1..((Len(s) + 1) - i) : From(s, i)[k] = s[i + k - 1]
    BY FromFacts
  <1>4. /\ u \in Text /\ Len(u) = Len(From(s, i)) + Len(r)
        /\ \A k \in 1..(Len(From(s, i)) + Len(r)) :
              u[k] = IF k <= Len(From(s, i)) THEN From(s, i)[k] ELSE r[k - Len(From(s, i))]
    BY <1>3, ConcatProperties DEF Text
  <1>5. i \in 1..(Len(s \o r) + 1)  BY <1>1, <1>2
  <1>6. /\ v \in Text /\ Len(v) = (Len(s \o r) + 1) - i
        /\ \A k \in 1..((Len(s \o r) + 1) - i) : v[k] = (s \o r)[i + k - 1]
    BY <1>2, <1>5, FromFacts
  <1>. HIDE DEF u, v
  <1>7. Len(u) = Len(v)  BY <1>1, <1>2, <1>3, <1>4, <1>6
  <1>8. ASSUME NEW k \in 1..Len(u) PROVE u[k] = v[k]
    <2>1. v[k] = (s \o r)[i + k - 1]  BY <1>6, <1>7
    <2>2. CASE k <= (Len(s) + 1) - i
      <3>1. k \in 1..((Len(s) + 1) - i) /\ i + k - 1 \in 1..(Len(s) + Len(r)) /\ i + k - 1 <= Len(s)
        BY <1>1, <2>2
      <3>. QED  BY <1>2, <1>3, <1>4, <2>1, <2>2, <3>1
    <2>3. CASE ~(k <= (Len(s) + 1) - i)
      <3>1. /\ i + k - 1 \in 1..(Len(s) + Len(r)) /\ ~(i + k - 1 <= Len(s))
            /\ (i + k - 1) - Len(s) = k - ((Len(s) + 1) - i)
        BY <1>1, <1>2, <1>3, <1>4, <2>3
      <3>. QED  BY <1>2, <1>3, <1>4, <2>1, <2>3, <3>1
    <2>. QED  BY <2>2, <2>3
  <1>. QED
    <2>1. u = v  BY <1>4, <1>6, <1>7, <1>8, SeqEqual DEF Text
    <2>. QED  BY <2>1 DEF u, v

-----------------------------------------------------------------------------
(* Directives and where they end.                                          *)

\* The characters of sub are in s from place i on.
PartAt(s, sub, i) ==
    i + Len(sub) - 1 <= Len(s) /\ \A j \in 1..Len(sub) : s[i + j - 1] = sub[j]

LEMMA PartIsPiece ==
    ASSUME NEW s \in Text, NEW sub \in Text, Len(sub) > 0, NEW i \in 1..(Len(s) + 1),
           i + Len(sub) - 1 <= Len(s)
    PROVE  PartAt(s, sub, i) <=> SubSeq(s, i, i + Len(sub) - 1) = sub
  <1>1. Len(s) \in Nat /\ Len(sub) \in Nat  BY DEF Text
  <1>0. PICK e : e = i + Len(sub) - 1  OBVIOUS
  <1>2. e \in (i - 1)..Len(s) /\ e = i + Len(sub) - 1  BY <1>0, <1>1
  <1>3. (e + 1) - i = Len(sub)  BY <1>1, <1>2
  <1>4. /\ SubSeq(s, i, e) \in Text /\ Len(SubSeq(s, i, e)) = (e + 1) - i
        /\ \A k \in 1..((e + 1) - i) : SubSeq(s, i, e)[k] = s[i + k - 1]
    BY <1>2, PieceFacts DEF Text
  <1>5. PICK u : u = SubSeq(s, i, e)  OBVIOUS
  <1>6. u \in Text /\ Len(u) = Len(sub) /\ \A k \in 1..Len(sub) : u[k] = s[i + k - 1]
    BY <1>3, <1>4, <1>5
  <1>7. ASSUME PartAt(s, sub, i) PROVE u = sub
    <2>1. \A k \in 1..Len(u) : u[k] = sub[k]  BY <1>6, <1>7 DEF PartAt
    <2>. QED  BY <1>6, <2>1, SeqEqual DEF Text
  <1>8. u = sub => PartAt(s, sub, i)  BY <1>6 DEF PartAt
  <1>. QED  BY <1>2, <1>5, <1>7, <1>8

LEMMA BeginsIs ==
    ASSUME NEW s \in Text, NEW i \in 1..(Len(s) + 1)
    PROVE  Begins(s, i) <=> PartAt(s, Token, i)
  <1>. DEFINE u == From(s, i)
  <1>1. Len(s) \in Nat /\ Len(Token) \in Nat \ {0} /\ Token \in Text
    BY TokenFacts, TokenAssumption DEF Text
  <1>2. /\ u \in Text /\ Len(u) = (Len(s) + 1) - i
        /\ \A k \in 1..((Len(s) + 1) - i) : u[k] = s[i + k - 1]
    BY FromFacts
  <1>3. SubSeq(Token, 1, Len(Token)) = Token  BY <1>1, SubSeqFull DEF Text
  <1>4. Begins(s, i) <=> Len(Token) <= Len(u) /\ Token = SubSeq(u, 1, Len(Token))
    BY <1>3 DEF Begins, IsPrefix
  <1>. HIDE DEF u
  <1>5. i + Len(Token) - 1 <= Len(s) <=> Len(Token) <= Len(u)  BY <1>1, <1>2
  <1>6. CASE Len(Token) <= Len(u)
    <2>1. 1 \in 1..(Len(u) + 1) /\ 1 + Len(Token) - 1 = Len(Token) /\ Len(Token) > 0
      BY <1>1, <1>2
    <2>2. PartAt(u, Token, 1) <=> SubSeq(u, 1, Len(Token)) = Token
      <3>1. 1 + Len(Token) - 1 <= Len(u)  BY <1>6, <2>1
      <3>2. PartAt(u, Token, 1) <=> SubSeq(u, 1, 1 + Len(Token) - 1) = Token
        BY <1>1, <1>2, <2>1, <3>1, PartIsPiece
      <3>. QED  BY <2>1, <3>2
    <2>3. \A j \in 1..Len(Token) : u[1 + j - 1] = s[i + j - 1]
      <3>1. \A j \in 1..Len(Token) : j \in 1..((Len(s) + 1) - i) /\ 1 + j - 1 = j
        BY <1>1, <1>2, <1>6
      <3>. QED  BY <1>2, <3>1
    <2>4. PartAt(u, Token, 1) <=> PartAt(s, Token, i)
      BY <1>5, <1>6, <2>1, <2>3 DEF PartAt
    <2>. QED  BY <1>4, <1>6, <2>2, <2>4
  <1>7. CASE ~(Len(Token) <= Len(u))  BY <1>4, <1>5, <1>7 DEF PartAt
  <1>. QED  BY <1>6, <1>7

\* Least, of a set that lies between two numbers.
LEMMA LeastFacts ==
    ASSUME NEW M, M \subseteq Nat, M # {}
    PROVE  Min(M) \in M /\ \A i \in M : Min(M) <= i
  BY Least DEF Min

LEMMA FindFacts ==
    ASSUME NEW s \in Text, NEW sub \in Text, Len(sub) > 0, NEW k \in 1..(Len(s) + 1)
    PROVE  \/ Find(s, sub, k) = 0 /\ \A i \in k..Len(s) : ~PartAt(s, sub, i)
           \/ /\ Find(s, sub, k) \in k..Len(s) /\ PartAt(s, sub, Find(s, sub, k))
              /\ \A i \in k..(Find(s, sub, k) - 1) : ~PartAt(s, sub, i)
  <1>. DEFINE at == {i \in k..(Len(s) - Len(sub) + 1) : SubSeq(s, i, i + Len(sub) - 1) = sub}
  <1>1. Len(s) \in Nat /\ Len(sub) \in Nat  BY DEF Text
  <1>2. ASSUME NEW i \in k..Len(s) PROVE i \in at <=> PartAt(s, sub, i)
    <2>1. i \in k..(Len(s) - Len(sub) + 1) <=> i + Len(sub) - 1 <= Len(s)  BY <1>1
    <2>2. i \in 1..(Len(s) + 1)  BY <1>1
    <2>. QED  BY <2>1, <2>2, PartIsPiece DEF PartAt
  <1>3. at \subseteq k..Len(s)
    <2>1. \A i \in k..(Len(s) - Len(sub) + 1) : i \in k..Len(s)  BY <1>1
    <2>. QED  BY <2>1
  <1>4. Find(s, sub, k) = IF at = {} THEN 0 ELSE Min(at)  BY DEF Find
  <1>. HIDE DEF at
  <1>5. CASE at = {}  BY <1>2, <1>4, <1>5
  <1>6. CASE at # {}
    <2>1. at \subseteq Nat  BY <1>1, <1>3
    <2>2. PICK m : m = Min(at)  OBVIOUS
    <2>3. m \in at /\ \A i \in at : m <= i  BY <1>6, <2>1, <2>2, LeastFacts
    <2>4. m \in k..Len(s) /\ PartAt(s, sub, m)  BY <1>2, <1>3, <2>3
    <2>5. ASSUME NEW i \in k..(m - 1), PartAt(s, sub, i) PROVE FALSE
      <3>1. i \in k..Len(s) /\ ~(m <= i)  BY <1>1, <2>4
      <3>. QED  BY <1>2, <2>3, <2>5, <3>1
    <2>6. Find(s, sub, k) = m  BY <1>4, <1>6, <2>2
    <2>. QED  BY <2>4, <2>5, <2>6
  <1>. QED  BY <1>5, <1>6

\* A quote is a part of one character.
LEMMA QuoteAt ==
    ASSUME NEW s, NEW i \in 1..Len(s), Len(s) \in Nat
    PROVE  PartAt(s, <<Quote>>, i) <=> s[i] = Quote
  <1>1. Len(<<Quote>>) = 1 /\ <<Quote>>[1] = Quote  OBVIOUS
  <1>2. i + 1 - 1 <= Len(s) /\ i + 1 - 1 = i  OBVIOUS
  <1>. QED  BY <1>1, <1>2 DEF PartAt

\* A directive begins at i and ends at e.
Directive(s, i, e) ==
    /\ PartAt(s, Token, i)
    /\ e \in (i + Len(Token))..Len(s) /\ s[e] = Quote
    /\ \A k \in (i + Len(Token))..(e - 1) : s[k] # Quote

LEMMA DirectiveFacts ==
    ASSUME NEW s \in Text, NEW i \in 1..Len(s)
    PROVE  /\ DirectiveAt(s, i) => Directive(s, i, EndOf(s, i))
           /\ \A e : Directive(s, i, e) => DirectiveAt(s, i) /\ EndOf(s, i) = e
  <1>1. Len(s) \in Nat /\ Len(Token) \in Nat \ {0}  BY TokenFacts DEF Text
  <1>2. Begins(s, i) <=> PartAt(s, Token, i)
    <2>1. i \in 1..(Len(s) + 1)  BY <1>1
    <2>. QED  BY <2>1, BeginsIs
  <1>3. EndsAt(s, i) \subseteq Nat
    <2>1. \A j \in (i + Len(Token))..Len(s) : j \in Nat  BY <1>1
    <2>. QED  BY <2>1 DEF EndsAt
  <1>4. \A j : j \in EndsAt(s, i) <=> j \in (i + Len(Token))..Len(s) /\ s[j] = Quote
    BY DEF EndsAt
  <1>5. ASSUME DirectiveAt(s, i) PROVE Directive(s, i, EndOf(s, i))
    <2>1. PICK e : e = EndOf(s, i)  OBVIOUS
    <2>2. e \in EndsAt(s, i) /\ \A j \in EndsAt(s, i) : e <= j
      BY <1>3, <1>5, <2>1, LeastFacts DEF DirectiveAt, EndOf
    <2>3. e \in (i + Len(Token))..Len(s) /\ s[e] = Quote  BY <1>4, <2>2
    <2>4. ASSUME NEW k \in (i + Len(Token))..(e - 1), s[k] = Quote PROVE FALSE
      <3>1. k \in (i + Len(Token))..Len(s) /\ ~(e <= k)  BY <1>1, <2>3
      <3>. QED  BY <1>4, <2>2, <2>4, <3>1
    <2>5. PartAt(s, Token, i)  BY <1>2, <1>5 DEF DirectiveAt
    <2>. QED  BY <2>1, <2>3, <2>4, <2>5 DEF Directive
  <1>6. ASSUME NEW e, Directive(s, i, e) PROVE DirectiveAt(s, i) /\ EndOf(s, i) = e
    <2>1. e \in EndsAt(s, i)  BY <1>4, <1>6 DEF Directive
    <2>2. ASSUME NEW j \in EndsAt(s, i) PROVE e <= j
      <3>1. j \in (i + Len(Token))..Len(s) /\ s[j] = Quote  BY <1>4
      <3>2. SUFFICES ASSUME ~(e <= j) PROVE FALSE  OBVIOUS
      <3>3. e \in (i + Len(Token))..Len(s)  BY <1>6 DEF Directive
      <3>4. j \in (i + Len(Token))..(e - 1)  BY <1>1, <3>1, <3>2, <3>3
      <3>. QED  BY <1>6, <3>1, <3>4 DEF Directive
    <2>3. PICK m : m = EndOf(s, i)  OBVIOUS
    <2>4. m \in EndsAt(s, i) /\ \A j \in EndsAt(s, i) : m <= j
      BY <1>3, <2>1, <2>3, LeastFacts DEF EndOf
    <2>5. m = e
      <3>1. m <= e /\ e <= m  BY <2>1, <2>2, <2>4
      <3>2. m \in Nat /\ e \in Nat  BY <1>3, <2>1, <2>4
      <3>. QED  BY <3>1, <3>2
    <2>6. DirectiveAt(s, i)  BY <1>2, <1>6, <2>1 DEF DirectiveAt, Directive
    <2>. QED  BY <2>3, <2>5, <2>6
  <1>. QED  BY <1>5, <1>6

-----------------------------------------------------------------------------
(* The scan of a whole text.                                               *)

Found == [plain : Text, names : Seq(Text)]
Nothing == [plain |-> <<>>, names |-> <<>>]

\* The place where it goes on after i, and what it finds at i before it finds v.
After(s, i) == IF DirectiveAt(s, i) THEN EndOf(s, i) + 1 ELSE i + 1
Reads(s, i, v) ==
    IF DirectiveAt(s, i)
      THEN [plain |-> v.plain,
            names |-> <<SubSeq(s, i + Len(Token), EndOf(s, i) - 1)>> \o v.names]
      ELSE [plain |-> <<s[i]>> \o v.plain, names |-> v.names]

LEMMA AfterFacts ==
    ASSUME NEW s \in Text, NEW i \in 1..Len(s)
    PROVE  /\ After(s, i) \in (i + 1)..(Len(s) + 1)
           /\ DirectiveAt(s, i) => /\ EndOf(s, i) \in (i + Len(Token))..Len(s)
                                   /\ SubSeq(s, i + Len(Token), EndOf(s, i) - 1) \in Text
  <1>1. Len(s) \in Nat /\ Len(Token) \in Nat \ {0}  BY TokenFacts DEF Text
  <1>2. CASE DirectiveAt(s, i)
    <2>1. PICK e : e = EndOf(s, i)  OBVIOUS
    <2>2. e \in (i + Len(Token))..Len(s)  BY <1>2, <2>1, DirectiveFacts DEF Directive
    <2>3. e + 1 \in (i + 1)..(Len(s) + 1)  BY <1>1, <2>2
    <2>4. i + Len(Token) \in 1..(Len(s) + 1) /\ e - 1 \in ((i + Len(Token)) - 1)..Len(s)
      BY <1>1, <2>2
    <2>5. SubSeq(s, i + Len(Token), e - 1) \in Text  BY <2>4, PieceFacts DEF Text
    <2>. QED  BY <1>2, <2>1, <2>2, <2>3, <2>5 DEF After
  <1>3. CASE ~DirectiveAt(s, i)
    <2>1. i + 1 \in (i + 1)..(Len(s) + 1)  BY <1>1
    <2>. QED  BY <1>3, <2>1 DEF After
  <1>. QED  BY <1>2, <1>3

LEMMA ReadsFound ==
    ASSUME NEW s \in Text, NEW i \in 1..Len(s), NEW v \in Found
    PROVE  Reads(s, i, v) \in Found
  <1>1. v.plain \in Text /\ v.names \in Seq(Text)  BY DEF Found
  <1>2. CASE DirectiveAt(s, i)
    <2>1. PICK name \in Text : name = SubSeq(s, i + Len(Token), EndOf(s, i) - 1)
      BY <1>2, AfterFacts
    <2>2. <<name>> \o v.names \in Seq(Text)  BY <1>1
    <2>3. Reads(s, i, v) = [plain |-> v.plain, names |-> <<name>> \o v.names]
      BY <1>2, <2>1 DEF Reads
    <2>. QED  BY <1>1, <2>2, <2>3 DEF Found
  <1>3. CASE ~DirectiveAt(s, i)
    <2>1. <<s[i]>> \o v.plain \in Text  BY <1>1 DEF Text
    <2>. QED  BY <1>1, <1>3, <2>1 DEF Reads, Found
  <1>. QED  BY <1>2, <1>3

\* The scan of s, place by place.
LEMMA ReadingIs ==
    ASSUME NEW s \in Text
    PROVE  /\ Reading(s) \in [1..(Len(s) + 1) -> Found]
           /\ Reading(s)[Len(s) + 1] = Nothing
           /\ \A i \in 1..Len(s) : Reading(s)[i] = Reads(s, i, Reading(s)[After(s, i)])
  <1>. DEFINE Step(t) == [i \in 1..(Len(s) + 1) |->
                            IF i > Len(s) THEN Nothing ELSE Reads(s, i, t[After(s, i)])]
              f == CHOOSE t : t = Step(t)
  <1>1. PICK n \in Nat : n = Len(s)  BY DEF Text
  <1>2. Reading(s) = f  BY DEF Reading, Reads, After, Nothing
  <1>. HIDE DEF Step, f
  <1>3. PICK J : J = [i \in 1..n |-> After(s, i)]  OBVIOUS
  <1>4. LeadsOn(J, n) /\ \A i \in 1..n : J[i] = After(s, i)
    <2>1. \A i \in 1..n : After(s, i) \in 1 .. n + 1 /\ After(s, i) > i
      BY <1>1, AfterFacts
    <2>. QED  BY <1>3, <2>1 DEF LeadsOn
  <1>5. PICK A : A = [i \in 1..n |-> [v \in Found |-> Reads(s, i, v)]]  OBVIOUS
  <1>6. /\ A \in [1..n -> [Found -> Found]]
        /\ \A i \in 1..n : \A v \in Found : A[i][v] = Reads(s, i, v)
    <2>1. \A i \in 1..n : \A v \in Found : Reads(s, i, v) \in Found
      BY <1>1, ReadsFound
    <2>. QED  BY <1>5, <2>1
  <1>7. Nothing \in Found  BY DEF Nothing, Found, Text
  <1>8. PICK g : Jumps(g, Found, n, Nothing, J, A)  BY <1>4, <1>6, <1>7, JumpRecursion
  <1>9. /\ g \in [1 .. n + 1 -> Found] /\ g[n + 1] = Nothing
        /\ \A i \in 1..n : g[i] = Reads(s, i, g[After(s, i)])
    <2>1. g \in [1 .. n + 1 -> Found] /\ g[n + 1] = Nothing /\ \A k \in 1..n : g[k] = A[k][g[J[k]]]
      BY <1>8 DEF Jumps
    <2>2. \A i \in 1..n : J[i] \in 1 .. n + 1  BY <1>4 DEF LeadsOn
    <2>3. \A i \in 1..n : g[J[i]] \in Found  BY <2>1, <2>2
    <2>. QED  BY <1>4, <1>6, <2>1, <2>3
  <1>10. g = Step(g)
    <2>1. \A i \in 1 .. n + 1 : g[i] = IF i > n THEN Nothing ELSE Reads(s, i, g[After(s, i)])
      <3>1. \A i \in 1 .. n + 1 : (i > n /\ i = n + 1) \/ (~(i > n) /\ i \in 1..n)  OBVIOUS
      <3>. QED  BY <1>9, <3>1
    <2>. QED  BY <1>1, <1>9, <2>1 DEF Step
  <1>11. f = Step(f)
    <2>. DEFINE P(t) == t = Step(t)
    <2>1. P(g)  BY <1>10
    <2>. HIDE DEF P
    <2>2. P(CHOOSE t : P(t))  BY <2>1
    <2>. QED  BY <2>2 DEF P, f
  <1>12. \A i \in 1 .. n + 1 : f[i] = IF i > n THEN Nothing ELSE Reads(s, i, f[After(s, i)])
    BY <1>1, <1>11 DEF Step
  <1>13. DOMAIN f = 1 .. n + 1  BY <1>1, <1>11 DEF Step
  <1>14. f[n + 1] = Nothing /\ \A i \in 1..n : f[i] = Reads(s, i, f[After(s, i)])
    <2>1. n + 1 \in 1 .. n + 1 /\ n + 1 > n /\ \A i \in 1..n : i \in 1 .. n + 1 /\ ~(i > n)
      OBVIOUS
    <2>. QED  BY <1>12, <2>1
  <1>15. \A i \in 1 .. n + 1 : f[i] \in Found
    <2>1. PICK T : T = {i \in 1 .. n + 1 : f[i] \in Found}  OBVIOUS
    <2>2. ASSUME NEW i \in 1 .. n + 1, \A j \in (i + 1) .. n + 1 : j \in T PROVE i \in T
      <3>1. CASE i = n + 1  BY <1>7, <1>14, <2>1, <3>1
      <3>2. CASE i \in 1..n
        <4>1. After(s, i) \in (i + 1) .. n + 1  BY <1>1, <3>2, AfterFacts
        <4>2. f[After(s, i)] \in Found  BY <2>1, <2>2, <4>1
        <4>. QED  BY <1>1, <1>14, <2>1, <3>2, <4>2, ReadsFound
      <3>. QED  BY <3>1, <3>2
    <2>3. \A i \in 1 .. n + 1 : i \in T  BY <2>2, DownwardInduction
    <2>. QED  BY <2>1, <2>3
  <1>16. f \in [1 .. n + 1 -> Found]
    <2>1. f = [i \in 1 .. n + 1 |-> f[i]]
      <3>1. f = Step(f)  BY <1>11
      <3>. QED  BY <1>1, <3>1 DEF Step
    <2>. QED  BY <1>15, <2>1
  <1>. QED  BY <1>1, <1>2, <1>14, <1>16

\* What is found at one place and behind it.
LEMMA ReadingStep ==
    ASSUME NEW s \in Text, NEW i \in 1..Len(s)
    PROVE  /\ Reading(s)[i] \in Found /\ Reading(s)[After(s, i)] \in Found
           /\ Reading(s)[i] = Reads(s, i, Reading(s)[After(s, i)])
  <1>1. Len(s) \in Nat  BY DEF Text
  <1>2. After(s, i) \in 1..(Len(s) + 1) /\ i \in 1..(Len(s) + 1)
    <2>1. After(s, i) \in (i + 1)..(Len(s) + 1)  BY AfterFacts
    <2>. QED  BY <1>1, <2>1
  <1>. QED  BY <1>2, ReadingIs

\* Where no directive begins, the characters are plain.
LEMMA Skips ==
    ASSUME NEW s \in Text, NEW k \in 1..(Len(s) + 1), NEW j \in k..(Len(s) + 1),
           \A i \in k..(j - 1) : ~DirectiveAt(s, i)
    PROVE  /\ Reading(s)[k].plain = SubSeq(s, k, j - 1) \o Reading(s)[j].plain
           /\ Reading(s)[k].names = Reading(s)[j].names
  <1>. DEFINE R == Reading(s)
              Skipped(i) == /\ R[i].plain = SubSeq(s, i, j - 1) \o R[j].plain
                            /\ R[i].names = R[j].names
  <1>1. Len(s) \in Nat  BY DEF Text
  <1>2. j \in 1..(Len(s) + 1) /\ j \in Nat  BY <1>1
  <1>3. \A i \in 1..(Len(s) + 1) : R[i].plain \in Text /\ R[i].names \in Seq(Text)
    BY ReadingIs DEF Found
  <1>4. PICK S : S = {i \in 1..j : i >= k => Skipped(i)}  OBVIOUS
  <1>5. ASSUME NEW i \in 1..j, \A m \in (i + 1)..j : m \in S, i >= k PROVE Skipped(i)
    <2>1. CASE i = j
      <3>1. SubSeq(s, j, j - 1) = <<>>
        <4>1. j \in Int /\ j - 1 \in Int /\ j - 1 < j  BY <1>2
        <4>. QED  BY <4>1, SubSeqEmpty
      <3>2. <<>> \o R[j].plain = R[j].plain  BY <1>2, <1>3, ConcatEmptySeq DEF Text
      <3>. QED  BY <2>1, <3>1, <3>2
    <2>2. CASE i # j
      <3>1. /\ i \in 1..Len(s) /\ i \in k..(j - 1) /\ i + 1 \in (i + 1)..j /\ i + 1 >= k
            /\ j - 1 \in i..Len(s) /\ i \in 1..(Len(s) + 1) /\ i + 1 \in 1..(Len(s) + 1)
        BY <1>1, <1>2, <1>5, <2>2
      <3>2. Skipped(i + 1)  BY <1>4, <1>5, <3>1
      <3>3. R[i].plain = <<s[i]>> \o R[i + 1].plain /\ R[i].names = R[i + 1].names
        <4>1. ~DirectiveAt(s, i) /\ After(s, i) = i + 1  BY <3>1 DEF After
        <4>2. R[i] = Reads(s, i, R[i + 1])  BY <3>1, <4>1, ReadingStep
        <4>. QED  BY <4>1, <4>2 DEF Reads
      <3>4. SubSeq(s, i, j - 1) = <<s[i]>> \o SubSeq(s, i + 1, j - 1)
        BY <3>1, SubSeqRecursiveFirst DEF Text
      <3>5. /\ <<s[i]>> \in Text /\ SubSeq(s, i + 1, j - 1) \in Text /\ R[j].plain \in Text
        <4>1. j - 1 \in ((i + 1) - 1)..Len(s)  BY <1>1, <1>2, <3>1
        <4>2. SubSeq(s, i + 1, j - 1) \in Text  BY <3>1, <4>1, PieceFacts DEF Text
        <4>3. <<s[i]>> \in Text  BY <3>1 DEF Text
        <4>. QED  BY <1>2, <1>3, <4>2, <4>3
      <3>6. <<s[i]>> \o (SubSeq(s, i + 1, j - 1) \o R[j].plain)
              = (<<s[i]>> \o SubSeq(s, i + 1, j - 1)) \o R[j].plain
        <4>. HIDE DEF R
        <4>. QED  BY <3>5, TextRegroup
      <3>. QED  BY <3>2, <3>3, <3>4, <3>6
    <2>. QED  BY <2>1, <2>2
  <1>6. \A i \in 1..j : i \in S
    <2>. HIDE DEF Skipped
    <2>1. ASSUME NEW i \in 1..j, \A m \in (i + 1)..j : m \in S PROVE i \in S
      BY <1>4, <1>5, <2>1
    <2>. QED  BY <1>2, <2>1, DownwardInduction
  <1>7. k \in 1..j /\ k >= k  BY <1>1, <1>2
  <1>. QED  BY <1>4, <1>6, <1>7

\* A part of a text's end is where it is in the text.
LEMMA PartShifts ==
    ASSUME NEW s \in Text, NEW j \in 1..(Len(s) + 1), NEW sub \in Text,
           NEW i \in 1..((Len(s) + 1) - j)
    PROVE  PartAt(From(s, j), sub, i) <=> PartAt(s, sub, i + j - 1)
  <1>1. Len(s) \in Nat /\ Len(sub) \in Nat  BY DEF Text
  <1>2. PICK u \in Text : u = From(s, j)  BY FromFacts
  <1>3. Len(u) = (Len(s) + 1) - j /\ \A k \in 1..((Len(s) + 1) - j) : u[k] = s[j + k - 1]
    BY <1>2, FromFacts
  <1>4. i + Len(sub) - 1 <= Len(u) <=> (i + j - 1) + Len(sub) - 1 <= Len(s)  BY <1>1, <1>3
  <1>5. ASSUME i + Len(sub) - 1 <= Len(u), NEW m \in 1..Len(sub)
        PROVE  u[i + m - 1] = s[(i + j - 1) + m - 1]
    <2>1. i + m - 1 \in 1..((Len(s) + 1) - j) /\ j + (i + m - 1) - 1 = (i + j - 1) + m - 1
      BY <1>1, <1>3, <1>5
    <2>. QED  BY <1>3, <2>1
  <1>. QED  BY <1>2, <1>4, <1>5 DEF PartAt

LEMMA DirectiveShifts ==
    ASSUME NEW s \in Text, NEW j \in 1..(Len(s) + 1), NEW i \in 1..((Len(s) + 1) - j),
           NEW e \in 1..((Len(s) + 1) - j)
    PROVE  Directive(From(s, j), i, e) <=> Directive(s, i + j - 1, e + j - 1)
  <1>1. Len(s) \in Nat /\ Len(Token) \in Nat \ {0} /\ Token \in Text
    BY TokenFacts, TokenAssumption DEF Text
  <1>2. PICK u \in Text : u = From(s, j)  BY FromFacts
  <1>3. Len(u) = (Len(s) + 1) - j /\ \A k \in 1..((Len(s) + 1) - j) : u[k] = s[j + k - 1]
    BY <1>2, FromFacts
  <1>4. PartAt(u, Token, i) <=> PartAt(s, Token, i + j - 1)  BY <1>1, <1>2, PartShifts
  <1>5. /\ e \in (i + Len(Token))..Len(u) <=> e + j - 1 \in ((i + j - 1) + Len(Token))..Len(s)
        /\ u[e] = s[e + j - 1]
    <2>1. j + e - 1 = e + j - 1  BY <1>1
    <2>. QED  BY <1>1, <1>3, <2>1
  <1>6. \A k \in (i + Len(Token))..(e - 1) :
           u[k] = s[k + j - 1] /\ k + j - 1 \in ((i + j - 1) + Len(Token))..((e + j - 1) - 1)
    <2>1. \A k \in (i + Len(Token))..(e - 1) :
             /\ k \in 1..((Len(s) + 1) - j) /\ j + k - 1 = k + j - 1
             /\ k + j - 1 \in ((i + j - 1) + Len(Token))..((e + j - 1) - 1)
      BY <1>1
    <2>. QED  BY <1>3, <2>1
  <1>7. \A k \in ((i + j - 1) + Len(Token))..((e + j - 1) - 1) :
           /\ (k + 1) - j \in (i + Len(Token))..(e - 1)
           /\ ((k + 1) - j) + j - 1 = k
    BY <1>1
  <1>8. (\A k \in (i + Len(Token))..(e - 1) : u[k] # Quote)
          <=> (\A k \in ((i + j - 1) + Len(Token))..((e + j - 1) - 1) : s[k] # Quote)
    <2>1. ASSUME \A k \in (i + Len(Token))..(e - 1) : u[k] # Quote,
                 NEW k \in ((i + j - 1) + Len(Token))..((e + j - 1) - 1)
          PROVE  s[k] # Quote
      <3>1. PICK m \in (i + Len(Token))..(e - 1) : m = (k + 1) - j  BY <1>7
      <3>2. u[m] = s[m + j - 1] /\ m + j - 1 = k  BY <1>6, <1>7, <3>1
      <3>. QED  BY <2>1, <3>2
    <2>2. ASSUME \A k \in ((i + j - 1) + Len(Token))..((e + j - 1) - 1) : s[k] # Quote,
                 NEW k \in (i + Len(Token))..(e - 1)
          PROVE  u[k] # Quote
      BY <1>6, <2>2
    <2>. QED  BY <2>1, <2>2
  <1>. QED  BY <1>2, <1>4, <1>5, <1>8 DEF Directive

\* What is found from a place of a text on is what its end alone has.
LEMMA Shifts ==
    ASSUME NEW s \in Text, NEW j \in 1..(Len(s) + 1)
    PROVE  \A i \in 1..((Len(s) + 2) - j) : Reading(From(s, j))[i] = Reading(s)[i + j - 1]
  <1>1. Len(s) \in Nat /\ Len(Token) \in Nat \ {0}  BY TokenFacts DEF Text
  <1>2. PICK u \in Text : u = From(s, j)  BY FromFacts
  <1>3. Len(u) = (Len(s) + 1) - j /\ \A k \in 1..((Len(s) + 1) - j) : u[k] = s[j + k - 1]
    BY <1>2, FromFacts
  <1>n. PICK n \in Nat : n = Len(u)
    <2>1. Len(u) \in Nat  BY <1>2 DEF Text
    <2>. QED  BY <2>1
  <1>4. PICK S : S = {i \in 1 .. n + 1 : Reading(u)[i] = Reading(s)[i + j - 1]}  OBVIOUS
  <1>5. ASSUME NEW i \in 1 .. n + 1, \A m \in (i + 1) .. n + 1 : m \in S
        PROVE  Reading(u)[i] = Reading(s)[i + j - 1]
    <2>1. CASE i = n + 1
      <3>1. i = Len(u) + 1 /\ i + j - 1 = Len(s) + 1  BY <1>1, <1>3, <1>n, <2>1
      <3>. QED  BY <1>2, <3>1, ReadingIs
    <2>2. CASE i # n + 1
      <3>1. PICK p : p = i + j - 1  OBVIOUS
      <3>2. i \in 1..n /\ p \in 1..Len(s)  BY <1>1, <1>3, <1>n, <2>2, <3>1
      <3>3. u[i] = s[p]
        <4>1. i \in 1..((Len(s) + 1) - j) /\ j + i - 1 = p  BY <1>1, <1>3, <1>n, <3>1, <3>2
        <4>. QED  BY <1>3, <4>1
      <3>4. ASSUME NEW e \in 1..n PROVE Directive(u, i, e) <=> Directive(s, p, e + j - 1)
        <4>1. i \in 1..((Len(s) + 1) - j) /\ e \in 1..((Len(s) + 1) - j)
          BY <1>3, <1>n, <3>2
        <4>. QED  BY <1>2, <3>1, <4>1, DirectiveShifts
      <3>5. ASSUME DirectiveAt(u, i)
            PROVE  /\ DirectiveAt(s, p) /\ EndOf(u, i) \in 1..n
                   /\ EndOf(s, p) = EndOf(u, i) + j - 1
        <4>1. PICK e : e = EndOf(u, i)  OBVIOUS
        <4>2. Directive(u, i, e)  BY <1>n, <3>2, <3>5, <4>1, DirectiveFacts
        <4>3. e \in 1..n
          <5>1. e \in (i + Len(Token))..Len(u)  BY <4>2 DEF Directive
          <5>. QED  BY <1>1, <1>n, <3>2, <5>1
        <4>4. Directive(s, p, e + j - 1)  BY <3>4, <4>2, <4>3
        <4>. QED  BY <3>2, <4>1, <4>3, <4>4, DirectiveFacts
      <3>6. ASSUME DirectiveAt(s, p) PROVE DirectiveAt(u, i)
        <4>1. PICK E : E = EndOf(s, p)  OBVIOUS
        <4>2. Directive(s, p, E)  BY <3>2, <3>6, <4>1, DirectiveFacts
        <4>3. E \in (p + Len(Token))..Len(s)  BY <4>2 DEF Directive
        <4>4. PICK e : e = (E + 1) - j  OBVIOUS
        <4>5. e \in 1..n /\ e + j - 1 = E
          BY <1>1, <1>3, <1>n, <3>1, <3>2, <4>3, <4>4
        <4>6. Directive(u, i, e)  BY <3>4, <4>2, <4>5
        <4>. QED  BY <1>n, <3>2, <4>6, DirectiveFacts
      <3>7. After(u, i) \in (i + 1) .. n + 1 /\ After(s, p) = After(u, i) + j - 1
        <4>1. After(u, i) \in (i + 1) .. n + 1  BY <1>n, <3>2, AfterFacts
        <4>2. CASE DirectiveAt(u, i)
          <5>1. (EndOf(u, i) + j - 1) + 1 = (EndOf(u, i) + 1) + j - 1  BY <1>1, <3>5, <4>2
          <5>. QED  BY <3>5, <4>1, <4>2, <5>1 DEF After
        <4>3. CASE ~DirectiveAt(u, i)
          <5>1. p + 1 = (i + 1) + j - 1  BY <1>1, <3>1
          <5>. QED  BY <3>6, <4>1, <4>3, <5>1 DEF After
        <4>. QED  BY <4>2, <4>3
      <3>8. Reading(u)[After(u, i)] = Reading(s)[After(s, p)]
        <4>1. After(u, i) \in S  BY <1>5, <3>7
        <4>. QED  BY <1>4, <3>7, <4>1
      <3>9. \A v : Reads(u, i, v) = Reads(s, p, v)
        <4>1. CASE DirectiveAt(u, i)
          <5>1. PICK e \in 1..n : e = EndOf(u, i)  BY <3>5, <4>1
          <5>2. e \in (i + Len(Token))..n
            BY <1>n, <3>2, <4>1, <5>1, DirectiveFacts DEF Directive
          <5>3. SubSeq(u, i + Len(Token), e - 1) = SubSeq(s, p + Len(Token), (e + j - 1) - 1)
            <6>1. PICK a : a = i + Len(Token)  OBVIOUS
            <6>2. PICK b : b = e - 1  OBVIOUS
            <6>3. /\ j \in 1..Len(s) /\ Len(s) \in 1..Len(s)
                  /\ a \in 1 .. Len(s) - j + 1 /\ b \in 1 .. Len(s) - j + 1
              BY <1>1, <1>3, <1>n, <3>2, <5>2, <6>1, <6>2
            <6>4. SubSeq(u, a, b) = SubSeq(s, j + a - 1, j + b - 1)
              BY <1>2, <6>3, SubSeqOfSubSeq DEF From, Text
            <6>5. j + a - 1 = p + Len(Token) /\ j + b - 1 = (e + j - 1) - 1
              BY <1>1, <3>1, <3>2, <5>2, <6>1, <6>2
            <6>. QED  BY <6>1, <6>2, <6>4, <6>5
          <5>. QED  BY <3>5, <4>1, <5>1, <5>3 DEF Reads
        <4>2. CASE ~DirectiveAt(u, i)  BY <3>3, <3>6, <4>2 DEF Reads
        <4>. QED  BY <4>1, <4>2
      <3>10. Reading(u)[i] = Reads(u, i, Reading(u)[After(u, i)])
        BY <1>n, <3>2, ReadingStep
      <3>11. Reading(s)[p] = Reads(s, p, Reading(s)[After(s, p)])
        BY <3>2, ReadingStep
      <3>. QED  BY <3>1, <3>8, <3>9, <3>10, <3>11
    <2>. QED  BY <2>1, <2>2
  <1>6. \A i \in 1 .. n + 1 : i \in S
    <2>1. ASSUME NEW i \in 1 .. n + 1, \A m \in (i + 1) .. n + 1 : m \in S PROVE i \in S
      BY <1>4, <1>5, <2>1
    <2>2. n + 1 \in Nat  OBVIOUS
    <2>. QED  BY <2>1, <2>2, DownwardInduction
  <1>7. n + 1 = (Len(s) + 2) - j  BY <1>1, <1>3, <1>n
  <1>. QED  BY <1>2, <1>4, <1>6, <1>7

LEMMA ReadingOfRest ==
    ASSUME NEW s \in Text, NEW j \in 1..(Len(s) + 1)
    PROVE  Stripped(From(s, j)) = Reading(s)[j].plain /\ NamesIn(From(s, j)) = Reading(s)[j].names
  <1>1. Len(s) \in Nat  BY DEF Text
  <1>2. 1 \in 1..((Len(s) + 2) - j) /\ 1 + j - 1 = j  BY <1>1
  <1>3. Reading(From(s, j))[1] = Reading(s)[1 + j - 1]  BY <1>2, Shifts
  <1>. QED  BY <1>2, <1>3 DEF Stripped, NamesIn

-----------------------------------------------------------------------------
(* The scan of a buffer.                                                   *)

Scanned == [plain : Text, names : Seq(Text), buffer : Text]

\* The first directive behind k, and its end, or 0.
StartOf(s, k) == Find(s, Token, k)
NameOf(s, k) == StartOf(s, k) + Len(Token)
QuoteOf(s, k) == Find(s, <<Quote>>, NameOf(s, k))

\* The loop ends at k, and what it then keeps.
Stops(s, k) == StartOf(s, k) = 0 \/ QuoteOf(s, k) = 0
KeptFrom(s, k) == IF StartOf(s, k) = 0 THEN k + Cut(Len(s) - k + 1) ELSE StartOf(s, k)

\* What it finds at k before it finds v.
Scans(s, k, v) ==
    IF Stops(s, k)
      THEN [plain |-> SubSeq(s, k, KeptFrom(s, k) - 1), names |-> <<>>,
            buffer |-> From(s, KeptFrom(s, k))]
      ELSE [plain  |-> SubSeq(s, k, StartOf(s, k) - 1) \o v.plain,
            names  |-> <<SubSeq(s, NameOf(s, k), QuoteOf(s, k) - 1)>> \o v.names,
            buffer |-> v.buffer]

\* Where it goes on.
Onward(s, k) == IF Stops(s, k) THEN k + 1 ELSE QuoteOf(s, k) + 1

\* No directive begins before the first.
LEMMA StartFacts ==
    ASSUME NEW s \in Text, NEW k \in 1..(Len(s) + 1)
    PROVE  \/ StartOf(s, k) = 0 /\ \A i \in k..Len(s) : ~PartAt(s, Token, i)
           \/ /\ StartOf(s, k) \in k..Len(s) /\ PartAt(s, Token, StartOf(s, k))
              /\ \A i \in k..(StartOf(s, k) - 1) : ~PartAt(s, Token, i)
  <1>1. Token \in Text /\ Len(Token) > 0  BY TokenAssumption DEF Text
  <1>. QED  BY <1>1, FindFacts DEF StartOf

\* The loop stops at a directive without an end, or goes on behind a whole one.
LEMMA QuoteFacts ==
    ASSUME NEW s \in Text, NEW k \in 1..(Len(s) + 1), StartOf(s, k) # 0
    PROVE  \/ QuoteOf(s, k) = 0 /\ \A i \in NameOf(s, k)..Len(s) : s[i] # Quote
           \/ Directive(s, StartOf(s, k), QuoteOf(s, k))
  <1>1. Len(s) \in Nat /\ Len(Token) \in Nat \ {0} /\ <<Quote>> \in Text /\ Len(<<Quote>>) > 0
    BY TokenFacts DEF Text
  <1>2. PICK start : start = StartOf(s, k)  OBVIOUS
  <1>3. start \in k..Len(s) /\ PartAt(s, Token, start)  BY <1>2, StartFacts
  <1>4. PICK name : name = NameOf(s, k)  OBVIOUS
  <1>5. name = start + Len(Token) /\ name \in 1..(Len(s) + 1)
    <2>1. start + Len(Token) - 1 <= Len(s)  BY <1>3 DEF PartAt
    <2>. QED  BY <1>1, <1>2, <1>3, <1>4, <2>1 DEF NameOf
  <1>6. \A i \in name..Len(s) : PartAt(s, <<Quote>>, i) <=> s[i] = Quote
    <2>1. \A i \in name..Len(s) : i \in 1..Len(s)  BY <1>1, <1>5
    <2>. QED  BY <1>1, <2>1, QuoteAt
  <1>7. PICK end : end = QuoteOf(s, k)  OBVIOUS
  <1>8. \/ end = 0 /\ \A i \in name..Len(s) : ~PartAt(s, <<Quote>>, i)
        \/ /\ end \in name..Len(s) /\ PartAt(s, <<Quote>>, end)
           /\ \A i \in name..(end - 1) : ~PartAt(s, <<Quote>>, i)
    BY <1>1, <1>4, <1>5, <1>7, FindFacts DEF QuoteOf
  <1>9. CASE end = 0 /\ \A i \in name..Len(s) : ~PartAt(s, <<Quote>>, i)
    BY <1>4, <1>6, <1>7, <1>9
  <1>10. CASE /\ end \in name..Len(s) /\ PartAt(s, <<Quote>>, end)
              /\ \A i \in name..(end - 1) : ~PartAt(s, <<Quote>>, i)
    <2>1. \A i \in name..(end - 1) : i \in name..Len(s)  BY <1>1, <1>5, <1>10
    <2>2. Directive(s, start, end)
      BY <1>3, <1>5, <1>6, <1>10, <2>1 DEF Directive
    <2>. QED  BY <1>2, <1>7, <2>2
  <1>. QED  BY <1>8, <1>9, <1>10

\* What is kept: nothing before it can be the beginning of a token, of which the
\* rest is still to come.
LEMMA KeptFacts ==
    ASSUME NEW s \in Text, NEW k \in 1..(Len(s) + 1)
    PROVE  /\ KeptFrom(s, k) \in k..(Len(s) + 1)
           /\ StartOf(s, k) = 0 =>
                \A i \in k..(KeptFrom(s, k) - 1) : i + Len(Token) - 1 <= Len(s)
  <1>1. /\ Len(s) \in Nat /\ Len(Token) \in Nat \ {0} /\ Keep \in Nat /\ Keep >= Len(Token) - 1
        /\ k \in Nat
    BY TokenFacts DEF Text
  <1>2. CASE StartOf(s, k) = 0
    <2>1. PICK m : m = Len(s) - k + 1  OBVIOUS
    <2>2. m \in Nat /\ k + m = Len(s) + 1  BY <1>1, <2>1
    <2>3. KeptFrom(s, k) = k + Cut(m)  BY <1>2, <2>1 DEF KeptFrom
    <2>4. CASE m > Keep
      <3>1. KeptFrom(s, k) = k + (m - Keep)  BY <2>3, <2>4 DEF Cut
      <3>2. k + (m - Keep) = Len(s) + 1 - Keep /\ k + (m - Keep) \in k..(Len(s) + 1)
        BY <1>1, <2>2, <2>4
      <3>3. \A i \in k..((Len(s) + 1 - Keep) - 1) : i + Len(Token) - 1 <= Len(s)  BY <1>1
      <3>. QED  BY <3>1, <3>2, <3>3
    <2>5. CASE ~(m > Keep)
      <3>1. KeptFrom(s, k) = k  BY <1>1, <2>3, <2>5 DEF Cut
      <3>2. k \in k..(Len(s) + 1) /\ \A i \in k..(k - 1) : FALSE  BY <1>1
      <3>. QED  BY <3>1, <3>2
    <2>. QED  BY <2>4, <2>5
  <1>3. CASE StartOf(s, k) # 0
    <2>1. StartOf(s, k) \in k..Len(s)  BY <1>3, StartFacts
    <2>2. \A i \in k..Len(s) : i \in k..(Len(s) + 1)  BY <1>1
    <2>. QED  BY <1>3, <2>1, <2>2 DEF KeptFrom
  <1>. QED  BY <1>2, <1>3

LEMMA OnwardFacts ==
    ASSUME NEW s \in Text, NEW k \in 1..Len(s)
    PROVE  Onward(s, k) \in (k + 1)..(Len(s) + 1)
  <1>1. Len(s) \in Nat /\ Len(Token) \in Nat \ {0} /\ k \in 1..(Len(s) + 1)
    BY TokenFacts DEF Text
  <1>2. CASE Stops(s, k)  BY <1>1, <1>2 DEF Onward
  <1>3. CASE ~Stops(s, k)
    <2>1. PICK start : start = StartOf(s, k)  OBVIOUS
    <2>2. PICK end : end = QuoteOf(s, k)  OBVIOUS
    <2>3. start # 0 /\ end # 0  BY <1>3, <2>1, <2>2 DEF Stops
    <2>4. start \in k..Len(s)  BY <1>1, <2>1, <2>3, StartFacts
    <2>5. Directive(s, start, end)  BY <1>1, <2>1, <2>2, <2>3, QuoteFacts
    <2>6. end \in (start + Len(Token))..Len(s)  BY <2>5 DEF Directive
    <2>7. end + 1 \in (k + 1)..(Len(s) + 1)  BY <1>1, <2>4, <2>6
    <2>. QED  BY <1>3, <2>2, <2>7 DEF Onward
  <1>. QED  BY <1>2, <1>3

LEMMA ScansScanned ==
    ASSUME NEW s \in Text, NEW k \in 1..(Len(s) + 1), NEW v \in Scanned
    PROVE  Scans(s, k, v) \in Scanned
  <1>1. Len(s) \in Nat /\ Len(Token) \in Nat \ {0} /\ k \in Nat  BY TokenFacts DEF Text
  <1>2. v.plain \in Text /\ v.names \in Seq(Text) /\ v.buffer \in Text  BY DEF Scanned
  <1>3. CASE Stops(s, k)
    <2>1. PICK kept : kept = KeptFrom(s, k)  OBVIOUS
    <2>2. kept \in k..(Len(s) + 1)  BY <2>1, KeptFacts
    <2>3. kept \in 1..(Len(s) + 1) /\ kept - 1 \in (k - 1)..Len(s)  BY <1>1, <2>2
    <2>4. SubSeq(s, k, kept - 1) \in Text /\ From(s, kept) \in Text
      BY <2>3, PieceFacts, FromFacts DEF Text
    <2>5. <<>> \in Seq(Text)  OBVIOUS
    <2>. QED  BY <1>3, <2>1, <2>4, <2>5 DEF Scans, Scanned
  <1>4. CASE ~Stops(s, k)
    <2>1. PICK start : start = StartOf(s, k)  OBVIOUS
    <2>2. PICK end : end = QuoteOf(s, k)  OBVIOUS
    <2>3. start # 0 /\ end # 0  BY <1>4, <2>1, <2>2 DEF Stops
    <2>4. start \in k..Len(s)  BY <2>1, <2>3, StartFacts
    <2>5. end \in (start + Len(Token))..Len(s)
      BY <2>1, <2>2, <2>3, QuoteFacts DEF Directive
    <2>6. PICK name : name = start + Len(Token)  OBVIOUS
    <2>7. /\ start - 1 \in (k - 1)..Len(s)
          /\ name \in 1..(Len(s) + 1) /\ end - 1 \in (name - 1)..Len(s)
      BY <1>1, <2>4, <2>5, <2>6
    <2>8. SubSeq(s, k, start - 1) \in Text /\ SubSeq(s, name, end - 1) \in Text
      BY <2>7, PieceFacts DEF Text
    <2>9. SubSeq(s, k, start - 1) \o v.plain \in Text  BY <1>2, <2>8 DEF Text
    <2>10. PICK x \in Text : x = SubSeq(s, name, end - 1)  BY <2>8
    <2>11. <<x>> \o v.names \in Seq(Text)  BY <1>2
    <2>12. NameOf(s, k) = name  BY <2>1, <2>6 DEF NameOf
    <2>. QED  BY <1>2, <1>4, <2>1, <2>2, <2>9, <2>10, <2>11, <2>12 DEF Scans, Scanned
  <1>. QED  BY <1>3, <1>4

\* What the loop finds does not depend on what is behind the place where it stops.
LEMMA ScansOnward ==
    ASSUME NEW s, NEW k, NEW t
    PROVE  Scans(s, k, t[QuoteOf(s, k) + 1]) = Scans(s, k, t[Onward(s, k)])
  BY DEF Scans, Onward

\* The loop, place by place.
LEMMA ScanIs ==
    ASSUME NEW s \in Text
    PROVE  \E f \in [1..(Len(s) + 1) -> Scanned] :
             /\ Scan(s) = f[1]
             /\ \A k \in 1..(Len(s) + 1) : f[k] = Scans(s, k, f[Onward(s, k)])
  <1>. DEFINE Step(t) == [k \in 1..(Len(s) + 1) |-> Scans(s, k, t[QuoteOf(s, k) + 1])]
              f == CHOOSE t : t = Step(t)
  <1>1. PICK n \in Nat : n = Len(s)  BY DEF Text
  <1>2. Scan(s) = f[1]
    BY DEF Scan, Scans, Stops, KeptFrom, QuoteOf, NameOf, StartOf
  <1>. HIDE DEF Step, f
  <1>3. PICK J : J = [k \in 1..n |-> Onward(s, k)]  OBVIOUS
  <1>4. LeadsOn(J, n) /\ \A k \in 1..n : J[k] = Onward(s, k)
    <2>1. \A k \in 1..n : Onward(s, k) \in 1 .. n + 1 /\ Onward(s, k) > k
      BY <1>1, OnwardFacts
    <2>. QED  BY <1>3, <2>1 DEF LeadsOn
  <1>5. PICK A : A = [k \in 1..n |-> [v \in Scanned |-> Scans(s, k, v)]]  OBVIOUS
  <1>6. /\ A \in [1..n -> [Scanned -> Scanned]]
        /\ \A k \in 1..n : \A v \in Scanned : A[k][v] = Scans(s, k, v)
    <2>1. \A k \in 1..n : k \in 1..(Len(s) + 1)  BY <1>1
    <2>2. \A k \in 1..n : \A v \in Scanned : Scans(s, k, v) \in Scanned
      BY <2>1, ScansScanned
    <2>. QED  BY <1>5, <2>2
  <1>7. PICK c \in Scanned : \A v : Scans(s, n + 1, v) = c
    <2>1. n + 1 \in 1..(Len(s) + 1)  BY <1>1
    <2>2. Stops(s, n + 1)
      <3>1. StartOf(s, n + 1) \in (n + 1)..Len(s) \/ StartOf(s, n + 1) = 0  BY <2>1, StartFacts
      <3>2. ~(StartOf(s, n + 1) \in (n + 1)..Len(s))  BY <1>1
      <3>. QED  BY <3>1, <3>2 DEF Stops
    <2>3. PICK w : w = [plain |-> <<>>, names |-> <<>>, buffer |-> <<>>]  OBVIOUS
    <2>4. w \in Scanned  BY <2>3 DEF Scanned, Text
    <2>5. Scans(s, n + 1, w) \in Scanned  BY <2>1, <2>4, ScansScanned
    <2>6. \A v : Scans(s, n + 1, v) = Scans(s, n + 1, w)  BY <2>2 DEF Scans
    <2>. QED  BY <2>5, <2>6
  <1>8. PICK g : Jumps(g, Scanned, n, c, J, A)  BY <1>4, <1>6, <1>7, JumpRecursion
  <1>9. /\ g \in [1 .. n + 1 -> Scanned] /\ g[n + 1] = c
        /\ \A k \in 1..n : g[k] = Scans(s, k, g[Onward(s, k)])
    <2>1. g \in [1 .. n + 1 -> Scanned] /\ g[n + 1] = c /\ \A k \in 1..n : g[k] = A[k][g[J[k]]]
      BY <1>8 DEF Jumps
    <2>2. \A k \in 1..n : J[k] \in 1 .. n + 1  BY <1>4 DEF LeadsOn
    <2>3. \A k \in 1..n : g[J[k]] \in Scanned  BY <2>1, <2>2
    <2>. QED  BY <1>4, <1>6, <2>1, <2>3
  <1>10. \A k \in 1 .. n + 1 : k = n + 1 \/ k \in 1..n  OBVIOUS
  <1>11. g = Step(g)
    <2>1. \A k \in 1 .. n + 1 : g[k] = Scans(s, k, g[Onward(s, k)])  BY <1>7, <1>9, <1>10
    <2>2. \A k \in 1 .. n + 1 : g[k] = Scans(s, k, g[QuoteOf(s, k) + 1])
      BY <2>1, ScansOnward
    <2>. QED  BY <1>1, <1>9, <2>2 DEF Step
  <1>12. f = Step(f)
    <2>. DEFINE P(t) == t = Step(t)
    <2>1. P(g)  BY <1>11
    <2>. HIDE DEF P
    <2>2. P(CHOOSE t : P(t))  BY <2>1
    <2>. QED  BY <2>2 DEF P, f
  <1>13. \A k \in 1 .. n + 1 : f[k] = Scans(s, k, f[Onward(s, k)])
    <2>1. \A k \in 1 .. n + 1 : f[k] = Scans(s, k, f[QuoteOf(s, k) + 1])
      BY <1>1, <1>12 DEF Step
    <2>. QED  BY <2>1, ScansOnward
  <1>14. \A k \in 1 .. n + 1 : f[k] \in Scanned
    <2>1. PICK T : T = {k \in 1 .. n + 1 : f[k] \in Scanned}  OBVIOUS
    <2>2. ASSUME NEW k \in 1 .. n + 1, \A j \in (k + 1) .. n + 1 : j \in T PROVE k \in T
      <3>1. CASE k = n + 1  BY <1>7, <1>13, <2>1, <3>1
      <3>2. CASE k \in 1..n
        <4>1. Onward(s, k) \in (k + 1) .. n + 1 /\ k \in 1..(Len(s) + 1)
          BY <1>1, <3>2, OnwardFacts
        <4>2. f[Onward(s, k)] \in Scanned  BY <2>1, <2>2, <4>1
        <4>. QED  BY <1>13, <2>1, <4>1, <4>2, ScansScanned
      <3>. QED  BY <1>10, <3>1, <3>2
    <2>3. n + 1 \in Nat  OBVIOUS
    <2>4. \A k \in 1 .. n + 1 : k \in T  BY <2>2, <2>3, DownwardInduction
    <2>. QED  BY <2>1, <2>4
  <1>15. f \in [1 .. n + 1 -> Scanned]
    <2>1. f = [k \in 1 .. n + 1 |-> f[k]]
      <3>1. f = Step(f)  BY <1>12
      <3>. QED  BY <1>1, <3>1 DEF Step
    <2>. QED  BY <1>14, <2>1
  <1>. QED  BY <1>1, <1>2, <1>13, <1>15

-----------------------------------------------------------------------------
(* A scan of a buffer finds what a scan of all the text finds.             *)

LEMMA TextConcat ==
    ASSUME NEW s \in Text, NEW r \in Text
    PROVE  /\ s \o r \in Text /\ Len(s \o r) = Len(s) + Len(r)
           /\ Len(s) \in Nat /\ Len(r) \in Nat
           /\ \A i \in 1..Len(s) : (s \o r)[i] = s[i]
  <1>1. Len(s) \in Nat /\ Len(r) \in Nat  BY DEF Text
  <1>2. /\ s \o r \in Text /\ Len(s \o r) = Len(s) + Len(r)
        /\ \A i \in 1..(Len(s) + Len(r)) : (s \o r)[i] = IF i <= Len(s) THEN s[i] ELSE r[i - Len(s)]
    BY ConcatProperties DEF Text
  <1>3. \A i \in 1..Len(s) : i \in 1..(Len(s) + Len(r)) /\ i <= Len(s)  BY <1>1
  <1>. QED  BY <1>1, <1>2, <1>3

\* Pieces, tokens and directives of a text are still there when more text follows.
LEMMA PieceStays ==
    ASSUME NEW s \in Text, NEW r \in Text, NEW i \in 1..(Len(s) + 1), NEW j \in (i - 1)..Len(s)
    PROVE  SubSeq(s \o r, i, j) = SubSeq(s, i, j)
  <1>1. PICK t : t = s \o r  OBVIOUS
  <1>2. /\ t \in Text /\ Len(t) = Len(s) + Len(r) /\ Len(s) \in Nat /\ Len(r) \in Nat
        /\ \A k \in 1..Len(s) : t[k] = s[k]
    BY <1>1, TextConcat
  <1>3. i \in 1..(Len(t) + 1) /\ j \in (i - 1)..Len(t)  BY <1>2
  <1>4. PICK a : a = SubSeq(t, i, j)  OBVIOUS
  <1>5. PICK b : b = SubSeq(s, i, j)  OBVIOUS
  <1>6. /\ a \in Text /\ Len(a) = (j + 1) - i
        /\ \A k \in 1..((j + 1) - i) : a[k] = t[i + k - 1]
    BY <1>2, <1>3, <1>4, PieceFacts DEF Text
  <1>7. /\ b \in Text /\ Len(b) = (j + 1) - i
        /\ \A k \in 1..((j + 1) - i) : b[k] = s[i + k - 1]
    BY <1>5, PieceFacts DEF Text
  <1>8. \A k \in 1..((j + 1) - i) : i + k - 1 \in 1..Len(s)  BY <1>2
  <1>9. \A k \in 1..Len(a) : a[k] = b[k]  BY <1>2, <1>6, <1>7, <1>8
  <1>10. a = b  BY <1>6, <1>7, <1>9, SeqEqual DEF Text
  <1>. QED  BY <1>1, <1>4, <1>5, <1>10

LEMMA PartStays ==
    ASSUME NEW s \in Text, NEW r \in Text, NEW i \in 1..Len(s), i + Len(Token) - 1 <= Len(s)
    PROVE  PartAt(s \o r, Token, i) <=> PartAt(s, Token, i)
  <1>1. PICK t : t = s \o r  OBVIOUS
  <1>2. /\ Len(t) = Len(s) + Len(r) /\ Len(s) \in Nat /\ Len(r) \in Nat
        /\ \A k \in 1..Len(s) : t[k] = s[k]
    BY <1>1, TextConcat
  <1>3. Len(Token) \in Nat \ {0}  BY TokenFacts
  <1>4. \A j \in 1..Len(Token) : i + j - 1 \in 1..Len(s)  BY <1>2, <1>3
  <1>5. \A j \in 1..Len(Token) : t[i + j - 1] = s[i + j - 1]  BY <1>2, <1>4
  <1>6. i + Len(Token) - 1 <= Len(t)  BY <1>2, <1>3
  <1>. QED  BY <1>1, <1>5, <1>6 DEF PartAt

LEMMA DirectiveStays ==
    ASSUME NEW s \in Text, NEW r \in Text, NEW i \in 1..Len(s), NEW e, Directive(s, i, e)
    PROVE  Directive(s \o r, i, e)
  <1>1. PICK t : t = s \o r  OBVIOUS
  <1>2. /\ Len(t) = Len(s) + Len(r) /\ Len(s) \in Nat /\ Len(r) \in Nat
        /\ \A k \in 1..Len(s) : t[k] = s[k]
    BY <1>1, TextConcat
  <1>3. Len(Token) \in Nat \ {0}  BY TokenFacts
  <1>4. /\ PartAt(s, Token, i) /\ i + Len(Token) - 1 <= Len(s)
        /\ e \in (i + Len(Token))..Len(s) /\ s[e] = Quote
        /\ \A k \in (i + Len(Token))..(e - 1) : s[k] # Quote
    BY DEF Directive, PartAt
  <1>5. PartAt(t, Token, i)  BY <1>1, <1>4, PartStays
  <1>6. e \in (i + Len(Token))..Len(t) /\ e \in 1..Len(s)  BY <1>2, <1>3, <1>4
  <1>7. \A k \in (i + Len(Token))..(e - 1) : k \in 1..Len(s)  BY <1>2, <1>3, <1>4
  <1>. QED  BY <1>1, <1>2, <1>4, <1>5, <1>6, <1>7 DEF Directive

\* Where the loop stops, no directive begins between k and what is kept, whatever
\* follows; and what is kept has no whole one.
LEMMA StopFacts ==
    ASSUME NEW s \in Text, NEW r \in Text, NEW k \in 1..(Len(s) + 1), Stops(s, k)
    PROVE  /\ \A i \in k..(KeptFrom(s, k) - 1) : ~DirectiveAt(s \o r, i)
           /\ \A i \in KeptFrom(s, k)..Len(s) : ~DirectiveAt(s, i)
  <1>1. /\ Len(s) \in Nat /\ Len(r) \in Nat /\ Len(Token) \in Nat \ {0}
        /\ s \o r \in Text /\ Len(s \o r) = Len(s) + Len(r)
    BY TextConcat, TokenFacts
  <1>2. PICK start : start = StartOf(s, k)  OBVIOUS
  <1>3. PICK kept : kept = KeptFrom(s, k)  OBVIOUS
  <1>4. kept \in k..(Len(s) + 1)  BY <1>3, KeptFacts
  <1>5. /\ start = 0 => \A i \in k..Len(s) : ~PartAt(s, Token, i)
        /\ start # 0 => /\ start \in k..Len(s) /\ PartAt(s, Token, start) /\ kept = start
                        /\ \A i \in k..(start - 1) : ~PartAt(s, Token, i)
    BY <1>2, <1>3, StartFacts DEF KeptFrom
  <1>6. ASSUME NEW i \in k..(kept - 1) PROVE ~DirectiveAt(s \o r, i)
    <2>. SUFFICES ASSUME DirectiveAt(s \o r, i) PROVE FALSE  OBVIOUS
    <2>1. i \in 1..Len(s) /\ i \in k..Len(s) /\ i \in 1..Len(s \o r)  BY <1>1, <1>4
    <2>2. PartAt(s \o r, Token, i)  BY <1>1, <2>1, DirectiveFacts DEF Directive
    <2>3. i + Len(Token) - 1 <= Len(s)
      <3>1. CASE start = 0  BY <1>2, <1>3, <3>1, KeptFacts
      <3>2. CASE start # 0
        <4>1. start + Len(Token) - 1 <= Len(s)  BY <1>5, <3>2 DEF PartAt
        <4>. QED  BY <1>1, <1>5, <2>1, <3>2, <4>1
      <3>. QED  BY <3>1, <3>2
    <2>4. PartAt(s, Token, i)  BY <2>1, <2>2, <2>3, PartStays
    <2>. QED  BY <1>5, <2>1, <2>4
  <1>7. ASSUME NEW i \in kept..Len(s) PROVE ~DirectiveAt(s, i)
    <2>. SUFFICES ASSUME DirectiveAt(s, i) PROVE FALSE  OBVIOUS
    <2>1. i \in 1..Len(s) /\ i \in k..Len(s)  BY <1>1, <1>4
    <2>2. PICK e : Directive(s, i, e)  BY <2>1, DirectiveFacts
    <2>3. PartAt(s, Token, i)  BY <2>2 DEF Directive
    <2>4. start # 0  BY <1>5, <2>1, <2>3
    <2>5. \A m \in (start + Len(Token))..Len(s) : s[m] # Quote
      <3>1. QuoteOf(s, k) = 0  BY <1>2, <2>4 DEF Stops
      <3>2. ~Directive(s, start, 0)
        <4>1. ~(0 \in (start + Len(Token))..Len(s))  BY <1>1, <1>5, <2>4
        <4>. QED  BY <4>1 DEF Directive
      <3>. QED  BY <1>2, <2>4, <3>1, <3>2, QuoteFacts DEF NameOf
    <2>6. CASE i = start  BY <2>2, <2>5, <2>6 DEF Directive
    <2>7. CASE i # start
      <3>1. i + Len(Token) - 1 \in (start + Len(Token))..Len(s) /\ Len(Token) \in 1..Len(Token)
        BY <1>1, <1>5, <2>1, <2>3, <2>4, <2>7 DEF PartAt
      <3>2. s[i + Len(Token) - 1] = Quote  BY <2>3, <3>1, TokenFacts DEF PartAt
      <3>. QED  BY <2>5, <3>1, <3>2
    <2>. QED  BY <2>6, <2>7
  <1>. QED  BY <1>3, <1>6, <1>7

\* Where it goes on, the first directive is the one it has found.
LEMMA OnwardReads ==
    ASSUME NEW s \in Text, NEW r \in Text, NEW k \in 1..(Len(s) + 1), ~Stops(s, k)
    PROVE  /\ Onward(s, k) \in (k + 1)..(Len(s) + 1) /\ k \in 1..Len(s)
           /\ SubSeq(s, k, StartOf(s, k) - 1) \in Text
           /\ SubSeq(s, NameOf(s, k), QuoteOf(s, k) - 1) \in Text
           /\ Reading(s \o r)[k].plain =
                SubSeq(s, k, StartOf(s, k) - 1) \o Reading(s \o r)[Onward(s, k)].plain
           /\ Reading(s \o r)[k].names =
                <<SubSeq(s, NameOf(s, k), QuoteOf(s, k) - 1)>> \o Reading(s \o r)[Onward(s, k)].names
  <1>1. /\ Len(s) \in Nat /\ Len(r) \in Nat /\ Len(Token) \in Nat \ {0}
    BY TextConcat, TokenFacts
  <1>t. PICK t \in Text : t = s \o r /\ Len(t) = Len(s) + Len(r)  BY TextConcat
  <1>2. PICK start : start = StartOf(s, k)  OBVIOUS
  <1>3. PICK end : end = QuoteOf(s, k)  OBVIOUS
  <1>4. PICK name : name = start + Len(Token)  OBVIOUS
  <1>5. start # 0 /\ end # 0 /\ name = NameOf(s, k) /\ Onward(s, k) = end + 1
    BY <1>2, <1>3, <1>4 DEF Stops, NameOf, Onward
  <1>6. /\ start \in k..Len(s) /\ PartAt(s, Token, start)
        /\ \A i \in k..(start - 1) : ~PartAt(s, Token, i)
    BY <1>2, <1>5, StartFacts
  <1>7. Directive(s, start, end)
    <2>1. ~(QuoteOf(s, k) = 0)  BY <1>3, <1>5
    <2>. QED  BY <1>2, <1>3, <1>5, <2>1, QuoteFacts
  <1>8. end \in name..Len(s) /\ start + Len(Token) - 1 <= Len(s)
    BY <1>4, <1>6, <1>7 DEF Directive, PartAt
  <1>9. /\ k \in 1..Len(s) /\ end + 1 \in (k + 1)..(Len(s) + 1)
        /\ start \in 1..Len(s) /\ start \in 1..Len(t) /\ start \in k..(Len(t) + 1)
        /\ k \in 1..(Len(t) + 1)
        /\ start - 1 \in (k - 1)..Len(s)
        /\ name \in 1..(Len(s) + 1) /\ end - 1 \in (name - 1)..Len(s)
    BY <1>1, <1>t, <1>4, <1>6, <1>8
  <1>10. DirectiveAt(t, start) /\ EndOf(t, start) = end
    <2>1. Directive(t, start, end)  BY <1>t, <1>7, <1>9, DirectiveStays
    <2>. QED  BY <1>9, <2>1, DirectiveFacts
  <1>11. ASSUME NEW i \in k..(start - 1) PROVE ~DirectiveAt(t, i)
    <2>. SUFFICES ASSUME DirectiveAt(t, i) PROVE FALSE  OBVIOUS
    <2>1. i \in 1..Len(s) /\ i \in 1..Len(t) /\ i + Len(Token) - 1 <= Len(s)
      BY <1>1, <1>t, <1>8, <1>9
    <2>2. PartAt(t, Token, i)  BY <2>1, DirectiveFacts DEF Directive
    <2>3. PartAt(s, Token, i)  BY <1>t, <2>1, <2>2, PartStays
    <2>. QED  BY <1>6, <2>3
  <1>12. /\ Reading(t)[k].plain = SubSeq(t, k, start - 1) \o Reading(t)[start].plain
         /\ Reading(t)[k].names = Reading(t)[start].names
    BY <1>9, <1>11, Skips
  <1>13. /\ Reading(t)[start].plain = Reading(t)[end + 1].plain
         /\ Reading(t)[start].names = <<SubSeq(t, name, end - 1)>> \o Reading(t)[end + 1].names
    <2>1. After(t, start) = end + 1  BY <1>10 DEF After
    <2>2. Reading(t)[start] = Reads(t, start, Reading(t)[end + 1])
      BY <1>9, <2>1, ReadingStep
    <2>. QED  BY <1>4, <1>10, <2>2 DEF Reads
  <1>14. SubSeq(t, k, start - 1) = SubSeq(s, k, start - 1)  BY <1>t, <1>9, PieceStays
  <1>15. SubSeq(t, name, end - 1) = SubSeq(s, name, end - 1)  BY <1>t, <1>9, PieceStays
  <1>16. SubSeq(s, k, start - 1) \in Text /\ SubSeq(s, name, end - 1) \in Text
    BY <1>9, PieceFacts DEF Text
  <1>. QED
    BY <1>t, <1>2, <1>3, <1>5, <1>9, <1>12, <1>13, <1>14, <1>15, <1>16

\* What the loop has found, v, is what a scan of all the text finds between k and the
\* place rest where the buffer begins, and no whole directive is in the buffer.
Agrees(s, r, k, v, rest) ==
    /\ rest \in k..(Len(s) + 1) /\ v.buffer = From(s, rest)
    /\ Reading(s \o r)[k].plain = v.plain \o Reading(s \o r)[rest].plain
    /\ Reading(s \o r)[k].names = v.names \o Reading(s \o r)[rest].names
    /\ \A i \in rest..Len(s) : ~DirectiveAt(s, i)

LEMMA RestFacts ==
    ASSUME NEW s \in Text, NEW r \in Text, NEW i \in 1..(Len(s) + 1)
    PROVE  /\ i \in 1..(Len(s \o r) + 1)
           /\ Reading(s \o r)[i].plain \in Text /\ Reading(s \o r)[i].names \in Seq(Text)
  <1>1. PICK t : t = s \o r  OBVIOUS
  <1>2. t \in Text /\ Len(t) = Len(s) + Len(r) /\ Len(s) \in Nat /\ Len(r) \in Nat
    BY <1>1, TextConcat
  <1>3. i \in 1..(Len(t) + 1)  BY <1>2
  <1>4. Reading(t)[i] \in Found  BY <1>2, <1>3, ReadingIs
  <1>. QED  BY <1>1, <1>3, <1>4 DEF Found

LEMMA StopAgrees ==
    ASSUME NEW s \in Text, NEW r \in Text, NEW k \in 1..(Len(s) + 1), Stops(s, k), NEW v
    PROVE  Agrees(s, r, k, Scans(s, k, v), KeptFrom(s, k))
  <1>1. PICK kept : kept = KeptFrom(s, k)  OBVIOUS
  <1>2. PICK t : t = s \o r  OBVIOUS
  <1>3. t \in Text /\ Len(t) = Len(s) + Len(r) /\ Len(s) \in Nat /\ Len(r) \in Nat
    BY <1>2, TextConcat
  <1>4. kept \in k..(Len(s) + 1)  BY <1>1, KeptFacts
  <1>5. /\ k \in 1..(Len(t) + 1) /\ kept \in k..(Len(t) + 1)
        /\ kept \in 1..(Len(s) + 1) /\ kept - 1 \in (k - 1)..Len(s)
    BY <1>3, <1>4
  <1>6. /\ \A i \in k..(kept - 1) : ~DirectiveAt(t, i)
        /\ \A i \in kept..Len(s) : ~DirectiveAt(s, i)
    BY <1>1, <1>2, StopFacts
  <1>7. /\ Reading(t)[k].plain = SubSeq(t, k, kept - 1) \o Reading(t)[kept].plain
        /\ Reading(t)[k].names = Reading(t)[kept].names
    BY <1>3, <1>5, <1>6, Skips
  <1>8. SubSeq(t, k, kept - 1) = SubSeq(s, k, kept - 1)  BY <1>2, <1>5, PieceStays
  <1>9. Reading(t)[kept].names = <<>> \o Reading(t)[kept].names
    <2>1. Reading(t)[kept].names \in Seq(Text)  BY <1>2, <1>5, RestFacts
    <2>. QED  BY <2>1, ConcatEmptySeq
  <1>10. PICK w : w = Scans(s, k, v)  OBVIOUS
  <1>11. w.plain = SubSeq(s, k, kept - 1) /\ w.names = <<>> /\ w.buffer = From(s, kept)
    BY <1>1, <1>10 DEF Scans
  <1>12. Agrees(s, r, k, w, kept)
    BY <1>2, <1>4, <1>6, <1>7, <1>8, <1>9, <1>11 DEF Agrees
  <1>. QED  BY <1>1, <1>10, <1>12

LEMMA OnwardAgrees ==
    ASSUME NEW s \in Text, NEW r \in Text, NEW k \in 1..(Len(s) + 1), ~Stops(s, k),
           NEW v \in Scanned, NEW rest, Agrees(s, r, Onward(s, k), v, rest)
    PROVE  Agrees(s, r, k, Scans(s, k, v), rest)
  <1>1. PICK on : on = Onward(s, k)  OBVIOUS
  <1>2. PICK a : a = SubSeq(s, k, StartOf(s, k) - 1)  OBVIOUS
  <1>3. PICK x : x = SubSeq(s, NameOf(s, k), QuoteOf(s, k) - 1)  OBVIOUS
  <1>4. PICK R : R = Reading(s \o r)  OBVIOUS
  <1>5. /\ on \in (k + 1)..(Len(s) + 1) /\ k \in 1..Len(s) /\ a \in Text /\ x \in Text
        /\ R[k].plain = a \o R[on].plain /\ R[k].names = <<x>> \o R[on].names
    BY <1>1, <1>2, <1>3, <1>4, OnwardReads
  <1>6. Len(s) \in Nat /\ Len(r) \in Nat  BY TextConcat
  <1>7. /\ rest \in on..(Len(s) + 1) /\ v.buffer = From(s, rest)
        /\ R[on].plain = v.plain \o R[rest].plain
        /\ R[on].names = v.names \o R[rest].names
        /\ \A i \in rest..Len(s) : ~DirectiveAt(s, i)
    BY <1>1, <1>4 DEF Agrees
  <1>8. rest \in k..(Len(s) + 1) /\ rest \in 1..(Len(s) + 1)  BY <1>5, <1>6, <1>7
  <1>9. R[rest].plain \in Text /\ R[rest].names \in Seq(Text)  BY <1>4, <1>8, RestFacts
  <1>10. v.plain \in Text /\ v.names \in Seq(Text)  BY DEF Scanned
  <1>11. R[k].plain = (a \o v.plain) \o R[rest].plain
    <2>1. PICK p \in Text : p = v.plain  BY <1>10
    <2>2. PICK q \in Text : q = R[rest].plain  BY <1>9
    <2>3. PICK o \in Text : o = a  BY <1>5
    <2>4. o \o (p \o q) = (o \o p) \o q  BY TextRegroup
    <2>. QED  BY <1>5, <1>7, <2>1, <2>2, <2>3, <2>4
  <1>12. R[k].names = (<<x>> \o v.names) \o R[rest].names
    <2>1. <<x>> \in Seq(Text)  BY <1>5
    <2>2. PICK X \in Seq(Text) : X = <<x>>  BY <2>1
    <2>3. PICK N \in Seq(Text) : N = v.names  BY <1>10
    <2>4. PICK Z \in Seq(Text) : Z = R[rest].names  BY <1>9
    <2>5. X \o (N \o Z) = (X \o N) \o Z  BY Regroup
    <2>. QED  BY <1>5, <1>7, <2>2, <2>3, <2>4, <2>5
  <1>13. PICK w : w = Scans(s, k, v)  OBVIOUS
  <1>14. w.plain = a \o v.plain /\ w.names = <<x>> \o v.names /\ w.buffer = v.buffer
    BY <1>2, <1>3, <1>13 DEF Scans
  <1>15. Agrees(s, r, k, w, rest)
    BY <1>4, <1>7, <1>8, <1>11, <1>12, <1>14 DEF Agrees
  <1>. QED  BY <1>13, <1>15

LEMMA ScanAgrees ==
    ASSUME NEW s \in Text, NEW r \in Text
    PROVE  Scan(s) \in Scanned /\ \E rest : Agrees(s, r, 1, Scan(s), rest)
  <1>1. PICK n \in Nat : n = Len(s)  BY DEF Text
  <1>2. PICK f \in [1 .. n + 1 -> Scanned] :
          Scan(s) = f[1] /\ \A k \in 1 .. n + 1 : f[k] = Scans(s, k, f[Onward(s, k)])
    BY <1>1, ScanIs
  <1>3. PICK S : S = {k \in 1 .. n + 1 : \E rest : Agrees(s, r, k, f[k], rest)}  OBVIOUS
  <1>4. ASSUME NEW k \in 1 .. n + 1, \A j \in (k + 1) .. n + 1 : j \in S PROVE k \in S
    <2>1. f[k] = Scans(s, k, f[Onward(s, k)])  BY <1>2
    <2>2. CASE Stops(s, k)
      <3>1. Agrees(s, r, k, f[k], KeptFrom(s, k))  BY <1>1, <2>1, <2>2, StopAgrees
      <3>. QED  BY <1>3, <3>1
    <2>3. CASE ~Stops(s, k)
      <3>1. Onward(s, k) \in (k + 1) .. n + 1  BY <1>1, <2>3, OnwardReads
      <3>2. PICK rest : Agrees(s, r, Onward(s, k), f[Onward(s, k)], rest)
        BY <1>3, <1>4, <3>1
      <3>3. f[Onward(s, k)] \in Scanned
        <4>1. Onward(s, k) \in 1 .. n + 1  BY <1>1, <3>1
        <4>. QED  BY <1>2, <4>1
      <3>4. Agrees(s, r, k, f[k], rest)
        BY <1>1, <2>1, <2>3, <3>2, <3>3, OnwardAgrees
      <3>. QED  BY <1>3, <3>4
    <2>. QED  BY <2>2, <2>3
  <1>5. \A k \in 1 .. n + 1 : k \in S
    <2>1. n + 1 \in Nat  OBVIOUS
    <2>. QED  BY <1>4, <2>1, DownwardInduction
  <1>6. 1 \in 1 .. n + 1  OBVIOUS
  <1>. QED  BY <1>2, <1>3, <1>5, <1>6

\* The scan of a buffer and, later, of what it keeps with what follows, finds what a
\* scan of both together finds.
LEMMA ScanSplits ==
    ASSUME NEW s \in Text, NEW r \in Text
    PROVE  /\ Stripped(s \o r) = Scan(s).plain \o Stripped(Scan(s).buffer \o r)
           /\ NamesIn(s \o r) = Scan(s).names \o NamesIn(Scan(s).buffer \o r)
           /\ Len(Scan(s).buffer) <= Len(s)
  <1>1. PICK v \in Scanned : v = Scan(s)  BY ScanAgrees
  <1>2. PICK rest : Agrees(s, r, 1, v, rest)  BY <1>1, ScanAgrees
  <1>3. /\ rest \in 1..(Len(s) + 1) /\ v.buffer = From(s, rest)
        /\ Reading(s \o r)[1].plain = v.plain \o Reading(s \o r)[rest].plain
        /\ Reading(s \o r)[1].names = v.names \o Reading(s \o r)[rest].names
    BY <1>2 DEF Agrees
  <1>4. v.buffer \o r = From(s \o r, rest)  BY <1>3, FromConcat
  <1>5. rest \in 1..(Len(s \o r) + 1) /\ s \o r \in Text  BY <1>3, RestFacts, TextConcat
  <1>6. /\ Stripped(v.buffer \o r) = Reading(s \o r)[rest].plain
        /\ NamesIn(v.buffer \o r) = Reading(s \o r)[rest].names
    BY <1>4, <1>5, ReadingOfRest
  <1>7. Len(v.buffer) <= Len(s)
    <2>1. Len(v.buffer) = (Len(s) + 1) - rest  BY <1>3, FromFacts
    <2>2. Len(s) \in Nat  BY DEF Text
    <2>. QED  BY <1>3, <2>1, <2>2
  <1>. QED  BY <1>1, <1>3, <1>6, <1>7 DEF Stripped, NamesIn

\* What a scan keeps has no whole directive.
LEMMA KeptIsPlain ==
    ASSUME NEW s \in Text
    PROVE  Stripped(Scan(s).buffer) = Scan(s).buffer /\ NamesIn(Scan(s).buffer) = <<>>
  <1>1. PICK v \in Scanned : v = Scan(s)
    <2>1. <<>> \in Text  BY DEF Text
    <2>. QED  BY <2>1, ScanAgrees
  <1>2. <<>> \in Text /\ Len(s) \in Nat  BY DEF Text
  <1>3. PICK rest : Agrees(s, <<>>, 1, v, rest)  BY <1>1, <1>2, ScanAgrees
  <1>4. /\ rest \in 1..(Len(s) + 1) /\ v.buffer = From(s, rest)
        /\ \A i \in rest..Len(s) : ~DirectiveAt(s, i)
    BY <1>3 DEF Agrees
  <1>5. PICK m : m = Len(s) + 1  OBVIOUS
  <1>6. m \in rest..(Len(s) + 1) /\ m - 1 = Len(s)  BY <1>2, <1>4, <1>5
  <1>7. /\ Reading(s)[rest].plain = SubSeq(s, rest, m - 1) \o Reading(s)[m].plain
        /\ Reading(s)[rest].names = Reading(s)[m].names
    BY <1>4, <1>6, Skips
  <1>8. Reading(s)[m].plain = <<>> /\ Reading(s)[m].names = <<>>
    BY <1>5, ReadingIs DEF Nothing
  <1>9. SubSeq(s, rest, m - 1) = From(s, rest) /\ From(s, rest) \in Text
    BY <1>4, <1>6, FromFacts DEF From
  <1>10. From(s, rest) \o <<>> = From(s, rest)  BY <1>9, ConcatEmptySeq DEF Text
  <1>11. Stripped(From(s, rest)) = From(s, rest) /\ NamesIn(From(s, rest)) = <<>>
    BY <1>4, <1>7, <1>8, <1>9, <1>10, ReadingOfRest
  <1>. QED  BY <1>1, <1>4, <1>11

-----------------------------------------------------------------------------
(* The joined files.                                                       *)

Line == Characters \cup {Separator}
Output == Seq(Line)

LEMMA TextIsOutput == Text \subseteq Output /\ <<Separator>> \in Output /\ <<>> \in Output
  <1>1. Characters \subseteq Line /\ Separator \in Line  BY DEF Line
  <1>2. Text \subseteq Output  BY <1>1, SeqMonotonic DEF Text, Output
  <1>. QED  BY <1>1, <1>2 DEF Output

LEMMA StrippedType ==
    ASSUME NEW s \in Text
    PROVE  Stripped(s) \in Text /\ NamesIn(s) \in Seq(Text)
  <1>1. 1 \in 1..(Len(s) + 1)
    <2>1. Len(s) \in Nat  BY DEF Text
    <2>. QED  BY <2>1
  <1>2. Reading(s)[1] \in Found  BY <1>1, ReadingIs
  <1>. QED  BY <1>2 DEF Found, Stripped, NamesIn

\* What a name adds to the output, with files d.
Part(d, name) ==
    IF name \in DOMAIN d THEN Stripped(d[name]) \o <<Separator>> ELSE <<>>

\* Joined, of the files d.
JoinedOf(d, names) ==
    LET f[i \in 0..Len(names)] == IF i = 0 THEN <<>> ELSE f[i - 1] \o Part(d, names[i])
    IN  f[Len(names)]

\* f is a function of what the first n names join to.
JoinsUp(f, d, names, n) ==
    f[0] = <<>> /\ \A k \in 1..n : f[k] = f[k - 1] \o Part(d, names[k])

\* The files of d are texts.
Files(d) == \A name \in DOMAIN d : d[name] \in Text

LEMMA PartType ==
    ASSUME NEW d, Files(d), NEW name
    PROVE  Part(d, name) \in Output
  <1>1. CASE name \in DOMAIN d
    <2>1. PICK t \in Text : t = d[name]  BY <1>1 DEF Files
    <2>2. PICK u \in Output : u = Stripped(t)  BY StrippedType, TextIsOutput
    <2>3. PICK w \in Output : w = <<Separator>>  BY TextIsOutput
    <2>4. u \o w \in Output  BY DEF Output
    <2>. QED  BY <1>1, <2>1, <2>2, <2>3, <2>4 DEF Part
  <1>2. CASE name \notin DOMAIN d  BY <1>2, TextIsOutput DEF Part
  <1>. QED  BY <1>1, <1>2

\* Any two of them are equal.
LEMMA JoinsUnique ==
    ASSUME NEW d, NEW names, NEW n \in Nat, NEW f, NEW g,
           JoinsUp(f, d, names, n), JoinsUp(g, d, names, n)
    PROVE  f[n] = g[n]
  <1>1. PICK S : S = {k \in 0..n : f[k] = g[k]}  OBVIOUS
  <1>2. 0 \in S  BY <1>1 DEF JoinsUp
  <1>3. ASSUME NEW k \in 0 .. n - 1, k \in S PROVE k + 1 \in S
    <2>1. k + 1 \in 1..n /\ k + 1 \in 0..n /\ (k + 1) - 1 = k  OBVIOUS
    <2>. QED  BY <1>1, <1>3, <2>1 DEF JoinsUp
  <1>4. n \in 0..n /\ \A k \in 0..n : k \in S  BY <1>2, <1>3, IntervalInduction
  <1>. QED  BY <1>1, <1>4

LEMMA JoinsUpIs ==
    ASSUME NEW d, Files(d), NEW names, Len(names) \in Nat
    PROVE  \E f \in [0..Len(names) -> Output] :
              JoinsUp(f, d, names, Len(names)) /\ JoinedOf(d, names) = f[Len(names)]
  <1>. DEFINE Step(t) == [i \in 0..Len(names) |->
                            IF i = 0 THEN <<>> ELSE t[i - 1] \o Part(d, names[i])]
              f == CHOOSE t : t = Step(t)
  <1>1. PICK n \in Nat : n = Len(names)  OBVIOUS
  <1>2. JoinedOf(d, names) = f[n]  BY <1>1 DEF JoinedOf
  <1>. HIDE DEF Step, f
  <1>3. PICK G : G = [k \in 1..n |-> [o \in Output |-> o \o Part(d, names[k])]]  OBVIOUS
  <1>4. /\ G \in [1..n -> [Output -> Output]]
        /\ \A k \in 1..n : \A o \in Output : G[k][o] = o \o Part(d, names[k])
    <2>1. \A k \in 1..n : \A o \in Output : o \o Part(d, names[k]) \in Output
      <3>1. ASSUME NEW o \in Output, NEW p \in Output PROVE o \o p \in Output  BY DEF Output
      <3>. QED  BY <3>1, PartType
    <2>. QED  BY <1>3, <2>1
  <1>5. PICK c \in Output : c = <<>>  BY TextIsOutput
  <1>6. PICK g : Recurses(g, Output, n, c, G)  BY <1>4, Recursion
  <1>7. /\ g \in [0..n -> Output] /\ g[0] = <<>>
        /\ \A k \in 1..n : g[k] = g[k - 1] \o Part(d, names[k])
    <2>1. /\ g \in [0..n -> Output] /\ g[0] = c /\ \A k \in 1..n : g[k] = G[k][g[k - 1]]
      BY <1>6 DEF Recurses
    <2>2. \A k \in 1..n : k - 1 \in 0..n  OBVIOUS
    <2>3. \A k \in 1..n : g[k - 1] \in Output  BY <2>1, <2>2
    <2>. QED  BY <1>4, <1>5, <2>1, <2>3
  <1>8. g = Step(g)
    <2>1. \A k \in 0..n : k = 0 \/ (k # 0 /\ k \in 1..n)  OBVIOUS
    <2>2. \A k \in 0..n : g[k] = IF k = 0 THEN <<>> ELSE g[k - 1] \o Part(d, names[k])
      BY <1>7, <2>1
    <2>. QED  BY <1>1, <1>7, <2>2 DEF Step
  <1>9. f = Step(f)
    <2>. DEFINE P(t) == t = Step(t)
    <2>1. P(g)  BY <1>8
    <2>. HIDE DEF P
    <2>2. P(CHOOSE t : P(t))  BY <2>1
    <2>. QED  BY <2>2 DEF P, f
  <1>10. JoinsUp(f, d, names, n)
    <2>1. \A k \in 0..n : f[k] = IF k = 0 THEN <<>> ELSE f[k - 1] \o Part(d, names[k])
      BY <1>1, <1>9 DEF Step
    <2>2. 0 \in 0..n /\ \A k \in 1..n : k \in 0..n /\ k # 0  OBVIOUS
    <2>. QED  BY <2>1, <2>2 DEF JoinsUp
  <1>11. JoinsUp(g, d, names, n)  BY <1>7 DEF JoinsUp
  <1>12. f[n] = g[n]  BY <1>10, <1>11, JoinsUnique
  <1>. QED  BY <1>1, <1>2, <1>7, <1>11, <1>12

\* One name after the other: what the first n names join to.
LEMMA JoinedFacts ==
    ASSUME NEW d, Files(d), NEW names \in Seq(Text)
    PROVE  /\ JoinedOf(d, SubSeq(names, 1, 0)) = <<>>
           /\ \A n \in 1..Len(names) :
                /\ JoinedOf(d, SubSeq(names, 1, n - 1)) \in Output
                /\ JoinedOf(d, SubSeq(names, 1, n))
                     = JoinedOf(d, SubSeq(names, 1, n - 1)) \o Part(d, names[n])
  <1>0. Len(names) \in Nat  OBVIOUS
  <1>1. PICK f \in [0..Len(names) -> Output] : JoinsUp(f, d, names, Len(names))
    BY <1>0, JoinsUpIs
  <1>2. ASSUME NEW m \in 0..Len(names) PROVE JoinedOf(d, SubSeq(names, 1, m)) = f[m]
    <2>1. PICK t : t = SubSeq(names, 1, m)  OBVIOUS
    <2>2. t \in Seq(Text) /\ Len(t) = m /\ \A k \in 1..m : t[k] = names[k]  BY <2>1
    <2>3. PICK g : JoinsUp(g, d, t, m) /\ JoinedOf(d, t) = g[m]  BY <1>0, <2>2, JoinsUpIs
    <2>4. JoinsUp(f, d, t, m)
      <3>1. \A k \in 1..m : k \in 1..Len(names)  BY <1>0
      <3>. QED  BY <1>1, <2>2, <3>1 DEF JoinsUp
    <2>5. m \in Nat  BY <1>0
    <2>6. g[m] = f[m]  BY <2>3, <2>4, <2>5, JoinsUnique
    <2>. QED  BY <2>1, <2>3, <2>6
  <1>3. 0 \in 0..Len(names) /\ \A n \in 1..Len(names) : n \in 0..Len(names) /\ n - 1 \in 0..Len(names)
    BY <1>0
  <1>4. f[0] = <<>> /\ \A n \in 1..Len(names) : f[n] = f[n - 1] \o Part(d, names[n])
    BY <1>1 DEF JoinsUp
  <1>5. \A n \in 1..Len(names) : f[n - 1] \in Output  BY <1>1, <1>3
  <1>. QED  BY <1>2, <1>3, <1>4, <1>5

-----------------------------------------------------------------------------
(* The inductive invariant.                                                *)

Types ==
    /\ stage \in {"open", "collect", "next", "copy", "end"}
    /\ input \in Text /\ Files(disk) /\ chunk \in Nat \ {0}
    /\ text \in Text /\ pos \in 0..Len(text)
    /\ buffer \in Text /\ Len(buffer) <= pos
    /\ includes \in Seq(Text) /\ next \in 1..(Len(includes) + 1)
    /\ output = Old \/ output \in Output

\* What the files copied so far join to.
Done == JoinedOf(disk, SubSeq(includes, 1, next - 1))

\* At every stage the part done and the part still to scan make up the whole.
Progress ==
    /\ stage = "open" => output = Old /\ includes = <<>> /\ next = 1
    /\ stage = "collect" => /\ text = input /\ next = 1 /\ output = <<>>
                            /\ includes \o NamesIn(Unread) = NamesIn(input)
    /\ stage \in {"next", "copy"} => includes = NamesIn(input) /\ output \in Output
    /\ stage = "next" => output = Done /\ buffer = <<>> /\ pos = Len(text)
    /\ stage = "copy" => /\ next > 1
                         /\ output \o Stripped(Unread) \o <<Separator>> = Done
    /\ stage = "end" => \/ output = JoinedOf(disk, NamesIn(input))
                        \/ output \in {Old, <<>>} /\ includes = <<>>

IInv == Types /\ Progress

\* A chunk that is read moves from what is behind pos to the buffer's end.
LEMMA ReadFacts ==
    ASSUME Types, MoreToRead
    PROVE  /\ pos + ReadSize \in 0..Len(text) /\ Appended \in Text
           /\ Len(Appended) = Len(buffer) + ReadSize /\ ReadSize \in Nat
           /\ From(text, (pos + ReadSize) + 1) \in Text
           /\ Unread = Appended \o From(text, (pos + ReadSize) + 1)
  <1>1. /\ text \in Text /\ buffer \in Text /\ Len(text) \in Nat /\ pos \in Nat /\ chunk \in Nat
        /\ pos < Len(text)
    BY DEF Types, Text, MoreToRead
  <1>2. PICK n : n = ReadSize  OBVIOUS
  <1>3. n \in Nat /\ pos + n \in 0..Len(text)  BY <1>1, <1>2 DEF ReadSize
  <1>4. /\ pos + 1 \in 1..(Len(text) + 1) /\ pos + n \in ((pos + 1) - 1)..Len(text)
        /\ (pos + n) + 1 \in 1..(Len(text) + 1) /\ Len(text) \in (pos + n)..Len(text)
        /\ ((pos + n) + 1) - (pos + 1) = n
    BY <1>1, <1>3
  <1>5. PICK a \in Text : a = SubSeq(text, pos + 1, pos + n) /\ Len(a) = n
    <2>1. PICK i : i = pos + 1  OBVIOUS
    <2>2. PICK j : j = pos + n  OBVIOUS
    <2>3. i \in 1..(Len(text) + 1) /\ j \in (i - 1)..Len(text) /\ (j + 1) - i = n
      BY <1>4, <2>1, <2>2
    <2>4. SubSeq(text, i, j) \in Text /\ Len(SubSeq(text, i, j)) = (j + 1) - i
      BY <1>1, <2>3, PieceFacts DEF Text
    <2>. QED  BY <2>1, <2>2, <2>3, <2>4
  <1>6. PICK b \in Text : b = From(text, (pos + n) + 1)  BY <1>1, <1>4, FromFacts
  <1>7. a \o b = From(text, pos + 1)
    BY <1>1, <1>4, <1>5, <1>6, ConcatAdjacentSubSeq DEF From, Text
  <1>8. buffer \o (a \o b) = (buffer \o a) \o b  BY <1>1, TextRegroup
  <1>9. buffer \o a \in Text /\ Len(buffer \o a) = Len(buffer) + Len(a)
    BY <1>1, TextConcat
  <1>10. Appended = buffer \o a  BY <1>2, <1>5 DEF Appended
  <1>11. Unread = Appended \o b  BY <1>7, <1>8, <1>10 DEF Unread
  <1>. QED  BY <1>2, <1>3, <1>5, <1>6, <1>9, <1>10, <1>11

\* At the end of the file only the buffer is left.
LEMMA EndFacts ==
    ASSUME Types, ~MoreToRead
    PROVE  pos = Len(text) /\ Unread = buffer
  <1>1. text \in Text /\ buffer \in Text /\ Len(text) \in Nat /\ pos = Len(text)
    BY DEF Types, Text, MoreToRead
  <1>2. From(text, pos + 1) = <<>>  BY <1>1, FromStart
  <1>3. buffer \o <<>> = buffer  BY <1>1, ConcatEmptySeq DEF Text
  <1>. QED  BY <1>1, <1>2, <1>3 DEF Unread

\* Nothing is in a text that is empty.
LEMMA EmptyFacts == Stripped(<<>>) = <<>> /\ NamesIn(<<>>) = <<>>
  <1>1. <<>> \in Text /\ Len(<<>>) + 1 = 1  BY DEF Text
  <1>2. Reading(<<>>)[1] = Nothing  BY <1>1, ReadingIs
  <1>. QED  BY <1>2 DEF Stripped, NamesIn, Nothing

LEMMA InitInvariant == Init => IInv
  <1>. SUFFICES ASSUME Init PROVE IInv  OBVIOUS
  <1>1. PICK world \in Worlds : input = world.input /\ disk = world.disk  BY DEF Init
  <1>2. input \in Text /\ Files(disk)  BY <1>1, WorldsAssumption DEF Files, Text
  <1>3. chunk \in Nat \ {0}  BY ChunksAssumption DEF Init
  <1>4. /\ stage = "open" /\ text = <<>> /\ pos = 0 /\ buffer = <<>>
        /\ includes = <<>> /\ next = 1 /\ output = Old
    BY DEF Init
  <1>5. <<>> \in Text /\ <<>> \in Seq(Text) /\ Len(<<>>) = 0  BY DEF Text
  <1>6. Types  BY <1>2, <1>3, <1>4, <1>5 DEF Types
  <1>7. Progress  BY <1>4 DEF Progress
  <1>. QED  BY <1>6, <1>7 DEF IInv

LEMMA OpenStep == ASSUME IInv, Open PROVE IInv'
  <1>1. /\ stage = "open" /\ output = Old /\ includes = <<>> /\ next = 1
        /\ input' = input /\ disk' = disk /\ chunk' = chunk /\ includes' = includes /\ next' = next
        /\ input \in Text
    BY DEF IInv, Types, Progress, Open
  <1>2. <<>> \in Text /\ <<>> \in Output /\ Len(<<>>) = 0  BY TextIsOutput DEF Text
  <1>3. CASE output' = <<>> /\ stage' = "collect" /\ Begin(input)
    <2>1. text' = input /\ pos' = 0 /\ buffer' = <<>>  BY <1>3 DEF Begin
    <2>2. Types'
      <3>1. 0 \in 0..Len(input)
        <4>1. Len(input) \in Nat  BY <1>1 DEF Text
        <4>. QED  BY <4>1
      <3>. QED  BY <1>1, <1>2, <1>3, <2>1, <3>1 DEF IInv, Types
    <2>3. Unread' = input
      <3>1. Unread' = <<>> \o From(input, 0 + 1)  BY <2>1 DEF Unread
      <3>2. From(input, 0 + 1) = input  BY <1>1, FromStart
      <3>3. <<>> \o input = input  BY <1>1, ConcatEmptySeq DEF Text
      <3>. QED  BY <3>1, <3>2, <3>3
    <2>4. includes' \o NamesIn(Unread)' = NamesIn(input')
      <3>1. PICK N \in Seq(Text) : N = NamesIn(input)  BY <1>1, StrippedType
      <3>2. <<>> \o N = N  BY ConcatEmptySeq
      <3>. QED  BY <1>1, <2>3, <3>1, <3>2
    <2>5. Progress'  BY <1>1, <1>3, <2>1, <2>4 DEF Progress
    <2>. QED  BY <2>2, <2>5 DEF IInv
  <1>4. CASE output' \in {<<>>, output} /\ stage' = "end" /\ UNCHANGED <<text, pos, buffer>>
    <2>1. Types'  BY <1>1, <1>2, <1>4 DEF IInv, Types
    <2>2. Progress'  BY <1>1, <1>4 DEF Progress
    <2>. QED  BY <2>1, <2>2 DEF IInv
  <1>. QED  BY <1>3, <1>4 DEF Open

LEMMA CollectStep == ASSUME IInv, Collect PROVE IInv'
  <1>1. /\ Types /\ stage = "collect" /\ text = input /\ next = 1 /\ output = <<>>
        /\ includes \o NamesIn(Unread) = NamesIn(input)
        /\ input' = input /\ disk' = disk /\ chunk' = chunk /\ text' = text
        /\ next' = next /\ output' = output
    BY DEF IInv, Progress, Collect
  <1>2. /\ input \in Text /\ Files(disk) /\ chunk \in Nat \ {0} /\ buffer \in Text
        /\ includes \in Seq(Text) /\ pos \in 0..Len(text) /\ Len(buffer) <= pos
        /\ Len(text) \in Nat /\ Len(buffer) \in Nat /\ <<>> \in Text /\ <<>> \in Output
        /\ Files(disk)'
    BY <1>1, TextIsOutput DEF Types, Text, Files
  <1>3. CASE MoreToRead
    <2>1. PICK s \in Text : s = Appended  BY <1>1, <1>3, ReadFacts
    <2>2. PICK r \in Text : r = From(text, (pos + ReadSize) + 1)  BY <1>1, <1>3, ReadFacts
    <2>3. PICK v \in Scanned : v = Scan(s)  BY ScanAgrees
    <2>4. v.names \in Seq(Text) /\ v.buffer \in Text  BY DEF Scanned
    <2>5. /\ includes' = includes \o v.names /\ buffer' = v.buffer /\ pos' = pos + ReadSize
          /\ stage' = stage
      BY <1>3, <2>1, <2>3 DEF Collect, StreamBufferHandle, Advance
    <2>6. /\ NamesIn(s \o r) = v.names \o NamesIn(v.buffer \o r) /\ Len(v.buffer) <= Len(s)
      BY <2>3, ScanSplits
    <2>7. pos' \in 0..Len(text) /\ Len(v.buffer) <= pos'
      <3>1. pos + ReadSize \in 0..Len(text) /\ Len(s) = Len(buffer) + ReadSize /\ ReadSize \in Nat
        BY <1>1, <1>3, <2>1, ReadFacts
      <3>2. Len(v.buffer) \in Nat /\ Len(s) \in Nat  BY <2>4 DEF Text
      <3>. QED  BY <1>2, <2>5, <2>6, <3>1, <3>2
    <2>8. includes' \in Seq(Text) /\ next' \in 1..(Len(includes') + 1)
      <3>1. PICK names : names = includes \o v.names  OBVIOUS
      <3>2. names \in Seq(Text)  BY <1>2, <2>4, <3>1
      <3>3. Len(names) \in Nat  BY <3>2
      <3>. QED  BY <1>1, <2>5, <3>1, <3>2, <3>3
    <2>9. Types'  BY <1>1, <1>2, <2>4, <2>5, <2>7, <2>8 DEF Types
    <2>10. includes' \o NamesIn(Unread)' = NamesIn(input')
      <3>1. Unread = s \o r  BY <1>1, <1>3, <2>1, <2>2, ReadFacts
      <3>2. Unread' = v.buffer \o r  BY <1>1, <2>2, <2>5 DEF Unread
      <3>3. v.buffer \o r \in Text  BY <2>4, TextConcat
      <3>4. PICK N \in Seq(Text) : N = NamesIn(v.buffer \o r)  BY <3>3, StrippedType
      <3>5. PICK M \in Seq(Text) : M = v.names  BY <2>4
      <3>6. PICK L \in Seq(Text) : L = includes  BY <1>2
      <3>7. L \o (M \o N) = (L \o M) \o N  BY Regroup
      <3>. QED  BY <1>1, <2>5, <2>6, <3>1, <3>2, <3>4, <3>5, <3>6, <3>7
    <2>11. Progress'  BY <1>1, <2>5, <2>10 DEF Progress
    <2>. QED  BY <2>9, <2>11 DEF IInv
  <1>4. CASE ~MoreToRead
    <2>1. pos = Len(text) /\ Unread = buffer  BY <1>1, <1>4, EndFacts
    <2>2. PICK v \in Scanned : v = Scan(buffer)  BY <1>2, ScanAgrees
    <2>3. v.names \in Seq(Text) /\ v.buffer \in Text  BY DEF Scanned
    <2>4. includes' = includes \o v.names /\ buffer' = <<>> /\ pos' = pos /\ stage' = "next"
      BY <1>4, <2>2 DEF Collect, StreamBufferHandle
    <2>5. NamesIn(buffer) = v.names
      <3>1. NamesIn(buffer \o <<>>) = v.names \o NamesIn(v.buffer \o <<>>)
        BY <1>2, <2>2, ScanSplits
      <3>2. buffer \o <<>> = buffer /\ v.buffer \o <<>> = v.buffer
        BY <1>2, <2>3, ConcatEmptySeq DEF Text
      <3>3. NamesIn(v.buffer) = <<>>  BY <1>2, <2>2, KeptIsPlain
      <3>4. v.names \o <<>> = v.names  BY <2>3, ConcatEmptySeq
      <3>. QED  BY <3>1, <3>2, <3>3, <3>4
    <2>6. includes' = NamesIn(input)  BY <1>1, <2>1, <2>4, <2>5
    <2>7. PICK names \in Seq(Text) : names = NamesIn(input)  BY <1>2, StrippedType
    <2>8. Len(names) \in Nat /\ next' \in 1..(Len(names) + 1)
      <3>1. Len(names) \in Nat  BY <2>7
      <3>. QED  BY <1>1, <3>1
    <2>9. Len(<<>>) = 0  OBVIOUS
    <2>10. Types'  BY <1>1, <1>2, <2>4, <2>6, <2>7, <2>8, <2>9 DEF Types
    <2>11. Done' = <<>>
      <3>1. JoinedOf(disk, SubSeq(names, 1, 0)) = <<>>  BY <1>2, <2>7, JoinedFacts
      <3>2. next' - 1 = 0  BY <1>1
      <3>. QED  BY <1>1, <2>6, <2>7, <3>1, <3>2 DEF Done
    <2>12. Progress'  BY <1>1, <1>2, <2>1, <2>4, <2>6, <2>11 DEF Progress
    <2>. QED  BY <2>10, <2>12 DEF IInv
  <1>. QED  BY <1>3, <1>4

LEMMA OpenNextStep == ASSUME IInv, OpenNext PROVE IInv'
  <1>1. /\ Types /\ stage = "next" /\ next <= Len(includes) /\ includes = NamesIn(input)
        /\ output \in Output /\ output = Done /\ buffer = <<>> /\ pos = Len(text)
        /\ input' = input /\ disk' = disk /\ chunk' = chunk /\ includes' = includes
        /\ output' = output
    BY DEF IInv, Progress, OpenNext
  <1>2. /\ input \in Text /\ text \in Text /\ Files(disk) /\ chunk \in Nat \ {0}
        /\ includes \in Seq(Text) /\ next \in 1..(Len(includes) + 1)
        /\ Len(includes) \in Nat /\ Len(text) \in Nat /\ <<>> \in Text /\ Len(<<>>) = 0
        /\ Files(disk)'
    BY <1>1 DEF Types, Text, Files
  <1>3. PICK n : n = next + 1  OBVIOUS
  <1>4. next \in 1..Len(includes) /\ n \in 1..(Len(includes) + 1) /\ n > 1 /\ n - 1 = next
    BY <1>1, <1>2, <1>3
  <1>5. PICK name : name = includes[next]  OBVIOUS
  <1>6. JoinedOf(disk, SubSeq(includes, 1, next)) = output \o Part(disk, name)
    <2>1. \A k \in 1..Len(includes) :
             JoinedOf(disk, SubSeq(includes, 1, k))
               = JoinedOf(disk, SubSeq(includes, 1, k - 1)) \o Part(disk, includes[k])
      BY <1>2, JoinedFacts
    <2>. QED  BY <1>1, <1>4, <1>5, <2>1 DEF Done
  <1>7. ASSUME next' = n PROVE Done' = output \o Part(disk, name)
    BY <1>1, <1>4, <1>6, <1>7 DEF Done
  <1>8. CASE /\ includes[next] \in DOMAIN disk
             /\ stage' = "copy" /\ next' = next + 1 /\ Begin(disk[includes[next]])
    <2>1. PICK t \in Text : t = disk[name]  BY <1>2, <1>5, <1>8 DEF Files
    <2>2. text' = t /\ pos' = 0 /\ buffer' = <<>> /\ next' = n  BY <1>3, <1>5, <1>8, <2>1 DEF Begin
    <2>3. 0 \in 0..Len(t)
      <3>1. Len(t) \in Nat  BY DEF Text
      <3>. QED  BY <3>1
    <2>4. Types'  BY <1>1, <1>2, <1>4, <1>8, <2>2, <2>3 DEF Types
    <2>5. Unread' = t
      <3>1. Unread' = <<>> \o From(t, 0 + 1)  BY <2>2 DEF Unread
      <3>2. From(t, 0 + 1) = t  BY FromStart
      <3>3. <<>> \o t = t  BY ConcatEmptySeq DEF Text
      <3>. QED  BY <3>1, <3>2, <3>3
    <2>6. (output \o Stripped(t)) \o <<Separator>> = Done'
      <3>1. PICK u \in Output : u = Stripped(t)  BY StrippedType, TextIsOutput
      <3>2. PICK w \in Output : w = <<Separator>>  BY TextIsOutput
      <3>3. Part(disk, name) = u \o w  BY <1>5, <1>8, <2>1, <3>1, <3>2 DEF Part
      <3>4. PICK q \in Output : q = output  BY <1>1
      <3>5. q \o (u \o w) = (q \o u) \o w  BY Regroup DEF Output
      <3>. QED  BY <1>7, <2>2, <3>1, <3>2, <3>3, <3>4, <3>5
    <2>7. Progress'  BY <1>1, <1>4, <1>8, <2>2, <2>5, <2>6 DEF Progress
    <2>. QED  BY <2>4, <2>7 DEF IInv
  <1>9. CASE includes[next] \notin DOMAIN disk /\ PassOver
    <2>1. next' = n /\ stage' = stage /\ text' = text /\ pos' = pos /\ buffer' = buffer
      BY <1>3, <1>9 DEF PassOver
    <2>2. Types'  BY <1>1, <1>2, <1>4, <2>1 DEF Types
    <2>3. Done' = output
      <3>1. Part(disk, name) = <<>>  BY <1>5, <1>9 DEF Part
      <3>2. output \o <<>> = output  BY <1>1, ConcatEmptySeq DEF Output
      <3>. QED  BY <1>7, <2>1, <3>1, <3>2
    <2>4. Progress'  BY <1>1, <2>1, <2>3 DEF Progress
    <2>. QED  BY <2>2, <2>4 DEF IInv
  <1>. QED  BY <1>8, <1>9 DEF OpenNext

LEMMA CopyStep == ASSUME IInv, Copy PROVE IInv'
  <1>1. /\ Types /\ stage = "copy" /\ includes = NamesIn(input) /\ output \in Output /\ next > 1
        /\ (output \o Stripped(Unread)) \o <<Separator>> = Done
        /\ input' = input /\ disk' = disk /\ chunk' = chunk /\ text' = text
        /\ includes' = includes /\ next' = next
    BY DEF IInv, Progress, Copy
  <1>2. /\ input \in Text /\ text \in Text /\ Files(disk) /\ chunk \in Nat \ {0} /\ buffer \in Text
        /\ includes \in Seq(Text) /\ next \in 1..(Len(includes) + 1)
        /\ pos \in 0..Len(text) /\ Len(buffer) <= pos
        /\ Len(text) \in Nat /\ Len(buffer) \in Nat /\ <<>> \in Text /\ Files(disk)'
    BY <1>1 DEF Types, Text, Files
  <1>3. Done' = Done  BY <1>1 DEF Done
  <1>4. \A a, b \in Output : a \o b \in Output  BY DEF Output
  <1>5. CASE MoreToRead
    <2>1. PICK s \in Text : s = Appended  BY <1>1, <1>5, ReadFacts
    <2>2. PICK r \in Text : r = From(text, (pos + ReadSize) + 1)  BY <1>1, <1>5, ReadFacts
    <2>3. PICK v \in Scanned : v = Scan(s)  BY ScanAgrees
    <2>4. v.plain \in Text /\ v.buffer \in Text  BY DEF Scanned
    <2>5. PICK p \in Output : p = v.plain  BY <2>4, TextIsOutput
    <2>6. PICK o \in Output : o = output \o p  BY <1>1, <1>4
    <2>7. output' = o /\ buffer' = v.buffer /\ pos' = pos + ReadSize /\ stage' = stage
      <3>1. output' = o \o <<>> /\ buffer' = v.buffer /\ pos' = pos + ReadSize /\ stage' = stage
        BY <1>5, <2>1, <2>3, <2>5, <2>6 DEF Copy, CopyBufferHandle, Advance
      <3>2. o \o <<>> = o  BY ConcatEmptySeq DEF Output
      <3>3. p \o <<>> = p  BY ConcatEmptySeq DEF Output
      <3>. QED  BY <3>1, <3>2, <3>3
    <2>8. Stripped(s \o r) = p \o Stripped(v.buffer \o r) /\ Len(v.buffer) <= Len(s)
      BY <2>3, <2>5, ScanSplits
    <2>9. pos' \in 0..Len(text) /\ Len(v.buffer) <= pos'
      <3>1. pos + ReadSize \in 0..Len(text) /\ Len(s) = Len(buffer) + ReadSize /\ ReadSize \in Nat
        BY <1>1, <1>5, <2>1, ReadFacts
      <3>2. Len(v.buffer) \in Nat /\ Len(s) \in Nat  BY <2>4 DEF Text
      <3>. QED  BY <1>2, <2>7, <2>8, <3>1, <3>2
    <2>10. Types'  BY <1>1, <1>2, <2>4, <2>7, <2>9 DEF Types
    <2>11. (output' \o Stripped(Unread)') \o <<Separator>> = Done'
      <3>1. Unread = s \o r  BY <1>1, <1>5, <2>1, <2>2, ReadFacts
      <3>2. Unread' = v.buffer \o r  BY <1>1, <2>2, <2>7 DEF Unread
      <3>3. v.buffer \o r \in Text  BY <2>4, TextConcat
      <3>4. PICK u \in Output : u = Stripped(v.buffer \o r)  BY <3>3, StrippedType, TextIsOutput
      <3>5. PICK q \in Output : q = output  BY <1>1
      <3>6. q \o (p \o u) = (q \o p) \o u  BY Regroup DEF Output
      <3>. QED  BY <1>1, <1>3, <2>6, <2>7, <2>8, <3>1, <3>2, <3>4, <3>5, <3>6
    <2>12. Progress'  BY <1>1, <2>7, <2>11 DEF Progress
    <2>. QED  BY <2>10, <2>12 DEF IInv
  <1>6. CASE ~MoreToRead
    <2>1. pos = Len(text) /\ Unread = buffer  BY <1>1, <1>6, EndFacts
    <2>2. PICK v \in Scanned : v = Scan(buffer)  BY <1>2, ScanAgrees
    <2>3. PICK b \in Text : b = v.buffer  BY DEF Scanned
    <2>4. PICK p \in Text : p = v.plain  BY DEF Scanned
    <2>5. PICK sep \in Output : sep = <<Separator>>  BY TextIsOutput
    <2>6. output' = (output \o (p \o b)) \o sep /\ buffer' = <<>> /\ pos' = pos /\ stage' = "next"
      BY <1>6, <2>2, <2>3, <2>4, <2>5 DEF Copy, CopyBufferHandle
    <2>7. Stripped(buffer) = p \o b
      <3>1. Stripped(buffer \o <<>>) = p \o Stripped(b \o <<>>)
        BY <1>2, <2>2, <2>3, <2>4, ScanSplits
      <3>2. buffer \o <<>> = buffer /\ b \o <<>> = b  BY <1>2, ConcatEmptySeq DEF Text
      <3>3. Stripped(b) = b  BY <1>2, <2>2, <2>3, KeptIsPlain
      <3>. QED  BY <3>1, <3>2, <3>3
    <2>8. output' = Done  BY <1>1, <2>1, <2>5, <2>6, <2>7
    <2>9. output' \in Output
      <3>1. PICK w \in Output : w = p \o b  BY <1>2, <2>7, StrippedType, TextIsOutput
      <3>2. output \o w \in Output  BY <1>1, <1>4
      <3>. QED  BY <1>4, <2>6, <3>1, <3>2
    <2>10. Len(<<>>) = 0  OBVIOUS
    <2>11. Types'  BY <1>1, <1>2, <2>6, <2>9, <2>10 DEF Types
    <2>12. Progress'  BY <1>1, <1>3, <2>1, <2>6, <2>8, <2>9 DEF Progress
    <2>. QED  BY <2>11, <2>12 DEF IInv
  <1>. QED  BY <1>5, <1>6

LEMMA CloseStep == ASSUME IInv, Close PROVE IInv'
  <1>1. /\ Types /\ stage = "next" /\ next > Len(includes) /\ includes = NamesIn(input)
        /\ output = Done /\ stage' = "end"
        /\ input' = input /\ disk' = disk /\ chunk' = chunk /\ text' = text /\ pos' = pos
        /\ buffer' = buffer /\ includes' = includes /\ next' = next /\ output' = output
    BY DEF IInv, Progress, Close
  <1>2. Types'  BY <1>1 DEF Types, Files
  <1>3. output = JoinedOf(disk, NamesIn(input))
    <2>1. includes \in Seq(Text) /\ Len(includes) \in Nat /\ next \in 1..(Len(includes) + 1)
      BY <1>1 DEF Types
    <2>2. next - 1 = Len(includes)  BY <1>1, <2>1
    <2>3. SubSeq(includes, 1, Len(includes)) = includes  BY <2>1, SubSeqFull
    <2>. QED  BY <1>1, <2>2, <2>3 DEF Done
  <1>4. Progress'  BY <1>1, <1>3 DEF Progress
  <1>. QED  BY <1>2, <1>4 DEF IInv

LEMMA StutterStep == ASSUME IInv, UNCHANGED vars PROVE IInv'
  <1>1. Types' /\ Unread' = Unread /\ Done' = Done
    BY DEF IInv, Types, Files, Unread, Done, vars
  <1>2. Progress'  BY <1>1 DEF IInv, Progress, vars
  <1>. QED  BY <1>1, <1>2 DEF IInv

-----------------------------------------------------------------------------
(* The theorems.                                                           *)

\* At every step of main() what has been found or written, and what is still to be
\* scanned, make up the whole (main.cpp:31-70, OneHeader.h:43-163).
THEOREM Invariant == Spec => []IInv
  <1>1. Init => IInv  BY InitInvariant
  <1>2. IInv /\ [Next]_vars => IInv'
    BY OpenStep, CollectStep, OpenNextStep, CopyStep, CloseStep, StutterStep DEF Next
  <1>. QED  BY <1>1, <1>2, PTL DEF Spec

LEMMA JoinedIs == \A names : Joined(names) = JoinedOf(disk, names)
  BY DEF Joined, JoinedOf, Part

\* The buffer is never longer than the text that has been read, and what the output
\* file had before is never mixed with what is written (OneHeader.h:43-76).
THEOREM TypeCorrect == Spec => []TypeOK
  <1>1. ASSUME IInv PROVE TypeOK
    <2>1. Types  BY <1>1 DEF IInv
    <2>2. Len(buffer) \in Nat /\ Len(text) \in Nat  BY <2>1 DEF Types, Text
    <2>3. ASSUME output \in Output, NEW i \in 1..Len(output) PROVE output[i] # Old[1]
      <3>1. output[i] \in Line  BY <2>3 DEF Output
      <3>2. Old[1] # Separator  BY DEF Old, Separator
      <3>. QED  BY <3>1, <3>2, OutputAssumption DEF Line
    <2>. QED  BY <2>1, <2>2, <2>3 DEF TypeOK, Types
  <1>. QED  BY <1>1, Invariant, PTL

\* However the chunks cut the file, no directive is missed, found twice or misread
\* (OneHeader.h:78-114).
THEOREM NamesAreKept == Spec => []NoNameLost
  <1>1. ASSUME IInv PROVE NoNameLost
    <2>1. CASE stage = "collect"  BY <1>1, <2>1 DEF IInv, Progress, NoNameLost
    <2>2. CASE stage = "next"
      <3>1. /\ includes = NamesIn(input) /\ buffer = <<>> /\ pos = Len(text)
            /\ includes \in Seq(Text) /\ text \in Text
        BY <1>1, <2>2 DEF IInv, Progress, Types
      <3>2. Unread = <<>>
        <4>1. From(text, pos + 1) = <<>>  BY <3>1, FromStart
        <4>2. <<>> \o <<>> = <<>>
          <5>1. <<>> \in Text  BY DEF Text
          <5>. QED  BY <5>1, ConcatEmptySeq DEF Text
        <4>. QED  BY <3>1, <4>1, <4>2 DEF Unread
      <3>3. includes \o <<>> = includes  BY <3>1, ConcatEmptySeq
      <3>. QED  BY <3>1, <3>2, <3>3, EmptyFacts DEF NoNameLost
    <2>. QED  BY <2>1, <2>2 DEF NoNameLost
  <1>. QED  BY <1>1, Invariant, PTL

\* However the chunks cut an included file, all of its text but its directives is
\* copied, once and in order (OneHeader.h:123-163, main.cpp:58-69).
THEOREM TextIsKept == Spec => []NoTextLost
  <1>1. ASSUME IInv PROVE NoTextLost
    BY <1>1, JoinedIs DEF IInv, Progress, Done, NoTextLost
  <1>. QED  BY <1>1, Invariant, PTL

\* The result is the included files that exist, in the order of the directives,
\* whatever the chunks are; a run that cannot open its files leaves the output as it
\* was or empty (main.cpp:31-70).
THEOREM JoinsAll == Spec => []JoinsWhatIsIncluded
  <1>1. ASSUME IInv PROVE JoinsWhatIsIncluded
    BY <1>1, JoinedIs DEF IInv, Progress, JoinsWhatIsIncluded
  <1>. QED  BY <1>1, Invariant, PTL
===============================================================================
