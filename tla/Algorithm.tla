------------------------------- MODULE Algorithm -------------------------------
(***************************************************************************)
(* src/Algorithm.cpp: the two functions that take the backslashes out of a *)
(* text, one for std::string and one for C strings, a step for each round  *)
(* of their loops.  Characters are what the functions tell apart: a        *)
(* backslash, the four that may follow one, NUL, and all others.           *)
(***************************************************************************)
EXTENDS Integers, Sequences, SequencesExt

CONSTANTS
    Others,         \* the characters that nothing is known of here
    Texts,          \* the texts the functions are called with
    MaxSize         \* SIZE_MAX: strlen(str) - 1 of an empty text

Backslash == "backslash"
Nul == "nul"
Escapable == {"quote", "double_quote", Backslash, Nul, "/"}
Character == Escapable \cup Others

ASSUME TextsAssumption == Texts \subseteq Seq(Character)
ASSUME SizeAssumption == MaxSize \in Nat /\ \A s \in Texts : Len(s) < MaxSize

VARIABLES
    function,   \* "stripslashes" or "stripslashesC"
    str,        \* the text
    i,          \* the loop's index into it, from 0
    answer,     \* what has been written
    state       \* "looping", "returned" or "overrun": memory of others touched

vars == <<function, str, i, answer, state>>

\* str[j], with the NUL that ends the text.
At(j) == IF j < Len(str) THEN str[j + 1] ELSE Nul

\* Slip: the end of the C string is taken for its length.
WholeLength == Len(str)

\* strlen(str) - 1, an unsigned number.
LengthMinusOne == IF Len(str) = 0 THEN MaxSize ELSE Len(str) - 1

Limit == IF function = "stripslashesC" THEN LengthMinusOne ELSE Len(str)

\* What answer may hold: stripslashesC allocates strlen(str) characters, of
\* which one is the NUL it writes at the end.
Room == IF function = "stripslashesC" THEN Len(str) ELSE MaxSize

Ordinary ==
    /\ At(i) # Backslash
    /\ answer' = Append(answer, At(i))
    /\ i' = i + 1

\* Slip: an escape is stepped over by one.
StepByOne == i + 1

PastEscape == i + 2

\* The cases of the switch; there is no default.
Unescaped(c) == IF c \in Escapable THEN <<c>> ELSE <<>>

Escape ==
    /\ At(i) = Backslash
    /\ answer' = answer \o Unescaped(At(i + 1))
    /\ i' = PastEscape

\* One round.  Reading behind the NUL or writing behind the allocation is
\* undefined.
Round ==
    /\ state = "looping" /\ i < Limit
    /\ IF i <= Len(str) /\ Len(answer) < Room
         THEN (Ordinary \/ Escape) /\ UNCHANGED state
         ELSE state' = "overrun" /\ UNCHANGED <<i, answer>>
    /\ UNCHANGED <<function, str>>

\* stripslashesC ends its answer with a NUL.
Return ==
    /\ state = "looping" /\ i >= Limit
    /\ state' = IF function = "stripslashes" \/ Len(answer) < Room
                  THEN "returned" ELSE "overrun"
    /\ UNCHANGED <<function, str, i, answer>>

Init ==
    /\ function \in {"stripslashes", "stripslashesC"}
    /\ str \in Texts
    /\ function = "stripslashesC" => ~Contains(str, Nul)
    /\ i = 0 /\ answer = <<>> /\ state = "looping"

Next == Round \/ Return

Spec == Init /\ [][Next]_vars

-----------------------------------------------------------------------------
(* References.                                                             *)

\* A character is escaped when an odd number of backslashes is before it.
IsEscaped(s, j) ==
    \E n \in 0..(j - 1) :
        /\ n % 2 = 1
        /\ \A k \in (j - n)..(j - 1) : s[k] = Backslash
        /\ j - n > 1 => s[j - n - 1] # Backslash

\* What is kept of a text: the escaped characters that may be escaped and the
\* others that are no backslash.
IsKept(s, j) == IF IsEscaped(s, j) THEN s[j] \in Escapable ELSE s[j] # Backslash

KeptUpTo(s, n) ==
    LET kept[j \in 0..Len(s)] ==
          IF j = 0 THEN <<>>
          ELSE IF IsKept(s, j) THEN Append(kept[j - 1], s[j]) ELSE kept[j - 1]
    IN  kept[n]

Kept(s) == KeptUpTo(s, Len(s))

\* The backslash at the end of a text, if one escapes nothing.
LoneAtEnd(s) == s # <<>> /\ s[Len(s)] = Backslash /\ ~IsEscaped(s, Len(s))

-----------------------------------------------------------------------------
(* Properties.                                                             *)

\* Types; the index stays at most one behind the end, or at it in stripslashesC,
\* and the answer is no longer than what has been read.
TypeOK ==
    /\ function \in {"stripslashes", "stripslashesC"}
    /\ str \in Texts /\ answer \in Seq(Character)
    /\ state \in {"looping", "returned", "overrun"}
    /\ i \in 0..(Len(str) + (IF function = "stripslashesC" THEN 0 ELSE 1))
    /\ Len(answer) <= i

\* Whatever the text ends with, no memory is touched that is not the text's or
\* the answer's, except by stripslashesC on an empty text, whose length minus
\* one is the largest number there is (Algorithm.cpp:6, 9, 33).
InBounds == state = "overrun" => function = "stripslashesC" /\ str = <<>>

\* stripslashes keeps exactly what the parity of the backslashes says, in any
\* text; a lone backslash at the end takes the NUL behind it for its own
\* (Algorithm.cpp:37-65).
StripsByParity ==
    state = "returned" /\ function = "stripslashes" =>
        answer = Kept(str) \o (IF LoneAtEnd(str) THEN <<Nul>> ELSE <<>>)
===============================================================================
