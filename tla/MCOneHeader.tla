------------------------------ MODULE MCOneHeader ------------------------------
(* OneHeader on short texts: the token is three characters for the ten of    *)
(* #include " and two are kept for the code's twenty, as few as may be.      *)
EXTENDS OneHeader

Alphabet == {"#", "i", "q", "x"}
MCToken == <<"#", "i", "q">>

TextsTo(n) == UNION {[1..k -> Alphabet] : k \in 0..n}

\* An include of the file named x, and of one that is missing.
IncludeX == MCToken \o <<"x", "q">>
IncludeMissing == MCToken \o <<"i", "q">>

SomeInputs == {IncludeX, IncludeMissing \o IncludeX, <<"x">> \o IncludeX \o IncludeX,
               <<"#">> \o IncludeX \o <<"i", "q">> \o IncludeMissing}

\* Any short input; and, for some inputs, any short text of the file x.
MCWorlds ==
    [input : TextsTo(6), disk : {<<"x">> :> <<"x", "#">> \o IncludeX}]
      \cup [input : SomeInputs, disk : {<<"x">> :> t : t \in TextsTo(6)}]
===============================================================================
