--------------------------------- MODULE Sums ---------------------------------
(* The sum of a sequence of numbers.                                         *)
EXTENDS Naturals, Sequences

Total(sizes) ==
    LET total[k \in 0..Len(sizes)] == IF k = 0 THEN 0 ELSE total[k - 1] + sizes[k]
    IN  total[Len(sizes)]
===============================================================================
