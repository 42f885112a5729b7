------------------------------ MODULE MCServer ------------------------------
(* Server for TLC: a .cfg has no negative numbers.                         *)
EXTENDS Server

\* No worker, and a negative number, which is a large one after the cast (2 of
\* UIntValues = 8).
SomeWorkerNums == {-6, 0}
=============================================================================
