----------------------------- MODULE MCHttpWorker -----------------------------
(* HttpWorker on a small instance: model values for workers and clients, and *)
(* their symmetry for the safety run.                                        *)
EXTENDS HttpWorker, TLC

Symmetry == Permutations(Workers) \cup Permutations(Clients)
===============================================================================
