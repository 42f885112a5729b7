--------------------------- MODULE MCWorkerMemory -----------------------------
(* The three kinds of worker, on a pool of ten units.                        *)
EXTENDS WorkerMemory

MCModes == {m \in [socket : BOOLEAN, callback : BOOLEAN] : m.socket \/ m.callback}
MCResponseFields == <<1, 2, 1>>
===============================================================================
