--------------------------- MODULE RegionAllocator ----------------------------
(***************************************************************************)
(* What an allocator of blocks from one region of memory promises to its   *)
(* users: a block is theirs alone from the moment they get it until they   *)
(* give it back, it lies in the region, and a request is not refused while *)
(* nothing is allocated, if it is smaller than the region.                 *)
(***************************************************************************)
EXTENDS Integers

CONSTANTS Size, Sizes       \* of the region; of the blocks asked for

VARIABLES
    live,       \* the blocks in use
    refused     \* the size last refused, or 0

vars == <<live, refused>>

Bytes(b) == b.at .. b.at + b.len - 1

Init == live = {} /\ refused = 0

Allocate(b) ==
    /\ Bytes(b) \subseteq 0 .. Size - 1
    /\ \A other \in live : Bytes(b) \cap Bytes(other) = {}
    /\ live' = live \cup {b}
    /\ refused' = 0

Refuse(n) ==
    /\ live # {} \/ n >= Size
    /\ refused' = n
    /\ UNCHANGED live

Deallocate(b) ==
    /\ b \in live
    /\ live' = live \ {b}
    /\ refused' = 0

Next ==
    \/ \E at \in 0..Size, len \in Sizes : Allocate([at |-> at, len |-> len])
    \/ \E n \in Sizes : Refuse(n)
    \/ \E b \in live : Deallocate(b)

Spec == Init /\ [][Next]_vars
===============================================================================
