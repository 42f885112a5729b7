----------------------------- MODULE FieldsAlloc ------------------------------
(***************************************************************************)
(* fields_alloc of src/src/fields_alloc.h: the allocator that the header   *)
(* fields of every message of a worker use.  Its objects share one pool;   *)
(* they are copied and destroyed with the messages, and blocks are asked   *)
(* for and given back through any of them.                                 *)
(***************************************************************************)
EXTENDS StaticPool, Integers, FiniteSets

CONSTANTS
    Sizes,      \* the sizes of the blocks that are asked for
    MaxOwners   \* bound on the allocator objects that exist at a time

ASSUME SizesAssumption == Sizes \subseteq Nat \ {0}
ASSUME OwnersAssumption == MaxOwners \in Nat

VARIABLES
    pool,       \* the static_pool all the objects refer to
    owners,     \* how many fields_alloc objects there are
    live,       \* the blocks handed out and not given back
    refused     \* the size of the request that threw bad_alloc last, or 0

vars == <<pool, owners, live, refused>>

Block == [at : 0..Size, len : Sizes]

TypeOK ==
    /\ pool \in Pool
    /\ owners \in Nat
    /\ live \in SUBSET Block
    /\ refused \in Sizes \cup {0}

\* fields_alloc(size): the first object makes the pool.
Init ==
    /\ pool = NewPool
    /\ owners = 1
    /\ live = {}
    /\ refused = 0

\* The copy constructors, also from the allocator of another type.
Copy ==
    /\ owners \in 1 .. MaxOwners - 1
    /\ owners' = owners + 1
    /\ pool' = Share(pool)
    /\ UNCHANGED <<live, refused>>

\* The destructor.  The last object goes when every block has been given back.
Drop ==
    /\ owners > 1 \/ (owners = 1 /\ live = {})
    /\ owners' = owners - 1
    /\ pool' = Destroy(pool)
    /\ UNCHANGED <<live, refused>>

\* allocate(n)
Allocate(n) ==
    /\ owners > 0
    /\ \/ /\ HasRoom(pool, n)
          /\ live' = live \cup {[at |-> pool.p, len |-> n]}
          /\ pool' = Alloc(pool, n)
          /\ refused' = 0
       \/ /\ ~HasRoom(pool, n)
          /\ refused' = n
          /\ UNCHANGED <<pool, live>>
    /\ UNCHANGED owners

\* deallocate(b)
Deallocate(b) ==
    /\ owners > 0
    /\ live' = live \ {b}
    /\ pool' = Dealloc(pool)
    /\ refused' = 0
    /\ UNCHANGED owners

Next ==
    \/ Copy
    \/ Drop
    \/ \E n \in Sizes : Allocate(n)
    \/ \E b \in live : Deallocate(b)

Spec == Init /\ [][Next]_vars

-----------------------------------------------------------------------------
(* Properties.                                                             *)

\* The pool's counter is the number of blocks in use, so that the reset of the
\* pointer at zero (fields_alloc.h:65-67) happens when, and only when, no block
\* is in use, whatever the order in which they are given back.
CountIsExact == pool.count = Cardinality(live)

\* The memory is there as long as an allocator object refers to it, and the
\* reference count is exact (fields_alloc.h:22, 42, 47).
OwnedPoolExists == owners > 0 => ~pool.freed /\ pool.refs = owners

\* Region is what the class comment promises (fields_alloc.h:73-77).
Region == INSTANCE RegionAllocator

\* Blocks in use never overlap and lie in the pool, and after everything was
\* given back the whole pool can be used again.
ImplementsRegion == Region!Spec

-----------------------------------------------------------------------------
(* The inductive invariant.                                                *)

Disjoint == \A b, c \in live : b # c => b.at + b.len <= c.at \/ c.at + c.len <= b.at

\* Every block in use lies below the pool's pointer, which is inside the pool
\* and back at its start when there is none.
BelowPointer ==
    /\ \A b \in live : b.at + b.len <= pool.p
    /\ live = {} => pool.p = 0
    /\ pool.p < Size \/ pool.p = 0

IInv ==
    /\ TypeOK
    /\ IsFiniteSet(live)
    /\ CountIsExact
    /\ OwnedPoolExists
    /\ Disjoint
    /\ BelowPointer
===============================================================================
