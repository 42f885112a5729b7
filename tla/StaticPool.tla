------------------------------ MODULE StaticPool ------------------------------
(***************************************************************************)
(* detail::static_pool of src/src/fields_alloc.h: a block of memory that   *)
(* is handed out from its start and taken back all at once.  Its state is  *)
(* a record, and each member function an operator on such records, so that *)
(* FieldsAlloc and WorkerMemory can both be built on them.                 *)
(***************************************************************************)
EXTENDS Naturals

CONSTANT Size           \* size_, in the units in which blocks are measured

ASSUME PoolAssumption == Size \in Nat

\* p: offset of the next block; count: blocks handed out and not taken back;
\* refs: the reference count; freed: the memory was returned to the heap.
Pool == [p : 0..Size, count : Nat, refs : Nat, freed : BOOLEAN]

\* construct(): the creator is counted from the start.
NewPool == [p |-> 0, count |-> 0, refs |-> 1, freed |-> FALSE]

\* share()
Share(pool) == [p |-> pool.p, count |-> pool.count, refs |-> pool.refs + 1,
                freed |-> pool.freed]

\* Slip: the memory is freed with the last reference but one.
DestroyEarly(pool) == [p |-> pool.p, count |-> pool.count, refs |-> pool.refs - 1,
                       freed |-> pool.refs <= 2]

\* destroy(): "if (refs_--) return" tests the count before it is lowered, so the
\* memory is kept when the last reference goes.
Destroy(pool) == [p |-> pool.p, count |-> pool.count,
                  refs |-> IF pool.refs = 0 THEN 0 ELSE pool.refs - 1,
                  freed |-> pool.freed \/ pool.refs = 0]

\* Slip: only the start of the block is compared with the end of the pool.
HasRoomForStart(pool, n) == pool.p < Size

\* alloc() throws bad_alloc unless the block ends before the end of the pool: a
\* block that would fill it to the last byte is refused.
HasRoom(pool, n) == pool.p + n < Size

\* alloc(n), when there is room.
Alloc(pool, n) == [p |-> pool.p + n, count |-> pool.count + 1, refs |-> pool.refs,
                   freed |-> pool.freed]

\* Slip: the count is left at one when the last block is given back.
DeallocKeepsLast(pool) == [p |-> IF pool.count = 1 THEN 0 ELSE pool.p,
                           count |-> IF pool.count = 1 THEN 1 ELSE pool.count - 1,
                           refs |-> pool.refs, freed |-> pool.freed]

\* Slip: the pointer goes back when one block is still in use.
DeallocTooSoon(pool) == [p |-> IF pool.count = 2 THEN 0 ELSE pool.p,
                         count |-> pool.count - 1, refs |-> pool.refs,
                         freed |-> pool.freed]

\* dealloc(): nothing, until the last block is given back.
Dealloc(pool) == [p |-> IF pool.count = 1 THEN 0 ELSE pool.p,
                  count |-> pool.count - 1, refs |-> pool.refs,
                  freed |-> pool.freed]
===============================================================================
